---------------------------- MODULE CardEmuHost ----------------------------
(***************************************************************************)
(* The host driver ifd-cardemu.c: cardemu_open, _card_status, _deactivate, *)
(* _card_reset (also behind _activate), _send and _recv, and the resync()  *)
(* handshake they all fall back to.                                        *)
(*                                                                         *)
(* pc is "closed", "idle", "cmd" (about to write the request of the        *)
(* current stage), "ans" (waiting for its answer) or a step of resync():   *)
(* rs1, drain, rs2, rs2ans, ctl, ctlans, cmpl, cmplans.  The stage says    *)
(* which loop of which function is running.  Every read can end in an      *)
(* answer, in bytes that do not decode, or in a timeout (HostTimeout).     *)
(***************************************************************************)
EXTENDS CardEmuWire

CONSTANTS Ops,          \* the driver functions the client calls
          MaxCmdTries,  \* MAX_CMD_TRIES
          MaxResync,    \* MAX_RESYNC_TRIES
          MaxGarbage,   \* MAX_RESYNC_GARBAGE, in frames
          MaxChunks,    \* bound on the frames of 14 bytes one APDU needs
          FreshNonce    \* whether a control sequence still in flight is never drawn again

ASSUME HostAssumption ==
    /\ Ops \subseteq {"status", "deactivate", "reset", "send", "recv"}
    /\ MaxCmdTries \in Nat \ {0}
    /\ MaxResync \in Nat \ {0}
    /\ MaxGarbage \in Nat \ {0}
    /\ MaxChunks \in Nat
    /\ FreshNonce \in BOOLEAN

VARIABLES op,        \* the function called last
          pc,
          stage,
          tr,        \* command tries used
          rtry,      \* resync tries used
          g,         \* garbage drained in this try
          nonce,     \* control sequence of this try
          len, left, \* frames of the APDU, and how many are still to be sent
          rem, atr,  \* ATR bytes missing, ATR parts copied
          ret, val,  \* what the last call returned, and the status it wrote
          sync       \* history: "held" after resync() returned 1, unless the emulator
                     \* rebooted meanwhile; "trying" during a try; else "lost"

host == <<op, pc, stage, tr, rtry, g, nonce, len, left, rem, atr, ret, val, sync>>

Stage == {"none", "status", "deactivate", "atrlen", "atr", "len", "data",
          "commit", "read", "readdata", "readcomplete"}

HostTypeOK ==
    /\ op \in Ops \cup {"open"}
    /\ pc \in {"closed", "idle", "cmd", "ans", "rs1", "drain", "rs2", "rs2ans",
               "ctl", "ctlans", "cmpl", "cmplans"}
    /\ stage \in Stage
    /\ tr \in 0 .. MaxCmdTries - 1
    /\ rtry \in 0 .. MaxResync - 1
    /\ g \in 0 .. MaxGarbage - 1
    /\ nonce \in Nonce \cup {"none"}
    /\ len \in 0 .. MaxChunks
    /\ left \in 0 .. len
    /\ rem \in 0 .. 255
    /\ atr \in Seq(Payload)
    /\ ret \in {"none", "ok", "error"}
    /\ val \in {"none", "absent", "present"}
    /\ sync \in {"lost", "trying", "held"}

HostInit ==
    /\ op = "open" /\ pc = "closed" /\ stage = "none"
    /\ tr = 0 /\ rtry = 0 /\ g = 0 /\ nonce = "none"
    /\ len = 0 /\ left = 0 /\ rem = 0 /\ atr = <<>>
    /\ ret = "none" /\ val = "none" /\ sync = "lost"

-----------------------------------------------------------------------------
(* The stages *)

FirstStage(o) ==
    CASE o = "reset" -> "atrlen" [] o = "send" -> "len" [] o = "recv" -> "read"
      [] OTHER -> o

Requests(s) ==
    CASE s = "status" -> {Frame("CardStatus", "none")}
      [] s = "deactivate" -> {Frame("CardStatus", "off")}
      [] s = "atrlen" -> {Frame("CardStatus", "on")}
      [] s = "len" -> {Frame("CardSend", IF len = 0 THEN "len0" ELSE "lenN")}
      [] s = "data" -> {Frame("CardSend", "data")} \cup
                       IF left = 1 THEN {Frame("CardSend", "data2")} ELSE {}
      [] s = "commit" -> {Frame("CardCommit", "none")}
      [] s = "read" -> {Frame("CardRead", "lenN")}
      [] s = "readcomplete" -> {Frame("CardReadComplete", "none")}
      [] OTHER -> {}

(* the answer types a stage does not treat as an error; the test for
   "readdata" is a disjunction of two inequalities, as the code has it *)
Accepts(s) ==
    {t \in AnsType :
        CASE s = "status" -> t \in {"CardAbsent", "CardPresent"}
          [] s = "deactivate" -> t = "CardAbsent"
          [] s \in {"atrlen", "atr"} -> t = "CardPresent"
          [] s = "readdata" -> ~(t # "CardData" \/ t # "CardEOD")
          [] OTHER -> t = "Ok"}

(* where the for loop around a stage starts over *)
LoopStart(s) ==
    CASE s = "atr" -> "atrlen" [] s = "data" -> "len" [] s = "readdata" -> "read"
      [] OTHER -> s

(* What follows when resync() returned 0.  RUN_RESYNC_AND_RETRY breaks out of
   the loop with tr < MAX_CMD_TRIES: behind the loops of _send and _recv that
   is taken for success. *)
AfterBreak(s) ==
    CASE s = "len" -> "commit" [] s = "read" -> "readcomplete"
      [] s \in {"commit", "readcomplete"} -> "ok"
      [] OTHER -> "error"

(* mutant: the length byte counts itself *)
FirstByteShort(p) ==
    CASE p = "atrlen" -> 20 [] p = "part1" -> 58 [] p = "part2" -> 191 [] OTHER -> 159

(* The byte at comm_get_payload.  Behind an empty payload that is the CRC. *)
FirstByte(p) ==
    CASE p = "atrlen" -> 21 [] p = "part1" -> 59 [] p = "part2" -> 192 [] OTHER -> 160

PayloadLen(p) ==
    CASE p = "atrlen" -> 1 [] p = "part1" -> 14 [] p = "part2" -> 7 [] OTHER -> 0

-----------------------------------------------------------------------------
(* Building blocks *)

Put(f) == h2d' = Append(h2d, f)

(* comm_send returned 0: nothing or part of the frame was written *)
PutFails ==
    /\ Fault
    /\ h2d' \in {h2d, Append(h2d, Cut)}

(* comm_recv_message delivered f *)
Get(f) ==
    /\ d2h # <<>>
    /\ Head(d2h) = f
    /\ d2h' = Tail(d2h)

(* comm_recv_message returned 0 on what it read *)
GetInvalid ==
    /\ d2h # <<>>
    /\ Head(d2h) \in Damaged
    /\ d2h' \in AfterDamaged(d2h)

(* any message but the wanted ones *)
GetOther(wanted) ==
    \/ GetInvalid
    \/ \E f \in Ans \ wanted : Get(f)

Return(r) ==
    /\ pc' = IF op = "open" /\ r = "error" THEN "closed" ELSE "idle"
    /\ ret' = r
    /\ stage' = "none" /\ tr' = 0 /\ rtry' = 0 /\ g' = 0 /\ nonce' = "none"
    /\ len' = 0 /\ left' = 0 /\ rem' = 0
    /\ UNCHANGED op

(* a command step failed: resync() is called *)
CallResync ==
    /\ pc' = "rs1"
    /\ rtry' = 0
    /\ rem' = 0 /\ atr' = <<>>
    /\ UNCHANGED <<op, stage, tr, g, nonce, len, left, ret, val, sync>>

(* mutant: the retry is not counted *)
ResyncSucceededUncounted ==
    /\ sync' = IF sync = "trying" THEN "held" ELSE "lost"
    /\ \/ /\ op = "open"
          /\ Return("ok")
       \/ /\ op # "open"
          /\ pc' = "cmd" /\ stage' = LoopStart(stage)
          /\ left' = len
          /\ rtry' = 0 /\ g' = 0 /\ nonce' = "none"
          /\ UNCHANGED <<op, tr, len, rem, ret>>
    /\ UNCHANGED <<atr, val>>

(* resync() returned 1: _open is done, any other loop continues *)
ResyncSucceeded ==
    /\ sync' = IF sync = "trying" THEN "held" ELSE "lost"
    /\ \/ /\ op = "open"
          /\ Return("ok")
       \/ /\ op # "open" /\ tr + 1 < MaxCmdTries
          /\ pc' = "cmd" /\ stage' = LoopStart(stage)
          /\ tr' = tr + 1 /\ left' = len
          /\ rtry' = 0 /\ g' = 0 /\ nonce' = "none"
          /\ UNCHANGED <<op, len, rem, ret>>
       \/ /\ op # "open" /\ tr + 1 = MaxCmdTries
          /\ Return("error")
    /\ UNCHANGED <<atr, val>>

(* resync() returned 0 *)
ResyncFailed ==
    /\ sync' = "lost"
    /\ LET next == AfterBreak(stage) IN
       \/ /\ next \in {"ok", "error"}
          /\ Return(next)
       \/ /\ next \notin {"ok", "error"}
          /\ pc' = "cmd" /\ stage' = next /\ tr' = 0
          /\ rtry' = 0 /\ g' = 0 /\ nonce' = "none"
          /\ UNCHANGED <<op, len, left, rem, ret>>
    /\ UNCHANGED <<atr, val>>

(* "continue" in the loop of resync() *)
NextTry ==
    \/ /\ rtry + 1 < MaxResync
       /\ pc' = "rs1"
       /\ rtry' = rtry + 1
       /\ g' = 0 /\ nonce' = "none"
       /\ UNCHANGED <<op, stage, tr, len, left, rem, atr, ret, val, sync>>
    \/ /\ rtry + 1 = MaxResync
       /\ ResyncFailed

-----------------------------------------------------------------------------
(* Calls.  cardemu_open flushes the tty first: what was written last and is
   still queued, and what has arrived and was not read, may be discarded. *)

Open ==
    /\ pc = "closed"
    /\ \E i \in 0 .. Len(h2d) : h2d' = SubSeq(h2d, 1, i)
    /\ \E i \in 0 .. Len(d2h) : d2h' = SubSeq(d2h, i + 1, Len(d2h))
    /\ op' = "open" /\ pc' = "rs1" /\ ret' = "none" /\ val' = "none"
    /\ UNCHANGED <<stage, tr, rtry, g, nonce, len, left, rem, atr, sync, faults>>

Call(o) ==
    /\ pc = "idle"
    /\ op' = o /\ stage' = FirstStage(o) /\ pc' = "cmd"
    /\ ret' = "none" /\ val' = "none" /\ atr' = <<>>
    /\ len' \in IF o = "send" THEN 0 .. MaxChunks ELSE {0}
    /\ left' = len'
    /\ UNCHANGED <<wire, faults, tr, rtry, g, nonce, rem, sync>>

(* the ifdhandler process dies and may be started again *)
HostCrash ==
    /\ pc # "closed"
    /\ Fault
    /\ op' = "open" /\ pc' = "closed" /\ stage' = "none"
    /\ tr' = 0 /\ rtry' = 0 /\ g' = 0 /\ nonce' = "none"
    /\ len' = 0 /\ left' = 0 /\ rem' = 0 /\ atr' = <<>>
    /\ ret' = "none" /\ val' = "none" /\ sync' = "lost"
    /\ UNCHANGED wire

-----------------------------------------------------------------------------
(* One request and its answer *)

SendRequest ==
    /\ pc = "cmd"
    /\ \E f \in Requests(stage) : Put(f)
    /\ pc' = "ans"
    /\ stage' = IF stage = "read" THEN "readdata" ELSE stage
    /\ UNCHANGED <<d2h, faults, op, tr, rtry, g, nonce, len, left, rem, atr, ret, val, sync>>

SendRequestFails ==
    /\ pc = "cmd"
    /\ PutFails
    /\ CallResync
    /\ UNCHANGED d2h

(* mutant: a wrong answer fails the call without a resync *)
RejectAnswerReturns ==
    /\ pc = "ans"
    /\ GetOther({f \in Ans : f.t \in Accepts(stage)})
    /\ Return("error")
    /\ UNCHANGED <<h2d, faults, atr, val, sync>>

(* any answer the stage takes for an error *)
RejectAnswer ==
    /\ pc = "ans"
    /\ GetOther({f \in Ans : f.t \in Accepts(stage)})
    /\ CallResync
    /\ UNCHANGED <<h2d, faults>>

Accepted(f) ==
    /\ pc = "ans"
    /\ f.t \in Accepts(stage)
    /\ Get(f)
    /\ UNCHANGED <<h2d, faults, sync>>

(* last line of _card_status, _deactivate, and of the commit and
   read-complete loops *)
AcceptLast ==
    /\ stage \in {"status", "deactivate", "commit", "readcomplete"}
    /\ \E f \in Ans :
        /\ Accepted(f)
        /\ val' = IF stage # "status" THEN val
                  ELSE IF f.t = "CardPresent" THEN "present" ELSE "absent"
    /\ Return("ok")
    /\ UNCHANGED atr

(* the first byte behind the header is the length, whatever frame it is *)
AcceptAtrLength ==
    /\ stage = "atrlen"
    /\ \E f \in Ans : Accepted(f) /\ rem' = FirstByte(f.p)
    /\ stage' = "atr"
    /\ UNCHANGED <<op, pc, tr, rtry, g, nonce, len, left, atr, ret, val>>

(* rem is a uint8_t *)
AcceptAtrPart ==
    /\ stage = "atr"
    /\ \E f \in Ans :
        /\ Accepted(f)
        /\ atr' = Append(atr, f.p)
        /\ LET r == (rem - PayloadLen(f.p)) % 256 IN
           \/ r = 0 /\ Return("ok")
           \/ r > 0 /\ rem' = r
              /\ UNCHANGED <<op, pc, stage, tr, rtry, g, nonce, len, left, ret>>
    /\ UNCHANGED val

(* mutant: while(targetLen>=0) *)
AcceptWriteOneMore ==
    /\ stage \in {"len", "data"}
    /\ \E f \in Ans : Accepted(f)
    /\ pc' = "cmd"
    /\ left' = IF stage = "data" THEN left - 1 ELSE left
    /\ \/ left' >= 0 /\ stage' = "data" /\ UNCHANGED tr
       \/ left' < 0 /\ stage' = "commit" /\ tr' = 0
    /\ UNCHANGED <<op, rtry, g, nonce, len, rem, atr, ret, val>>

(* length or chunk acknowledged: next chunk, or on to the commit loop *)
AcceptWrite ==
    /\ stage \in {"len", "data"}
    /\ \E f \in Ans : Accepted(f)
    /\ pc' = "cmd"
    /\ left' = IF stage = "data" THEN left - 1 ELSE left
    /\ \/ left' > 0 /\ stage' = "data" /\ UNCHANGED tr
       \/ left' = 0 /\ stage' = "commit" /\ tr' = 0
    /\ UNCHANGED <<op, rtry, g, nonce, len, rem, atr, ret, val>>

-----------------------------------------------------------------------------
(* resync() *)

Goto(from, to) ==
    /\ pc = from
    /\ pc' = to
    /\ UNCHANGED <<op, stage, tr, rtry, len, left, rem, atr, ret, val>>

FirstResync ==
    /\ Goto("rs1", "drain")
    /\ Put(Frame("Resync", "none"))
    /\ g' = 0
    /\ sync' = "trying"
    /\ UNCHANGED <<d2h, faults, nonce>>

(* read until nothing arrives for CMD_TIMEOUT *)
Drain ==
    /\ pc = "drain"
    /\ d2h # <<>>
    /\ d2h' = Tail(d2h)
    /\ \/ g + 1 < MaxGarbage
          /\ g' = g + 1
          /\ UNCHANGED <<op, pc, stage, tr, rtry, nonce, len, left, rem, atr, ret, val, sync>>
       \/ g + 1 = MaxGarbage /\ NextTry
    /\ UNCHANGED <<h2d, faults>>

SecondResync ==
    /\ Goto("rs2", "rs2ans")
    /\ Put(Frame("Resync", "none"))
    /\ UNCHANGED <<d2h, faults, g, nonce, sync>>

SecondResyncAnswer ==
    /\ Goto("rs2ans", "ctl")
    /\ Get(Frame("Resync", "none"))
    /\ UNCHANGED <<h2d, faults, g, nonce, sync>>

InFlight == {h2d[i].p : i \in DOMAIN h2d} \cup {d2h[i].p : i \in DOMAIN d2h}

(* 14 bytes of rand() *)
ControlSequence ==
    /\ Goto("ctl", "ctlans")
    /\ \E n \in Nonce :
        /\ FreshNonce => n \notin InFlight
        /\ nonce' = n
        /\ Put(Frame("Resync", n))
    /\ UNCHANGED <<d2h, faults, g, sync>>

(* mutant: the echoed control sequence is not compared *)
ControlSequenceUnchecked ==
    /\ Goto("ctlans", "cmpl")
    /\ \E p \in Payload : Get(Frame("Resync", p))
    /\ UNCHANGED <<h2d, faults, g, nonce, sync>>

ControlSequenceAnswer ==
    /\ Goto("ctlans", "cmpl")
    /\ Get(Frame("Resync", nonce))
    /\ UNCHANGED <<h2d, faults, g, nonce, sync>>

SendResyncComplete ==
    /\ Goto("cmpl", "cmplans")
    /\ Put(Frame("ResyncComplete", "none"))
    /\ UNCHANGED <<d2h, faults, g, nonce, sync>>

ResyncCompleteAnswer ==
    /\ pc = "cmplans"
    /\ Get(Frame("Ok", "none"))
    /\ ResyncSucceeded
    /\ UNCHANGED <<h2d, faults>>

ResyncPutFails ==
    /\ pc \in {"rs1", "rs2", "ctl", "cmpl"}
    /\ PutFails
    /\ NextTry
    /\ UNCHANGED d2h

(* the answer each step of the handshake goes on with *)
HandshakeAnswer ==
    CASE pc = "rs2ans" -> Frame("Resync", "none")
      [] pc = "ctlans" -> Frame("Resync", nonce)
      [] pc = "cmplans" -> Frame("Ok", "none")

ResyncWrongAnswer ==
    /\ pc \in {"rs2ans", "ctlans", "cmplans"}
    /\ GetOther({HandshakeAnswer})
    /\ NextTry
    /\ UNCHANGED <<h2d, faults>>

-----------------------------------------------------------------------------
(* The timeout of the current read strikes: CMD_TIMEOUT, or COMMIT_TIMEOUT
   for the answer to a commit. *)

AnswerTimeout ==
    /\ pc = "ans"
    /\ CallResync
    /\ UNCHANGED <<wire, faults>>

DrainSilence ==
    /\ Goto("drain", "rs2")
    /\ UNCHANGED <<wire, faults, g, nonce, sync>>

ResyncTimeout ==
    /\ pc \in {"rs2ans", "ctlans", "cmplans"}
    /\ NextTry
    /\ UNCHANGED <<wire, faults>>

HostTimeout == AnswerTimeout \/ DrainSilence \/ ResyncTimeout

(* steps the driver takes by itself once it was called *)
HostStep ==
    \/ SendRequest \/ RejectAnswer \/ AcceptLast
    \/ AcceptAtrLength \/ AcceptAtrPart \/ AcceptWrite
    \/ FirstResync \/ Drain \/ SecondResync \/ SecondResyncAnswer
    \/ ControlSequence \/ ControlSequenceAnswer
    \/ SendResyncComplete \/ ResyncCompleteAnswer \/ ResyncWrongAnswer
=============================================================================
