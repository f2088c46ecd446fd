---------------------------- MODULE CardEmuLink ----------------------------
(***************************************************************************)
(* Host driver, serial line and card emulator together.                    *)
(***************************************************************************)
EXTENDS CardEmuDevice, CardEmuHost

CONSTANTS SlowLink,  \* whether an answer may arrive later than the host waits for it
          MaxLate    \* bound on the frames on the line when the host gives up too early

ASSUME LinkAssumption ==
    /\ SlowLink \in BOOLEAN
    /\ MaxLate \in Nat

VARIABLE committed  \* history: Commit() ran to its end during the current call

vars == <<wire, faults, dev, host, committed>>

TypeOK ==
    /\ WireTypeOK
    /\ DevTypeOK
    /\ HostTypeOK
    /\ committed \in BOOLEAN

Init ==
    /\ WireInit
    /\ DevInit
    /\ HostInit
    /\ committed = FALSE

(***************************************************************************)
(* When a timeout of the host may strike.  Serial transfer takes a few     *)
(* milliseconds, the timeouts are 500 ms and 10 s: on a prompt link the    *)
(* host times out only when no answer is under way.  Two races remain even *)
(* there: Commit() takes arbitrarily long, and the emulator gives up a cut *)
(* request after the same 500 ms.                                          *)
(***************************************************************************)
MayTimeOut ==
    \/ h2d = <<>> /\ d2h = <<>>
    \/ /\ Len(h2d) + Len(d2h) <= MaxLate
       /\ \/ SlowLink
          \/ d2h = <<>> /\ (mode = "commit" \/ (h2d # <<>> => Head(h2d) = Cut))

Emulator ==
    /\ DevStep
    /\ committed' = IF mode = "commit" THEN TRUE ELSE committed
    /\ UNCHANGED <<faults, host>>

Driver ==
    /\ HostStep
    /\ UNCHANGED <<dev, committed>>

Timeout ==
    /\ MayTimeOut
    /\ HostTimeout
    /\ UNCHANGED <<dev, committed>>

Client ==
    /\ \/ Open
       \/ \E o \in Ops : Call(o)
    /\ committed' = FALSE
    /\ UNCHANGED dev

WireFault ==
    /\ \/ DamageRequest \/ DamageAnswer
    /\ UNCHANGED <<dev, host, committed>>

WriteFault ==
    /\ \/ SendRequestFails \/ ResyncPutFails
    /\ UNCHANGED <<dev, committed>>

HostDies ==
    /\ HostCrash
    /\ UNCHANGED <<dev, committed>>

EmulatorReboots ==
    /\ Reboot
    /\ sync' = "lost"
    /\ UNCHANGED <<op, pc, stage, tr, rtry, g, nonce, len, left, rem, atr, ret, val, committed>>

Next ==
    \/ Emulator \/ Driver \/ Timeout \/ Client
    \/ WireFault \/ WriteFault \/ HostDies \/ EmulatorReboots

Spec == Init /\ [][Next]_vars

(* Both programs keep running, and time passes for a waiting host.  Faults,
   crashes and calls are not fair. *)
FairSpec ==
    /\ Spec
    /\ WF_vars(Emulator)
    /\ WF_vars(Driver)
    /\ WF_vars(Timeout)

-----------------------------------------------------------------------------
Clean ==
    /\ h2d = <<>>
    /\ d2h = <<>>
    /\ mode = "loop"

(* When the answer that makes resync() return 1 is at hand, it is the only
   thing on the line and the emulator is back in loop(), however late answers
   are and whatever was lost or damaged before. *)
HandshakeSound ==
    /\ pc = "cmplans" /\ sync = "trying"
    /\ d2h # <<>> /\ Head(d2h) = Frame("Ok", "none")
    => h2d = <<>> /\ Tail(d2h) = <<>> /\ mode = "loop"

(* Once resync() has returned 1 and until something fails again, every
   request the driver writes meets an empty line and an emulator in loop(),
   so the next answer is the answer to it. *)
InSync == sync = "held" /\ pc \in {"idle", "cmd"} => Clean

(* What a successful call on a line in sync reports is what the running
   emulator is in: the status of the card, the card deactivated, or the card
   reset and its complete ATR copied.  A call that begins on a line some failed
   resync() left dirty may be given an older answer. *)
ReportIsTrue ==
    sync = "held" /\ pc = "idle" /\ ret = "ok" =>
        /\ op = "status" => val = card
        /\ op = "deactivate" => card = "absent"
        /\ op = "reset" => card = "present" /\ atr = <<"part1", "part2">>

(* No frame copied into atrBuff reaches past its end, whichever frames of the
   answer to a reset are lost or damaged. *)
AtrFits ==
    sync = "held" /\ pc = "ans" /\ stage = "atr" /\ d2h # <<>> /\ Head(d2h).t = "CardPresent"
        => PayloadLen(Head(d2h).p) <= rem

(* A send that was never left alone by a failed resync() reports success
   only after Commit() ran to its end during that call. *)
SendCommitted ==
    sync = "held" /\ pc = "idle" /\ op = "send" /\ ret = "ok" => committed

(* driver.h: "Error code <0 if failure, number of bytes sent if success."
   Success means that the card has executed what was sent. *)
SendReportsFailure ==
    pc = "idle" /\ op = "send" /\ ret = "ok" => committed

(* driver.h: "Error code <0 if failure, number of bytes received if success."
   When nothing failed, recv does not report a failure. *)
RecvSucceeds == pc = "idle" /\ op = "recv" /\ faults = 0 => ret # "error"

(* Every call of the driver comes to an end. *)
CallReturns == pc \notin {"idle", "closed"} ~> pc \in {"idle", "closed"}

(* Once no more faults happen, a status, deactivate or reset call succeeds,
   whatever state the faults left the line and the emulator in. *)
Recovers ==
    faults = MaxFaults /\ pc = "cmd" /\ stage \in {"status", "deactivate", "atrlen"}
        /\ tr = 0
    ~> ret = "ok"
=============================================================================
