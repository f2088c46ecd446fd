------------------------- MODULE CardEmuLinkProofs -------------------------
(***************************************************************************)
(* Theorems about CardEmuLink.  First its type correctness.                *)
(*                                                                         *)
(* Then the resync handshake is sound: a control sequence that comes back  *)
(* proves that everything older has left both directions of the line, and  *)
(* the Ok that follows proves that the emulator is in loop().  Nothing is  *)
(* assumed about timing; the control sequence must not be one that is      *)
(* still in flight (FreshNonce).                                           *)
(*                                                                         *)
(* From there on (section "A line in sync") the line carries one request   *)
(* and its own answer, so that what the driver reports is true, the ATR    *)
(* buffer is never overrun and an acknowledged send was committed, until   *)
(* something fails and resync() runs again.                                *)
(***************************************************************************)
EXTENDS CardEmuLink, SequenceTheorems, TLAPS

-----------------------------------------------------------------------------
(* Types *)

LEMMA DamagedType == Bad \in Damaged /\ Cut \in Damaged
  BY DEF Damaged

LEMMA DamageType ==
  ASSUME NEW S, Damaged \subseteq S, NEW ch \in Seq(S), ch # <<>>, NEW x \in Damage(ch)
  PROVE  x \in Seq(S)
  <1>1. Bad \in S /\ Cut \in S /\ Tail(ch) \in Seq(S)
    BY DamagedType
  <1>2. <<Bad>> \in Seq(S) /\ <<Bad, Bad>> \in Seq(S) /\ <<Cut>> \in Seq(S)
    BY <1>1
  <1>3. \A y \in Seq(S) : y \o Tail(ch) \in Seq(S)
    BY <1>1
  <1>4. /\ <<Bad>> \o Tail(ch) \in Seq(S)
        /\ <<Bad, Bad>> \o Tail(ch) \in Seq(S)
        /\ <<Cut>> \o Tail(ch) \in Seq(S)
    BY <1>2, <1>3
  <1>. QED
    BY <1>1, <1>4 DEF Damage

LEMMA AfterDamagedType ==
  ASSUME NEW S, Damaged \subseteq S, NEW ch \in Seq(S), ch # <<>>, NEW x \in AfterDamaged(ch)
  PROVE  x \in Seq(S)
  <1>1. Bad \in S /\ Tail(ch) \in Seq(S)
    BY DamagedType
  <1>2. <<Bad>> \in Seq(S)
    BY <1>1
  <1>3. CASE Head(ch) = Bad \/ Len(ch) = 1
    BY <1>1, <1>3 DEF AfterDamaged
  <1>4. CASE ~(Head(ch) = Bad \/ Len(ch) = 1)
    <2>1. Len(ch) \in Nat \ {0}
      BY EmptySeq
    <2>2. Tail(ch) # <<>>
      <3>1. Len(Tail(ch)) = Len(ch) - 1
        BY HeadTailProperties
      <3>2. Len(Tail(ch)) # 0
        BY <1>4, <2>1, <3>1
      <3>. QED BY <3>2, EmptySeq
    <2>3. Tail(Tail(ch)) \in Seq(S)
      BY <1>1, <2>2
    <2>4. <<Bad>> \o Tail(Tail(ch)) \in Seq(S)
      BY <1>2, <2>3
    <2>. QED
      BY <1>1, <1>4, <2>3, <2>4 DEF AfterDamaged
  <1>. QED BY <1>3, <1>4

LEMMA FrameTypes ==
  /\ \A t \in ReqType, p \in Payload : Frame(t, p) \in Req
  /\ \A t \in AnsType, p \in Payload : Frame(t, p) \in Ans
  BY DEF Frame, Req, Ans

LEMMA DevStepType ==
  ASSUME WireTypeOK, DevTypeOK, DevStep
  PROVE  h2d' \in Seq(Req \cup Damaged) /\ d2h' \in Seq(Ans \cup Damaged) /\ DevTypeOK'
  <1> USE DEF WireTypeOK, DevTypeOK, dev
  <1>1. \A t \in AnsType, p \in Payload : Append(d2h, Frame(t, p)) \in Seq(Ans \cup Damaged)
    BY FrameTypes
  <1>2. ASSUME NEW r, Receive(r) PROVE h2d' \in Seq(Req \cup Damaged)
    BY <1>2 DEF Receive
  <1>3. ASSUME ReceiveInvalid PROVE h2d' \in Seq(Req \cup Damaged)
    BY <1>3, AfterDamagedType DEF ReceiveInvalid
  <1>4. /\ "none" \in Payload
        /\ {"Resync", "Ok", "CardAbsent", "CardPresent", "CardEOD"} \subseteq AnsType
    BY DEF Payload, AnsType
  <1>5. CASE QueryStatus
    BY <1>1, <1>2, <1>4, <1>5 DEF QueryStatus, Answer
  <1>6. CASE DeactivateCard
    BY <1>1, <1>2, <1>4, <1>6 DEF DeactivateCard, Answer
  <1>7. CASE ResetCard
    <2>1. AtrFrames \in Seq(Ans \cup Damaged)
      BY FrameTypes DEF AtrFrames, Payload, AnsType
    <2>. QED BY <1>2, <1>7, <2>1 DEF ResetCard
  <1>8. CASE RefuseCommit
    BY <1>1, <1>2, <1>4, <1>8 DEF RefuseCommit, EnterResync, Answer
  <1>9. CASE BeginCommit
    BY <1>2, <1>9 DEF BeginCommit
  <1>10. CASE EndCommit
    BY <1>1, <1>4, <1>10 DEF EndCommit, Answer
  <1>11. CASE ReadComplete
    BY <1>1, <1>2, <1>4, <1>11 DEF ReadComplete, Answer
  <1>12. CASE ReadData
    BY <1>1, <1>2, <1>4, <1>12 DEF ReadData, Answer
  <1>13. ASSUME NEW p \in Payload, WriteData(p) PROVE h2d' \in Seq(Req \cup Damaged) /\ d2h' \in Seq(Ans \cup Damaged) /\ DevTypeOK'
    BY <1>1, <1>2, <1>4, <1>13 DEF WriteData, Answer, AsLength
  <1>14. ASSUME NEW p \in Payload, RefuseWrite(p) PROVE h2d' \in Seq(Req \cup Damaged) /\ d2h' \in Seq(Ans \cup Damaged) /\ DevTypeOK'
    BY <1>1, <1>2, <1>4, <1>14 DEF RefuseWrite, EnterResync, Answer
  <1>15. CASE LoseSync
    BY <1>1, <1>2, <1>3, <1>4, <1>15 DEF LoseSync, EnterResync, Answer
  <1>16. CASE ResyncEcho
    BY <1>1, <1>2, <1>4, <1>16 DEF ResyncEcho, Answer
  <1>17. CASE ResyncDone
    BY <1>1, <1>2, <1>4, <1>17 DEF ResyncDone, Answer
  <1>18. CASE ResyncRestart
    BY <1>1, <1>2, <1>3, <1>4, <1>18 DEF ResyncRestart, Answer
  <1>. QED
    BY <1>5, <1>6, <1>7, <1>8, <1>9, <1>10, <1>11, <1>12, <1>13, <1>14, <1>15,
       <1>16, <1>17, <1>18 DEF DevStep

LEMMA PutType ==
  ASSUME WireTypeOK
  PROVE  /\ \A t \in ReqType, p \in Payload :
              Put(Frame(t, p)) => h2d' \in Seq(Req \cup Damaged)
         /\ PutFails => h2d' \in Seq(Req \cup Damaged) /\ faults' \in 0 .. MaxFaults
  <1> USE WireAssumption DEF WireTypeOK
  <1>1. \A t \in ReqType, p \in Payload : Put(Frame(t, p)) => h2d' \in Seq(Req \cup Damaged)
    BY FrameTypes DEF Put
  <1>2. PutFails => h2d' \in Seq(Req \cup Damaged)
    BY DamagedType DEF PutFails
  <1>3. PutFails => faults' \in 0 .. MaxFaults
    BY DEF PutFails, Fault
  <1>. QED BY <1>1, <1>2, <1>3

LEMMA GetType ==
  ASSUME WireTypeOK
  PROVE  /\ \A f : Get(f) => d2h' \in Seq(Ans \cup Damaged)
         /\ \A wanted : GetOther(wanted) => d2h' \in Seq(Ans \cup Damaged)
  <1> USE DEF WireTypeOK
  <1>1. \A f : Get(f) => d2h' \in Seq(Ans \cup Damaged)
    BY DEF Get
  <1>2. GetInvalid => d2h' \in Seq(Ans \cup Damaged)
    BY AfterDamagedType DEF GetInvalid
  <1>. QED BY <1>1, <1>2 DEF GetOther

HostTypeInv ==
    /\ HostTypeOK
    /\ stage = "data" => left > 0

LEMMA ReturnType ==
  ASSUME HostTypeInv, NEW r \in {"ok", "error"}, Return(r),
         atr' \in Seq(Payload), val' \in {"none", "absent", "present"},
         sync' \in {"lost", "trying", "held"}
  PROVE  HostTypeInv'
  BY HostAssumption DEF HostTypeInv, HostTypeOK, Stage, Return

LEMMA CallResyncType ==
  ASSUME HostTypeInv, CallResync
  PROVE  HostTypeInv'
  BY HostAssumption DEF HostTypeInv, HostTypeOK, CallResync

LEMMA ResyncSucceededType ==
  ASSUME HostTypeInv, ResyncSucceeded
  PROVE  HostTypeInv'
  <1>1. sync' \in {"lost", "trying", "held"} /\ UNCHANGED <<atr, val>>
    BY DEF ResyncSucceeded
  <1>2. CASE \E r \in {"ok", "error"} : Return(r)
    BY <1>1, <1>2, ReturnType DEF HostTypeInv, HostTypeOK
  <1>3. CASE /\ op # "open" /\ tr + 1 < MaxCmdTries
             /\ pc' = "cmd" /\ stage' = LoopStart(stage)
             /\ tr' = tr + 1 /\ left' = len
             /\ rtry' = 0 /\ g' = 0 /\ nonce' = "none"
             /\ UNCHANGED <<op, len, rem, ret>>
    BY <1>1, <1>3, HostAssumption DEF HostTypeInv, HostTypeOK, LoopStart, Stage
  <1>. QED BY <1>2, <1>3 DEF ResyncSucceeded

LEMMA ResyncFailedType ==
  ASSUME HostTypeInv, ResyncFailed
  PROVE  HostTypeInv'
  <1>1. sync' \in {"lost", "trying", "held"} /\ UNCHANGED <<atr, val>>
    BY DEF ResyncFailed
  <1>2. CASE \E r \in {"ok", "error"} : Return(r)
    BY <1>1, <1>2, ReturnType DEF HostTypeInv, HostTypeOK
  <1>3. CASE /\ AfterBreak(stage) \notin {"ok", "error"}
             /\ pc' = "cmd" /\ stage' = AfterBreak(stage) /\ tr' = 0
             /\ rtry' = 0 /\ g' = 0 /\ nonce' = "none"
             /\ UNCHANGED <<op, len, left, rem, ret>>
    BY <1>1, <1>3, HostAssumption DEF HostTypeInv, HostTypeOK, AfterBreak, Stage
  <1>. QED BY <1>2, <1>3 DEF ResyncFailed

LEMMA NextTryType ==
  ASSUME HostTypeInv, NextTry
  PROVE  HostTypeInv'
  <1>1. CASE ResyncFailed
    BY <1>1, ResyncFailedType
  <1>2. CASE /\ rtry + 1 < MaxResync
             /\ pc' = "rs1"
             /\ rtry' = rtry + 1
             /\ g' = 0 /\ nonce' = "none"
             /\ UNCHANGED <<op, stage, tr, len, left, rem, atr, ret, val, sync>>
    BY <1>2, HostAssumption DEF HostTypeInv, HostTypeOK
  <1>. QED BY <1>1, <1>2 DEF NextTry

LEMMA CallType ==
  ASSUME WireTypeOK, HostTypeInv, Open \/ \E o \in Ops : Call(o)
  PROVE  WireTypeOK' /\ HostTypeInv'
  <1> USE HostAssumption DEF HostTypeInv, HostTypeOK, Stage
  <1>1. CASE Open
    <2>1. h2d' \in Seq(Req \cup Damaged)
      BY <1>1 DEF Open, WireTypeOK
    <2>2. d2h' \in Seq(Ans \cup Damaged)
      BY <1>1 DEF Open, WireTypeOK
    <2>. QED BY <1>1, <2>1, <2>2 DEF Open, WireTypeOK
  <1>2. ASSUME NEW o \in Ops, Call(o) PROVE WireTypeOK' /\ HostTypeInv'
    <2>1. WireTypeOK'
      BY <1>2 DEF Call, wire, WireTypeOK
    <2>2. FirstStage(o) \in Stage \ {"data"}
      BY DEF FirstStage
    <2>3. len' \in 0 .. MaxChunks
      BY <1>2 DEF Call
    <2>. QED BY <1>2, <2>1, <2>2, <2>3 DEF Call
  <1>. QED BY <1>1, <1>2

LEMMA HostCrashType ==
  ASSUME WireTypeOK, HostTypeInv, HostCrash
  PROVE  WireTypeOK' /\ HostTypeInv'
  BY WireAssumption, HostAssumption
  DEF HostCrash, Fault, wire, WireTypeOK, HostTypeInv, HostTypeOK, Stage

LEMMA AtrCount ==
  ASSUME NEW r \in 0 .. 255, NEW p
  PROVE  (r - PayloadLen(p)) % 256 \in 0 .. 255
  <1>1. PayloadLen(p) \in Int
    BY DEF PayloadLen
  <1>2. \A k \in Int : k % 256 \in 0 .. 255
    OBVIOUS
  <1>. QED BY <1>1, <1>2

LEMMA HostStepType ==
  ASSUME WireTypeOK, HostTypeInv, HostStep
  PROVE  WireTypeOK' /\ HostTypeInv'
  <1> USE HostAssumption, GetType, PutType DEF HostTypeInv, HostTypeOK, WireTypeOK
  <1>1. CASE SendRequest
    <2>1. ASSUME NEW f \in Requests(stage) PROVE \E t \in ReqType, p \in Payload : f = Frame(t, p)
      BY DEF Requests, ReqType, Payload, Stage
    <2>2. h2d' \in Seq(Req \cup Damaged)
      BY <1>1, <2>1 DEF SendRequest
    <2>. QED BY <1>1, <2>2 DEF SendRequest, Stage
  <1>2. CASE RejectAnswer
    BY <1>2, CallResyncType DEF RejectAnswer
  <1>3. CASE AcceptLast
    <2>1. d2h' \in Seq(Ans \cup Damaged)
      BY <1>3 DEF AcceptLast, Accepted
    <2>2. HostTypeInv'
      BY <1>3, ReturnType DEF AcceptLast, Accepted
    <2>. QED BY <1>3, <2>1, <2>2 DEF AcceptLast, Accepted
  <1>4. CASE AcceptAtrLength
    BY <1>4 DEF AcceptAtrLength, Accepted, FirstByte, Stage
  <1>5. CASE AcceptAtrPart
    <2>1. PICK f \in Ans :
        /\ Accepted(f)
        /\ atr' = Append(atr, f.p)
        /\ LET r == (rem - PayloadLen(f.p)) % 256 IN
           \/ r = 0 /\ Return("ok")
           \/ r > 0 /\ rem' = r
              /\ UNCHANGED <<op, pc, stage, tr, rtry, g, nonce, len, left, ret>>
      BY <1>5 DEF AcceptAtrPart
    <2>2. atr' \in Seq(Payload)
      BY <2>1 DEF Ans
    <2>3. WireTypeOK' /\ UNCHANGED <<val, sync>>
      BY <1>5, <2>1 DEF AcceptAtrPart, Accepted
    <2>4. (rem - PayloadLen(f.p)) % 256 \in 0 .. 255
      BY AtrCount
    <2>5. CASE Return("ok")
      BY <2>2, <2>3, <2>5, ReturnType
    <2>6. CASE /\ rem' = (rem - PayloadLen(f.p)) % 256
               /\ UNCHANGED <<op, pc, stage, tr, rtry, g, nonce, len, left, ret>>
      BY <2>2, <2>3, <2>4, <2>6
    <2>. QED BY <2>1, <2>5, <2>6
  <1>6. CASE AcceptWrite
    BY <1>6 DEF AcceptWrite, Accepted, Stage
  <1>7. CASE FirstResync
    BY <1>7 DEF FirstResync, Goto, ReqType, Payload
  <1>8. CASE Drain
    <2>1. WireTypeOK'
      BY <1>8 DEF Drain
    <2>2. CASE NextTry
      BY <2>1, <2>2, NextTryType
    <2>3. CASE /\ g + 1 < MaxGarbage /\ g' = g + 1
               /\ UNCHANGED <<op, pc, stage, tr, rtry, nonce, len, left, rem, atr, ret, val, sync>>
      BY <2>1, <2>3
    <2>. QED BY <1>8, <2>2, <2>3 DEF Drain
  <1>9. CASE SecondResync
    BY <1>9 DEF SecondResync, Goto, ReqType, Payload
  <1>10. CASE SecondResyncAnswer
    BY <1>10 DEF SecondResyncAnswer, Goto
  <1>11. CASE ControlSequence
    BY <1>11 DEF ControlSequence, Goto, ReqType, Payload
  <1>12. CASE ControlSequenceAnswer
    BY <1>12 DEF ControlSequenceAnswer, Goto
  <1>13. CASE SendResyncComplete
    BY <1>13 DEF SendResyncComplete, Goto, ReqType, Payload
  <1>14. CASE ResyncCompleteAnswer
    BY <1>14, ResyncSucceededType DEF ResyncCompleteAnswer
  <1>15. CASE ResyncWrongAnswer
    BY <1>15, NextTryType DEF ResyncWrongAnswer
  <1>. QED
    BY <1>1, <1>2, <1>3, <1>4, <1>5, <1>6, <1>7, <1>8, <1>9, <1>10, <1>11,
       <1>12, <1>13, <1>14, <1>15 DEF HostStep

LEMMA TimeoutType ==
  ASSUME WireTypeOK, HostTypeInv, HostTimeout
  PROVE  WireTypeOK' /\ HostTypeInv'
  <1> USE DEF wire, WireTypeOK
  <1>1. CASE AnswerTimeout
    BY <1>1, CallResyncType DEF AnswerTimeout
  <1>2. CASE DrainSilence
    BY <1>2 DEF DrainSilence, Goto, HostTypeInv, HostTypeOK
  <1>3. CASE ResyncTimeout
    BY <1>3, NextTryType DEF ResyncTimeout
  <1>. QED BY <1>1, <1>2, <1>3 DEF HostTimeout

(* Every reachable state of the composed system has the declared type; the
   code relies on it where the number of chunks still to be sent and the
   missing ATR bytes are counted down in unsigned variables. *)
THEOREM TypeCorrect == Spec => []TypeOK
  <1> DEFINE Inv == WireTypeOK /\ DevTypeOK /\ HostTypeInv /\ committed \in BOOLEAN
  <1>1. Init => Inv
    <2>1. Frame("Resync", "none") \in Ans
      BY DEF Frame, Ans, AnsType, Payload
    <2>2. Init => WireTypeOK
      BY <2>1, WireAssumption DEF Init, WireInit, DevInit, WireTypeOK
    <2>3. Init => HostTypeInv
      BY HostAssumption DEF Init, HostInit, HostTypeInv, HostTypeOK, Stage
    <2>. QED
      BY <2>2, <2>3 DEF Init, DevInit, DevTypeOK
  <1>2. Inv /\ [Next]_vars => Inv'
    <2> SUFFICES ASSUME Inv, [Next]_vars PROVE Inv'
      OBVIOUS
    <2>1. UNCHANGED dev => DevTypeOK'
      BY DEF dev, DevTypeOK
    <2>2. UNCHANGED host => HostTypeInv'
      BY DEF host, HostTypeInv, HostTypeOK
    <2>3. CASE Emulator
      BY <2>2, <2>3, DevStepType DEF Emulator, WireTypeOK
    <2>4. CASE Driver
      BY <2>1, <2>4, HostStepType DEF Driver
    <2>5. CASE Timeout
      BY <2>1, <2>5, TimeoutType DEF Timeout
    <2>6. CASE Client
      BY <2>1, <2>6, CallType DEF Client
    <2>7. CASE WireFault
      <3>1. h2d' \in Seq(Req \cup Damaged) /\ d2h' \in Seq(Ans \cup Damaged)
        BY <2>7, DamageType DEF WireFault, DamageRequest, DamageAnswer, WireTypeOK
      <3>2. faults' \in 0 .. MaxFaults
        BY <2>7, WireAssumption DEF WireFault, DamageRequest, DamageAnswer, Fault, WireTypeOK
      <3>. QED BY <2>1, <2>2, <2>7, <3>1, <3>2 DEF WireFault, WireTypeOK
    <2>8. CASE WriteFault
      <3>1. WireTypeOK'
        BY <2>8, PutType DEF WriteFault, SendRequestFails, ResyncPutFails, WireTypeOK
      <3>2. HostTypeInv'
        BY <2>8, CallResyncType, NextTryType DEF WriteFault, SendRequestFails, ResyncPutFails
      <3>. QED BY <2>1, <2>8, <3>1, <3>2 DEF WriteFault
    <2>9. CASE HostDies
      BY <2>1, <2>9, HostCrashType DEF HostDies
    <2>10. CASE EmulatorReboots
      <3>1. d2h' \in Seq(Ans \cup Damaged)
        BY <2>10, FrameTypes DEF EmulatorReboots, Reboot, Answer, WireTypeOK, AnsType, Payload
      <3>2. h2d' \in Seq(Req \cup Damaged)
        BY <2>10 DEF EmulatorReboots, Reboot, WireTypeOK
      <3>3. faults' \in 0 .. MaxFaults
        BY <2>10, WireAssumption DEF EmulatorReboots, Reboot, Fault, WireTypeOK
      <3>4. DevTypeOK' /\ HostTypeInv'
        BY <2>10 DEF EmulatorReboots, Reboot, DevTypeOK, HostTypeInv, HostTypeOK
      <3>. QED BY <2>10, <3>1, <3>2, <3>3, <3>4 DEF EmulatorReboots, WireTypeOK
    <2>11. CASE UNCHANGED vars
      BY <2>1, <2>2, <2>11 DEF vars, wire, WireTypeOK
    <2>. QED
      BY <2>3, <2>4, <2>5, <2>6, <2>7, <2>8, <2>9, <2>10, <2>11 DEF Next
  <1>3. Inv => TypeOK
    BY DEF TypeOK, HostTypeInv
  <1>. QED BY <1>1, <1>2, <1>3, PTL DEF Spec

-----------------------------------------------------------------------------
(* The handshake *)

(* n occurs in no payload of s; n occurs at most at the end of s *)
AbsentIn(s, n) == \A i \in 1 .. Len(s) : s[i].p # n
OnlyLast(s, n) == \A i \in 1 .. Len(s) : s[i].p = n => i = Len(s)

(* While the host waits for its control sequence, that sequence is either
   the newest request, or echoed as the newest answer with no request left. *)
WaitControl ==
    /\ nonce \in Nonce
    /\ \/ OnlyLast(h2d, nonce) /\ AbsentIn(d2h, nonce)
       \/ h2d = <<>> /\ mode = "resync1" /\ OnlyLast(d2h, nonce)

BeforeComplete == h2d = <<>> /\ d2h = <<>> /\ mode = "resync1"

(* While it waits for the last Ok: ResyncComplete is on its way, or the Ok
   is, or one of the two was damaged and no Ok can come any more. *)
WaitOk ==
    \/ h2d = <<Frame("ResyncComplete", "none")>> /\ d2h = <<>> /\ mode = "resync1"
    \/ h2d = <<>> /\ d2h = <<Frame("Ok", "none")>> /\ mode = "loop"
    \/ /\ \A i \in 1 .. Len(h2d) : h2d[i] \in Damaged
       /\ \A i \in 1 .. Len(d2h) : d2h[i] # Frame("Ok", "none")
       /\ mode # "commit"

HandshakeInv ==
    sync = "trying" =>
        /\ pc = "ctlans" => WaitControl
        /\ pc = "cmpl" => BeforeComplete
        /\ pc = "cmplans" => WaitOk

-----------------------------------------------------------------------------
(* Lemmas about the line *)

LEMMA DamagedPayload ==
  /\ \A x \in Damaged : x.p = "none" /\ x.t \in {"bad", "cut"}
  /\ Bad.p = "none" /\ Cut.p = "none"
  BY DEF Damaged, Bad, Cut, Frame

LEMMA NonceNotNone == "none" \notin Nonce
  BY WireAssumption

LEMMA TailKeeps ==
  ASSUME NEW S, NEW s \in Seq(S), s # <<>>, NEW n
  PROVE  /\ AbsentIn(s, n) => AbsentIn(Tail(s), n)
         /\ OnlyLast(s, n) => OnlyLast(Tail(s), n)
         /\ OnlyLast(s, n) /\ Head(s).p = n => Tail(s) = <<>>
  <1>1. /\ Tail(s) \in Seq(S)
        /\ Len(Tail(s)) = Len(s) - 1
        /\ \A i \in 1 .. Len(Tail(s)) : Tail(s)[i] = s[i + 1]
    BY HeadTailProperties
  <1>2. Len(s) \in Nat \ {0}
    BY EmptySeq
  <1>3. AbsentIn(s, n) => AbsentIn(Tail(s), n)
    BY <1>1, <1>2 DEF AbsentIn
  <1>4. ASSUME OnlyLast(s, n) PROVE OnlyLast(Tail(s), n)
    <2> SUFFICES ASSUME NEW i \in 1 .. Len(Tail(s)), Tail(s)[i].p = n PROVE i = Len(Tail(s))
      BY DEF OnlyLast
    <2>1. i + 1 \in 1 .. Len(s) /\ s[i + 1].p = n
      BY <1>1, <1>2
    <2>2. i + 1 = Len(s)
      BY <1>4, <2>1 DEF OnlyLast
    <2>3. Len(Tail(s)) = Len(s) - 1 /\ Len(s) \in Int /\ i \in Int
      BY <1>1, <1>2
    <2>. QED BY <2>2, <2>3
  <1>5. ASSUME OnlyLast(s, n), Head(s).p = n PROVE Tail(s) = <<>>
    <2>1. s[1] = Head(s) /\ 1 \in 1 .. Len(s)
      BY <1>2
    <2>2. Len(s) = 1
      BY <1>5, <2>1 DEF OnlyLast
    <2>3. Len(Tail(s)) = 0
      BY <1>1, <2>2
    <2>. QED BY <1>1, <2>3, EmptySeq
  <1>. QED BY <1>3, <1>4, <1>5

LEMMA PrefixKeeps ==
  ASSUME NEW S, NEW s \in Seq(S), NEW d \in Seq(S), NEW n,
         \A i \in 1 .. Len(d) : d[i].p # n
  PROVE  /\ AbsentIn(s, n) => AbsentIn(d \o s, n)
         /\ OnlyLast(s, n) => OnlyLast(d \o s, n)
  <1>1. /\ Len(d \o s) = Len(d) + Len(s)
        /\ \A i \in 1 .. Len(d) + Len(s) :
              (d \o s)[i] = IF i <= Len(d) THEN d[i] ELSE s[i - Len(d)]
    BY ConcatProperties
  <1>2. Len(s) \in Nat /\ Len(d) \in Nat
    BY LenProperties
  <1>3. AbsentIn(s, n) => AbsentIn(d \o s, n)
    BY <1>1, <1>2 DEF AbsentIn
  <1>4. OnlyLast(s, n) => OnlyLast(d \o s, n)
    BY <1>1, <1>2 DEF OnlyLast
  <1>. QED BY <1>3, <1>4

LEMMA AppendKeeps ==
  ASSUME NEW S, NEW s \in Seq(S), NEW e \in S, NEW n
  PROVE  /\ AbsentIn(s, n) /\ e.p # n => AbsentIn(Append(s, e), n)
         /\ AbsentIn(s, n) => OnlyLast(Append(s, e), n)
  <1>1. /\ Len(Append(s, e)) = Len(s) + 1 /\ Len(s) \in Nat
        /\ \A i \in 1 .. Len(s) : Append(s, e)[i] = s[i]
        /\ Append(s, e)[Len(s) + 1] = e
    BY AppendProperties, LenProperties
  <1>2. AbsentIn(s, n) /\ e.p # n => AbsentIn(Append(s, e), n)
    BY <1>1 DEF AbsentIn
  <1>3. AbsentIn(s, n) => OnlyLast(Append(s, e), n)
    BY <1>1 DEF AbsentIn, OnlyLast
  <1>. QED BY <1>2, <1>3

LEMMA BadKeeps ==
  ASSUME NEW S, Damaged \subseteq S, NEW s \in Seq(S), NEW n \in Nonce, NEW b \in {Bad, Cut}
  PROVE  /\ AbsentIn(s, n) => AbsentIn(<<b>> \o s, n)
         /\ OnlyLast(s, n) => OnlyLast(<<b>> \o s, n)
         /\ AbsentIn(s, n) => AbsentIn(<<b, b>> \o s, n)
         /\ OnlyLast(s, n) => OnlyLast(<<b, b>> \o s, n)
  <1>1. b \in S /\ b.p # n
    BY DamagedType, DamagedPayload, NonceNotNone
  <1>2. <<b>> \in Seq(S) /\ \A i \in 1 .. Len(<<b>>) : <<b>>[i].p # n
    BY <1>1
  <1>3. <<b, b>> \in Seq(S) /\ \A i \in 1 .. Len(<<b, b>>) : <<b, b>>[i].p # n
    BY <1>1
  <1>. QED BY <1>2, <1>3, PrefixKeeps

LEMMA DamageKeeps ==
  ASSUME NEW S, Damaged \subseteq S, NEW s \in Seq(S), s # <<>>, NEW n \in Nonce,
         NEW x \in Damage(s) \cup AfterDamaged(s)
  PROVE  /\ AbsentIn(s, n) => AbsentIn(x, n)
         /\ OnlyLast(s, n) => OnlyLast(x, n)
  <1>1. Tail(s) \in Seq(S)
    BY HeadTailProperties
  <1>2. CASE x = Tail(s)
    BY <1>2, TailKeeps
  <1>3. ASSUME NEW t \in Seq(S), NEW b \in {Bad, Cut},
               AbsentIn(s, n) => AbsentIn(t, n), OnlyLast(s, n) => OnlyLast(t, n),
               x \in {<<b>> \o t, <<b, b>> \o t}
        PROVE  /\ AbsentIn(s, n) => AbsentIn(x, n)
               /\ OnlyLast(s, n) => OnlyLast(x, n)
    <2>1. /\ AbsentIn(t, n) => AbsentIn(<<b>> \o t, n)
          /\ OnlyLast(t, n) => OnlyLast(<<b>> \o t, n)
          /\ AbsentIn(t, n) => AbsentIn(<<b, b>> \o t, n)
          /\ OnlyLast(t, n) => OnlyLast(<<b, b>> \o t, n)
      BY BadKeeps
    <2>. QED BY <1>3, <2>1
  <1>4. /\ AbsentIn(s, n) => AbsentIn(Tail(s), n)
        /\ OnlyLast(s, n) => OnlyLast(Tail(s), n)
    BY TailKeeps
  <1>5. CASE x \in {<<Bad>> \o Tail(s), <<Bad, Bad>> \o Tail(s), <<Cut>> \o Tail(s)}
    BY <1>1, <1>3, <1>4, <1>5
  <1>6. CASE x \in {Tail(Tail(s)), <<Bad>> \o Tail(Tail(s))} /\ Len(s) # 1
    <2>1. Tail(s) # <<>>
      <3>1. Len(s) \in Nat \ {0} /\ Len(Tail(s)) = Len(s) - 1
        BY HeadTailProperties, EmptySeq
      <3>2. Len(Tail(s)) # 0
        BY <1>6, <3>1
      <3>. QED BY <3>2, EmptySeq
    <2>2. Tail(Tail(s)) \in Seq(S)
      BY <1>1, <2>1, HeadTailProperties
    <2>3. /\ AbsentIn(Tail(s), n) => AbsentIn(Tail(Tail(s)), n)
          /\ OnlyLast(Tail(s), n) => OnlyLast(Tail(Tail(s)), n)
      BY <1>1, <2>1, TailKeeps
    <2>4. CASE x = Tail(Tail(s))
      BY <1>4, <2>3, <2>4
    <2>5. CASE x = <<Bad>> \o Tail(Tail(s))
      BY <1>3, <1>4, <2>2, <2>3, <2>5
    <2>. QED BY <1>6, <2>4, <2>5
  <1>. QED BY <1>2, <1>5, <1>6 DEF Damage, AfterDamaged

-----------------------------------------------------------------------------
(* Steps of the emulator *)

LEMMA HeadOfLine ==
  ASSUME WireTypeOK, h2d # <<>>
  PROVE  /\ Head(h2d) \in Req \cup Damaged /\ Head(h2d) = h2d[1]
         /\ 1 \in 1 .. Len(h2d)
  <1>1. Len(h2d) \in Nat \ {0}
    BY EmptySeq DEF WireTypeOK
  <1>. QED BY <1>1, HeadTailProperties DEF WireTypeOK

LEMMA ReqNotDamaged == Req \cap Damaged = {}
  BY DamagedPayload DEF Req, ReqType

(* what a step of the emulator does to the line *)
LEMMA DevStepShape ==
  ASSUME DevStep
  PROVE  \/ /\ mode = "commit" /\ h2d' = h2d
            /\ d2h' = Append(d2h, Frame("Ok", "none"))
         \/ /\ h2d # <<>>
            /\ \/ h2d' = Tail(h2d)
               \/ h2d' \in AfterDamaged(h2d)
            /\ \/ d2h' = d2h
               \/ d2h' = d2h \o AtrFrames
               \/ \E t \in AnsType : d2h' = Append(d2h, Frame(t, "none"))
         \/ /\ h2d # <<>> /\ h2d' = Tail(h2d)
            /\ mode' = "resync1"
            /\ \E p \in Payload :
                 Head(h2d) = Frame("Resync", p) /\ d2h' = Append(d2h, Frame("Resync", p))
  <1>1. {"Resync", "Ok", "CardAbsent", "CardPresent", "CardEOD"} \subseteq AnsType
    BY DEF AnsType
  <1> USE <1>1 DEF Receive, ReceiveInvalid, Answer, EnterResync
  <1>2. CASE QueryStatus \/ DeactivateCard \/ ResetCard
    BY <1>2 DEF QueryStatus, DeactivateCard, ResetCard
  <1>3. CASE RefuseCommit \/ BeginCommit \/ EndCommit
    BY <1>3 DEF RefuseCommit, BeginCommit, EndCommit
  <1>4. CASE ReadComplete \/ ReadData
    BY <1>4 DEF ReadComplete, ReadData
  <1>5. ASSUME NEW p \in Payload, WriteData(p) \/ RefuseWrite(p)
        PROVE  /\ h2d # <<>> /\ h2d' = Tail(h2d)
               /\ \E t \in AnsType : d2h' = Append(d2h, Frame(t, "none"))
    BY <1>5 DEF WriteData, RefuseWrite
  <1>6. CASE LoseSync
    BY <1>6 DEF LoseSync
  <1>7. CASE ResyncEcho
    BY <1>7 DEF ResyncEcho
  <1>8. CASE ResyncDone
    BY <1>8 DEF ResyncDone
  <1>9. CASE ResyncRestart
    BY <1>9 DEF ResyncRestart
  <1>. QED
    BY <1>2, <1>3, <1>4, <1>5, <1>6, <1>7, <1>8, <1>9 DEF DevStep

LEMMA AtrAbsent ==
  ASSUME NEW S, Ans \subseteq S, NEW s \in Seq(S), NEW n \in Nonce, AbsentIn(s, n)
  PROVE  AbsentIn(s \o AtrFrames, n)
  <1>1. AtrFrames \in Seq(S) /\ AbsentIn(AtrFrames, n)
    <2>1. AtrFrames \in Seq(S)
      BY FrameTypes DEF AtrFrames, Payload, AnsType
    <2>2. n \notin {"atrlen", "part1", "part2"}
      BY WireAssumption
    <2>3. AbsentIn(AtrFrames, n)
      BY <2>2 DEF AtrFrames, Frame, AbsentIn
    <2>. QED BY <2>1, <2>3
  <1>. QED BY <1>1, PrefixKeeps DEF AbsentIn

LEMMA EmulatorKeepsControl ==
  ASSUME WireTypeOK, WaitControl, DevStep, UNCHANGED nonce
  PROVE  WaitControl'
  <1> USE DEF WireTypeOK
  <1>1. nonce \in Nonce /\ nonce # "none" /\ nonce' = nonce
    BY NonceNotNone DEF WaitControl
  <1>2. ASSUME NEW t \in AnsType, AbsentIn(d2h, nonce)
        PROVE  AbsentIn(Append(d2h, Frame(t, "none")), nonce)
    <2>1. Frame(t, "none") \in Ans \cup Damaged /\ Frame(t, "none").p # nonce
      BY <1>1, FrameTypes DEF Payload, Frame
    <2>. QED BY <1>2, <2>1, AppendKeeps
  <1>3. CASE OnlyLast(h2d, nonce) /\ AbsentIn(d2h, nonce)
    <2>1. h2d # <<>> => /\ OnlyLast(Tail(h2d), nonce)
                        /\ \A x \in AfterDamaged(h2d) : OnlyLast(x, nonce)
      BY <1>1, <1>3, TailKeeps, DamageKeeps
    <2>2. AbsentIn(d2h \o AtrFrames, nonce)
      BY <1>1, <1>3, AtrAbsent
    <2>3. CASE OnlyLast(h2d', nonce) /\ AbsentIn(d2h', nonce)
      BY <1>1, <2>3 DEF WaitControl
    <2>4. ASSUME h2d # <<>>, h2d' = Tail(h2d), mode' = "resync1", NEW p \in Payload,
                 Head(h2d) = Frame("Resync", p), d2h' = Append(d2h, Frame("Resync", p))
          PROVE  WaitControl'
      <3>1. Frame("Resync", p) \in Ans \cup Damaged /\ Frame("Resync", p).p = p
        BY FrameTypes DEF AnsType, Frame
      <3>2. CASE p = nonce
        <4>1. h2d' = <<>>
          BY <1>3, <2>4, <3>1, <3>2, TailKeeps
        <4>2. OnlyLast(d2h', nonce)
          BY <1>3, <2>4, <3>1, AppendKeeps
        <4>. QED BY <1>1, <2>4, <4>1, <4>2 DEF WaitControl
      <3>3. CASE p # nonce
        BY <1>3, <2>1, <2>3, <2>4, <3>1, <3>3, AppendKeeps
      <3>. QED BY <3>2, <3>3
    <2>5. {"Ok"} \subseteq AnsType
      BY DEF AnsType
    <2>. QED
      BY <1>2, <1>3, <2>1, <2>2, <2>3, <2>4, <2>5, DevStepShape
  <1>4. CASE h2d = <<>> /\ mode = "resync1" /\ OnlyLast(d2h, nonce)
    BY <1>4, DevStepShape
  <1>. QED BY <1>3, <1>4 DEF WaitControl

(* what the emulator does to something it cannot decode *)
LEMMA DevStepOnDamaged ==
  ASSUME DevStep, h2d = <<>> \/ Head(h2d) \in Damaged, mode # "commit"
  PROVE  /\ h2d # <<>> /\ h2d' \in AfterDamaged(h2d)
         /\ d2h' = Append(d2h, Frame("Resync", "none"))
         /\ mode' = "resync0"
  <1>1. ASSUME NEW r, r.t \notin {"bad", "cut"} PROVE ~Receive(r)
    BY <1>1, DamagedPayload DEF Receive
  <1>2. \A t \in ReqType : \A p : Frame(t, p).t \notin {"bad", "cut"}
    BY DEF Frame, ReqType
  <1>3. \A r \in Req : r.t \notin {"bad", "cut"}
    BY DEF Req, ReqType
  <1>4. ~QueryStatus /\ ~DeactivateCard /\ ~ResetCard /\ ~RefuseCommit /\ ~BeginCommit
        /\ ~ReadComplete /\ ~ReadData /\ ~ResyncEcho /\ ~ResyncDone /\ ~EndCommit
    BY <1>1, <1>2 DEF QueryStatus, DeactivateCard, ResetCard, RefuseCommit, BeginCommit,
         ReadComplete, ReadData, ResyncEcho, ResyncDone, EndCommit, ReqType
  <1>5. \A p : ~WriteData(p) /\ ~RefuseWrite(p)
    BY <1>1, <1>2 DEF WriteData, RefuseWrite, ReqType
  <1>6. LoseSync \/ ResyncRestart
    BY <1>4, <1>5 DEF DevStep
  <1>7. ReceiveInvalid
    BY <1>1, <1>3, <1>6 DEF LoseSync, ResyncRestart
  <1>. QED BY <1>6, <1>7 DEF LoseSync, ResyncRestart, ReceiveInvalid, EnterResync, Answer

(* the members of a line after damage are old members or damaged ones *)
LEMMA DamageMembers ==
  ASSUME NEW S, Damaged \subseteq S, NEW s \in Seq(S), s # <<>>, NEW P,
         NEW x \in Damage(s) \cup AfterDamaged(s),
         \A i \in 1 .. Len(s) : s[i] \in P, Damaged \subseteq P
  PROVE  \A i \in 1 .. Len(x) : x[i] \in P
  <1>1. s \in Seq(P)
    <2>1. Len(s) \in Nat /\ s \in [1 .. Len(s) -> S]
      BY LenProperties
    <2>2. s \in [1 .. Len(s) -> P]
      BY <2>1
    <2>. QED BY <2>1, <2>2, SeqDef
  <1>2. x \in Seq(P)
    BY <1>1, DamageType, AfterDamagedType
  <1>. QED BY <1>2, ElementOfSeq

LEMMA EmulatorKeepsOk ==
  ASSUME WireTypeOK, WaitOk, DevStep
  PROVE  WaitOk'
  <1> USE DEF WireTypeOK
  <1>1. CASE h2d = <<Frame("ResyncComplete", "none")>> /\ d2h = <<>> /\ mode = "resync1"
    <2>1. Head(h2d) = Frame("ResyncComplete", "none") /\ Tail(h2d) = <<>> /\ h2d # <<>>
      BY <1>1
    <2>2. Head(h2d).t = "ResyncComplete"
      BY <2>1 DEF Frame
    <2>3. Head(h2d) \notin Damaged
      BY <2>2, DamagedPayload
    <2>4. ResyncEcho \/ ResyncDone \/ ResyncRestart
      BY <1>1 DEF DevStep, QueryStatus, DeactivateCard, ResetCard, RefuseCommit, BeginCommit,
         EndCommit, ReadComplete, ReadData, WriteData, RefuseWrite, LoseSync
    <2>5. ~ResyncEcho
      BY <2>2 DEF ResyncEcho, Receive, Frame
    <2>6. ~ResyncRestart
      BY <1>1, <2>2, <2>3 DEF ResyncRestart, Receive, ReceiveInvalid
    <2>7. h2d' = <<>> /\ d2h' = Append(<<>>, Frame("Ok", "none")) /\ mode' = "loop"
      BY <1>1, <2>1, <2>4, <2>5, <2>6 DEF ResyncDone, Receive, Answer
    <2>8. d2h' = <<Frame("Ok", "none")>>
      BY <2>7
    <2>. QED BY <2>7, <2>8 DEF WaitOk
  <1>2. CASE h2d = <<>> /\ d2h = <<Frame("Ok", "none")>> /\ mode = "loop"
    BY <1>2, DevStepOnDamaged
  <1>3. CASE /\ \A i \in 1 .. Len(h2d) : h2d[i] \in Damaged
             /\ \A i \in 1 .. Len(d2h) : d2h[i] # Frame("Ok", "none")
             /\ mode # "commit"
    <2>1. h2d = <<>> \/ Head(h2d) \in Damaged
      BY <1>3, HeadOfLine
    <2>2. /\ h2d # <<>> /\ h2d' \in AfterDamaged(h2d)
          /\ d2h' = Append(d2h, Frame("Resync", "none"))
          /\ mode' = "resync0"
      BY <1>3, <2>1, DevStepOnDamaged
    <2>3. \A i \in 1 .. Len(h2d') : h2d'[i] \in Damaged
      BY <1>3, <2>2, DamageMembers
    <2>4. Frame("Resync", "none") \in Ans \cup Damaged /\ Frame("Resync", "none") # Frame("Ok", "none")
      BY FrameTypes DEF AnsType, Payload, Frame
    <2>5. \A i \in 1 .. Len(d2h') : d2h'[i] # Frame("Ok", "none")
      BY <1>3, <2>2, <2>4, AppendProperties
    <2>. QED BY <2>2, <2>3, <2>5 DEF WaitOk
  <1>. QED BY <1>1, <1>2, <1>3 DEF WaitOk

-----------------------------------------------------------------------------
(* Faults of the line *)

LEMMA FaultKeepsControl ==
  ASSUME WireTypeOK, WaitControl, DamageRequest \/ DamageAnswer, UNCHANGED <<mode, nonce>>
  PROVE  WaitControl'
  <1> USE DEF WireTypeOK
  <1>1. nonce \in Nonce
    BY DEF WaitControl
  <1>2. CASE DamageRequest
    BY <1>1, <1>2, DamageKeeps DEF DamageRequest, WaitControl
  <1>3. CASE DamageAnswer
    BY <1>1, <1>3, DamageKeeps DEF DamageAnswer, WaitControl
  <1>. QED BY <1>2, <1>3

LEMMA DamageOfOne ==
  ASSUME NEW s, Tail(s) = <<>>, NEW x \in Damage(s)
  PROVE  x \in {<<>>, <<Bad>>, <<Bad, Bad>>, <<Cut>>}
  <1>1. <<Bad>> \in Seq(Damaged) /\ <<Bad, Bad>> \in Seq(Damaged) /\ <<Cut>> \in Seq(Damaged)
    BY DamagedType
  <1>2. <<Bad>> \o <<>> = <<Bad>> /\ <<Bad, Bad>> \o <<>> = <<Bad, Bad>> /\ <<Cut>> \o <<>> = <<Cut>>
    BY <1>1, ConcatEmptySeq
  <1>. QED BY <1>2 DEF Damage

LEMMA FaultKeepsOk ==
  ASSUME WireTypeOK, WaitOk, DamageRequest \/ DamageAnswer, UNCHANGED mode
  PROVE  WaitOk'
  <1> USE DEF WireTypeOK
  <1> DEFINE NotOk == (Ans \cup Damaged) \ {Frame("Ok", "none")}
  <1>0. Damaged \subseteq NotOk
    BY DamagedPayload DEF Frame
  <1>1. \A i \in 1 .. Len(<<>>) : FALSE
    OBVIOUS
  <1>2. CASE DamageRequest
    <2>1. CASE h2d = <<Frame("ResyncComplete", "none")>> /\ d2h = <<>> /\ mode = "resync1"
      <3>1. Tail(h2d) = <<>>
        BY <2>1
      <3>2. h2d' \in {<<>>, <<Bad>>, <<Bad, Bad>>, <<Cut>>}
        BY <1>2, <3>1, DamageOfOne DEF DamageRequest
      <3>3. \A i \in 1 .. Len(h2d') : h2d'[i] \in Damaged
        BY <3>2, DamagedType
      <3>4. d2h' = <<>>
        BY <1>2, <2>1 DEF DamageRequest
      <3>. QED BY <1>1, <2>1, <3>3, <3>4 DEF WaitOk
    <2>2. CASE /\ \A i \in 1 .. Len(h2d) : h2d[i] \in Damaged
               /\ \A i \in 1 .. Len(d2h) : d2h[i] # Frame("Ok", "none")
               /\ mode # "commit"
      <3>1. \A i \in 1 .. Len(h2d') : h2d'[i] \in Damaged
        BY <1>2, <2>2, DamageMembers DEF DamageRequest
      <3>. QED BY <1>2, <2>2, <3>1 DEF DamageRequest, WaitOk
    <2>. QED BY <1>2, <2>1, <2>2 DEF DamageRequest, WaitOk
  <1>3. CASE DamageAnswer
    <2>1. CASE h2d = <<>> /\ d2h = <<Frame("Ok", "none")>> /\ mode = "loop"
      <3>1. Tail(d2h) = <<>>
        BY <2>1
      <3>2. d2h' \in {<<>>, <<Bad>>, <<Bad, Bad>>, <<Cut>>}
        BY <1>3, <3>1, DamageOfOne DEF DamageAnswer
      <3>3. \A i \in 1 .. Len(d2h') : d2h'[i] # Frame("Ok", "none")
        BY <1>0, <3>2, DamagedType
      <3>4. h2d' = <<>>
        BY <1>3, <2>1 DEF DamageAnswer
      <3>. QED BY <1>1, <2>1, <3>3, <3>4 DEF WaitOk
    <2>2. CASE /\ \A i \in 1 .. Len(h2d) : h2d[i] \in Damaged
               /\ \A i \in 1 .. Len(d2h) : d2h[i] # Frame("Ok", "none")
               /\ mode # "commit"
      <3>1. \A i \in 1 .. Len(d2h) : d2h[i] \in NotOk
        BY <2>2, ElementOfSeq
      <3>2. \A i \in 1 .. Len(d2h') : d2h'[i] \in NotOk
        BY <1>0, <1>3, <3>1, DamageMembers DEF DamageAnswer
      <3>. QED BY <1>3, <2>2, <3>2 DEF DamageAnswer, WaitOk
    <2>. QED BY <1>3, <2>1, <2>2 DEF DamageAnswer, WaitOk
  <1>. QED BY <1>2, <1>3

-----------------------------------------------------------------------------
(* Steps of the host *)

LEMMA NextTryEnds ==
  ASSUME NextTry
  PROVE  pc' = "rs1" \/ sync' = "lost"
  BY DEF NextTry, ResyncFailed

LEMMA DriverKeepsHandshake ==
  ASSUME FreshNonce, WireTypeOK, HandshakeInv, HostStep, UNCHANGED mode
  PROVE  HandshakeInv'
  <1> USE DEF WireTypeOK
  <1>1. CASE SendRequest \/ RejectAnswer \/ AcceptWrite
    BY <1>1 DEF SendRequest, RejectAnswer, CallResync, AcceptWrite, HandshakeInv
  <1>2. CASE AcceptLast \/ AcceptAtrLength \/ AcceptAtrPart
    BY <1>2 DEF AcceptLast, AcceptAtrLength, AcceptAtrPart, Accepted, Return, HandshakeInv
  <1>3. CASE FirstResync \/ SecondResync \/ SecondResyncAnswer
    BY <1>3 DEF FirstResync, SecondResync, SecondResyncAnswer, Goto, HandshakeInv
  <1>4. CASE Drain
    BY <1>4, NextTryEnds DEF Drain, HandshakeInv
  <1>5. CASE ResyncWrongAnswer
    BY <1>5, NextTryEnds DEF ResyncWrongAnswer, HandshakeInv
  <1>6. CASE ResyncCompleteAnswer
    BY <1>6 DEF ResyncCompleteAnswer, ResyncSucceeded, Return, HandshakeInv
  <1>7. CASE ControlSequence
    <2>1. PICK n \in Nonce : n \notin InFlight /\ nonce' = n /\ h2d' = Append(h2d, Frame("Resync", n))
      BY <1>7 DEF ControlSequence, Put
    <2>2. AbsentIn(h2d, n) /\ AbsentIn(d2h, n)
      BY <2>1, LenProperties DEF InFlight, AbsentIn
    <2>3. Frame("Resync", n) \in Req \cup Damaged
      BY FrameTypes DEF ReqType, Payload
    <2>4. OnlyLast(h2d', n)
      BY <2>1, <2>2, <2>3, AppendKeeps
    <2>5. d2h' = d2h /\ pc' = "ctlans"
      BY <1>7 DEF ControlSequence, Goto
    <2>. QED BY <2>1, <2>2, <2>4, <2>5 DEF HandshakeInv, WaitControl
  <1>8. CASE ControlSequenceAnswer
    <2>1. /\ pc = "ctlans" /\ pc' = "cmpl" /\ UNCHANGED <<sync, h2d, nonce>>
          /\ d2h # <<>> /\ Head(d2h) = Frame("Resync", nonce) /\ d2h' = Tail(d2h)
      BY <1>8 DEF ControlSequenceAnswer, Goto, Get
    <2>2. SUFFICES ASSUME sync = "trying" PROVE BeforeComplete'
      BY <2>1 DEF HandshakeInv
    <2>3. WaitControl
      BY <2>1, <2>2 DEF HandshakeInv
    <2>4. Head(d2h).p = nonce /\ Head(d2h) = d2h[1] /\ 1 \in 1 .. Len(d2h)
      <3>1. Len(d2h) \in Nat \ {0}
        BY <2>1, EmptySeq
      <3>. QED BY <2>1, <3>1 DEF Frame
    <2>5. ~AbsentIn(d2h, nonce)
      BY <2>4 DEF AbsentIn
    <2>6. h2d = <<>> /\ mode = "resync1" /\ OnlyLast(d2h, nonce)
      BY <2>3, <2>5 DEF WaitControl
    <2>7. d2h' = <<>>
      BY <2>1, <2>4, <2>6, TailKeeps
    <2>. QED BY <2>1, <2>6, <2>7 DEF BeforeComplete
  <1>9. CASE SendResyncComplete
    <2>1. /\ pc = "cmpl" /\ pc' = "cmplans" /\ UNCHANGED <<sync, d2h, nonce>>
          /\ h2d' = Append(h2d, Frame("ResyncComplete", "none"))
      BY <1>9 DEF SendResyncComplete, Goto, Put
    <2>. QED BY <2>1 DEF HandshakeInv, BeforeComplete, WaitOk
  <1>. QED
    BY <1>1, <1>2, <1>3, <1>4, <1>5, <1>6, <1>7, <1>8, <1>9 DEF HostStep

(* When the Ok that ends resync() is received, nothing else is on the line
   and the emulator is in loop(): for every timing of the two programs,
   every number of tries and every pattern of lost and damaged frames,
   write errors and crashes of the driver, as long as the emulator did not
   reboot within the try and control sequences are fresh. *)
THEOREM ResyncSound ==
  ASSUME FreshNonce
  PROVE  Spec => []HandshakeSound
  <1>1. Init => HandshakeInv
    BY DEF Init, HostInit, HandshakeInv
  <1>2. TypeOK /\ HandshakeInv /\ [Next]_vars => HandshakeInv'
    <2> SUFFICES ASSUME TypeOK, HandshakeInv, [Next]_vars PROVE HandshakeInv'
      OBVIOUS
    <2>0. WireTypeOK
      BY DEF TypeOK
    <2>1. CASE Emulator
      BY <2>0, <2>1, EmulatorKeepsControl, EmulatorKeepsOk, DevStepOnDamaged
      DEF Emulator, host, HandshakeInv, BeforeComplete
    <2>2. CASE Driver
      BY <2>0, <2>2, DriverKeepsHandshake DEF Driver, dev
    <2>3. CASE Timeout
      BY <2>3, NextTryEnds
      DEF Timeout, HostTimeout, AnswerTimeout, CallResync, DrainSilence, Goto,
          ResyncTimeout, HandshakeInv
    <2>4. CASE Client
      BY <2>4 DEF Client, Open, Call, HandshakeInv
    <2>5. CASE WireFault
      BY <2>0, <2>5, FaultKeepsControl, FaultKeepsOk
      DEF WireFault, DamageRequest, DamageAnswer, host, dev, HandshakeInv, BeforeComplete
    <2>6. CASE WriteFault
      BY <2>6, NextTryEnds
      DEF WriteFault, SendRequestFails, CallResync, ResyncPutFails, HandshakeInv
    <2>7. CASE HostDies
      BY <2>7 DEF HostDies, HostCrash, HandshakeInv
    <2>8. CASE EmulatorReboots
      BY <2>8 DEF EmulatorReboots, HandshakeInv
    <2>9. CASE UNCHANGED vars
      BY <2>9 DEF vars, wire, dev, host, HandshakeInv, WaitControl, BeforeComplete, WaitOk
    <2>. QED
      BY <2>1, <2>2, <2>3, <2>4, <2>5, <2>6, <2>7, <2>8, <2>9 DEF Next
  <1>3. TypeOK /\ HandshakeInv => HandshakeSound
    <2> SUFFICES ASSUME TypeOK, HandshakeInv, pc = "cmplans", sync = "trying",
                        d2h # <<>>, Head(d2h) = Frame("Ok", "none")
                 PROVE  h2d = <<>> /\ Tail(d2h) = <<>> /\ mode = "loop"
      BY DEF HandshakeSound
    <2>1. WaitOk
      BY DEF HandshakeInv
    <2>2. Head(d2h) = d2h[1] /\ 1 \in 1 .. Len(d2h)
      <3>1. Len(d2h) \in Nat \ {0}
        BY EmptySeq DEF TypeOK, WireTypeOK
      <3>. QED BY <3>1 DEF TypeOK, WireTypeOK
    <2>3. h2d = <<>> /\ d2h = <<Frame("Ok", "none")>> /\ mode = "loop"
      BY <2>1, <2>2 DEF WaitOk
    <2>4. Tail(<<Frame("Ok", "none")>>) = <<>>
      OBVIOUS
    <2>. QED BY <2>3, <2>4
  <1>. QED BY <1>1, <1>2, <1>3, TypeCorrect, PTL DEF Spec

-----------------------------------------------------------------------------
(* A line in sync *)

(* The loop that is running belongs to the function that was called. *)
OpOfStage ==
    /\ pc = "closed" => op = "open" /\ stage = "none"
    /\ pc \notin {"idle", "closed"} =>
         /\ op = "open" => stage = "none" /\ pc \notin {"cmd", "ans"}
         /\ op = "reset" => stage \in {"atrlen", "atr"}
         /\ op = "send" => stage \in {"len", "data", "commit"}
         /\ op = "recv" => stage \in {"read", "readdata", "readcomplete"}
         /\ op \in {"status", "deactivate"} => stage = op

AtrEmpty == pc # "idle" /\ ~ (pc = "ans" /\ stage = "atr") => atr = <<>>

Part1 == Frame("CardPresent", "part1")
Part2 == Frame("CardPresent", "part2")

(* What may be on the line while the host waits for an answer: its request, *)
Asking ==
    /\ d2h = <<>> /\ mode = "loop" /\ stage # "atr"
    /\ \E f \in Req :
         /\ h2d = <<f>> /\ f.t \notin {"Resync", "ResyncComplete"}
         /\ stage = "status" => f = Frame("CardStatus", "none")
         /\ stage = "deactivate" => f = Frame("CardStatus", "off")
         /\ stage = "atrlen" <=> f = Frame("CardStatus", "on")
         /\ stage = "commit" <=> f = Frame("CardCommit", "none")

(* nothing while Commit() runs, *)
Committing == stage = "commit" /\ mode = "commit" /\ h2d = <<>> /\ d2h = <<>>

(* the answer to it, *)
Truthful(f) ==
    /\ stage = "status" /\ f.t = "CardPresent" => card = "present"
    /\ stage \in {"status", "deactivate"} /\ f.t = "CardAbsent" => card = "absent"
    /\ stage = "commit" /\ f.t = "Ok" => committed

Replied ==
    /\ h2d = <<>> /\ mode = "loop" /\ stage \notin {"atrlen", "atr"}
    /\ \E f \in Ans : d2h = <<f>> /\ Truthful(f)

(* something undecodable in front of what is left of the answer, *)
Garbled == h2d = <<>> /\ mode = "loop" /\ d2h # <<>> /\ Head(d2h) \in Damaged

(* nothing that could still become an answer, *)
Unusable == Damaged \cup {Frame("Resync", "none")}

Mute ==
    /\ \A i \in 1 .. Len(h2d) : h2d[i] \in Damaged
    /\ \A i \in 1 .. Len(d2h) : d2h[i] \in Unusable
    /\ mode # "commit"

(* or the rest of the answer to a reset, of which frames may be missing. *)
AtrComing ==
    /\ h2d = <<>> /\ mode = "loop" /\ card = "present"
    /\ \/ stage = "atrlen" /\ d2h \in {AtrFrames, <<Part1, Part2>>, <<Part2>>, <<>>}
       \/ stage = "atr" /\ d2h = <<Part1, Part2>> /\ rem = 21 /\ atr = <<>>
       \/ /\ stage = "atr" /\ d2h = <<Part2>>
          /\ rem \in {21, 59} \/ (rem = 7 /\ atr = <<"part1">>)
       \/ stage = "atr" /\ d2h = <<>>

Answering == Asking \/ Committing \/ Replied \/ Garbled \/ Mute \/ AtrComing

HeldInv ==
    sync = "held" =>
        /\ pc \in {"idle", "cmd"} => Clean
        /\ pc = "ans" => Answering
        /\ ReportIsTrue /\ SendCommitted

SyncInv == OpOfStage /\ AtrEmpty /\ HeldInv

LEMMA AnsNotDamaged == Ans \cap Damaged = {} /\ Frame("Resync", "none") \in Ans
  BY DamagedPayload, FrameTypes DEF Ans, AnsType, Payload

LEMMA OneFrame ==
  ASSUME NEW f
  PROVE  Head(<<f>>) = f /\ Tail(<<f>>) = <<>> /\ <<f>> # <<>> /\ Append(<<>>, f) = <<f>>
  OBVIOUS

(* An emulator in loop() with an empty line waits. *)
LEMMA LoopWaits == ASSUME h2d = <<>>, mode = "loop" PROVE ~ DevStep
  BY DevStepOnDamaged

LEMMA EmulatorAnswers ==
  ASSUME WireTypeOK, DevTypeOK, Asking, DevStep, UNCHANGED <<stage, committed>>
  PROVE  Committing' \/ Replied' \/ Mute' \/ AtrComing'
  <1>1. PICK f \in Req :
          /\ h2d = <<f>> /\ f.t \notin {"Resync", "ResyncComplete"}
          /\ stage = "status" => f = Frame("CardStatus", "none")
          /\ stage = "deactivate" => f = Frame("CardStatus", "off")
          /\ stage = "atrlen" <=> f = Frame("CardStatus", "on")
          /\ stage = "commit" <=> f = Frame("CardCommit", "none")
    BY DEF Asking
  <1>2. /\ Head(h2d) = f /\ Tail(h2d) = <<>> /\ h2d # <<>> /\ d2h = <<>> /\ mode = "loop"
        /\ stage # "atr"
    BY <1>1, OneFrame DEF Asking
  <1>3. f \notin Damaged
    BY ReqNotDamaged
  <1>4. \A t, u, p, q : Frame(t, p) = Frame(u, q) => t = u /\ p = q
    BY DEF Frame
  <1>5. ASSUME NEW r, Receive(r) PROVE r = f /\ h2d' = <<>>
    BY <1>2, <1>5 DEF Receive
  <1>6. ~ ReceiveInvalid
    BY <1>2, <1>3 DEF ReceiveInvalid
  <1>7. ASSUME NEW t \in AnsType, h2d' = <<>>, Answer(t, "none"), mode' = "loop",
               stage \notin {"atrlen", "atr"}, Truthful(Frame(t, "none"))'
        PROVE  Replied'
    <2>1. d2h' = <<Frame(t, "none")>> /\ Frame(t, "none") \in Ans
      BY <1>2, <1>7, OneFrame, FrameTypes DEF Answer, Payload
    <2>. QED BY <1>7, <2>1 DEF Replied
  <1>8. ASSUME h2d' = <<>>, EnterResync PROVE Mute'
    <2>1. d2h' = <<Frame("Resync", "none")>> /\ mode' = "resync0"
      BY <1>2, <1>8, OneFrame DEF EnterResync, Answer
    <2>2. /\ \A i \in 1 .. Len(<<Frame("Resync", "none")>>) : <<Frame("Resync", "none")>>[i] \in Unusable
          /\ \A i \in 1 .. Len(<<>>) : <<>>[i] \in Damaged
      BY DEF Unusable
    <2>. QED BY <1>8, <2>1, <2>2 DEF Mute
  <1> USE DEF dev
  <1>9. {"Resync", "Ok", "CardAbsent", "CardPresent", "CardEOD"} \subseteq AnsType
    BY DEF AnsType
  <1>10. CASE QueryStatus
    <2>1. f = Frame("CardStatus", "none") /\ h2d' = <<>> /\ mode' = "loop"
      BY <1>2, <1>5, <1>10 DEF QueryStatus
    <2>2. stage \notin {"atrlen", "atr", "commit"}
      BY <1>1, <1>2, <1>4, <2>1
    <2>3. CASE card = "present"
      <3>1. Truthful(Frame("CardPresent", "none"))'
        BY <1>10, <2>2, <2>3 DEF QueryStatus, Truthful, Frame
      <3>. QED BY <1>7, <1>9, <1>10, <2>1, <2>2, <2>3, <3>1 DEF QueryStatus
    <2>4. CASE card # "present"
      <3>1. Truthful(Frame("CardAbsent", "none"))'
        BY <1>10, <2>2, <2>4 DEF QueryStatus, Truthful, Frame, DevTypeOK
      <3>. QED BY <1>7, <1>9, <1>10, <2>1, <2>2, <2>4, <3>1 DEF QueryStatus
    <2>. QED BY <2>3, <2>4
  <1>11. CASE DeactivateCard
    <2>1. f = Frame("CardStatus", "off") /\ h2d' = <<>> /\ mode' = "loop" /\ card' = "absent"
      BY <1>2, <1>5, <1>11 DEF DeactivateCard
    <2>2. stage \notin {"atrlen", "atr", "commit"}
      BY <1>1, <1>2, <1>4, <2>1
    <2>3. Truthful(Frame("CardAbsent", "none"))'
      BY <2>1, <2>2 DEF Truthful, Frame
    <2>. QED BY <1>7, <1>9, <1>11, <2>1, <2>2, <2>3 DEF DeactivateCard
  <1>12. CASE ResetCard
    <2>1. f = Frame("CardStatus", "on") /\ h2d' = <<>> /\ mode' = "loop" /\ card' = "present"
      BY <1>2, <1>5, <1>12 DEF ResetCard
    <2>2. d2h' = AtrFrames
      BY <1>2, <1>12 DEF ResetCard, AtrFrames
    <2>. QED BY <1>1, <2>1, <2>2 DEF AtrComing
  <1>13. CASE RefuseCommit
    BY <1>5, <1>8, <1>13 DEF RefuseCommit
  <1>14. CASE BeginCommit
    <2>1. f = Frame("CardCommit", "none") /\ h2d' = <<>> /\ mode' = "commit" /\ d2h' = <<>>
      BY <1>2, <1>5, <1>14 DEF BeginCommit
    <2>. QED BY <1>1, <2>1 DEF Committing
  <1>15. ASSUME NEW t \in ReqType, NEW p \in Payload, NEW a \in {"Ok", "CardEOD"}, t # "CardCommit",
                t # "CardStatus", Receive(Frame(t, p)), Answer(a, "none"), mode' = mode
         PROVE  Replied'
    <2>1. f = Frame(t, p) /\ h2d' = <<>>
      BY <1>5, <1>15
    <2>2. stage \notin {"atrlen", "atr", "commit"}
      BY <1>1, <1>2, <1>4, <1>15, <2>1
    <2>3. Truthful(Frame(a, "none"))'
      BY <1>15, <2>2 DEF Truthful, Frame
    <2>4. a \in AnsType
      BY <1>9
    <2>. QED BY <1>2, <1>7, <1>15, <2>1, <2>2, <2>3, <2>4
  <1>16. CASE ReadComplete \/ ReadData
    <2>1. {"CardReadComplete", "CardRead"} \subseteq ReqType /\ {"none", "lenN"} \subseteq Payload
      BY DEF ReqType, Payload
    <2>2. CASE ReadComplete
      BY <1>15, <2>1, <2>2 DEF ReadComplete
    <2>3. CASE ReadData
      BY <1>15, <2>1, <2>3 DEF ReadData
    <2>. QED BY <1>16, <2>2, <2>3
  <1>17. ASSUME NEW p \in Payload, WriteData(p) PROVE Replied'
    <2>1. "CardSend" \in ReqType
      BY DEF ReqType
    <2>. QED BY <1>15, <1>17, <2>1 DEF WriteData
  <1>18. ASSUME NEW p \in Payload, RefuseWrite(p) PROVE Mute'
    BY <1>5, <1>8, <1>18 DEF RefuseWrite
  <1>19. ~ LoseSync
    BY <1>1, <1>5, <1>6 DEF LoseSync
  <1>20. ~ EndCommit /\ ~ ResyncEcho /\ ~ ResyncDone /\ ~ ResyncRestart
    BY <1>2 DEF EndCommit, ResyncEcho, ResyncDone, ResyncRestart, InResync
  <1>. QED
    BY <1>10, <1>11, <1>12, <1>13, <1>14, <1>16, <1>17, <1>18, <1>19, <1>20 DEF DevStep

(* A line on which no answer can come any more stays one. *)
LEMMA EmulatorKeepsMute ==
  ASSUME WireTypeOK, Mute, DevStep
  PROVE  Mute'
  <1> USE DEF WireTypeOK
  <1>1. h2d = <<>> \/ Head(h2d) \in Damaged
    BY HeadOfLine DEF Mute
  <1>2. /\ h2d # <<>> /\ h2d' \in AfterDamaged(h2d)
        /\ d2h' = Append(d2h, Frame("Resync", "none"))
        /\ mode' = "resync0"
    BY <1>1, DevStepOnDamaged DEF Mute
  <1>3. \A i \in 1 .. Len(h2d') : h2d'[i] \in Damaged
    BY <1>2, DamageMembers DEF Mute
  <1>4. Frame("Resync", "none") \in Ans \cup Damaged /\ Frame("Resync", "none") \in Unusable
    BY AnsNotDamaged DEF Unusable
  <1>5. \A i \in 1 .. Len(d2h') : d2h'[i] \in Unusable
    <2>1. /\ Len(d2h') = Len(d2h) + 1 /\ Len(d2h) \in Nat
          /\ \A i \in 1 .. Len(d2h) : d2h'[i] = d2h[i]
          /\ d2h'[Len(d2h) + 1] = Frame("Resync", "none")
      BY <1>2, <1>4, AppendProperties, LenProperties
    <2>2. \A i \in 1 .. Len(d2h) : d2h[i] \in Unusable
      BY DEF Mute
    <2>3. \A i \in 1 .. Len(d2h) + 1 : i \in 1 .. Len(d2h) \/ i = Len(d2h) + 1
      BY <2>1
    <2>. QED BY <1>4, <2>1, <2>2, <2>3
  <1>. QED BY <1>2, <1>3, <1>5 DEF Mute

LEMMA EmulatorKeepsAnswering ==
  ASSUME WireTypeOK, DevTypeOK, Answering, Emulator
  PROVE  Answering'
  <1>1. DevStep /\ UNCHANGED stage
    BY DEF Emulator, host
  <1>2. CASE Asking
    <2>1. UNCHANGED committed
      BY <1>2 DEF Asking, Emulator
    <2>. QED BY <1>1, <1>2, <2>1, EmulatorAnswers DEF Answering
  <1>3. CASE Committing
    <2>1. EndCommit
      BY <1>1, <1>3 DEF Committing, DevStep, QueryStatus, DeactivateCard, ResetCard,
         RefuseCommit, BeginCommit, ReadComplete, ReadData, WriteData, RefuseWrite,
         LoseSync, ResyncEcho, ResyncDone, ResyncRestart, InResync
    <2>2. h2d' = <<>> /\ d2h' = <<Frame("Ok", "none")>> /\ mode' = "loop" /\ stage' = "commit"
      BY <1>1, <1>3, <2>1, OneFrame DEF Committing, EndCommit, Answer
    <2>3. committed' = TRUE
      BY <1>3 DEF Committing, Emulator
    <2>4. Frame("Ok", "none") \in Ans /\ Frame("Ok", "none").t = "Ok"
      BY FrameTypes DEF AnsType, Payload, Frame
    <2>5. Truthful(Frame("Ok", "none"))'
      BY <2>2, <2>3 DEF Truthful
    <2>. QED BY <2>2, <2>4, <2>5 DEF Replied, Answering
  <1>4. CASE Replied \/ Garbled \/ AtrComing
    BY <1>1, <1>4, LoopWaits DEF Replied, Garbled, AtrComing
  <1>5. CASE Mute
    BY <1>1, <1>5, EmulatorKeepsMute DEF Answering
  <1>. QED BY <1>2, <1>3, <1>4, <1>5 DEF Answering

LEMMA FaultKeepsMute ==
  ASSUME WireTypeOK, Mute, DamageRequest \/ DamageAnswer, UNCHANGED mode
  PROVE  Mute'
  <1> USE DEF WireTypeOK
  <1>1. Damaged \subseteq Unusable
    BY DEF Unusable
  <1>2. CASE DamageRequest
    <2>1. \A i \in 1 .. Len(h2d') : h2d'[i] \in Damaged
      BY <1>2, DamageMembers DEF DamageRequest, Mute
    <2>. QED BY <1>2, <2>1 DEF Mute, DamageRequest
  <1>3. CASE DamageAnswer
    <2>1. \A i \in 1 .. Len(d2h') : d2h'[i] \in Unusable
      BY <1>1, <1>3, DamageMembers DEF DamageAnswer, Mute
    <2>. QED BY <1>3, <2>1 DEF Mute, DamageAnswer
  <1>. QED BY <1>2, <1>3

(* the frames of the answer to a reset, one by one *)
LEMMA AtrFrameSteps ==
  /\ AtrFrames = <<Frame("CardPresent", "atrlen"), Part1, Part2>>
  /\ Head(AtrFrames) = Frame("CardPresent", "atrlen") /\ Tail(AtrFrames) = <<Part1, Part2>>
  /\ Head(<<Part1, Part2>>) = Part1 /\ Tail(<<Part1, Part2>>) = <<Part2>>
  /\ Head(<<Part2>>) = Part2 /\ Tail(<<Part2>>) = <<>>
  BY DEF AtrFrames, Part1, Part2

LEMMA DamagedHead ==
  ASSUME NEW S, NEW t \in Seq(S), NEW b \in Damaged, Damaged \subseteq S
  PROVE  /\ <<b>> \o t # <<>> /\ Head(<<b>> \o t) \in Damaged
         /\ <<b, b>> \o t # <<>> /\ Head(<<b, b>> \o t) \in Damaged
  <1>1. ASSUME NEW d \in Seq(S), Len(d) > 0, d[1] \in Damaged
        PROVE  d \o t # <<>> /\ Head(d \o t) \in Damaged
    <2>1. /\ d \o t \in Seq(S) /\ Len(d \o t) = Len(d) + Len(t)
          /\ \A i \in 1 .. Len(d) + Len(t) :
                (d \o t)[i] = IF i <= Len(d) THEN d[i] ELSE t[i - Len(d)]
      BY ConcatProperties
    <2>2. Len(d) \in Nat /\ Len(t) \in Nat
      BY LenProperties
    <2>3. (d \o t)[1] = d[1] /\ Len(d \o t) > 0
      BY <1>1, <2>1, <2>2
    <2>4. d \o t # <<>>
      BY <2>1, <2>3, EmptySeq
    <2>. QED BY <1>1, <2>1, <2>3, <2>4
  <1>2. <<b>> \in Seq(S) /\ Len(<<b>>) > 0 /\ <<b>>[1] = b
    OBVIOUS
  <1>3. <<b, b>> \in Seq(S) /\ Len(<<b, b>>) > 0 /\ <<b, b>>[1] = b
    OBVIOUS
  <1>. QED BY <1>1, <1>2, <1>3

LEMMA FaultKeepsAnswering ==
  ASSUME WireTypeOK, Answering, WireFault
  PROVE  Answering'
  <1>1. /\ DamageRequest \/ DamageAnswer
        /\ UNCHANGED <<mode, card, stage, rem, atr, committed>>
    BY DEF WireFault, host, dev
  <1>2. \A i \in 1 .. Len(<<>>) : FALSE
    OBVIOUS
  <1>3. CASE Mute
    BY <1>1, <1>3, FaultKeepsMute DEF Answering
  <1>4. CASE DamageRequest /\ ~ Mute
    <2>1. Asking
      BY <1>4 DEF DamageRequest, Answering, Committing, Replied, Garbled, AtrComing
    <2>2. Tail(h2d) = <<>> /\ d2h' = <<>> /\ mode' = "loop"
      BY <1>1, <1>4, <2>1, OneFrame DEF Asking, DamageRequest
    <2>3. h2d' \in {<<>>, <<Bad>>, <<Bad, Bad>>, <<Cut>>}
      BY <1>4, <2>2, DamageOfOne DEF DamageRequest
    <2>4. \A i \in 1 .. Len(h2d') : h2d'[i] \in Damaged
      BY <2>3, DamagedType
    <2>. QED BY <1>2, <2>2, <2>4 DEF Mute, Answering
  <1>5. CASE DamageAnswer /\ ~ Mute
    <2>1. d2h # <<>> /\ Head(d2h) \notin Damaged /\ h2d' = h2d /\ d2h' \in Damage(d2h)
      BY <1>5, AnsNotDamaged DEF DamageAnswer
    <2>2. CASE Replied
      <3>1. Tail(d2h) = <<>> /\ h2d' = <<>> /\ mode' = "loop"
        BY <1>1, <2>1, <2>2, OneFrame DEF Replied
      <3>2. d2h' \in {<<>>, <<Bad>>, <<Bad, Bad>>, <<Cut>>}
        BY <2>1, <3>1, DamageOfOne
      <3>3. \A i \in 1 .. Len(d2h') : d2h'[i] \in Damaged
        BY <3>2, DamagedType
      <3>. QED BY <1>2, <3>1, <3>3 DEF Mute, Unusable, Answering
    <2>3. CASE AtrComing
      <3>1. h2d' = <<>> /\ mode' = "loop"
        BY <1>1, <2>1, <2>3 DEF AtrComing
      <3>2. CASE d2h' = Tail(d2h)
        BY <1>1, <2>1, <2>3, <3>1, <3>2, AtrFrameSteps DEF AtrComing, Answering
      <3>3. CASE d2h' # Tail(d2h)
        <4>1. Tail(d2h) \in Seq(Ans \cup Damaged)
          BY <2>1, HeadTailProperties DEF WireTypeOK
        <4>2. \E b \in Damaged : d2h' = <<b>> \o Tail(d2h) \/ d2h' = <<b, b>> \o Tail(d2h)
          BY <2>1, <3>3 DEF Damage, Damaged
        <4>3. d2h' # <<>> /\ Head(d2h') \in Damaged
          BY <4>1, <4>2, DamagedHead
        <4>. QED BY <3>1, <4>3 DEF Garbled, Answering
      <3>. QED BY <3>2, <3>3
    <2>. QED
      BY <1>5, <2>1, <2>2, <2>3 DEF Answering, Asking, Committing, Garbled
  <1>. QED BY <1>1, <1>3, <1>4, <1>5

-----------------------------------------------------------------------------
(* Which function is running, and the ATR buffer *)

LEMMA ResyncEndKeepsStage ==
  ASSUME HostTypeOK, OpOfStage, AtrEmpty, pc \notin {"idle", "closed", "cmd", "ans"},
         ResyncSucceeded \/ ResyncFailed
  PROVE  OpOfStage' /\ AtrEmpty'
  <1> USE HostAssumption DEF HostTypeOK, OpOfStage, AtrEmpty
  <1>1. CASE ResyncSucceeded
    <2>1. OpOfStage'
      BY <1>1 DEF ResyncSucceeded, Return, LoopStart
    <2>2. AtrEmpty'
      BY <1>1 DEF ResyncSucceeded, Return
    <2>. QED BY <2>1, <2>2
  <1>2. CASE ResyncFailed
    <2>1. OpOfStage'
      BY <1>2 DEF ResyncFailed, Return, AfterBreak
    <2>2. AtrEmpty'
      BY <1>2 DEF ResyncFailed, Return
    <2>. QED BY <2>1, <2>2
  <1>. QED BY <1>1, <1>2

LEMMA NextTryKeepsStage ==
  ASSUME HostTypeOK, OpOfStage, AtrEmpty, pc \notin {"idle", "closed", "cmd", "ans"}, NextTry
  PROVE  OpOfStage' /\ AtrEmpty'
  <1>1. CASE ResyncFailed
    BY <1>1, ResyncEndKeepsStage
  <1>2. CASE pc' = "rs1" /\ UNCHANGED <<op, stage, atr>>
    BY <1>2 DEF OpOfStage, AtrEmpty
  <1>. QED BY <1>1, <1>2 DEF NextTry

LEMMA DriverKeepsStage ==
  ASSUME HostTypeOK, OpOfStage, AtrEmpty, HostStep
  PROVE  OpOfStage' /\ AtrEmpty'
  <1> USE HostAssumption
  <1>1. CASE SendRequest
    <2>1. Requests("atr") = {} /\ Requests("none") = {}
      BY DEF Requests
    <2>. QED BY <1>1, <2>1 DEF SendRequest, OpOfStage, AtrEmpty, HostTypeOK
  <1>2. CASE RejectAnswer
    BY <1>2 DEF RejectAnswer, CallResync, OpOfStage, AtrEmpty
  <1>3. CASE AcceptLast
    BY <1>3 DEF AcceptLast, Accepted, Return, OpOfStage, AtrEmpty
  <1>4. CASE AcceptAtrLength
    BY <1>4 DEF AcceptAtrLength, Accepted, OpOfStage, AtrEmpty
  <1>5. CASE AcceptAtrPart
    BY <1>5 DEF AcceptAtrPart, Accepted, Return, OpOfStage, AtrEmpty
  <1>6. CASE AcceptWrite
    BY <1>6 DEF AcceptWrite, Accepted, OpOfStage, AtrEmpty
  <1>7. CASE FirstResync \/ SecondResync \/ SecondResyncAnswer
    BY <1>7 DEF FirstResync, SecondResync, SecondResyncAnswer, Goto, OpOfStage, AtrEmpty
  <1>8. CASE Drain
    BY <1>8, NextTryKeepsStage DEF Drain, OpOfStage, AtrEmpty
  <1>9. CASE ControlSequence \/ ControlSequenceAnswer \/ SendResyncComplete
    BY <1>9 DEF ControlSequence, ControlSequenceAnswer, SendResyncComplete, Goto,
         OpOfStage, AtrEmpty
  <1>10. CASE ResyncCompleteAnswer
    BY <1>10, ResyncEndKeepsStage DEF ResyncCompleteAnswer
  <1>11. CASE ResyncWrongAnswer
    BY <1>11, NextTryKeepsStage DEF ResyncWrongAnswer
  <1>. QED
    BY <1>1, <1>2, <1>3, <1>4, <1>5, <1>6, <1>7, <1>8, <1>9, <1>10, <1>11 DEF HostStep

LEMMA NextKeepsStage ==
  ASSUME TypeOK, OpOfStage, AtrEmpty, [Next]_vars
  PROVE  OpOfStage' /\ AtrEmpty'
  <1>0. HostTypeOK
    BY DEF TypeOK
  <1>1. CASE UNCHANGED host
    BY <1>1 DEF host, OpOfStage, AtrEmpty
  <1>2. CASE Driver
    BY <1>0, <1>2, DriverKeepsStage DEF Driver
  <1>3. CASE Timeout
    <2>1. CASE AnswerTimeout \/ DrainSilence
      BY <2>1 DEF AnswerTimeout, DrainSilence, CallResync, Goto, OpOfStage, AtrEmpty
    <2>2. CASE ResyncTimeout
      BY <1>0, <2>2, NextTryKeepsStage DEF ResyncTimeout
    <2>. QED BY <1>3, <2>1, <2>2 DEF Timeout, HostTimeout
  <1>4. CASE Client
    <2>1. CASE Open
      BY <2>1 DEF Open, OpOfStage, AtrEmpty
    <2>2. ASSUME NEW o \in Ops, Call(o) PROVE OpOfStage' /\ AtrEmpty'
      BY <2>2, HostAssumption DEF Call, FirstStage, OpOfStage, AtrEmpty
    <2>. QED BY <1>4, <2>1, <2>2 DEF Client
  <1>5. CASE WriteFault
    <2>1. CASE SendRequestFails
      BY <2>1 DEF SendRequestFails, CallResync, OpOfStage, AtrEmpty
    <2>2. CASE ResyncPutFails
      BY <1>0, <2>2, NextTryKeepsStage DEF ResyncPutFails
    <2>. QED BY <1>5, <2>1, <2>2 DEF WriteFault
  <1>6. CASE HostDies
    BY <1>6 DEF HostDies, HostCrash, OpOfStage, AtrEmpty
  <1>7. CASE EmulatorReboots
    BY <1>7 DEF EmulatorReboots, OpOfStage, AtrEmpty
  <1>. QED
    BY <1>1, <1>2, <1>3, <1>4, <1>5, <1>6, <1>7 DEF Next, Emulator, WireFault, vars

-----------------------------------------------------------------------------
(* Steps of the host on a line in sync *)

LEMMA NeverAcceptsResync == \A s : "Resync" \notin Accepts(s)
  BY DEF Accepts

(* The only frames a stage accepts are the true answer to its own request
   and the rest of an ATR. *)
LEMMA AcceptedIsTrue ==
  ASSUME WireTypeOK, Answering, NEW f \in Ans, Accepted(f)
  PROVE  \/ Replied /\ Truthful(f) /\ d2h' = <<>> /\ h2d' = <<>>
         \/ AtrComing /\ h2d' = <<>> /\ d2h # <<>> /\ Head(d2h) = f /\ d2h' = Tail(d2h)
  <1>1. d2h # <<>> /\ Head(d2h) = f /\ d2h' = Tail(d2h) /\ h2d' = h2d /\ f.t # "Resync"
    BY NeverAcceptsResync DEF Accepted, Get
  <1>2. f \notin Damaged /\ f # Frame("Resync", "none")
    BY <1>1, AnsNotDamaged DEF Frame
  <1>3. ~ Mute
    <2>1. Head(d2h) = d2h[1] /\ 1 \in 1 .. Len(d2h)
      <3>1. Len(d2h) \in Nat \ {0}
        BY <1>1, EmptySeq DEF WireTypeOK
      <3>. QED BY <3>1 DEF WireTypeOK
    <2>. QED BY <1>1, <1>2, <2>1 DEF Mute, Unusable
  <1>4. ~ Asking /\ ~ Committing /\ ~ Garbled
    BY <1>1, <1>2 DEF Asking, Committing, Garbled
  <1>5. CASE Replied
    <2>1. PICK a \in Ans : d2h = <<a>> /\ Truthful(a)
      BY <1>5 DEF Replied
    <2>. QED BY <1>1, <1>5, <2>1, OneFrame DEF Replied
  <1>6. CASE AtrComing
    BY <1>1, <1>6 DEF AtrComing
  <1>. QED BY <1>3, <1>4, <1>5, <1>6 DEF Answering

LEMMA RequestAsks ==
  ASSUME Clean, SendRequest, UNCHANGED mode
  PROVE  Asking'
  <1>1. PICK f \in Requests(stage) : h2d' = Append(h2d, f)
    BY DEF SendRequest, Put
  <1>2. h2d' = <<f>> /\ d2h' = <<>> /\ mode' = "loop"
    BY <1>1, OneFrame DEF SendRequest, Clean
  <1>3. \A t, u, p, q : Frame(t, p) = Frame(u, q) => t = u /\ p = q
    BY DEF Frame
  <1>4. \A t \in ReqType, p \in Payload : Frame(t, p) \in Req /\ Frame(t, p).t = t
    BY FrameTypes DEF Frame
  <1>5. PICK t \in ReqType, p \in Payload :
          /\ f = Frame(t, p)
          /\ \/ stage = "status" /\ t = "CardStatus" /\ p = "none"
             \/ stage = "deactivate" /\ t = "CardStatus" /\ p = "off"
             \/ stage = "atrlen" /\ t = "CardStatus" /\ p = "on"
             \/ stage \in {"len", "data"} /\ t = "CardSend"
             \/ stage = "commit" /\ t = "CardCommit" /\ p = "none"
             \/ stage = "read" /\ t = "CardRead"
             \/ stage = "readcomplete" /\ t = "CardReadComplete"
    BY <1>1 DEF Requests, ReqType, Payload
  <1>6. f \in Req /\ f.t \notin {"Resync", "ResyncComplete"}
    BY <1>4, <1>5
  <1>7. stage' = IF stage = "read" THEN "readdata" ELSE stage
    BY DEF SendRequest
  <1>8. /\ stage' # "atr"
        /\ stage' = "status" => f = Frame("CardStatus", "none")
        /\ stage' = "deactivate" => f = Frame("CardStatus", "off")
        /\ stage' = "atrlen" <=> f = Frame("CardStatus", "on")
        /\ stage' = "commit" <=> f = Frame("CardCommit", "none")
    BY <1>3, <1>5, <1>7
  <1>. QED BY <1>2, <1>6, <1>8 DEF Asking

LEMMA LastAnswerIsTrue ==
  ASSUME TypeOK, OpOfStage, HeldInv, sync = "held", AcceptLast, UNCHANGED <<dev, committed>>
  PROVE  HeldInv'
  <1>1. PICK f \in Ans : /\ Accepted(f)
                         /\ val' = IF stage # "status" THEN val
                                   ELSE IF f.t = "CardPresent" THEN "present" ELSE "absent"
    BY DEF AcceptLast
  <1>2. pc = "ans" /\ stage \in {"status", "deactivate", "commit", "readcomplete"} /\ sync' = sync
    BY <1>1 DEF AcceptLast, Accepted
  <1>3. Answering
    BY <1>2 DEF HeldInv
  <1>4. ~ AtrComing
    BY <1>2 DEF AtrComing
  <1>5. Truthful(f) /\ d2h' = <<>> /\ h2d' = <<>> /\ mode = "loop"
    BY <1>1, <1>3, <1>4, AcceptedIsTrue DEF TypeOK, Replied
  <1>6. Clean'
    BY <1>5 DEF Clean, dev
  <1>7. op \in {"open", "status", "deactivate", "reset", "send", "recv"}
    BY HostAssumption DEF TypeOK, HostTypeOK
  <1>8. op # "reset" /\ (op = "send" => stage = "commit")
        /\ (op \in {"status", "deactivate"} => stage = op)
    BY <1>2 DEF OpOfStage
  <1>9. /\ stage = "status" => f.t \in {"CardAbsent", "CardPresent"}
        /\ stage = "deactivate" => f.t = "CardAbsent"
        /\ stage = "commit" => f.t = "Ok"
    <2>1. f.t \in Accepts(stage)
      BY <1>1 DEF Accepted
    <2>. QED BY <2>1 DEF Accepts
  <1>10. op' = op /\ pc' = "idle" /\ ret' = "ok" /\ card' = card /\ committed' = committed
    BY DEF AcceptLast, Return, dev
  <1>11. SendCommitted'
    BY <1>5, <1>8, <1>9, <1>10 DEF Truthful, SendCommitted
  <1>12. ReportIsTrue'
    BY <1>1, <1>5, <1>7, <1>8, <1>9, <1>10 DEF Truthful, ReportIsTrue
  <1>. QED BY <1>6, <1>10, <1>11, <1>12 DEF HeldInv

LEMMA AtrPartFits ==
  /\ (21 - PayloadLen("part1")) % 256 = 7 /\ (21 - PayloadLen("part2")) % 256 = 14
  /\ (59 - PayloadLen("part2")) % 256 = 52 /\ (7 - PayloadLen("part2")) % 256 = 0
  /\ FirstByte("atrlen") = 21 /\ FirstByte("part1") = 59 /\ FirstByte("part2") = 192
  <1>1. PayloadLen("part1") = 14 /\ PayloadLen("part2") = 7
    BY DEF PayloadLen
  <1>2. FirstByte("atrlen") = 21 /\ FirstByte("part1") = 59 /\ FirstByte("part2") = 192
    BY DEF FirstByte
  <1>. QED BY <1>1, <1>2

(* The parts of an ATR are copied in order, or some are missing and the host
   is left waiting. *)
LEMMA AtrIsCopied ==
  ASSUME TypeOK, OpOfStage, AtrEmpty, HeldInv, sync = "held",
         AcceptAtrLength \/ AcceptAtrPart, UNCHANGED <<dev, committed>>
  PROVE  HeldInv'
  <1> DEFINE Step(f) == \/ AcceptAtrLength /\ rem' = FirstByte(f.p)
                        \/ /\ AcceptAtrPart /\ atr' = Append(atr, f.p)
                           /\ LET r == (rem - PayloadLen(f.p)) % 256 IN
                              \/ r = 0 /\ Return("ok")
                              \/ r > 0 /\ rem' = r /\ UNCHANGED <<pc, stage>>
  <1>1. PICK f \in Ans : Accepted(f) /\ Step(f)
    BY DEF AcceptAtrLength, AcceptAtrPart
  <1>2. pc = "ans" /\ stage \in {"atrlen", "atr"} /\ sync' = sync
    BY <1>1 DEF AcceptAtrLength, AcceptAtrPart, Accepted
  <1>3. Answering
    BY <1>2 DEF HeldInv
  <1>4. AtrComing /\ h2d' = <<>> /\ d2h # <<>> /\ Head(d2h) = f /\ d2h' = Tail(d2h)
    BY <1>1, <1>2, <1>3, AcceptedIsTrue DEF TypeOK, Replied
  <1>5. mode' = "loop" /\ card' = "present" /\ h2d' = <<>>
    BY <1>4 DEF AtrComing, dev
  <1>6. \A t, p : Frame(t, p).p = p
    BY DEF Frame
  <1>7. Part1.p = "part1" /\ Part2.p = "part2" /\ Frame("CardPresent", "atrlen").p = "atrlen"
    BY <1>6 DEF Part1, Part2
  <1>8. SUFFICES (pc' = "ans" /\ AtrComing') \/ (pc' = "idle" /\ d2h' = <<>> /\ ReportIsTrue' /\ SendCommitted')
    BY <1>5 DEF HeldInv, Answering, Clean, ReportIsTrue, SendCommitted
  <1>9. CASE stage = "atrlen"
    <2>1. /\ AcceptAtrLength /\ rem' = FirstByte(f.p)
          /\ pc' = "ans" /\ stage' = "atr" /\ atr' = atr /\ atr = <<>>
      BY <1>1, <1>2, <1>9 DEF AcceptAtrLength, AcceptAtrPart, AtrEmpty
    <2>2. d2h \in {AtrFrames, <<Part1, Part2>>, <<Part2>>}
      BY <1>4, <1>9 DEF AtrComing
    <2>3. CASE d2h = AtrFrames
      <3>1. rem' = 21 /\ d2h' = <<Part1, Part2>>
        BY <1>4, <1>7, <2>1, <2>3, AtrFrameSteps, AtrPartFits
      <3>. QED BY <1>5, <2>1, <3>1 DEF AtrComing
    <2>4. CASE d2h = <<Part1, Part2>>
      <3>1. rem' = 59 /\ d2h' = <<Part2>>
        BY <1>4, <1>7, <2>1, <2>4, AtrFrameSteps, AtrPartFits
      <3>. QED BY <1>5, <2>1, <3>1 DEF AtrComing
    <2>5. CASE d2h = <<Part2>>
      <3>1. d2h' = <<>>
        BY <1>4, <2>5, AtrFrameSteps
      <3>. QED BY <1>5, <2>1, <3>1 DEF AtrComing
    <2>. QED BY <2>2, <2>3, <2>4, <2>5
  <1>10. CASE stage = "atr"
    <2>1. /\ atr' = Append(atr, f.p)
          /\ LET r == (rem - PayloadLen(f.p)) % 256 IN
             \/ r = 0 /\ Return("ok")
             \/ r > 0 /\ rem' = r /\ pc' = "ans" /\ stage' = "atr"
      BY <1>1, <1>2, <1>10 DEF AcceptAtrLength
    <2>2. CASE d2h = <<Part1, Part2>> /\ rem = 21 /\ atr = <<>>
      <3>1. d2h' = <<Part2>> /\ f.p = "part1"
        BY <1>4, <1>7, <2>2, AtrFrameSteps
      <3>2. (rem - PayloadLen(f.p)) % 256 = 7
        BY <2>2, <3>1, AtrPartFits
      <3>3. rem' = 7 /\ pc' = "ans" /\ stage' = "atr" /\ atr' = Append(<<>>, "part1")
        BY <2>1, <2>2, <3>1, <3>2
      <3>4. atr' = <<"part1">>
        BY <3>3, OneFrame
      <3>. QED BY <1>5, <3>1, <3>3, <3>4 DEF AtrComing
    <2>3. CASE d2h = <<Part2>> /\ (rem \in {21, 59} \/ (rem = 7 /\ atr = <<"part1">>))
      <3>1. d2h' = <<>> /\ f.p = "part2"
        BY <1>4, <1>7, <2>3, AtrFrameSteps
      <3>2. CASE rem \in {21, 59}
        <4>1. (rem - PayloadLen(f.p)) % 256 # 0
          BY <3>1, <3>2, AtrPartFits
        <4>2. pc' = "ans" /\ stage' = "atr"
          BY <2>1, <4>1
        <4>. QED BY <1>5, <3>1, <4>2 DEF AtrComing
      <3>3. CASE rem = 7 /\ atr = <<"part1">>
        <4>1. (rem - PayloadLen(f.p)) % 256 = 0
          BY <3>1, <3>3, AtrPartFits
        <4>2. Return("ok") /\ atr' = Append(<<"part1">>, "part2")
          BY <2>1, <3>1, <3>3, <4>1
        <4>3. atr' = <<"part1", "part2">>
          <5>1. <<"part1">> \in Seq(Payload) /\ "part2" \in Payload /\ Len(<<"part1">>) = 1
            BY DEF Payload
          <5>2. /\ atr' \in Seq(Payload) /\ Len(atr') = 2
                /\ atr'[1] = "part1" /\ atr'[2] = "part2"
            BY <4>2, <5>1, AppendProperties
          <5>. QED BY <5>2
        <4>4. op \notin {"status", "deactivate", "send"}
          BY <1>2, <1>10 DEF OpOfStage
        <4>5. op' = op /\ pc' = "idle"
          BY <4>2 DEF Return
        <4>. QED BY <1>5, <3>1, <4>3, <4>4, <4>5 DEF ReportIsTrue, SendCommitted
      <3>. QED BY <2>3, <3>2, <3>3
    <2>. QED BY <1>4, <1>10, <2>2, <2>3 DEF AtrComing
  <1>. QED BY <1>2, <1>9, <1>10

LEMMA DriverKeepsHeld ==
  ASSUME TypeOK, OpOfStage, AtrEmpty, HandshakeSound, HeldInv, Driver
  PROVE  HeldInv'
  <1>1. HostStep /\ UNCHANGED <<dev, committed>>
    BY DEF Driver
  <1>2. CASE SendRequest
    <2>1. pc = "cmd" /\ pc' = "ans" /\ sync' = sync /\ mode' = mode
      BY <1>1, <1>2 DEF SendRequest, dev
    <2>. QED BY <1>2, <2>1, RequestAsks DEF HeldInv, Answering, ReportIsTrue, SendCommitted
  <1>3. CASE RejectAnswer
    BY <1>3 DEF RejectAnswer, CallResync, HeldInv, ReportIsTrue, SendCommitted
  <1>4. CASE AcceptLast
    <2>1. sync' = sync
      BY <1>4 DEF AcceptLast, Accepted
    <2>. QED BY <1>1, <1>4, <2>1, LastAnswerIsTrue DEF HeldInv
  <1>5. CASE AcceptAtrLength \/ AcceptAtrPart
    <2>1. sync' = sync
      BY <1>5 DEF AcceptAtrLength, AcceptAtrPart, Accepted
    <2>. QED BY <1>1, <1>5, <2>1, AtrIsCopied DEF HeldInv
  <1>6. CASE AcceptWrite
    <2>1. PICK f \in Ans : Accepted(f)
      BY <1>6 DEF AcceptWrite
    <2>2. pc = "ans" /\ pc' = "cmd" /\ sync' = sync /\ stage \in {"len", "data"}
      BY <1>6, <2>1 DEF AcceptWrite, Accepted
    <2>3. SUFFICES ASSUME sync = "held" PROVE Clean'
      BY <2>2 DEF HeldInv, ReportIsTrue, SendCommitted
    <2>4. d2h' = <<>> /\ h2d' = <<>> /\ mode = "loop"
      BY <2>1, <2>2, <2>3, AcceptedIsTrue DEF HeldInv, TypeOK, Replied, AtrComing
    <2>. QED BY <1>1, <2>4 DEF Clean, dev
  <1>7. CASE FirstResync \/ SecondResync \/ SecondResyncAnswer \/ ControlSequence
             \/ ControlSequenceAnswer \/ SendResyncComplete
    BY <1>7 DEF FirstResync, SecondResync, SecondResyncAnswer, ControlSequence,
         ControlSequenceAnswer, SendResyncComplete, Goto, HeldInv, ReportIsTrue, SendCommitted
  <1>8. CASE Drain
    BY <1>8, NextTryEnds DEF Drain, HeldInv, ReportIsTrue, SendCommitted
  <1>9. CASE ResyncWrongAnswer
    BY <1>9, NextTryEnds DEF ResyncWrongAnswer, HeldInv, ReportIsTrue, SendCommitted
  <1>10. CASE ResyncCompleteAnswer
    <2>1. /\ pc = "cmplans" /\ ResyncSucceeded /\ h2d' = h2d
          /\ d2h # <<>> /\ Head(d2h) = Frame("Ok", "none") /\ d2h' = Tail(d2h)
      BY <1>10 DEF ResyncCompleteAnswer, Get
    <2>2. SUFFICES ASSUME sync = "trying" PROVE HeldInv'
      BY <2>1 DEF ResyncSucceeded, HeldInv
    <2>3. Clean'
      BY <1>1, <2>1, <2>2 DEF HandshakeSound, Clean, dev
    <2>4. pc' = "cmd" \/ (pc' = "idle" /\ (op' = "open" \/ ret' = "error"))
      BY <2>1 DEF ResyncSucceeded, Return
    <2>. QED BY <2>3, <2>4 DEF HeldInv, ReportIsTrue, SendCommitted
  <1>. QED
    BY <1>1, <1>2, <1>3, <1>4, <1>5, <1>6, <1>7, <1>8, <1>9, <1>10 DEF HostStep

LEMMA NextKeepsHeld ==
  ASSUME TypeOK, OpOfStage, AtrEmpty, HandshakeSound, HeldInv, [Next]_vars
  PROVE  HeldInv'
  <1>0. WireTypeOK /\ DevTypeOK
    BY DEF TypeOK
  <1>1. CASE Emulator
    <2>1. DevStep /\ UNCHANGED host
      BY <1>1 DEF Emulator
    <2>2. ASSUME sync = "held", pc \in {"idle", "cmd"} PROVE FALSE
      BY <2>1, <2>2, LoopWaits DEF HeldInv, Clean
    <2>3. ASSUME sync = "held", pc = "ans" PROVE Answering'
      BY <1>0, <1>1, <2>3, EmulatorKeepsAnswering DEF HeldInv
    <2>. QED BY <2>1, <2>2, <2>3 DEF host, HeldInv, ReportIsTrue, SendCommitted
  <1>2. CASE Driver
    BY <1>2, DriverKeepsHeld
  <1>3. CASE Timeout
    BY <1>3, NextTryEnds
    DEF Timeout, HostTimeout, AnswerTimeout, CallResync, DrainSilence, Goto, ResyncTimeout,
        HeldInv, ReportIsTrue, SendCommitted
  <1>4. CASE Client
    <2>1. CASE Open
      BY <2>1 DEF Open, HeldInv, ReportIsTrue, SendCommitted
    <2>2. ASSUME NEW o \in Ops, Call(o), UNCHANGED dev PROVE HeldInv'
      BY <2>2 DEF Call, HeldInv, ReportIsTrue, SendCommitted, Clean, wire, dev
    <2>. QED BY <1>4, <2>1, <2>2 DEF Client
  <1>5. CASE WireFault
    <2>1. UNCHANGED <<host, dev, committed>> /\ (DamageRequest \/ DamageAnswer)
      BY <1>5 DEF WireFault
    <2>2. ASSUME sync = "held", pc \in {"idle", "cmd"} PROVE FALSE
      BY <2>1, <2>2 DEF HeldInv, Clean, DamageRequest, DamageAnswer
    <2>3. ASSUME sync = "held", pc = "ans" PROVE Answering'
      BY <1>0, <1>5, <2>3, FaultKeepsAnswering DEF HeldInv
    <2>. QED BY <2>1, <2>2, <2>3 DEF host, HeldInv, ReportIsTrue, SendCommitted
  <1>6. CASE WriteFault
    BY <1>6, NextTryEnds
    DEF WriteFault, SendRequestFails, CallResync, ResyncPutFails, HeldInv, ReportIsTrue,
        SendCommitted
  <1>7. CASE HostDies
    BY <1>7 DEF HostDies, HostCrash, HeldInv
  <1>8. CASE EmulatorReboots
    BY <1>8 DEF EmulatorReboots, HeldInv
  <1>9. CASE UNCHANGED vars
    BY <1>9 DEF vars, wire, dev, host, HeldInv, Clean, Answering, Asking, Committing, Replied,
        Truthful, Garbled, Mute, AtrComing, ReportIsTrue, SendCommitted
  <1>. QED
    BY <1>1, <1>2, <1>3, <1>4, <1>5, <1>6, <1>7, <1>8, <1>9 DEF Next

(* What is copied while an ATR is received. *)
LEMMA HeldAtrFits ==
  ASSUME TypeOK, HeldInv
  PROVE  AtrFits
  <1> SUFFICES ASSUME sync = "held", pc = "ans", stage = "atr", d2h # <<>>,
                      Head(d2h).t = "CardPresent"
               PROVE  PayloadLen(Head(d2h).p) <= rem
    BY DEF AtrFits
  <1>1. Answering
    BY DEF HeldInv
  <1>2. Head(d2h) = d2h[1] /\ 1 \in 1 .. Len(d2h)
    <2>1. Len(d2h) \in Nat \ {0}
      BY EmptySeq DEF TypeOK, WireTypeOK
    <2>. QED BY <2>1 DEF TypeOK, WireTypeOK
  <1>3. Head(d2h) \notin Unusable
    BY DamagedPayload DEF Unusable, Frame
  <1>4. ~ Mute /\ ~ Garbled /\ ~ Asking /\ ~ Committing /\ ~ Replied
    BY <1>2, <1>3 DEF Mute, Garbled, Unusable, Asking, Committing, Replied
  <1>5. AtrComing
    BY <1>1, <1>4 DEF Answering
  <1>6. PayloadLen("part1") = 14 /\ PayloadLen("part2") = 7
    BY DEF PayloadLen
  <1>7. Part1.p = "part1" /\ Part2.p = "part2"
    BY DEF Part1, Part2, Frame
  <1>8. CASE d2h = <<Part1, Part2>> /\ rem = 21
    BY <1>6, <1>7, <1>8, AtrFrameSteps
  <1>9. CASE d2h = <<Part2>> /\ rem \in {7, 21, 59}
    BY <1>6, <1>7, <1>9, AtrFrameSteps
  <1>. QED BY <1>5, <1>8, <1>9 DEF AtrComing

LEMMA SyncKept ==
  ASSUME FreshNonce
  PROVE  Spec => [](TypeOK /\ SyncInv)
  <1>1. Init => SyncInv
    BY DEF Init, HostInit, SyncInv, OpOfStage, AtrEmpty, HeldInv
  <1>2. TypeOK /\ HandshakeSound /\ SyncInv /\ [Next]_vars => SyncInv'
    BY NextKeepsStage, NextKeepsHeld DEF SyncInv
  <1>. QED BY <1>1, <1>2, TypeCorrect, ResyncSound, PTL DEF Spec

(* After a resync() that returned 1 and until the next failure, every request
   is written to an empty line and met by an emulator in loop(), and so is
   answered by nothing but its own answer; whatever is lost, damaged or late. *)
THEOREM StaysInSync ==
  ASSUME FreshNonce
  PROVE  Spec => []InSync
  <1>1. SyncInv => InSync
    BY DEF SyncInv, HeldInv, InSync
  <1>. QED BY <1>1, SyncKept, PTL

(* On a line in sync a call that reports success reports the state the
   emulator is in; a reset then has the card on and both parts of the ATR. *)
THEOREM ReportsAreTrue ==
  ASSUME FreshNonce
  PROVE  Spec => []ReportIsTrue
  <1>1. SyncInv => ReportIsTrue
    BY DEF SyncInv, HeldInv, ReportIsTrue
  <1>. QED BY <1>1, SyncKept, PTL

(* On a line in sync no frame is copied past the end of the ATR buffer. *)
THEOREM AtrCopyIsBounded ==
  ASSUME FreshNonce
  PROVE  Spec => []AtrFits
  <1>1. TypeOK /\ SyncInv => AtrFits
    BY HeldAtrFits DEF SyncInv
  <1>. QED BY <1>1, SyncKept, PTL

(* On a line in sync a send reports success only after Commit() has run. *)
THEOREM SendIsCommitted ==
  ASSUME FreshNonce
  PROVE  Spec => []SendCommitted
  <1>1. SyncInv => SendCommitted
    BY DEF SyncInv, HeldInv, SendCommitted
  <1>. QED BY <1>1, SyncKept, PTL
=============================================================================
