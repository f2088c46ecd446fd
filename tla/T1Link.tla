------------------------------- MODULE T1Link -------------------------------
(***************************************************************************)
(* proto-t1.c and a card on one half-duplex line.                          *)
(***************************************************************************)
EXTENDS ProtoT1, T1Card

vars == <<line, to, faults, host, card>>

CmdByte == {Byte("cmd", c, i) : c \in {0, 1}, i \in 1 .. MaxSnd}

TypeOK ==
    /\ to \in {"card", "host"}
    /\ faults \in 0 .. MaxFaults
    /\ pc \in {"idle", "xcv", "rsy"}
    /\ state \in {"SENDING", "RECEIVING", "RESYNCH", "DEAD"}
    /\ ns \in {0, 1} /\ nr \in {0, 1}
    /\ ifsc \in Nat \ {0}
    /\ sbuf \in Seq(CmdByte) /\ apdu \in Seq(CmdByte)
    /\ last_send \in 0 .. Len(sbuf)
    /\ sent_length \in 0 .. Len(apdu)
    /\ Len(rbuf) \in 0 .. rcv_len
    /\ retries \in 0 .. RetryMod - 1
    /\ resyncs \in 0 .. Resyncs
    /\ ret \in {"none", "received", "synced", "error"}
    /\ call \in {0, 1}
    /\ quiet \in BOOLEAN /\ mixed \in BOOLEAN
    /\ cns \in {0, 1} /\ cnr \in {0, 1}

Init ==
    /\ line = NoBlock /\ to = "card" /\ faults = 0
    /\ HostInit
    /\ CardInit(Ifsc)

Call ==
    /\ \E n \in 0 .. MaxSnd, room \in RcvLens : t1_transceive(n, room)
    /\ runs' = <<>>
    /\ UNCHANGED <<faults, cns, cnr, cin, cout, clast, owed, limit, reqs>>

CallRefused ==
    /\ \E n \in 0 .. MaxSnd : TransceiveRefused(n)
    /\ runs' = <<>>
    /\ UNCHANGED <<faults, cns, cnr, cin, cout, clast, owed, limit, reqs>>

CallResynchronize ==
    /\ t1_resynchronize
    /\ runs' = <<>>
    /\ UNCHANGED <<faults, cns, cnr, cin, cout, clast, owed, limit, reqs>>

Reset ==
    /\ NewProtocol
    /\ CardReset(Ifsc)
    /\ UNCHANGED faults

Reader ==
    /\ TransceiveStep \/ ResynchronizeStep
    /\ UNCHANGED <<faults, card>>

Card ==
    /\ CardStep
    /\ UNCHANGED <<faults, host>>

Fault ==
    /\ LineFault
    /\ UNCHANGED <<host, card>>

Next == Call \/ CallRefused \/ CallResynchronize \/ Reset \/ Reader \/ Card \/ Fault

Spec == Init /\ [][Next]_vars

(* The reader waits no longer than its timeout, and the card answers every
   block.  Nobody has to call, and nothing has to fail. *)
FairSpec == Spec /\ WF_vars(Reader) /\ WF_vars(Card)

-----------------------------------------------------------------------------
(* What a successful transceive delivers is the response to the last command
   the card executed in this call, complete and without a block of it twice,
   whatever was damaged, repeated or resynchronized meanwhile; except that an
   S request of the card granted in state RESYNCH ends that promise. *)
ResponseIntact ==
    pc = "idle" /\ ret = "received" /\ ~mixed =>
        runs # <<>> /\ rbuf = Response(runs[Len(runs)])

(* Between calls both sides agree on the sequence numbers of the next blocks
   in both directions, unless the protocol is dead. *)
SeqAgree == pc = "idle" /\ state # "DEAD" /\ ~mixed => ns = cnr /\ nr = cns

(* A call that met neither a resync nor an abort has the card execute exactly
   the caller's APDU, once; damaged blocks were repeated, not executed again. *)
ExactlyOnce == pc = "idle" /\ ret = "received" /\ quiet => runs = <<apdu>>

(* No I block is longer than the card has asked for. *)
BlocksFit == line.k = "I" /\ to = "card" => Len(line.d) <= limit

(* "Send an APDU through T=1" (proto-t1.c): what the card executes during a
   call is the caller's APDU, not a part of it. *)
WholeCommand == \A i \in DOMAIN runs : pc = "xcv" => runs[i] = apdu

(* Every call ends once the line stops failing: retransmissions and
   resynchronizations do not go on forever.  (After a request granted in state
   RESYNCH they can: an I block with the wrong number is not counted against
   the retries.) *)
CallEnds == pc # "idle" ~> pc = "idle" \/ mixed
=============================================================================
