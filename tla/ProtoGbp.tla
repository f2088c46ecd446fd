------------------------------- MODULE ProtoGbp -------------------------------
(***************************************************************************)
(* The Gemplus block protocol (ifd/proto-gbp.c) and the reader at the end  *)
(* of its line.  A block is [k, seq, of]: its kind, the sequence number    *)
(* and the command it carries or answers.  The reader is external: it      *)
(* executes an I block with the number it expects, repeats its last block  *)
(* when asked, and asks for a repetition of a damaged one.                 *)
(***************************************************************************)
EXTENDS Naturals, Sequences

CONSTANTS GbpRetries,  \* gp->retries
          GbpResyncs,  \* resyncs of one call
          GbpRetryMod, \* retries is an unsigned int: it wraps here
          GbpFaults    \* bound: damaged blocks and late answers

ASSUME GbpAssumption == /\ GbpRetries \in Nat /\ GbpResyncs \in Nat /\ GbpFaults \in Nat
                        /\ GbpRetryMod \in Nat \ {0}

VARIABLE gbp

Blk(k, seq, of) == [k |-> k, seq |-> seq, of |-> of]
Resync == Blk("S", 0, 0)

(* gbp_init(): ALIVE is 0, as calloc() leaves it.  The reader has been reset. *)
GbpInit ==
    gbp = [state |-> "ALIVE", ns |-> 0, sseq |-> 0, retries |-> 0, resyncs |-> 0, pc |-> "idle",
           room |-> TRUE, call |-> 0, ans |-> 0, ret |-> "none", out |-> <<>>, in |-> <<>>,
           exp |-> 0, last |-> Resync, late |-> FALSE, faults |-> 0]

(* gbp_build() and the sending half of gbp_xcv(): to wait for the answer. *)
GbpSend(s, b) == [s EXCEPT !.out = Append(@, b)]
IBlock(s) == Blk("I", s.ns, s.call)
RBlock(s) == Blk("R", s.ns, s.call)

Wrapped(n) == (n + GbpRetryMod - 1) % GbpRetryMod

GbpError(s) == [s EXCEPT !.pc = "idle", !.state = "DEAD", !.ret = "error"]

(* mutant: a resync keeps the number of the next block *)
GbpToResyncKeeps(s) == [s EXCEPT !.state = "RESYNCH"]

(* ns = 0 before a resync request; the number of the answer is not renewed. *)
GbpToResync(s) == [s EXCEPT !.ns = 0, !.state = "RESYNCH"]

(* The head of the loop: the exchange of b; at the end of the retries the
   label resync, from where retries has wrapped. *)
GbpLoop(s, b) ==
    IF s.retries # 0 THEN GbpSend([s EXCEPT !.retries = Wrapped(@)], b)
    ELSE IF s.resyncs = 0 THEN GbpError(s)
    ELSE GbpSend(GbpToResync([s EXCEPT !.resyncs = @ - 1, !.retries = Wrapped(Wrapped(0))]), Resync)

(* The label resync, from a block that has come. *)
GbpResync(s) == IF s.resyncs = 0 THEN GbpError(s)
                ELSE GbpLoop(GbpToResync([s EXCEPT !.resyncs = @ - 1]), Resync)

(* Nothing of an earlier exchange is in the line, and both ends expect the
   same number, or the call begins with a resync. *)
GbpClear == gbp.in = <<>> /\ gbp.out = <<>> /\ (gbp.state # "DEAD" => gbp.ns = gbp.exp)

gbp_transceive(room) ==
    /\ gbp.pc = "idle"
    /\ LET s == [gbp EXCEPT !.pc = "xcv", !.retries = GbpRetries, !.resyncs = GbpResyncs,
                            !.sseq = gbp.ns, !.call = 1 - @, !.room = room, !.ret = "none",
                            !.late = ~GbpClear]
       IN  gbp' = IF s.state = "DEAD" THEN GbpLoop(GbpToResync(s), Resync)
                                      ELSE GbpLoop(s, IBlock(s))

(* A command of no bytes, or of more than 255. *)
GbpInvalid == gbp.pc = "idle" /\ gbp' = [gbp EXCEPT !.ret = "error"]

(* mutant: the number of the next block stays *)
GbpAnswerStays(s, b) ==
    IF b.seq # s.sseq THEN GbpLoop(s, RBlock(s))
    ELSE IF s.room THEN [s EXCEPT !.pc = "idle", !.ret = "ok", !.ans = b.of] ELSE GbpError(s)

(* A good I block: the answer, when it has the number of the first block. *)
GbpAnswer(s, b) ==
    IF b.seq # s.sseq THEN GbpLoop(s, RBlock(s))
    ELSE LET t == [s EXCEPT !.ns = 1 - @]
         IN  IF s.room THEN [t EXCEPT !.pc = "idle", !.ret = "ok", !.ans = b.of] ELSE GbpError(t)

(* An R block for the number in use has the I block sent again. *)
GbpRepeat(s, b) ==
    IF b.seq = s.ns THEN GbpLoop([s EXCEPT !.retries = GbpRetries], IBlock(s))
                       ELSE GbpLoop(s, RBlock(s))

(* An S block ends a resync; any other starts one. *)
GbpSBlock(s) ==
    IF s.state = "RESYNCH"
    THEN GbpLoop([s EXCEPT !.state = "ALIVE", !.retries = GbpRetries, !.resyncs = GbpResyncs],
                 IBlock(s))
    ELSE GbpResync(s)

(* The loop of gbp_transceive(): a block has come. *)
GbpReceive ==
    /\ gbp.pc = "xcv" /\ gbp.in # <<>>
    /\ LET b == Head(gbp.in)
           s == [gbp EXCEPT !.in = Tail(@)]
       IN  gbp' = CASE b.k = "bad" -> GbpLoop(s, RBlock(s))
                    [] b.k = "I" -> GbpAnswer(s, b)
                    [] b.k = "R" -> GbpRepeat(s, b)
                    [] b.k = "S" -> GbpSBlock(s)

(* gbp_xcv() fails: nothing came, or the answer is late. *)
GbpTimeout ==
    /\ gbp.pc # "idle" /\ gbp.in = <<>>
    /\ gbp.out # <<>> => gbp.faults < GbpFaults
    /\ gbp' = [GbpError(gbp) EXCEPT !.late = @ \/ gbp.out # <<>>,
                                    !.faults = IF gbp.out = <<>> THEN @ ELSE @ + 1]

-----------------------------------------------------------------------------
(* mutant: the number stays *)
GbpResynchronizeStays ==
    /\ gbp.pc = "idle"
    /\ gbp' = [GbpSend(gbp, Resync) EXCEPT !.pc = "rsy", !.retries = 2, !.in = <<>>,
                                           !.late = @ /\ gbp.out # <<>>, !.ret = "none"]

(* gbp_resynchronize(): the input is thrown away; three attempts.  What is
   still to come when the input is flushed comes later. *)
gbp_resynchronize ==
    /\ gbp.pc = "idle"
    /\ gbp' = [GbpSend(gbp, Resync) EXCEPT !.pc = "rsy", !.ns = 0, !.retries = 2, !.in = <<>>,
                                           !.late = @ /\ gbp.out # <<>>, !.ret = "none"]

GbpResyncStep ==
    /\ gbp.pc = "rsy" /\ gbp.in # <<>>
    /\ LET s == [gbp EXCEPT !.in = Tail(@)]
       IN  gbp' = IF Head(gbp.in).k = "S" THEN [s EXCEPT !.pc = "idle", !.state = "ALIVE"]
                  ELSE IF gbp.retries = 0 \/ Head(gbp.in).k = "I" THEN GbpError(s)
                  ELSE GbpSend([s EXCEPT !.retries = @ - 1], Resync)

-----------------------------------------------------------------------------
(* The reader *)

GbpSay(b, exp) == gbp' = [gbp EXCEPT !.out = Tail(@), !.last = b, !.in = Append(@, b), !.exp = exp]

GbpReader ==
    /\ gbp.out # <<>>
    /\ LET b == Head(gbp.out)
       IN \/ b.k = "bad" /\ GbpSay(Blk("R", gbp.exp, 0), gbp.exp)
          \/ b.k = "R" /\ GbpSay(gbp.last, gbp.exp)
          \/ b.k = "I" /\ b.seq # gbp.exp /\ GbpSay(gbp.last, gbp.exp)
          \/ b.k = "I" /\ b.seq = gbp.exp /\ GbpSay(b, 1 - gbp.exp)
          \/ b.k = "S" /\ GbpSay(b, 0)

(* The line damages a block, so that its checksum is wrong, or so that
   gbp_xcv() does not get all of it. *)
GbpDamage ==
    /\ gbp.faults < GbpFaults
    /\ \/ gbp.out # <<>> /\ gbp' = [gbp EXCEPT !.faults = @ + 1, !.out[1].k = "bad"]
       \/ gbp.in # <<>> /\ gbp' = [gbp EXCEPT !.faults = @ + 1, !.in[1].k = "bad"]
       \/ gbp.in # <<>> /\ gbp' = [gbp EXCEPT !.faults = @ + 1, !.in = Tail(@)]

GbpStep == GbpReceive \/ GbpTimeout \/ GbpResyncStep

GbpNext ==
    \/ \E room \in BOOLEAN : gbp_transceive(room)
    \/ GbpInvalid \/ gbp_resynchronize
    \/ GbpStep \/ GbpReader \/ GbpDamage

-----------------------------------------------------------------------------
(* A successful gbp_transceive() returns the answer to its own command, not
   one of an earlier command, when it found the line clear, whatever was late
   or damaged before; an answer that comes after gbp_xcv() has given it up is
   taken by the call that finds it in the line, because only
   gbp_resynchronize() flushes the device. *)
GbpAnswerIsOwn == gbp.ret = "ok" /\ ~gbp.late => gbp.ans = gbp.call

(* Between calls both ends agree on the number of the next I block, from the
   first call or gbp_resynchronize() that found the line clear until the next
   answer that is late. *)
GbpSeqAgree == gbp.pc = "idle" /\ gbp.state = "ALIVE" /\ ~gbp.late => gbp.ns = gbp.exp

(* "the number or resyncs is limited, too" (proto-gbp.c:264): a call ends,
   however many blocks are damaged. *)
GbpLimited == gbp.pc # "idle" ~> gbp.pc = "idle"

(* It does when no resync has changed the number of the next block, which
   gbp_transceive() goes on waiting for. *)
GbpEnds == gbp.pc # "idle" ~> gbp.pc = "idle" \/ gbp.sseq # gbp.ns
=============================================================================
