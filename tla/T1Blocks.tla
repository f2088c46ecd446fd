------------------------------ MODULE T1Blocks ------------------------------
(***************************************************************************)
(* The blocks of T=1 (ISO 7816-3) as proto-t1.c builds and reads them, and *)
(* the half-duplex line between it and the card: at most one block is on   *)
(* its way.                                                                *)
(*                                                                         *)
(* A block has a kind k (I, R, S request, S response), a sequence number   *)
(* s, a detail x (chaining bit, error code or S type) and data d.  A block *)
(* whose checksum fails is Bad, whatever it was.                           *)
(***************************************************************************)
EXTENDS Integers, Sequences

CONSTANTS MaxFaults  \* bound on damaged and lost blocks

ASSUME BlocksAssumption == MaxFaults \in Nat

(* a byte of a command, of a response, or the parameter of an S block *)
Byte(what, which, place) == <<what, which, place>>

Param(w) == <<Byte("par", w, 0)>>

(* t1_build() for an I block: at most w bytes of buf, and the chaining bit
   when more remain *)
IBlock(n, buf, w) ==
    [k |-> "I", s |-> n,
     x |-> IF Len(buf) > w THEN "more" ELSE "last",
     d |-> IF Len(buf) > w THEN SubSeq(buf, 1, w) ELSE buf]

RBlock(n, err) == [k |-> "R", s |-> n, x |-> err, d |-> <<>>]

SRequest(type, data) == [k |-> "SReq", s |-> 0, x |-> type, d |-> data]

SResponse(type, data) == [k |-> "SRsp", s |-> 0, x |-> type, d |-> data]

Bad == [k |-> "bad", s |-> 0, x |-> "none", d |-> <<>>]

NoBlock == [k |-> "none", s |-> 0, x |-> "none", d |-> <<>>]

Flip(n) == 1 - n

VARIABLES line,    \* the block on its way, or NoBlock
          to,      \* whom it goes to: "card" or "host"
          faults   \* faults so far

(* b is delivered to p *)
Arrives(p, b) == line = b /\ b # NoBlock /\ to = p

Send(p, b) == line' = b /\ to' = p

Silence == line' = NoBlock /\ UNCHANGED to

(* The checksum of the block on the line fails, or the block vanishes. *)
LineFault ==
    /\ faults < MaxFaults
    /\ faults' = faults + 1
    /\ line \notin {NoBlock, Bad}
    /\ line' \in {Bad, NoBlock}
    /\ UNCHANGED to
=============================================================================
