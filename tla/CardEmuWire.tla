---------------------------- MODULE CardEmuWire ----------------------------
(***************************************************************************)
(* The serial line between the host driver (ifd-cardemu.c) and the card    *)
(* emulator (ArduinoCardEmu), at the level of frames.                      *)
(*                                                                         *)
(* A frame is header, payload, CRC8.  The payload is abstracted to the     *)
(* few contents the two sides tell apart: nothing, the nonce of the        *)
(* resync handshake, the activate/deactivate byte, the length or a chunk   *)
(* of an APDU, and the three frames of an ATR answer.                      *)
(*                                                                         *)
(* Damage is what the receiver's framing makes of it: bytes that do not    *)
(* decode ("bad": unknown header, size out of bounds, CRC mismatch) or a   *)
(* header that promises more bytes than follow ("cut").                    *)
(***************************************************************************)
EXTENDS Integers, Sequences, FiniteSets

CONSTANTS Nonce,       \* control sequences of the resync handshake
          MaxFaults    \* bound on the faults of one behaviour

ASSUME WireAssumption ==
    /\ MaxFaults \in Nat
    /\ Nonce \cap {"none", "off", "on", "len0", "lenN", "data", "data2",
                   "atrlen", "part1", "part2"} = {}

ReqType == {"CardStatus", "CardSend", "CardCommit", "CardRead",
            "CardReadComplete", "ResyncComplete", "Resync"}

AnsType == {"CardAbsent", "CardPresent", "CardData", "CardEOD", "Ok", "Resync"}

Payload == Nonce \cup {"none", "off", "on", "len0", "lenN", "data", "data2",
                       "atrlen", "part1", "part2"}

Frame(type, payload) == [t |-> type, p |-> payload]

Req == [t : ReqType, p : Payload]
Ans == [t : AnsType, p : Payload]

(* what a receiver finds where a frame was damaged *)
Bad == Frame("bad", "none")
Cut == Frame("cut", "none")
Damaged == {Bad, Cut}

VARIABLES h2d,         \* requests on their way to the emulator, oldest first
          d2h,         \* answers on their way to the host
          faults       \* faults so far

wire == <<h2d, d2h>>

WireTypeOK ==
    /\ h2d \in Seq(Req \cup Damaged)
    /\ d2h \in Seq(Ans \cup Damaged)
    /\ faults \in 0 .. MaxFaults

WireInit ==
    /\ h2d = <<>>
    /\ faults = 0

(* one more fault, while the bound allows it *)
Fault ==
    /\ faults < MaxFaults
    /\ faults' = faults + 1

(* A damaged frame is dropped, turns into one or two undecodable pieces, or
   loses its end.  Hitting the oldest frame loses no generality. *)
Damage(ch) ==
    {Tail(ch), <<Bad>> \o Tail(ch), <<Bad, Bad>> \o Tail(ch), <<Cut>> \o Tail(ch)}

DamageRequest ==
    /\ h2d # <<>> /\ Head(h2d) \in Req
    /\ h2d' \in Damage(h2d)
    /\ Fault
    /\ UNCHANGED d2h

DamageAnswer ==
    /\ d2h # <<>> /\ Head(d2h) \in Ans
    /\ d2h' \in Damage(d2h)
    /\ Fault
    /\ UNCHANGED h2d

(***************************************************************************)
(* What is left on channel ch after the receiver took one message off it   *)
(* that it could not use.  After a cut header the body is read until       *)
(* enough bytes arrived or the timeout struck: the next frame is left      *)
(* alone, swallowed whole, or swallowed in part.                           *)
(***************************************************************************)
AfterDamaged(ch) ==
    IF Head(ch) = Bad \/ Len(ch) = 1
    THEN {Tail(ch)}
    ELSE {Tail(ch), Tail(Tail(ch)), <<Bad>> \o Tail(Tail(ch))}
=============================================================================
