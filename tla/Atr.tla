--------------------------------- MODULE Atr ---------------------------------
(***************************************************************************)
(* The answer to reset and the choice of a protocol: how it is received    *)
(* (ifd_card_request and ifd_atr_complete in reader.c, eutron_card_reset), *)
(* read (ifd_atr_parse in atr.c, ifd_protocol_select in protocol.c), and   *)
(* followed by a PTS (eutron_set_protocol; the PTS of ccid_set_protocol).  *)
(*                                                                         *)
(* Bytes are numbers.  External: the card, which sends an ATR as ISO 7816-3*)
(* has it and answers a PTS, and the line, which splits or damages it.     *)
(***************************************************************************)
EXTENDS Naturals, Integers, Sequences, SequencesExt, FiniteSets

CONSTANT AtrLater  \* bound: interface bytes (TA, TB, TC as bits) after the first TD

VARIABLE at

Bit(b, i) == (b \div 2 ^ i) % 2 = 1
CountBits(b) == Cardinality({i \in 4 .. 7 : Bit(b, i)})
Low(b) == b % 16
None == -1

-----------------------------------------------------------------------------
(* The card.  y has the bits of TA, TB and TC, later the levels after TD. *)
IsoCards ==
    LET Level == [t : {0, 1}, y : AtrLater]
        Two == {<<a, b>> \in Level \X [t : {1, 15}, y : AtrLater] : TRUE}
    IN  [k : {0, 2}, y : 0 .. 7, tc : {0, 255}, later : {<<>>} \cup {<<l>> : l \in Level} \cup Two]

Bytes(y, tc) == (IF Bit(y, 0) THEN <<149>> ELSE <<>>) \o (IF Bit(y, 1) THEN <<129>> ELSE <<>>)
                \o (IF Bit(y, 2) THEN <<tc>> ELSE <<>>)
Header(y, more, low) == 16 * (y + IF more THEN 8 ELSE 0) + low

Ts(c) == {c.later[i].t : i \in DOMAIN c.later}
IsoAtr(c) ==
    LET Levels == FoldLeft(LAMBDA b, i : b \o <<Header(c.later[i].y, i < Len(c.later), c.later[i].t)>>
                                           \o Bytes(c.later[i].y, 1),
                           <<>>, [i \in 1 .. Len(c.later) |-> i])
    IN  <<59, Header(c.y, c.later # <<>>, c.k)>> \o Bytes(c.y, c.tc) \o Levels
        \o [i \in 1 .. c.k |-> 145] \o (IF Ts(c) \subseteq {0} THEN <<>> ELSE <<241>>)

IsoSupported(c) == IF c.later = <<>> THEN {0} ELSE Ts(c)
IsoDefault(c) == IF c.later = <<>> THEN 0 ELSE c.later[1].t

-----------------------------------------------------------------------------
(* Receiving it *)

(* The number of bytes that ifd_card_request() reads with ifd_recv_atr(): T0,
   then the interface bytes as announced, historical and check byte.  b is
   all that the card sends; 0: it sends less. *)
RecvAtr(b) ==
    LET td[j \in 2 .. Len(b)] ==
            LET tail == j + CountBits(b[j])
            IN  IF tail > Len(b) THEN [n |-> 0, proto |-> 0]
                ELSE IF ~Bit(b[j], 7) THEN [n |-> tail, proto |-> IF j > 2 THEN Low(b[j]) ELSE 0]
                ELSE td[tail]
        want == td[2].n + Low(b[2]) + (IF td[2].proto # 0 THEN 1 ELSE 0)
    IN  IF td[2].n = 0 \/ want > Len(b) THEN 0 ELSE want

(* mutant: the check byte is not waited for *)
ifd_atr_completeEarly(b) ==
    LET td[j \in 2 .. Len(b)] ==
            LET next == j + CountBits(b[j])
            IN  IF ~Bit(b[j], 7) THEN next ELSE IF next > Len(b) THEN Len(b) + 1 ELSE td[next]
    IN  Len(b) >= 2 /\ td[2] + Low(b[2]) <= Len(b)

(* ifd_atr_complete() *)
ifd_atr_complete(b) ==
    LET td[j \in 2 .. Len(b)] ==
            LET next == j + CountBits(b[j])
                proto == IF j > 2 THEN Low(b[j]) ELSE 0
            IN  IF ~Bit(b[j], 7) THEN next + (IF proto # 0 THEN 1 ELSE 0)
                ELSE IF next > Len(b) THEN Len(b) + 1
                ELSE td[next]
    IN  Len(b) >= 2 /\ td[2] + Low(b[2]) <= Len(b)

-----------------------------------------------------------------------------
(* Reading it *)

Invalid == [ok |-> FALSE, supp |-> {}, def |-> None, ta |-> None, tc |-> None]

(* ifd_atr_parse(): m and n as there (n counts from 0); t: a protocol other
   than T=0 has been listed. *)
ifd_atr_parse(b) ==
    LET len == Len(b) - Low(b[2])
        level[m \in 0 .. 4, n \in 2 .. Len(b), t \in BOOLEAN] ==
            LET TDi == b[n]
                prot == Low(TDi)
                tt == t \/ (n # 2 /\ prot # 0)
                k == CountBits(TDi)
                rest == IF Bit(TDi, 7) THEN level[m + 1, n + k, tt]
                        ELSE IF n + k < len - (IF tt THEN 1 ELSE 0) THEN Invalid
                        ELSE [Invalid EXCEPT !.ok = TRUE]
            IN  IF n >= len THEN [Invalid EXCEPT !.ok = TRUE]
                ELSE IF m > 3 \/ k = 0 \/ n + k > len \/ ~rest.ok THEN Invalid
                ELSE [rest EXCEPT !.supp = IF n # 2 THEN @ \cup {prot} ELSE @,
                                  !.def = IF n # 2 THEN prot ELSE @,
                                  !.ta = IF m = 0 /\ Bit(TDi, 4) THEN b[n + 1] ELSE IF m = 0 THEN None ELSE @,
                                  !.tc = IF m = 0 /\ Bit(TDi, 6)
                                         THEN b[n + 1 + Cardinality({i \in 4 .. 5 : Bit(TDi, i)})]
                                         ELSE IF m = 0 THEN None ELSE @]
        info == level[0, 2, FALSE]
    IN  IF Len(b) < 2 + Low(b[2]) \/ ~info.ok THEN Invalid
        ELSE IF info.supp = {} THEN [info EXCEPT !.supp = {0}, !.def = 0] ELSE info

(* mutant: T0 is taken for a TD byte *)
ifd_protocol_selectT0(b) == Low(b[2])

(* ifd_protocol_select(): the protocol it takes for the default *)
ifd_protocol_select(b) ==
    LET len == Len(b) - Low(b[2])
        next == 2 + CountBits(b[2])
    IN  IF next < len /\ Bit(b[2], 7) THEN Low(b[next]) ELSE 0

-----------------------------------------------------------------------------
(* PTS: a checksum is right (Pck) or not *)
Pck == 256
BadPck == 257

(* ifd_build_pts() *)
ifd_build_pts(info, proto) ==
    LET p1 == IF info.ta # None THEN <<info.ta>> ELSE <<>>
        p2 == IF info.tc = 255 THEN <<1>> ELSE <<>>
    IN  <<255, proto + 16 * Len(p1) + 32 * Len(p2)>> \o p1 \o p2 \o <<Pck>>

(* PTS1 and PTS2 of an answer, None where there is none *)
Pts(b, i) ==
    LET n == 2 + Cardinality({j \in 4 .. 3 + i : Bit(b[2], j)})
    IN  IF Bit(b[2], 3 + i) /\ n < Len(b) THEN b[n] ELSE None

(* mutant: a speed that the card did not confirm is kept *)
ifd_verify_ptsKeeps(info, b) ==
    [ok |-> Len(b) >= 3 /\ b[1] = 255 /\ b[Len(b)] = Pck, ta |-> info.ta]

(* ifd_verify_pts(): the protocol in the answer is not looked at *)
ifd_verify_pts(info, b) ==
    LET n == 2 + Cardinality({j \in 4 .. 6 : Bit(b[2], j)})
    IN  [ok |-> /\ Len(b) >= 3 /\ b[1] = 255 /\ b[Len(b)] = Pck
                /\ n >= Len(b) - 1
                /\ info.tc = 255 => Pts(b, 2) # None /\ Pts(b, 2) % 2 = 1,
         ta |-> IF Len(b) >= 3 /\ Pts(b, 1) = info.ta THEN info.ta ELSE None]

(* ifd_pts_complete(): j is overwritten where the count should be added *)
ifd_pts_complete(b) == Len(b) >= 2 /\ 1 + Cardinality({j \in 4 .. 6 : Bit(b[2], j)}) <= Len(b)

-----------------------------------------------------------------------------
AtrInit ==
    at \in [card : IsoCards, pc : {"serial", "eutron", "ccid"}, got : {0}, info : {Invalid}, proto : {None},
            speed : {None}, reply : {<<>>}, cardProto : {None}, cardSpeed : {None}]

Atr == IsoAtr(at.card)

(* ifd_card_request() on a serial line *)
RequestSerial == at.pc = "serial" /\ at' = [at EXCEPT !.pc = "atr", !.got = RecvAtr(Atr)]

(* eutron_card_reset(): one read after the other.  A CCID reader has all of
   the ATR in one block. *)
EutronReset ==
    /\ at.pc = "eutron"
    /\ \E n \in at.got + 1 .. Len(Atr) :
          at' = [at EXCEPT !.got = n,
                           !.pc = IF ifd_atr_complete(SubSeq(Atr, 1, n)) THEN "atr_eutron" ELSE @]

CcidReset == at.pc = "ccid" /\ at' = [at EXCEPT !.got = Len(Atr), !.pc = "atr_ccid"]

(* eutron_set_protocol(), ccid_set_protocol(): read the ATR, prefer T=1
   (Eutron), and send a PTS.  The Eutron driver leaves out both parameters. *)
SendPts ==
    /\ at.pc \in {"atr_eutron", "atr_ccid"}
    /\ LET eutron == at.pc = "atr_eutron"
           info == ifd_atr_parse(SubSeq(Atr, 1, at.got))
           used == IF eutron THEN [info EXCEPT !.ta = None, !.tc = None] ELSE info
           want == ifd_protocol_select(SubSeq(Atr, 1, at.got))
           proto == IF eutron /\ 1 \in info.supp THEN 1 ELSE want
       IN  IF ~info.ok \/ proto \notin {0, 1} \/ proto \notin info.supp
           THEN at' = [at EXCEPT !.pc = "failed", !.info = info]
           ELSE IF ~eutron /\ proto = 0 /\ info.ta = None   \* nothing to negotiate
           THEN at' = [at EXCEPT !.pc = "set", !.got = 0, !.info = info, !.proto = proto,
                                 !.cardProto = IsoDefault(at.card)]
           ELSE at' = [at EXCEPT !.pc = IF eutron THEN "pts_eutron" ELSE "pts_ccid", !.got = 0,
                                 !.info = used, !.proto = proto]

(* The card confirms what it accepts, and uses it. *)
CardPts ==
    /\ at.pc \in {"pts_eutron", "pts_ccid"} /\ at.reply = <<>>
    /\ LET pts == ifd_build_pts(at.info, at.proto)
           without1 == IF Bit(pts[2], 4) THEN <<255, pts[2] - 16>> \o SubSeq(pts, 4, Len(pts)) ELSE pts
       IN  \E r \in {pts, without1, <<255, Low(pts[2]), Pck>>} : \E pck \in {Pck, BadPck} :
              at' = [at EXCEPT !.reply = [r EXCEPT ![Len(r)] = pck], !.cardProto = at.proto,
                               !.cardSpeed = IF r = pts THEN at.info.ta ELSE None]

Verified(b) ==
    LET v == ifd_verify_pts(at.info, b)
    IN  at' = [at EXCEPT !.got = Len(b), !.pc = IF v.ok THEN "set" ELSE "failed", !.speed = v.ta]

(* The read of the answer: in pieces until ifd_pts_complete() (Eutron), or
   whole (CCID). *)
EutronPts ==
    /\ at.pc = "pts_eutron" /\ at.reply # <<>>
    /\ \E n \in at.got + 1 .. Len(at.reply) :
          LET b == SubSeq(at.reply, 1, n)
          IN  IF ifd_pts_complete(b) THEN Verified(b) ELSE at' = [at EXCEPT !.got = n]

CcidPts == at.pc = "pts_ccid" /\ at.reply # <<>> /\ Verified(at.reply)

AtrNext == RequestSerial \/ EutronReset \/ CcidReset \/ SendPts \/ CardPts \/ EutronPts \/ CcidPts

-----------------------------------------------------------------------------
(* The ATR is taken whole, with its check byte and not a byte more, on every
   way of receiving it (ifd_recv_atr, ifd_atr_complete). *)
AtrWhole == at.pc \in {"atr", "atr_eutron", "atr_ccid"} => at.got = Len(Atr)

(* The two readers of the ATR agree with ISO 7816-3 on its default protocol,
   ifd_atr_parse() on all protocols and the first TA and TC.  It rejects an ATR
   only when a last TD byte announces nothing (a finding, see the README). *)
AtrRead ==
    LET info == ifd_atr_parse(Atr)
        c == at.card
    IN  at.pc \in {"atr", "atr_eutron", "atr_ccid"} =>
        /\ ifd_protocol_select(Atr) = IsoDefault(c)
        /\ IF info.ok THEN /\ info.supp = IsoSupported(c) /\ info.def = IsoDefault(c)
                           /\ info.ta = IF Bit(c.y, 0) THEN 149 ELSE None
                           /\ info.tc = IF Bit(c.y, 2) THEN c.tc ELSE None
           ELSE c.later # <<>> /\ Last(c.later).y = 0 /\ Ts(c) # {0}

(* After a PTS that was accepted, card and reader use the same protocol and
   speed, and no byte of the answer is left for the first block. *)
PtsAgreed == at.pc = "set" => /\ at.cardProto = at.proto /\ at.cardSpeed = at.speed
                              /\ at.got = Len(at.reply)

(* "device is not guaranteed to return whole frames" (ifd-eutron.c:288): an
   answer in pieces is accepted like one in a piece. *)
PtsAccepted == at.pc = "failed" /\ at.reply # <<>> => Last(at.reply) = BadPck \/ at.info.tc = 255
=============================================================================
