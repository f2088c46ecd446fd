------------------------------ MODULE PertoSmart ------------------------------
(***************************************************************************)
(* The drivers of the PertoSmart readers (ifd-pertosmart1030.c and         *)
(* ifd-pertosmart1038.c), with the part of ifd_card_request() (reader.c)   *)
(* that calls their card_reset.  They share one structure: a transmission  *)
(* state, an exchange of one frame each way, and a card protocol that the  *)
(* reader negotiates when it powers the card up.                           *)
(*                                                                         *)
(* The reader is external.  A frame from it is good, or one of its parts   *)
(* is wrong; len is the length it announces, data the bytes that are in it.*)
(***************************************************************************)
EXTENDS Naturals, Sequences

CONSTANTS PsNotes, \* bound: notifications waiting
          PsCards  \* bound: cards put in

VARIABLE ps

(* The cards: the protocols in the ATR, its default, and the one that TA2
   (TA[1] of ifd_atr_parse) makes compulsory. *)
PsCard == [t0    |-> [supp |-> {"T0"}, def |-> "T0", only |-> "none"],
           t1    |-> [supp |-> {"T1"}, def |-> "T1", only |-> "none"],
           both  |-> [supp |-> {"T0", "T1"}, def |-> "T0", only |-> "none"],
           fixed |-> [supp |-> {"T0", "T1"}, def |-> "T0", only |-> "T1"]]

Frame(head, sw, len, data, sum) ==
    [head |-> head, sw |-> sw, len |-> len, data |-> data, sum |-> sum, stale |-> FALSE]
GoodFrame == Frame(TRUE, "ok", 2, 2, TRUE)
Frames == {GoodFrame, Frame(FALSE, "ok", 2, 2, TRUE), Frame(TRUE, "nocard", 0, 0, TRUE),
           Frame(TRUE, "error", 0, 0, TRUE), Frame(TRUE, "ok", 9, 9, TRUE),
           Frame(TRUE, "ok", 2, 1, TRUE), Frame(TRUE, "ok", 2, 0, TRUE),
           Frame(TRUE, "ok", 2, 3, TRUE), Frame(TRUE, "ok", 2, 2, FALSE)}
Room == 4    \* of the caller's buffer

(* ps_open(): the exchanges of the options fail without consequence, except
   that the whole call fails. *)
PsOpen1030 ==
    [model |-> "1030", if_state |-> "IDLE", cur |-> "default", slot |-> "none",
     card |-> "none", cards |-> 0, power |-> FALSE, swapped |-> FALSE, eaten |-> FALSE,
     seen |-> "out", notes |-> <<>>, owed |-> FALSE, ret |-> "none", got |-> GoodFrame,
     fresh |-> TRUE, locked |-> FALSE, apdu |-> FALSE]
PsOpen1038 == [PsOpen1030 EXCEPT !.model = "1038", !.seen = "unknown"]

PsInit == ps \in {PsOpen1030, PsOpen1038}

-----------------------------------------------------------------------------
(* The exchange of one instruction *)

(* What ps_receive_from_ifd() of the 1030 makes of a frame, in the order of
   its checks.  A frame that ends before its announced length leaves by out:
   with the count of the previous step, which is no error; one byte short,
   the checksum is taken for data and the next check fails. *)
Decode1030(f) ==
    IF ~f.head THEN "error"
    ELSE IF f.sw # "ok" THEN f.sw
    ELSE IF f.len > Room THEN "large"
    ELSE IF f.data + 1 < f.len THEN "short"
    ELSE IF f.data # f.len \/ ~f.sum THEN "error"
    ELSE "ok"

(* That of the 1038. *)
Decode1038(f) ==
    IF ~f.head THEN "error"
    ELSE IF f.sw # "ok" THEN f.sw
    ELSE IF f.len > Room \/ f.data # f.len THEN "error"
    ELSE "ok"

(* mutant: what the reader still had to say is not read away *)
FlushedNot(s) == s

(* ps_if_transmission_flush_reader_output_buffer(): reads until the reader is
   silent.  Assumption: an answer that is late comes before the flush ends. *)
Flushed(s) == [s EXCEPT !.owed = FALSE]

(* What a read finds first: the left-over of an earlier answer, if any. *)
Arrived(s, f) == IF s.owed THEN [f EXCEPT !.stale = TRUE] ELSE f

(* Of an answer that was not accepted the rest, or all, may still come. *)
Result(s, if_state, rc, f) ==
    [s |-> [s EXCEPT !.if_state = if_state, !.got = f, !.owed = rc # "ok", !.locked = FALSE],
     rc |-> rc]

(* mutant: a transmission is ended when it succeeds *)
ReceivedSticky(s, f) ==
    LET rc == IF s.model = "1030" THEN Decode1030(f) ELSE Decode1038(f)
    IN  Result(s, IF rc = "ok" THEN "IDLE" ELSE "FINISHED", rc, f)

(* ps_receive_from_ifd() and ps_if_transmission_end().  The return for an
   answer that is too large comes before the latter in the 1030.  The 1038
   flushes after an error, the 1030 before the next command. *)
Received(s, f) ==
    IF s.model = "1030"
    THEN LET rc == Decode1030(f) IN Result(s, IF rc = "large" THEN "FINISHED" ELSE "IDLE", rc, f)
    ELSE LET r == Result(s, "IDLE", Decode1038(f), f)
         IN  IF r.rc = "ok" THEN r ELSE [r EXCEPT !.s = Flushed(r.s)]

(* ps_if_transmission_start(): a state that is not idle is an error.  The
   callers of the 1030 then end the transmission, those of the 1038 do not. *)
Ready(s) == s.if_state \in {"IDLE", "ERROR"}
Locked1030(s) == [s EXCEPT !.if_state = "IDLE", !.locked = TRUE, !.ret = "error"]
Locked1038(s) == [s EXCEPT !.locked = TRUE, !.ret = "error"]
Locked(s) == IF s.model = "1030" THEN Locked1030(s) ELSE Locked1038(s)

(* ps_send_to_ifd(), ps_if_transmission_send(): the command goes out, or not,
   which is an error. *)
Sent(s) == IF s.model = "1030" THEN Flushed(s) ELSE s
Unsent(s) == [s |-> [s EXCEPT !.if_state = "IDLE", !.locked = FALSE], rc |-> "error"]

(* All that a read may bring.  The frames of the 1038 have no checksum. *)
Reads(s, frames) == {Received(s, Arrived(s, f)) : f \in {x \in frames : x.sum \/ s.model = "1030"}}

(* ps_transceive_instruction(): all its outcomes *)
Exchange(s, frames) ==
    IF ~Ready(s) THEN {[s |-> Locked(s), rc |-> "locked"]}
    ELSE Reads(Sent(s), frames) \cup {Unsent(Sent(s))}

Command(s) == Exchange(s, {GoodFrame, Frame(TRUE, "error", 0, 0, TRUE)})

-----------------------------------------------------------------------------
(* Card status *)

CStat(s) == IF s.card = "none" THEN "out" ELSE IF s.power THEN "on" ELSE "in"

(* The notifications of the 1038, in their order: the last one counts, and
   each that says something new is a change. *)
Changes(s) == \E i \in DOMAIN s.notes : s.notes[i] # (IF i = 1 THEN s.seen ELSE s.notes[i - 1])

Noticed(s, seen, changed) ==
    [s EXCEPT !.seen = seen, !.notes = <<>>, !.ret = IF changed THEN "changed" ELSE "same",
              !.swapped = @ /\ ~changed /\ ~s.eaten, !.eaten = FALSE]

(* mutant: only the last notification counts *)
CaptureLast(s) == IF s.notes = <<>> THEN Noticed(s, s.seen, FALSE)
                  ELSE Noticed(s, s.notes[Len(s.notes)], s.notes[Len(s.notes)] # s.seen)

Capture(s) == Noticed(s, IF s.notes = <<>> THEN s.seen ELSE s.notes[Len(s.notes)], Changes(s))

(* ps_card_status(): the 1030 compares the state of the card with the last
   one; so does the 1038 the first time. *)
CardStatus1030(s) ==
    {IF e.rc = "ok" THEN Noticed(e.s, CStat(s), CStat(s) # s.seen) ELSE [e.s EXCEPT !.ret = "error"]
     : e \in Exchange(s, Frames)}

CardStatus1038(s) ==
    IF s.seen # "unknown" THEN {Capture(s)}
    ELSE {IF e.rc # "ok" THEN [e.s EXCEPT !.ret = "error"]
          ELSE [Noticed(e.s, IF CStat(s) = "out" THEN "out" ELSE "in", CStat(s) # "out")
                   EXCEPT !.notes = s.notes]
          : e \in Exchange(s, Frames)}

ps_card_status ==
    /\ ~ps.apdu
    /\ \/ ps.model = "1030" /\ ps' \in CardStatus1030(ps)
       \/ ps.model = "1038" /\ ps' \in CardStatus1038(ps)

-----------------------------------------------------------------------------
(* Reset and protocol *)

Failed(s) == [s EXCEPT !.ret = "error"]

(* The protocol that follows from the ATR, or none that is possible.  Only
   the 1038 compares it with the protocols in the ATR. *)
Negotiated(s, want) ==
    LET c == PsCard[s.card]
    IN  IF c.only # "none" THEN c.only
        ELSE IF want = "default" THEN c.def
        ELSE IF s.model = "1038" /\ want \notin c.supp THEN "none"
        ELSE want

(* mutant: the protocol in use is not noted *)
SelectedForgotten(s, p) == [s EXCEPT !.slot = p, !.ret = "ok"]

(* The protocol object is replaced when there is none or another is wanted. *)
Selected(s, p) ==
    IF s.slot = "none" \/ s.cur # p THEN [s EXCEPT !.slot = p, !.cur = p, !.ret = "ok"]
                                    ELSE [s EXCEPT !.ret = "ok"]

(* PS_RESET: a card is powered.  The 1038 then asks for the card status and
   does not look at what it reports. *)
PowerUp(s, want) ==
    LET up(e) == [e.s EXCEPT !.power = TRUE]
        Eaten(u, c) == [c EXCEPT !.swapped = u.swapped,
                                 !.eaten = u.eaten \/ (u.seen # "unknown" /\ Changes(u))]
        Asked(u) == IF s.model = "1030" THEN {u} ELSE {Eaten(u, c) : c \in CardStatus1038(u)}
        p == Negotiated(s, want)
        good == {e \in Exchange(s, Frames) : e.rc \in {"ok", "short"} /\ s.card # "none"}
    IN  {Failed(e.s) : e \in {x \in Exchange(s, Frames) : x.rc \notin {"ok", "short"} \/ s.card = "none"}}
        \cup UNION {{IF e.rc = "short" \/ p = "none" THEN Failed(t) ELSE Selected(t, p)
                      : t \in Asked(up(e))} : e \in good}

(* PS_POWER_OFF, then PS_SELECT_CARD_TYPE where the protocol changes.  The
   1030 powers off in any case. *)
ps_card_reset_select_protocol(s, want) ==
    LET other == s.slot = "none" \/ s.cur # want
        off == IF s.model = "1030" \/ other THEN Command(s) ELSE {[s |-> s, rc |-> "ok"]}
        sel == {e \in off : e.rc = "ok"}
    IN  {Failed(e.s) : e \in off \ sel}
        \cup UNION {LET o == [e.s EXCEPT !.power = @ /\ e.s = s]
                        c == IF other THEN Command(o) ELSE {[s |-> o, rc |-> "ok"]}
                    IN  {Failed(x.s) : x \in {y \in c : y.rc # "ok"}}
                        \cup UNION {PowerUp(x.s, want) : x \in {y \in c : y.rc = "ok"}}
                    : e \in sel}

(* ifd_card_request() frees the protocol of the slot; ps_card_reset() asks
   for the protocol of the last time. *)
ps_card_reset ==
    /\ ~ps.apdu
    /\ \E s \in ps_card_reset_select_protocol([ps EXCEPT !.slot = "none"], ps.cur) :
          ps' = [s EXCEPT !.fresh = (ps.cur = "default")]

ps_set_protocol(want) ==
    /\ ~ps.apdu
    /\ IF ps.slot = "none" \/ ps.cur # want
       THEN \E s \in ps_card_reset_select_protocol(ps, want) :
               ps' = [s EXCEPT !.fresh = FALSE]
       ELSE ps' = [ps EXCEPT !.ret = "ok"]

ps_deactivate == ~ps.apdu /\ \E e \in Command(ps) :
                    ps' = [e.s EXCEPT !.ret = IF e.rc = "ok" THEN "ok" ELSE "error",
                                      !.power = @ /\ e.rc # "ok"]

-----------------------------------------------------------------------------
(* ps_apdu_send() and ps_apdu_recv(): called one after the other by the
   protocol of the slot. *)
ApduSent == ps' = [Sent(ps) EXCEPT !.if_state = "SENDING", !.apdu = TRUE, !.ret = "none", !.locked = FALSE]
ApduNotSent(state) == ps' = [ps EXCEPT !.if_state = state, !.ret = "error", !.locked = FALSE]

(* The 1030 frames a T=0 APDU for itself and has no frame for case 4: that
   one, and one too long, is refused before anything starts. *)
ApduSend1030 ==
    \/ Ready(ps) /\ (ApduSent \/ ApduNotSent("IDLE"))
    \/ ps.cur = "T0" /\ ApduNotSent(ps.if_state)
    \/ ~Ready(ps) /\ ps' = Locked1030(ps)

ApduSend1038 ==
    \/ Ready(ps) /\ (ApduSent \/ ApduNotSent("ERROR"))
    \/ ~Ready(ps) /\ ps' = Locked1038(ps)

ps_apdu_send ==
    /\ ~ps.apdu /\ ps.slot # "none"
    /\ \/ ps.model = "1030" /\ ApduSend1030
       \/ ps.model = "1038" /\ ApduSend1038

ps_apdu_recv ==
    /\ ps.apdu
    /\ \E e \in Reads(ps, Frames) :
          ps' = [e.s EXCEPT !.apdu = FALSE,
                            !.ret = CASE e.rc = "ok" -> "apdu" [] e.rc = "short" -> "short"
                                      [] OTHER -> "error"]

(* The user *)
PsInsert(c) ==
    /\ ps.card = "none" /\ ps.cards < PsCards /\ Len(ps.notes) < PsNotes
    /\ ps' = [ps EXCEPT !.card = c, !.cards = @ + 1, !.power = FALSE,
                        !.notes = IF ps.model = "1038" THEN Append(@, "in") ELSE @]

PsRemove ==
    /\ ps.card # "none" /\ Len(ps.notes) < PsNotes
    /\ ps' = [ps EXCEPT !.card = "none", !.swapped = @ \/ (ps.power /\ ps.seen \in {"in", "on"}),
                        !.power = FALSE,
                        !.notes = IF ps.model = "1038" THEN Append(@, "out") ELSE @]

PsNext ==
    \/ ps_card_status \/ ps_card_reset \/ ps_deactivate \/ ps_apdu_send \/ ps_apdu_recv
    \/ \E want \in {"default", "T0", "T1"} : ps_set_protocol(want)
    \/ \E c \in DOMAIN PsCard : PsInsert(c)
    \/ PsRemove

-----------------------------------------------------------------------------
(* The answer an APDU gets is its own, whole and undamaged.  A frame that ends
   before the length it announces is no error to the 1030: that answer is cut
   short, but not one of an earlier APDU either. *)
PsAnswerIsOwn == /\ ps.ret = "apdu" => ps.got = GoodFrame
                 /\ ps.ret = "short" => ~ps.got.stale

(* An APDU is framed for the protocol (cur_icc_proto) that the slot speaks,
   and after a reset with no protocol noted before it is one of the card's. *)
PsAgree ==
    ps.slot # "none" => /\ ps.slot = ps.cur
                        /\ ps.power /\ ps.fresh => ps.slot \in PsCard[ps.card].supp

(* A card that was in use and has been taken out is reported as a change by
   the next card_status.  The 1038 does so also when another card is already in
   its place, unless ps_card_reset() has read the notification away; the 1030,
   which compares two states, only when there is none. *)
PsChangeKept ==
    ps.swapped => \/ ps.model = "1038" /\ (Changes(ps) \/ ps.eaten)
                  \/ ps.model = "1030" /\ (CStat(ps) # ps.seen \/ ps.card # "none")

(* A refusal because of an unfinished transmission is not for good. *)
PsUnlocks == ps.locked => ps.if_state \in {"IDLE", "ERROR"}

(* "we will select the default protocol as specified by the card"
   (reader.c:214), also for a card after another. *)
PsDefaultProtocol == ps.slot # "none" /\ ps.power => ps.slot \in PsCard[ps.card].supp
=============================================================================
