--------------------------------- MODULE Ccid ---------------------------------
(***************************************************************************)
(* The driver of CCID readers (ifd-ccid.c): the choice of the interface    *)
(* and of the features when the reader is opened, the numbered exchange on *)
(* the bulk pipes, the status of the slots from the interrupt pipe, reset, *)
(* protocol selection and the transfer of blocks.  The calls of the driver *)
(* come one at a time from the core (reader.c); the reader, the cards and  *)
(* the user are external.                                                  *)
(***************************************************************************)
EXTENDS Naturals, Sequences

CONSTANTS CcSeqMod, \* the number of a command is taken modulo this (256 in the code)
          CcFails,  \* bound: commands in a row that are not sent or not answered in time
          CcNotes,  \* bound: messages waiting in the interrupt pipe
          CcCards   \* bound: cards put in

ASSUME CcAssumption == CcSeqMod \in Nat /\ CcFails \in Nat /\ CcFails < CcSeqMod

VARIABLE cc

(* The cards: protocols, default, and whether the ATR has TA1 and TC1. *)
CcCard == [t0   |-> [supp |-> {"T0"}, def |-> "T0", ta1 |-> TRUE, tc1 |-> FALSE],
           t1   |-> [supp |-> {"T1"}, def |-> "T1", ta1 |-> FALSE, tc1 |-> TRUE],
           both |-> [supp |-> {"T0", "T1"}, def |-> "T0", ta1 |-> FALSE, tc1 |-> FALSE]]

(* An interface of the reader: its class is right, its endpoints (two bulk
   ones, or an interrupt one as well), and its class descriptor. *)
CcIntf(type, ends, desc) == [type |-> type, ends |-> ends, desc |-> desc]
Bulk == {"out", "in"}
Keyboard == CcIntf(FALSE, {"intr"}, FALSE)
NoDesc == CcIntf(TRUE, Bulk \cup {"intr"}, FALSE)
HalfDuplex == CcIntf(TRUE, {"out", "intr"}, TRUE)
Plain == CcIntf(TRUE, Bulk, TRUE)
Full == CcIntf(TRUE, Bulk \cup {"intr"}, TRUE)

(* Readers: their interfaces, dwFeatures, real slots, an OmniKey 5121. *)
CcDevice(intfs, features, slots, esc) ==
    [intfs |-> intfs, features |-> features, slots |-> slots, esc |-> esc]
CcDevices ==
    {CcDevice(<<Keyboard, Full>>, {"tpdu", "clock"}, 1, FALSE),
     CcDevice(<<HalfDuplex, Plain>>, {"tpdu", "clock", "parse", "volt"}, 1, FALSE),
     CcDevice(<<NoDesc, Full>>, {"clock", "activate", "pps"}, 1, FALSE),
     CcDevice(<<Full>>, {"apdu", "clock", "volt"}, 1, TRUE),
     CcDevice(<<Full>>, {"tpdu", "clock", "auto", "volt"}, 2, FALSE),
     CcDevice(<<Full>>, {"tpdu"}, 1, FALSE),
     CcDevice(<<NoDesc, HalfDuplex>>, {"tpdu", "clock"}, 1, FALSE)}

CcInit ==
    \E d \in CcDevices :
        cc = [dev |-> d, st |-> "closed", intf |-> 0, intr |-> FALSE, rtype |-> "CHAR",
              seq |-> 0, owed |-> <<>>, fails |-> 0, stale |-> FALSE,
              icc_present |-> [s \in 0 .. 1 |-> "unknown"], notes |-> <<>>,
              swapped |-> FALSE, eaten |-> FALSE,
              card |-> [s \in 0 .. 1 |-> "none"], cards |-> 0, power |-> FALSE,
              proto |-> "none", icc |-> "none", rpar |-> "T0", cpar |-> "T0", chosen |-> FALSE, dirty |-> FALSE,
              esc |-> "none", sbuf |-> "none", twice |-> FALSE]

-----------------------------------------------------------------------------
(* ccid_open_usb() *)

(* mutant: an endpoint too few is no reason to go on *)
CcUsableAny(i) == i.type /\ i.desc

(* ok == 7 (an interface of two endpoints needs no interrupt one), and a class
   descriptor follows. *)
CcUsable(i) == i.type /\ Bulk \subseteq i.ends /\ i.desc

(* The features the driver cannot do without, and what it notes of the
   others.  (A keyboard or an interface passed over leaves support_events set:
   not used here, see ReaderSlots for the events.) *)
ccid_open_usb ==
    LET d == cc.dev
        ok == {k \in DOMAIN d.intfs : CcUsable(d.intfs[k])}
        k == CHOOSE x \in ok : \A y \in ok : x <= y
        has(f) == f \in d.features
    IN  /\ cc.st = "closed"
        /\ cc' = IF ok = {} \/ ~has("clock") THEN [cc EXCEPT !.st = "failed"]
                 ELSE [cc EXCEPT !.st = "open", !.intf = k, !.intr = "intr" \in d.intfs[k].ends,
                                 !.rtype = IF has("tpdu") THEN "TPDU" ELSE IF has("apdu") THEN "APDU"
                                           ELSE "CHAR"]

NoPts == cc.dev.features \cap {"auto", "pps"} # {}
NoSetparam == "auto" \in cc.dev.features
AutoParse == "parse" \in cc.dev.features
NSlots == cc.dev.slots + IF cc.dev.esc THEN 1 ELSE 0
IsEscape(slot) == cc.dev.esc /\ slot = NSlots - 1

-----------------------------------------------------------------------------
(* One command and its answer *)

CcRes(s, rc, done) == [s |-> s, rc |-> rc, done |-> done]

(* mutant: the number of an answer is not compared *)
CcMatchSlot(s, slot, a) == a.slot = slot

CcMatch(s, slot, a) == a.slot = slot /\ a.seq = s.seq

(* ccid_prepare_cmd(), ccid_command(), ccid_checkresponse(): all outcomes.
   The answers the driver gave up on come first.  The reader answers, with an
   error perhaps, or not within the time: then its answer may still come, after
   those of earlier commands that have not come either; a request for more time
   is followed by one of these.  done: the reader has executed the command. *)
CcCommand(s, slot) ==
    LET next == [s EXCEPT !.seq = (@ + 1) % CcSeqMod, !.stale = FALSE]
        sent == [next EXCEPT !.fails = 0, !.owed = <<>>]
        lost == [next EXCEPT !.fails = @ + 1]
        own == [slot |-> slot, seq |-> s.seq]
        hit == {i \in DOMAIN s.owed : CcMatch(s, slot, s.owed[i])}
        i == CHOOSE x \in hit : \A y \in hit : x <= y
        late == {SubSeq(s.owed, k, Len(s.owed)) \o <<own>> : k \in 1 .. Len(s.owed) + 1}
    IN  {x \in {CcRes(lost, "error", FALSE)} \cup {CcRes([lost EXCEPT !.owed = o], "error", TRUE) : o \in late}
           : s.fails < CcFails}
        \cup IF hit # {}
             THEN {CcRes([sent EXCEPT !.owed = SubSeq(s.owed, i + 1, Len(s.owed)) \o <<own>>,
                                      !.stale = TRUE], "ok", TRUE)}
             ELSE {CcRes(sent, "ok", TRUE), CcRes(sent, "nocard", FALSE), CcRes(sent, "error", FALSE)}

(* A further command where the previous one went well. *)
CcThen(rs, need, slot, Effect(_)) ==
    IF ~need THEN rs
    ELSE {r \in rs : r.rc # "ok"}
         \cup UNION {{[q EXCEPT !.s = IF q.done THEN Effect(q.s) ELSE q.s] : q \in CcCommand(r.s, slot)}
                     : r \in {x \in rs : x.rc = "ok"}}

-----------------------------------------------------------------------------
(* ccid_card_status() *)

InOut(c) == IF c = "none" THEN "out" ELSE "in"

CcTold(s, slot, stat, changed) ==
    CcRes([s EXCEPT !.icc_present[slot] = stat], IF changed THEN "changed" ELSE "same", TRUE)

(* mutant: a change is a difference to the cached state *)
CcPolledCompare(s, slot) ==
    LET stat == s.notes[Len(s.notes)][slot].stat
    IN  CcTold([s EXCEPT !.notes = <<>>], slot, stat, stat # s.icc_present[slot])

(* The messages of the interrupt pipe are read away; the bits of the other
   slots in them are lost. *)
CcPolled(s, slot) ==
    CcTold([s EXCEPT !.notes = <<>>], slot, s.notes[Len(s.notes)][slot].stat,
           \E i \in DOMAIN s.notes : s.notes[i][slot].ch)

(* With nothing in the pipe the cached state counts; without a pipe, or the
   first time, the reader is asked: for the state of slot 0. *)
CcStatus(s, slot) ==
    CASE s.intr /\ IsEscape(slot) -> {CcRes(s, "same", TRUE)}
      [] s.intr /\ ~IsEscape(slot) /\ s.notes # <<>> -> {CcPolled(s, slot), CcRes(s, "error", FALSE)}
      [] s.intr /\ ~IsEscape(slot) /\ s.notes = <<>> /\ s.icc_present[slot] # "unknown"
            -> {CcRes(s, "same", TRUE)}
      [] OTHER ->
            LET stat == InOut(s.card[0]) IN
            {IF r.rc = "error" THEN r ELSE CcTold(r.s, slot, stat, s.icc_present[slot] # stat)
             : r \in {x \in CcCommand(s, 0) : x.rc = "nocard" => stat = "out"}}

ccid_card_status(slot) ==
    /\ cc.st = "open" /\ slot < NSlots
    /\ \E r \in CcStatus(cc, slot) :
          cc' = [r.s EXCEPT !.swapped = @ /\ ~(slot = 0 /\ r.rc = "changed"),
                            !.eaten = r.s.swapped /\ (@ \/ (slot # 0 /\ r.s.notes # cc.notes))]

-----------------------------------------------------------------------------
(* ccid_set_protocol() *)

(* mutant: a reader that parses the ATR needs no parameters *)
CcNeedsParamsManual(proto) == ~NoSetparam /\ ~AutoParse

CcNeedsParams(proto) == ~NoSetparam /\ (~AutoParse \/ proto # "T0")

(* The protocol object of the slot *)
CcObject(proto) == IF cc.rtype = "APDU" \/ (proto = "T0" /\ cc.rtype # "CHAR") THEN "trans" ELSE proto

(* GETPARAMS, SETPARAMS for the guard time, PTS, SETPARAMS: each where the
   features of the reader and the ATR ask for it.  ifd_build_pts() refuses a
   protocol the card has not got.  The protocol of the slot is replaced after
   the last one. *)
CcSetProtocol(s, proto) ==
    LET c == CcCard[s.card[0]]
        Same(x) == x
        Pts(x) == [x EXCEPT !.cpar = proto]
        Par(x) == [x EXCEPT !.rpar = proto,
                            !.cpar = IF "pps" \in cc.dev.features /\ proto \in c.supp THEN proto ELSE @]
        s0 == [s EXCEPT !.dirty = @ \/ s.chosen, !.chosen = TRUE]
        pts == ~NoPts /\ (proto = "T1" \/ c.ta1)
        r1 == CcThen({CcRes(s0, "ok", TRUE)}, ~NoSetparam, 0, Same)
        r2 == CcThen(r1, ~NoSetparam /\ ~NoPts /\ ~AutoParse /\ c.tc1, 0, Same)
        r3 == IF pts /\ proto \notin c.supp THEN {[r EXCEPT !.rc = "error"] : r \in r2}
              ELSE CcThen(r2, pts, 0, Pts)
        r4 == CcThen(r3, CcNeedsParams(proto), 0, Par)
        all == IF cc.rtype = "APDU" THEN {CcRes(s0, "ok", TRUE)} ELSE r4
    IN  {IF r.rc = "ok" THEN [r.s EXCEPT !.proto = CcObject(proto), !.icc = proto]
                        ELSE [r.s EXCEPT !.dirty = TRUE] : r \in all}

(* A client's request.  A slot without an ATR has none to parse. *)
ccid_set_protocol(proto) ==
    /\ cc.st = "open" /\ cc.power
    /\ cc' \in CcSetProtocol(cc, proto)

-----------------------------------------------------------------------------
(* ccid_card_reset(), after ifd_card_request() has freed the protocol; then
   the protocol that the ATR asks for.  The change that the status call within
   reports goes nowhere.  The voltages are tried one after the other unless
   the reader chooses it. *)
CcPowerUp(s) ==
    LET On(x) == [x EXCEPT !.power = TRUE, !.chosen = FALSE, !.dirty = FALSE,
                           !.rpar = IF AutoParse THEN CcCard[x.card[0]].def ELSE "T0",
                           !.cpar = CcCard[x.card[0]].def]
        once == CcThen({CcRes(s, "ok", TRUE)}, TRUE, 0, On)
        again == IF "volt" \in cc.dev.features THEN {}
                 ELSE UNION {CcThen({CcRes(r.s, "ok", TRUE)}, TRUE, 0, On) : r \in {x \in once : x.rc # "ok"}}
    IN  again \cup {r \in once : r.rc = "ok" \/ "volt" \in cc.dev.features}

ccid_card_reset ==
    LET asked == {[r EXCEPT !.s.eaten = @ \/ (r.rc = "changed" /\ r.s.swapped)]
                    : r \in CcStatus([cc EXCEPT !.proto = "none"], 0)}
        on == {r \in asked : r.rc # "error" /\ r.s.icc_present[0] = "in" /\ r.s.card[0] # "none"}
    IN  /\ cc.st = "open"
        /\ \/ \E r \in asked \ on : cc' = r.s
           \/ \E a \in on : \E r \in CcPowerUp(a.s) :
                 IF r.rc # "ok" THEN cc' = r.s ELSE cc' \in CcSetProtocol(r.s, CcCard[r.s.card[0]].def)

(* The reset of the virtual slot of an OmniKey sets its protocol. *)
CcResetEscape ==
    /\ cc.st = "open" /\ cc.dev.esc
    /\ cc' = [cc EXCEPT !.esc = "ESCAPE"]

-----------------------------------------------------------------------------
(* Blocks *)

(* ccid_transparent() and ccid_escape() exchange at once. *)
ccid_transparent ==
    /\ cc.st = "open" /\ cc.proto = "trans" /\ cc.sbuf = "none"
    /\ cc.rtype = "APDU" \/ (cc.rtype = "TPDU" /\ cc.icc = "T0")
    /\ \E r \in CcCommand(cc, 0) : cc' = r.s

ccid_escape ==
    /\ cc.st = "open" /\ cc.esc = "ESCAPE" /\ cc.sbuf = "none"
    /\ \E r \in CcCommand(cc, NSlots - 1) : cc' = r.s

(* T=1, and T=0 on a reader for characters: ccid_send() keeps the block,
   ccid_recv() sends it, or nothing, and waits for the answer. *)
ccid_send ==
    /\ cc.st = "open" /\ cc.proto \in {"T0", "T1"} /\ cc.sbuf # "new"
    /\ cc' = [cc EXCEPT !.sbuf = "new"]

(* mutant: the block is kept for the next time *)
ccid_recvKept ==
    /\ cc.st = "open" /\ cc.proto \in {"T0", "T1"}
    /\ \E r \in CcCommand(cc, 0) :
          cc' = [r.s EXCEPT !.twice = (cc.sbuf = "sent"),
                            !.sbuf = IF cc.sbuf = "new" THEN "sent" ELSE @]

ccid_recv ==
    /\ cc.st = "open" /\ cc.proto \in {"T0", "T1"}
    /\ \E r \in CcCommand(cc, 0) :
          cc' = [r.s EXCEPT !.twice = (cc.sbuf = "sent"), !.sbuf = "none"]

-----------------------------------------------------------------------------
(* The user.  Readers with an interrupt pipe say so in it. *)
CcNote(slot, c) ==
    IF ~cc.intr THEN cc.notes
    ELSE Append(cc.notes, [s \in 0 .. 1 |-> [stat |-> IF s = slot THEN InOut(c) ELSE InOut(cc.card[s]),
                                             ch |-> s = slot]])

CcMove(slot) ==
    /\ cc.st = "open" /\ slot < cc.dev.slots /\ Len(cc.notes) < CcNotes
    /\ \E c \in DOMAIN CcCard \cup {"none"} :
          /\ (c = "none") # (cc.card[slot] = "none")
          /\ c # "none" => cc.cards < CcCards
          /\ cc' = [cc EXCEPT !.card[slot] = c, !.cards = IF c = "none" THEN @ ELSE @ + 1,
                              !.power = @ /\ slot # 0, !.notes = CcNote(slot, c),
                              !.swapped = @ \/ slot = 0, !.eaten = @ /\ slot # 0]

CcNext ==
    \/ ccid_open_usb \/ ccid_card_reset \/ CcResetEscape
    \/ ccid_transparent \/ ccid_escape \/ ccid_send \/ ccid_recv
    \/ \E slot \in 0 .. 1 : ccid_card_status(slot) \/ CcMove(slot)
    \/ \E proto \in {"T0", "T1"} : ccid_set_protocol(proto)

-----------------------------------------------------------------------------
(* An answer that comes after the driver has given up on it is never taken
   for the answer to a later command (ccid_command compares slot and number),
   and a kept block goes to the reader once. *)
CcAnswerIsOwn == ~cc.stale /\ ~cc.twice

(* Between a reset and the next failed or repeated selection, the protocol of
   the slot, when the card has it, the parameters of the reader and the card
   agree, whichever of GETPARAMS, PTS and SETPARAMS the features leave out.
   Readers that negotiate themselves (0x40, and those for APDUs) are not told. *)
CcAgree ==
    cc.proto # "none" /\ cc.power /\ ~cc.dirty /\ cc.rtype # "APDU" /\ ~NoSetparam
        /\ cc.icc \in CcCard[cc.card[0]].supp
    => cc.proto = CcObject(cc.icc) /\ cc.rpar = cc.icc /\ cc.cpar = cc.icc

(* The endpoints in use are those of the interface that was accepted. *)
CcOpened == cc.st = "open" => /\ Bulk \subseteq cc.dev.intfs[cc.intf].ends
                              /\ cc.intr <=> "intr" \in cc.dev.intfs[cc.intf].ends

(* In a reader that says in the interrupt pipe when a card comes or goes, a
   change in the first slot is told by a message that waits there, until a
   status call reports it, or until it has been read away: by ccid_card_reset(),
   or by the status of the other slot, since a message carries all slots and is
   read for one.  With none waiting the cached state is that of the card, except
   in the latter case. *)
CcStatusTrue ==
    cc.intr =>
        /\ cc.swapped => cc.eaten \/ \E i \in DOMAIN cc.notes : cc.notes[i][0].ch
        /\ cc.notes = <<>> /\ cc.icc_present[0] # "unknown" =>
              cc.icc_present[0] = InOut(cc.card[0]) \/ (cc.dev.slots = 2 /\ cc.eaten)
=============================================================================
