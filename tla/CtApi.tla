-------------------------------- MODULE CtApi --------------------------------
(***************************************************************************)
(* The CT-API front end (ctapi.c): terminals opened with CT_init, commands *)
(* to the terminal, its files and its cards with CT_data, CT_close.        *)
(*                                                                         *)
(* A command is a record of what the code looks at: its instruction, its   *)
(* form (cut: fewer than 4 bytes; short: 4; le: a fifth byte n; data: n    *)
(* bytes more; both: n bytes and an Le), P1, P2 and data objects.  Answers *)
(* are their length, status word and, for a file, its bytes.  External: the*)
(* reader's server (locks and calls, see IfdLocks and Calls) and its cards.*)
(***************************************************************************)
EXTENDS Naturals, Integers, Sequences, SequencesExt, FiniteSets

CONSTANTS CaSlots,  \* slots of the reader, 1 or 2
          CaInits   \* bound: connections made by CT_init

ASSUME CtApiAssumption == CaSlots \in 1 .. 2 /\ CaInits \in Nat

VARIABLE ca

Ctns == {1, 2}
CaSlot == 0 .. 1
UnitCT == -1               \* P1 less CTBCS_UNIT_INTERFACE1: a slot, or the terminal itself
Rooms == {1, 3, 300}       \* room for the answer (*lr)

(* What ct_card_reset() returns: the length of the ATR.  (An asynchronous card
   with an ATR of four bytes is taken for a synchronous one.) *)
CaAtrLen == [none |-> -1, sync |-> 4, async |-> 6]

(* The end of a call: rc is its result, len and sw the answer, to the slot
   that was asked ("memory" and "apdu") and the file bytes. *)
CaNoCall == [call |-> "none", rc |-> "OK", len |-> 0, room |-> 300, sw |-> "", slot |-> 0, dad |-> 0,
           off |-> 0, want |-> 0, data |-> <<>>]

CaInit ==
    ca \in [terms : {<<>>}, lock : {0}, conns : {0}, card : [0 .. CaSlots - 1 -> {"none", "async"}],
            running : {"yes"}, res : {CaNoCall}]

-----------------------------------------------------------------------------
(* Answers *)
ErrInvalid == [CaNoCall EXCEPT !.rc = "INVALID"]
ctapi_error(sw) == [CaNoCall EXCEPT !.len = 2, !.sw = sw]
ctapi_answer(n, room) == IF n + 2 > room THEN ctapi_error("BAD_LENGTH")
                         ELSE [CaNoCall EXCEPT !.len = n + 2, !.sw = "9000"]

-----------------------------------------------------------------------------
(* The files of a terminal *)
FilesOf(f) ==
    CASE f = "mf" -> <<"mf", "ctcf", "ctdir">> \o [i \in 1 .. CaSlots |-> <<"icc1", "icc2">>[i]]
      [] f \in {"ctcf", "ctdir"} -> <<"mf">>
      [] OTHER -> <<f>>

Entry(f) == [i \in 1 .. 5 |-> <<f, i>>]

(* dir(), hostcf(): the pieces they put.  ctcf() and hoststatus() put nothing
   and do not set the size. *)
Pieces(f) ==
    CASE f \in {"ctcf", "hoststatus"} -> <<>>
      [] f = "hostcf" -> << [i \in 1 .. 2 |-> <<"tag", i>>], [i \in 1 .. 6 |-> <<"OpenCT", i>>] >>
      [] OTHER -> [i \in DOMAIN FilesOf(f) |-> Entry(FilesOf(f)[i])]

Content(f) == FlattenSeq(Pieces(f))

(* mutant: the bytes skipped count towards the length *)
putLength(p, piece) ==
    LET skip == IF p.start < Len(piece) THEN p.start ELSE Len(piece)
        n == IF Len(piece) < p.length THEN Len(piece) - skip ELSE IF skip < p.length THEN p.length - skip ELSE 0
    IN  [start |-> p.start - skip, length |-> p.length - n - skip, out |-> p.out \o SubSeq(piece, 1, n)]

(* put(): bytes before start are not copied, but neither is data moved past
   them: a piece that start cuts comes out from its first byte *)
put(p, piece) ==
    LET skip == IF p.start < Len(piece) THEN p.start ELSE Len(piece)
        left == Len(piece) - skip
        n == IF left < p.length THEN left ELSE p.length
    IN  [start |-> p.start - skip, length |-> p.length - n, out |-> p.out \o SubSeq(piece, 1, n)]

BytesRead(f, off, len) ==
    FoldLeft(put, [start |-> off, length |-> len, out |-> <<>>], Pieces(f)).out

(* CardTerminalFile_read(): the answer for a file of this size, and the answers
   possible *)
Ending(out, size, off, len, room) ==
    LET a == IF off > size THEN ctapi_error("6b00")
             ELSE [ctapi_answer(Len(out), room) EXCEPT
                      !.sw = IF @ = "9000" /\ off + len < size THEN "6282" ELSE @, !.data = out]
    IN  IF Len(out) > room THEN ErrInvalid
        ELSE [a EXCEPT !.call = "file", !.off = off, !.want = len]

CardTerminalFile_read(f, off, len, room) ==
    LET sizes == IF f \in {"ctcf", "hoststatus"} THEN {0, 65535} ELSE {Len(Content(f))}
    IN  {Ending(BytesRead(f, off, len), size, off, len, room) : size \in sizes}

(* CardTerminalFile_select(): the file, "" for none *)
CardTerminalFile_select(cwd, id) ==
    IF id \in {"mf", "hostcf", "hoststatus"} \/ \E i \in DOMAIN FilesOf(cwd) : FilesOf(cwd)[i] = id
    THEN id ELSE ""

-----------------------------------------------------------------------------
(* Commands to the terminal.  Each gives pairs of a terminal and an answer. *)

(* mutant: a reset that failed or brings another card leaves the flag *)
ctapi_resetSticky(t, unit, p2, rc, room) ==
    IF rc < 0 THEN [t |-> t, a |-> ErrInvalid]
    ELSE [t |-> IF unit \notin CaSlot THEN t
                ELSE [t EXCEPT !.sync = IF rc = 4 THEN @ \cup {unit} ELSE @, !.atr[unit] = rc],
          a |-> IF p2 = "hist" THEN ctapi_error("BAD_PARAMS")
                ELSE ctapi_answer(IF p2 = "atr" THEN rc ELSE 0, room)]

(* ctapi_reset() for a unit that it knows, where the reset ended with rc; the
   unit is a slot or the terminal, whose bit is outside of the flags *)
ctapi_reset(t, unit, p2, rc, room) ==
    IF rc < 0 THEN [t |-> t, a |-> ErrInvalid]
    ELSE [t |-> IF unit \notin CaSlot THEN t
                ELSE [t EXCEPT !.sync = IF rc = 4 THEN @ \cup {unit} ELSE @ \ {unit}, !.atr[unit] = rc],
          a |-> IF p2 = "hist" THEN ctapi_error("BAD_PARAMS")
                ELSE ctapi_answer(IF p2 = "atr" THEN rc ELSE 0, room)]

(* ct_card_reset() may fail on any card, and fails without one *)
ResetResults(unit) ==
    IF unit = UnitCT THEN {0}
    ELSE {-1} \cup (IF unit < CaSlots THEN {CaAtrLen[ca.card[unit]]} ELSE {})

Reset(t, c, room) ==
    IF c.p1 \notin CaSlot \cup {UnitCT} THEN {[t |-> t, a |-> ctapi_error("BAD_PARAMS")]}
    ELSE {ctapi_reset(t, c.p1, c.p2, rc, room) : rc \in ResetResults(c.p1)}

(* ctapi_request_icc(): high is P2 >> 4, which only 0 passes.  The Le of a
   command that has both is read as the start of a data object. *)
BadObjects(c) == c.form = "both" \/ (c.form = "data" /\ c.obj \in {"cut", "timeout2"})

ctapi_request_icc(t, c, room) ==
    IF c.high # 0 THEN {[t |-> t, a |-> ctapi_error("BAD_PARAMS")]}
    ELSE IF BadObjects(c) THEN {[t |-> t, a |-> ctapi_error("BAD_LENGTH")]}
    ELSE Reset(t, c, room)

(* ctapi_set_interface_parameter() *)
ctapi_set_interface_parameter(c) ==
    IF c.p1 \notin CaSlot \/ c.p2 # "none" THEN {ctapi_error("BAD_PARAMS")}
    ELSE IF c.form \in {"short", "le"} THEN {ctapi_error("BAD_PARAMS")}
    ELSE CASE c.obj \in {"cut", "tpp2"} -> {ctapi_error("BAD_LENGTH")}
           [] c.obj = "other" -> {ctapi_error("INVALID_TLV")}
           [] c.obj = "tpp_sync" -> {ctapi_error("NOT_SUPPORTED")}
           [] c.obj \in {"tpp_bad", "tpc"} -> {ctapi_error("BAD_PARAMS")}
           [] c.obj = "tpp" /\ c.form = "both" -> {ctapi_error("BAD_LENGTH")}
           [] OTHER -> {ctapi_error("9000"), ctapi_error("NOT_EXECUTABLE")}

(* ctapi_status(): up to two bytes.  The server also answers for the slot one
   past the last of a reader with one slot. *)
ctapi_status(room) ==
    {IF n > room THEN ctapi_error("BAD_LENGTH") ELSE ctapi_answer(n, room) : n \in 0 .. 2}

(* The end of ctapi_control(): no more than Le bytes and the status word *)
Limited(le, a) == IF a.len > le + 2 THEN ctapi_error("BAD_LENGTH") ELSE a

(* Le as ctapi_control() and ctapi_transact() read it: of a command with data
   and an Le it is the length of the data *)
LeOf(c) == IF c.form \in {"le", "both"} /\ c.n # 0 THEN c.n ELSE 256

(* The switch of ctapi_control(): the terminal and the answer it can lead to *)
Handled(t, c, room) ==
    LET Same(as) == {[t |-> t, a |-> a] : a \in as}
        id == IF c.form \in {"data", "both"} /\ c.n = 2 THEN CardTerminalFile_select(t.cwd, c.id) ELSE "bad"
        long == IF c.ins = "b1_reset" THEN c.form # "le" ELSE c.form \in {"data", "both"}
    IN  CASE c.ins \in {"b1_reset", "reset"} ->
                IF long THEN Same({ctapi_error("BAD_LENGTH")})
                ELSE IF c.form = "le" /\ c.n # 0 THEN Same({ctapi_error("BAD_LE")})
                ELSE Reset(t, c, room)
          [] c.ins = "request_icc" -> ctapi_request_icc(t, c, room)
          [] c.ins = "status" -> Same(ctapi_status(room))
          [] c.ins = "read" -> Same(CardTerminalFile_read(t.cwd, c.off, LeOf(c), room))
          [] c.ins = "select" ->
                IF id = "bad" THEN Same({ctapi_error("BAD_CLASS")})
                ELSE IF id = "" THEN Same({ctapi_error("6a82")})
                ELSE {[t |-> [t EXCEPT !.cwd = id],
                       a |-> IF room < 12 THEN ErrInvalid ELSE ctapi_answer(10, room)]}
          [] c.ins = "set_param" -> Same(ctapi_set_interface_parameter(c))
          [] OTHER -> Same({ctapi_error("BAD_CLASS"), ctapi_error("BAD_INS")})

ctapi_control(t, c, room) ==
    {[t |-> o.t, a |-> [Limited(LeOf(c), o.a) EXCEPT !.room = room]] : o \in Handled(t, c, room)}

(* The commands sent *)
Cmd(ins, form, n) == [ins |-> ins, form |-> form, n |-> n, p1 |-> UnitCT, p2 |-> "none", high |-> 0,
                      obj |-> "", off |-> 0, id |-> ""]

Commands ==
    LET Plain == {<<"short", 0>>, <<"le", 0>>, <<"le", 2>>}
        WithData == {<<"data", 2>>, <<"both", 2>>}
        Units == {UnitCT, 0, 1, 63}
    IN  {[Cmd(i, f[1], f[2]) EXCEPT !.p1 = u, !.p2 = p] :
             i \in {"b1_reset", "reset"}, f \in Plain, u \in Units, p \in {"none", "atr", "hist"}}
        \cup {[Cmd("request_icc", f[1], f[2]) EXCEPT !.p1 = u, !.p2 = "atr", !.high = h] :
                 f \in Plain, u \in Units, h \in {0, 15}}
        \cup {[Cmd("request_icc", f[1], f[2]) EXCEPT !.p1 = 0, !.p2 = "atr", !.obj = o] :
                 f \in WithData, o \in {"message", "timeout2", "cut"}}
        \cup {[Cmd("set_param", f[1], f[2]) EXCEPT !.p1 = u, !.obj = o] : f \in WithData, u \in Units,
                 o \in {"tpp", "tpp2", "tpp_sync", "tpp_bad", "tpc", "other", "cut"}}
        \cup {[Cmd("read", f[1], f[2]) EXCEPT !.off = o] :
                 f \in {<<"short", 0>>, <<"le", 2>>, <<"le", 7>>}, o \in {0, 2, 5, 40}}
        \cup {[Cmd("select", f[1], f[2]) EXCEPT !.id = i] : f \in WithData \cup {<<"data", 3>>},
                 i \in {"mf", "ctcf", "icc2", "hostcf"}}
        \cup {Cmd(i, f[1], f[2]) : i \in {"status", "unknown", "cut", "b1_reset", "reset", "set_param"},
                 f \in Plain \cup WithData}

-----------------------------------------------------------------------------
(* Commands to a card *)

(* mutant: the flag of any slot will do *)
ToMemoryAny(t, slot, apdu) == t.sync # {} /\ apdu = "read_binary"

(* ctapi_transact(): READ BINARY on a slot marked as synchronous *)
ToMemory(t, slot, apdu) == slot \in t.sync /\ apdu = "read_binary"

(* ctapi_transact(): n bytes come back.  Other commands go to slot 0. *)
ctapi_transact(t, slot, apdu, n, room) ==
    LET asked == [CaNoCall EXCEPT !.dad = slot, !.room = room]
    IN  IF apdu = "select_kvk"
        THEN {IF room < 2 THEN [asked EXCEPT !.rc = "INVALID"] ELSE [asked EXCEPT !.len = 2, !.sw = "9000"]}
        ELSE IF ToMemory(t, slot, apdu)
        THEN {[asked EXCEPT !.call = "memory", !.slot = slot, !.rc = "INVALID"],
              IF room < 2 THEN [asked EXCEPT !.call = "memory", !.slot = slot, !.rc = "INVALID"]
              ELSE [ctapi_answer(n, room) EXCEPT !.call = "memory", !.slot = slot, !.dad = slot, !.room = room]}
        ELSE {[asked EXCEPT !.call = "apdu", !.rc = "INVALID"]}
             \cup (IF n + 2 > room THEN {} ELSE {[asked EXCEPT !.call = "apdu", !.len = n + 2, !.sw = "9000"]})

-----------------------------------------------------------------------------
(* The three calls *)
Running == ca.running = "yes"
CaIdle == Running /\ ca.res = CaNoCall

Find(ctn) == SelectInSeq(ca.terms, LAMBDA t : t.ctn = ctn)

(* CT_close() frees a terminal and goes on with the freed memory: it finds the
   number there again, and the second free() aborts, or goes on behind it.
   A second terminal of that number is then freed, and stays in the list. *)
Closed(terms, ctn) ==
    LET first == SelectInSeq(terms, LAMBDA t : t.ctn = ctn)
        rest == RemoveAt(terms, first)
    IN  IF first = 0 THEN {[terms |-> terms, running |-> "yes"]}
        ELSE {[terms |-> rest, running |-> "aborted"],
              [terms |-> rest,
               running |-> IF \E i \in first .. Len(rest) : rest[i].ctn = ctn THEN "undefined" ELSE "yes"]}

(* mutant: a terminal that gets no lock stays *)
RefusedKept(terms, ctn) == {[terms |-> terms, running |-> "yes"]}

(* CT_init() without the lock takes the terminal back with CT_close(). *)
Refused(terms, ctn) == Closed(terms, ctn)

(* CT_init(): no memory or no connection; the lock refused; or done.  With
   ct_reader_info() failing, the number of slots is left undefined. *)
CT_init(ctn) ==
    /\ CaIdle
    /\ LET h == ca.conns + 1
           t == [ctn |-> ctn, h |-> h, sync |-> {}, atr |-> [s \in CaSlot |-> 0], cwd |-> "mf"]
           terms == <<t>> \o ca.terms
           Result(r) == [CaNoCall EXCEPT !.call = "init", !.rc = r]
       IN  \/ ca' = [ca EXCEPT !.res = Result("INVALID")]
           \/ /\ h <= CaInits
              /\ \/ ca.lock = 0
                    /\ ca' = [ca EXCEPT !.terms = terms, !.conns = h, !.lock = h, !.res = Result("OK")]
                 \/ \E o \in Refused(terms, ctn) :
                       ca' = [ca EXCEPT !.terms = o.terms, !.running = o.running, !.conns = h,
                                        !.res = Result("HTSI")]
                 \/ ca' = [ca EXCEPT !.running = "undefined", !.conns = h]

(* CT_close(): the connection stays open, and with it the lock *)
CT_close(ctn) ==
    /\ CaIdle
    /\ \E o \in Closed(ca.terms, ctn) :
          ca' = [ca EXCEPT !.terms = o.terms, !.running = o.running, !.res = [CaNoCall EXCEPT !.call = "close"]]

(* CT_data() to the terminal; a command of fewer than 4 bytes is answered
   into a buffer that is not set up *)
CT_dataControl(ctn, c, room) ==
    /\ CaIdle
    /\ LET i == Find(ctn)
       IN  IF i = 0 \/ room < 2 THEN ca' = [ca EXCEPT !.res = ErrInvalid]
           ELSE IF c.ins = "cut" THEN ca' = [ca EXCEPT !.running = "undefined"]
           ELSE \E o \in ctapi_control(ca.terms[i], c, room) :
                   ca' = [ca EXCEPT !.terms[i] = o.t, !.res = o.a]

CT_dataCard(ctn, slot, apdu, room) ==
    /\ CaIdle
    /\ LET i == Find(ctn)
       IN  IF i = 0 THEN ca' = [ca EXCEPT !.res = ErrInvalid]
           ELSE \E n \in {0, 4} : \E a \in ctapi_transact(ca.terms[i], slot, apdu, n, room) :
                   ca' = [ca EXCEPT !.res = a]

(* The call returns to the application.  External: a card is changed. *)
CaReturn == Running /\ ca.res # CaNoCall /\ ca' = [ca EXCEPT !.res = CaNoCall]

CaCardChanges ==
    /\ CaIdle
    /\ \E s \in 0 .. CaSlots - 1 : \E k \in DOMAIN CaAtrLen : ca' = [ca EXCEPT !.card[s] = k]

CaNext ==
    \/ \E ctn \in Ctns : CT_init(ctn) \/ CT_close(ctn)
    \/ \E ctn \in Ctns, c \in Commands, room \in Rooms : CT_dataControl(ctn, c, room)
    \/ \E ctn \in Ctns, slot \in CaSlot, room \in Rooms :
          \E apdu \in {"select_kvk", "read_binary", "other"} : CT_dataCard(ctn, slot, apdu, room)
    \/ CaReturn \/ CaCardChanges

-----------------------------------------------------------------------------
(* Every terminal in the list holds the exclusive lock on its reader: an
   application that CT_init() refused has no terminal to send commands with. *)
CaHeld == Running => \A i \in DOMAIN ca.terms : ca.terms[i].h = ca.lock

(* A memory command goes to the slot that was addressed, and the last reset of
   that slot which succeeded returned the four bytes of a synchronous card. *)
CaMemory ==
    Running /\ ca.res.call = "memory"
        => ca.res.slot = ca.res.dad /\ \E i \in DOMAIN ca.terms : ca.terms[i].atr[ca.res.slot] = 4

(* A READ BINARY that starts on a record of the file returns the file from
   there; inside of a record it does not (put(), see the README). *)
CaFile ==
    Running /\ ca.res.call = "file" /\ ca.res.off \in {0, 5} /\ ca.res.sw \in {"9000", "6282"}
        => \E i \in DOMAIN ca.terms : \/ ca.terms[i].cwd = "hostcf" /\ ca.res.off = 5
                                      \/ LET c == Content(ca.terms[i].cwd)
                                             end == ca.res.off + ca.res.want
                                         IN  ca.res.data = SubSeq(c, ca.res.off + 1,
                                                                  IF end < Len(c) THEN end ELSE Len(c))
=============================================================================
