--------------------------------- MODULE Kaan ---------------------------------
(***************************************************************************)
(* The driver of the Kobil Kaan and Telesec B1 readers (ifd-kaan.c).  The  *)
(* reader is spoken to in T=1 (ProtoT1) and speaks to the card itself; the *)
(* driver keeps the protocol of each slot twice, as the object of the core *)
(* (reader->slot[].proto) and as icc_proto.  A reader on a serial line is  *)
(* put to sleep when nothing happens and raises DSR when a card moves.     *)
(*                                                                         *)
(* External: the reader, the cards and the user.  A sleeping reader        *)
(* compares its slots with the states that the freeze command carried.     *)
(***************************************************************************)
EXTENDS Naturals

CONSTANTS KnCards, \* bound: cards put in
          KnChunk, \* the largest Le and Lc (256 in the code)
          KnSize,  \* bytes on a memory card
          KnLens   \* bound: lengths of memory accesses

ASSUME KnAssumption == KnChunk \in Nat \ {0} /\ KnSize \in Nat /\ KnLens \subseteq Nat

VARIABLE kn

KnSlots == 0 .. 1

(* Cards by the status word of their reset (kaan_do_reset), the protocol in
   the status file of the reader, and what probing finds. *)
KnCard == [async |-> [sw |-> "9001", file |-> "none",     probe |-> "none"],
           sync  |-> [sw |-> "9000", file |-> "2WIRE",    probe |-> "2WIRE"],
           phone |-> [sw |-> "62a5", file |-> "EUROCHIP", probe |-> "none"],
           i2c   |-> [sw |-> "62a7", file |-> "none",     probe |-> "I2C_LONG"],
           dead  |-> [sw |-> "62a7", file |-> "none",     probe |-> "none"]]
KnSync == {"I2C_SHORT", "I2C_LONG", "2WIRE", "3WIRE", "EUROCHIP"}

(* kaan_open(), b1_open() and kaan_reset_ct(): an error of any of them fails
   the call.  kaan_get_units(): the list of units has a second slot or not, or
   there is no list and the reader has one slot. *)
KnUnits == 1 .. 2

KnInit ==
    \E b1, serial \in BOOLEAN, slots \in KnUnits :
        kn = [b1 |-> b1, serial |-> serial, slots |-> slots, frozen |-> FALSE, idle |-> FALSE,
              moved |-> FALSE, asked |-> 0, stored |-> 0,
              told |-> [n \in KnSlots |-> "out"], stat |-> [n \in KnSlots |-> "out"],
              card |-> [n \in KnSlots |-> "none"], cards |-> 0,
              proto |-> [n \in KnSlots |-> "none"], icc |-> [n \in KnSlots |-> "none"]]

KnRes(s, rc) == [s |-> s, rc |-> rc]
KnOk(s) == {KnRes(s, "ok")}
KnIn(s, n) == IF s.card[n] = "none" THEN "out" ELSE "in"

(* __kaan_apdu_xcv(): an error returns before the activity is noted.  (And
   before the timeout is put back, which only makes later waits longer.) *)
KnXcv(s, activity) ==
    {KnRes([s EXCEPT !.idle = @ /\ ~activity, !.frozen = @ /\ ~activity], "ok"), KnRes(s, "error")}

(* The next of a sequence of exchanges, each of which may fail. *)
KnThen(rs, Next(_)) ==
    {r \in rs : r.rc # "ok"} \cup UNION {Next(r.s) : r \in {x \in rs : x.rc = "ok"}}

(* kaan_transparent(): an APDU for the card, or for a file of the reader, with
   a GET RESPONSE perhaps; kaan_select_file(), kaan_select_app(),
   kaan_read_binary() and kaan_update_binary() are made of it.  None of them
   counts as activity. *)
KnTransparent(s) == {KnRes(s, rc) : rc \in {"ok", "error"}}

-----------------------------------------------------------------------------
(* Card status *)

(* mutant: the loop over the slots ends one too early *)
KnFreezeFirst(s) == [s EXCEPT !.told = [n \in KnSlots |-> IF n = 0 THEN s.stat[n] ELSE "out"]]

(* kaan_freeze(): the states that were reported last *)
KnFreeze(s) == [s EXCEPT !.told = s.stat]

Dsr(s) == \E n \in 0 .. s.slots - 1 : s.told[n] # KnIn(s, n)

(* kaan_card_status() and b1_card_status() *)
KnQuery(s, n) == KnThen(IF s.b1 THEN KnTransparent(s) ELSE KnXcv(s, FALSE),
                        LAMBDA t : KnOk([t EXCEPT !.stat[n] = KnIn(t, n)]))

KnAwake(s, n) ==
    IF ~s.frozen THEN KnQuery(s, n)
    ELSE IF Dsr(s) THEN KnQuery([s EXCEPT !.idle = FALSE, !.frozen = FALSE], n)
    ELSE KnOk(s)

kaan_card_status(n) ==
    /\ n < kn.slots
    /\ LET freeze == ~kn.frozen /\ kn.idle /\ kn.serial
           Frozen(t) == KnAwake([KnFreeze(t) EXCEPT !.frozen = TRUE], n)
       IN  \E r \in IF freeze THEN KnThen(KnXcv(kn, FALSE), Frozen) ELSE KnAwake(kn, n) :
              kn' = r.s

-----------------------------------------------------------------------------
(* Reset and protocols *)

(* kaan_set_protocol(): the card is spoken to transparently. *)
KnSetProtocol(s, n, p) ==
    KnThen(KnXcv(s, TRUE), LAMBDA t : KnOk([t EXCEPT !.proto[n] = "trans", !.icc[n] = p]))

(* mutant: the protocol found is not noted *)
KnSyncDetectForgets(s, n) ==
    KnThen(KnTransparent(s), LAMBDA t :
        IF KnCard[t.card[n]].file = "none" THEN {KnRes(t, "error")}
        ELSE KnOk([t EXCEPT !.proto[n] = KnCard[t.card[n]].file]))

(* kaan_sync_detect() and kaan_get_tlv_from_file() *)
KnSyncDetect(s, n) ==
    KnThen(KnTransparent(s), LAMBDA t :
        IF KnCard[t.card[n]].file = "none" THEN {KnRes(t, "error")}
        ELSE KnOk([t EXCEPT !.proto[n] = KnCard[t.card[n]].file, !.icc[n] = KnCard[t.card[n]].file]))

(* kaan_sync_read(), kaan_sync_write() *)
KnMemory(s, n, p) ==
    KnThen(IF s.icc[n] = p THEN KnOk(s) ELSE KnSetProtocol(s, n, p), KnTransparent)

(* ifd_sync_detect_icc() in the end found this protocol, or none; each probe
   reads through kaan_sync_read(), which leaves an object of its own in the
   slot. *)
KnProbe(s, n) ==
    LET found == KnCard[s.card[n]].probe
        p == IF found = "none" THEN "3WIRE" ELSE found
    IN  KnThen(KnMemory(s, n, p), LAMBDA t :
            IF found = "none" THEN {KnRes(t, "error")} ELSE KnOk([t EXCEPT !.proto[n] = p]))

(* kaan_do_reset(), and the selection of a protocol by ifd_card_request() *)
KnReset(s, n) ==
    LET s0 == [s EXCEPT !.proto[n] = "none", !.icc[n] = "none"]
        sw == IF s.card[n] = "none" THEN "6400" ELSE KnCard[s.card[n]].sw
    IN  KnThen(KnXcv(s0, TRUE), LAMBDA t :
            CASE sw = "9001" -> KnSetProtocol(t, n, "T0") \cup KnSetProtocol(t, n, "T1")
              [] sw = "9000" -> KnSyncDetect(t, n)
              [] sw = "62a5" /\ s.b1 ->
                    UNION {KnSyncDetect(r.s, n) : r \in KnSetProtocol(t, n, "EUROCHIP")}
              [] sw = "62a5" /\ ~s.b1 -> KnSyncDetect(t, n)
              [] sw = "62a7" -> KnProbe(t, n)
              [] OTHER -> {KnRes(t, "error")})

(* kaan_card_reset(), and kaan_card_request(), which lets the reader wait for
   the card. *)
kaan_card_reset(n) == n < kn.slots /\ \E r \in KnReset(kn, n) : kn' = r.s

(* A client asks for a protocol of asynchronous cards. *)
kaan_set_protocol(n) ==
    /\ n < kn.slots
    /\ \E p \in {"T0", "T1"} : \E r \in KnSetProtocol(kn, n, p) : kn' = r.s

(* An APDU of a client, a memory access through the protocol of the slot, and
   what goes to display and keypad. *)
kaan_transparent(n) == kn.proto[n] = "trans" /\ \E r \in KnTransparent(kn) : kn' = r.s

(* mutant: a block of the largest size is read in every turn *)
KnReadBinaryBlocks(len) == IF KnChunk > KnSize THEN KnSize ELSE KnChunk

(* The bytes that kaan_read_binary() puts into the buffer: every turn asks for
   as many as were asked for in the first place, up to the end of the card. *)
KnReadBinary(len) ==
    LET count == IF len > KnChunk THEN KnChunk ELSE len
        turns == IF len = 0 \/ len % count = 0 THEN len ELSE len - (len % count) + count
    IN  IF turns > KnSize THEN KnSize ELSE turns

(* The bytes that kaan_update_binary() writes.  The answer to UPDATE BINARY
   has no data, so that the loop ends after its first turn (and the function
   returns 0). *)
KnUpdateBinary(len) == IF len > KnChunk THEN KnChunk ELSE len

kaan_sync_access(n) ==
    /\ kn.proto[n] \in KnSync
    /\ \E r \in KnMemory(kn, n, kn.proto[n]), len \in KnLens :
          \E total \in {KnReadBinary(len), KnUpdateBinary(len)} :
             kn' = [r.s EXCEPT !.moved = r.s.proto[n] # kn.proto[n],
                               !.asked = IF r.rc = "ok" THEN len ELSE 0,
                               !.stored = IF r.rc = "ok" THEN total ELSE 0]

kaan_display == \E r \in KnXcv(kn, TRUE) : kn' = r.s

(* FREEZE_DELAY has passed since last_activity. *)
KnIdle == kn' = [kn EXCEPT !.idle = TRUE]

KnMove(n) ==
    /\ n < kn.slots
    /\ \E c \in DOMAIN KnCard \cup {"none"} :
          /\ (c = "none") # (kn.card[n] = "none")
          /\ c # "none" => kn.cards < KnCards
          /\ kn' = [kn EXCEPT !.card[n] = c, !.cards = IF c = "none" THEN @ ELSE @ + 1]

KnNext ==
    \/ kaan_display \/ KnIdle
    \/ \E n \in KnSlots : \/ kaan_card_status(n) \/ kaan_card_reset(n)
                          \/ kaan_set_protocol(n) \/ kaan_transparent(n) \/ kaan_sync_access(n)
                          \/ KnMove(n)

-----------------------------------------------------------------------------
(* A memory access runs in the protocol object of the slot (kaan_sync_read,
   kaan_sync_write): icc_proto and the object agree, on every path through
   the resets, so that the access does not replace the object under itself. *)
KnAgree == /\ ~kn.moved
           /\ \A n \in KnSlots : kn.proto[n] \in KnSync => kn.icc[n] = kn.proto[n]

(* What a memory access moves beyond the caller's buffer: nothing, unless more
   than 256 bytes were asked for and no multiple of that (count is not what is
   left, ifd-kaan.c:887), and then less than 256 bytes. *)
KnFits ==
    kn.stored > kn.asked =>
        kn.asked > KnChunk /\ kn.asked % KnChunk # 0 /\ kn.stored < kn.asked + KnChunk

(* While the reader sleeps, the state of a slot that the core knows is the
   one the card is in, or DSR is raised and the next poll asks. *)
KnWakes == kn.frozen => \A n \in 0 .. kn.slots - 1 : kn.stat[n] = KnIn(kn, n) \/ Dsr(kn)
=============================================================================
