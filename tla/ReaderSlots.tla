----------------------------- MODULE ReaderSlots -----------------------------
(***************************************************************************)
(* The slots of a reader in its ifdhandler (ifd/reader.c, ifd/protocol.c,  *)
(* ifd/process.c), the card numbers it publishes in the status file, and   *)
(* what a client learns from them (ct_card_status in ct/client.c).         *)
(*                                                                         *)
(* Cards are numbered in the order they are put in.  The driver latches a  *)
(* change until its card_status is called (include/openct/driver.h:121).   *)
(* In event mode the driver is ifd-ccid.c: the device keeps one            *)
(* notification until an interrupt transfer (the capture) takes it.        *)
(* Seconds are counted down to next_update.                                *)
(***************************************************************************)
EXTENDS Naturals, FiniteSets

CONSTANTS NSlots,     \* reader->nslots
          MaxCards,   \* bound on the cards put in
          SeqMod,     \* card_seq is an unsigned int: it wraps here
          MaxGarbage, \* bound: uninitialised flags are set below this number
          Known       \* the protocols the build has

ASSUME SlotsAssumption ==
    /\ NSlots \in Nat \ {0} /\ MaxCards \in Nat /\ MaxGarbage \in Nat
    /\ SeqMod \in Nat /\ NSlots < SeqMod
    /\ Known \subseteq {"T0", "T1", "sync"} /\ "T0" \in Known

VARIABLES mode,       \* opt_poll or ifd_get_eventfd(): poll or event
          card, cards,    \* the card in each slot, 0 for none; how many so far
          edge,       \* a change card_status has not reported
          notif,      \* the device has a notification to send
          cap,        \* st->event_cap: off, armed, done with a message
          msg,        \* the message of a capture that is done
          atr, proto, \* of each slot_t: the card it was read from; its protocol
          wait,       \* whether now < next_update
          seq,        \* ct_card of the status entry
          card_seq,   \* the next number
          hcard,      \* h->card of a client
          of, known,  \* history: the card a number stands for, here and there
          stolen,     \* history: a change was reported to CT_CMD_STATUS only
          dirty,      \* history: a message was lost, or read uninitialised
          talk        \* history: the step served a command for a slot

slots == <<atr, proto, wait>>
table == <<seq, card_seq, of>>
device == <<card, cards, edge, notif>>
capture == <<cap, msg, dirty>>
client == <<hcard, known>>
vars == <<mode, device, capture, slots, table, client, stolen, talk>>

Slot == 0 .. NSlots - 1
Unit == 0 .. NSlots          \* what "unit > reader->nslots" lets through
CardId == 0 .. MaxCards
Absent == [s \in Slot |-> [present |-> FALSE, changed |-> FALSE]]

TypeOK ==
    /\ mode \in {"poll", "event"}
    /\ card \in [Slot -> CardId] /\ cards \in CardId
    /\ edge \in [Slot -> BOOLEAN] /\ notif \in BOOLEAN
    /\ cap \in {"off", "armed", "done"}
    /\ msg \in [Slot -> [present : BOOLEAN, changed : BOOLEAN]]
    /\ atr \in [Unit -> CardId] /\ proto \in [Unit -> Known \cup {"none"}]
    /\ wait \in [Unit -> BOOLEAN]
    /\ seq \in [Slot -> 0 .. SeqMod - 1] /\ card_seq \in 0 .. SeqMod - 1
    /\ hcard \in [Slot -> 0 .. SeqMod - 1]
    /\ of \in [Slot -> CardId] /\ known \in [Slot -> CardId]
    /\ stolen \in [Slot -> BOOLEAN] /\ dirty \in BOOLEAN
    /\ talk \in BOOLEAN

(* ifdhandler_run(): in event mode the slots are polled once and the first
   capture is started. *)
Init ==
    /\ mode \in {"poll", "event"}
    /\ card = [s \in Slot |-> 0] /\ cards = 0
    /\ edge = [s \in Slot |-> FALSE] /\ notif = FALSE
    /\ cap = (IF mode = "event" THEN "armed" ELSE "off") /\ msg = Absent
    /\ atr = [u \in Unit |-> 0] /\ proto = [u \in Unit |-> "none"]
    /\ wait = [u \in Unit |-> FALSE]
    /\ seq = [s \in Slot |-> 0] /\ card_seq = 1
    /\ hcard = [s \in Slot |-> 0]
    /\ of = [s \in Slot |-> 0] /\ known = [s \in Slot |-> 0]
    /\ stolen = [s \in Slot |-> FALSE] /\ dirty = FALSE
    /\ talk = FALSE

-----------------------------------------------------------------------------
(* The reader and its user *)

Move(s, c) ==
    /\ card' = [card EXCEPT ![s] = c]
    /\ edge' = [edge EXCEPT ![s] = TRUE]
    /\ notif' = (mode = "event")
    /\ UNCHANGED <<mode, capture, slots, table, client, stolen>>
    /\ talk' = FALSE

Insert(s) ==
    /\ card[s] = 0 /\ cards < MaxCards
    /\ cards' = cards + 1
    /\ Move(s, cards + 1)

Remove(s) ==
    /\ card[s] # 0
    /\ UNCHANGED cards
    /\ Move(s, 0)

(* What the driver's card_status, or the device, reports. *)
Status == [s \in Slot |-> [present |-> card[s] # 0, changed |-> edge[s]]]

(* The interrupt transfer completes: a slot change, or another message. *)
Deliver ==
    /\ cap = "armed" /\ notif
    /\ cap' = "done" /\ notif' = FALSE
    /\ msg' = Status
    /\ edge' = [s \in Slot |-> FALSE]
    /\ UNCHANGED <<mode, card, cards, dirty, slots, table, client, stolen>>
    /\ talk' = FALSE

Tick ==
    /\ \E u \in Unit : wait[u]
    /\ wait' = [u \in Unit |-> FALSE]
    /\ UNCHANGED <<mode, device, capture, atr, proto, table, client, stolen>>
    /\ talk' = FALSE

-----------------------------------------------------------------------------
(* Card status *)

(* mutant: only the appearance of a card makes a new number *)
AppearedOnly(S, st) == {s \in S : st[s].present /\ seq[s] = 0}

(* The slots that get a new number in ifd_slot_status_update(). *)
Renumbered(S, st) == {s \in S : st[s].present /\ (seq[s] = 0 \/ st[s].changed)}

(* mutant: the static counter is not advanced *)
AdvanceNot(n) == card_seq

Advance(n) == (card_seq + n) % SeqMod

(* ifd_slot_status_update() for the slots S, in their order *)
SlotStatusUpdate(S, st) ==
    LET new == Renumbered(S, st) IN
    /\ seq' = [s \in Slot |->
                 IF s \in new THEN Advance(Cardinality({t \in new : t < s}))
                 ELSE IF s \in S /\ ~ st[s].present THEN 0 ELSE seq[s]]
    /\ card_seq' = Advance(Cardinality(new))
    /\ of' = [s \in Slot |->
                 IF s \in new THEN card[s]
                 ELSE IF s \in S /\ ~ st[s].present THEN 0 ELSE of[s]]

(* mutant: a change does not invalidate the ATR *)
CardStatusKeepsAtr(s) ==
    /\ edge' = [edge EXCEPT ![s] = FALSE]
    /\ UNCHANGED atr

(* ifd_card_status() *)
CardStatus(s) ==
    /\ edge' = [edge EXCEPT ![s] = FALSE]
    /\ atr' = [atr EXCEPT ![s] = IF edge[s] THEN 0 ELSE @]

(* mutant: a slot with a protocol is in use and is not asked *)
PollSlotUnused(s) ==
    /\ mode = "poll" /\ ~ wait[s] /\ proto[s] = "none"
    /\ CardStatus(s) /\ SlotStatusUpdate({s}, Status)
    /\ wait' = [wait EXCEPT ![s] = TRUE]
    /\ UNCHANGED <<mode, card, cards, notif, capture, proto, client, stolen>>
    /\ talk' = FALSE

(* ifd_poll() for a slot that is due; the driver may fail. *)
PollSlot(s) ==
    /\ mode = "poll" /\ ~ wait[s]
    /\ wait' = [wait EXCEPT ![s] = TRUE]
    /\ \/ /\ CardStatus(s)
          /\ SlotStatusUpdate({s}, Status)
          /\ stolen' = [stolen EXCEPT ![s] = @ /\ seq'[s] # 0 /\ seq'[s] = seq[s]]
       \/ UNCHANGED <<edge, atr, table, stolen>>
    /\ UNCHANGED <<mode, card, cards, notif, capture, proto, client>>
    /\ talk' = FALSE

SlotStatus == [Slot -> [present : BOOLEAN, changed : BOOLEAN]]

(* What ifd_event() finds in status[], which nothing sets before the driver's
   event callback ORs its bits in: CHANGED may be set anyhow. *)
EventStatus ==
    {st \in SlotStatus :
        \A s \in Slot : st[s].present = msg[s].present /\ st[s].changed \in {msg[s].changed, msg[s].changed \/ card_seq < MaxGarbage}}

(* ifd_event() after a slot change message *)
Event ==
    /\ cap = "done"
    /\ \E st \in EventStatus : SlotStatusUpdate(Slot, st)
    /\ cap' = "armed"
    /\ UNCHANGED <<mode, device, msg, dirty, slots, client, stolen>>
    /\ talk' = FALSE

(* The interrupt transfer brings no slot change (RDR_to_PC_HardwareError, or
   nothing): all of status[] is uninitialised. *)
EventOther ==
    /\ cap = "armed" /\ card_seq < MaxGarbage
    /\ \E st \in SlotStatus : SlotStatusUpdate(Slot, st)
    /\ dirty' = TRUE
    /\ UNCHANGED <<mode, device, cap, msg, slots, client, stolen>>
    /\ talk' = FALSE

(* ct_card_status(): the client compares the number with the one it saw. *)
ClientStatus(s) ==
    /\ hcard' = [hcard EXCEPT ![s] = seq[s]]
    /\ known' = [known EXCEPT ![s] = of[s]]
    /\ UNCHANGED <<mode, device, capture, slots, table, stolen>>
    /\ talk' = FALSE

-----------------------------------------------------------------------------
(* Commands: ifdhandler_process() *)

(* do_before_command() ends the capture and drops its message. *)
EndCapture ==
    dirty' = (dirty \/ cap = "done")

(* do_after_command() starts a capture again, unless that fails. *)
Bracket ==
    /\ EndCapture
    /\ cap' \in IF mode = "event" THEN {"armed", "off"} ELSE {"off"}
    /\ UNCHANGED msg

(* The way out without do_after_command(): before_command failed, the TLVs
   do not parse, or the command is not known. *)
CmdRefused ==
    /\ EndCapture
    /\ cap' = "off"
    /\ UNCHANGED <<mode, device, msg, slots, table, client, stolen>>
    /\ talk' = FALSE

(* A command that leaves the slots alone: a unit out of range, a missing
   argument, a lock, the reader's own status, output, or an operation the
   driver does not have. *)
CmdNothing ==
    /\ Bracket
    /\ UNCHANGED <<mode, device, slots, table, client, stolen>>
    /\ talk' = FALSE

(* do_status() for a unit.  Behind the last slot there is no card; what the
   driver says of it may change. *)
CmdStatus(u) ==
    /\ Bracket
    /\ \/ /\ u \in Slot /\ CardStatus(u)
          /\ stolen' = [stolen EXCEPT ![u] = @ \/ edge[u]]
       \/ /\ u = NSlots /\ atr' \in {atr, [atr EXCEPT ![u] = 0]}
          /\ UNCHANGED <<edge, stolen>>
    /\ UNCHANGED <<mode, card, cards, notif, proto, wait, table, client>>
    /\ talk' = TRUE

(* The protocol ifd_protocol_select() finds in an ATR: its first TDi, T=0
   without one, none when the build does not know it. *)
SelectProtocol == {IF p \in Known THEN p ELSE "none" : p \in {"T0", "T1", "T14"}}

(* ifd_card_request(), with either parity for a serial reader that can change
   it: the driver fails, finds a synchronous card and sets the
   protocol itself, or gives the ATR of the card. *)
CmdReset(u) ==
    /\ Bracket
    /\ \/ /\ atr' = [atr EXCEPT ![u] = 0]
          /\ proto' = [proto EXCEPT ![u] = "none"]
       \/ /\ u \in Slot /\ card[u] # 0
          /\ atr' = [atr EXCEPT ![u] = 0]
          /\ proto' \in {[proto EXCEPT ![u] = p] : p \in {"none"} \cup (Known \cap {"sync"})}
       \/ /\ u \in Slot /\ card[u] # 0
          /\ atr' = [atr EXCEPT ![u] = card[u]]
          /\ proto' \in {[proto EXCEPT ![u] = p] : p \in SelectProtocol}
    /\ UNCHANGED <<mode, device, wait, table, client, stolen>>
    /\ talk' = TRUE

(* do_set_protocol(): ifd_set_protocol() without the driver's own *)
CmdSetProtocol(u, p) ==
    /\ Bracket
    /\ proto' = [proto EXCEPT ![u] = IF p \in Known THEN p ELSE @]
    /\ UNCHANGED <<mode, device, atr, wait, table, client, stolen>>
    /\ talk' = TRUE

(* ifd_card_command(), ifd_card_read_memory(), ifd_card_write_memory(): an
   application talks to the card, so the status can wait. *)
Talked(u) ==
    IF proto[u] = "none" THEN UNCHANGED wait
    ELSE wait' = [wait EXCEPT ![u] = TRUE]

(* do_transact(), do_memory_read(), do_memory_write() *)
CmdTransact(u) ==
    /\ Bracket
    /\ Talked(u)
    /\ UNCHANGED <<mode, device, atr, proto, table, client, stolen>>
    /\ talk' = TRUE

(* do_transact_old() goes around before_command and after_command. *)
CmdTransactOld(u) ==
    /\ Talked(u)
    /\ UNCHANGED <<mode, device, capture, atr, proto, table, client, stolen>>
    /\ talk' = TRUE

(* do_eject(): a driver with card_eject may throw the card out. *)
CmdEject(s) ==
    /\ card[s] # 0
    /\ Bracket
    /\ card' = [card EXCEPT ![s] = 0] /\ edge' = [edge EXCEPT ![s] = TRUE]
    /\ notif' = (mode = "event")
    /\ UNCHANGED <<mode, cards, slots, table, client, stolen>>
    /\ talk' = TRUE

User == \E s \in Slot : Insert(s) \/ Remove(s)
Command ==
    \/ CmdRefused \/ CmdNothing
    \/ \E s \in Slot : CmdEject(s)
    \/ \E u \in Unit : CmdStatus(u) \/ CmdReset(u) \/ CmdTransact(u) \/ CmdTransactOld(u)
    \/ \E u \in Unit, p \in {"T0", "T1", "T14"} : CmdSetProtocol(u, p)
Handler == Event \/ EventOther \/ \E s \in Slot : PollSlot(s)
Client == \E s \in Slot : ClientStatus(s)

Next == User \/ Deliver \/ Tick \/ Handler \/ Command \/ Client

(* The main loop turns at least once a second and polls every slot; time
   goes on; a driver that is asked again and again answers at last; the host
   controller polls the interrupt endpoint. *)
Spec ==
    /\ Init /\ [][Next]_vars
    /\ WF_vars(Tick) /\ WF_vars(Deliver) /\ WF_vars(Event)
    /\ \A s \in Slot : SF_vars(PollSlot(s) /\ edge'[s] = FALSE)

-----------------------------------------------------------------------------
(* The status file tells the truth about every slot whose last change was
   reported: an entry is 0 exactly when the slot is empty, and its number was
   given to the card that is there.  CT_CMD_STATUS, which takes the change
   away from ifd_poll(), and lost or garbled events are excepted. *)
TableTrue ==
    \A s \in Slot :
        ~ edge[s] /\ ~ stolen[s] /\ ~ dirty /\ cap # "done" =>
            of[s] = card[s] /\ (seq[s] = 0 <=> card[s] = 0)

(* A client that is told "present, not changed" by ct_card_status() has the
   card it had before: equal numbers stand for the same card. *)
NumberIsOneCard ==
    \A s \in Slot : hcard[s] = seq[s] /\ seq[s] # 0 => known[s] = of[s]

(* An ATR that is kept is the ATR of the card in the slot, once the driver has
   been asked (driver.h:128 "setting IFD_CARD_STATUS_CHANGED will also set
   atr_len to 0").  Event readers are not asked. *)
AtrIsCurrent ==
    mode = "poll" => \A s \in Slot : ~ edge[s] /\ atr[s] # 0 => atr[s] = card[s]

(* Together: what server and client know of a slot is so, and means one card
   (ifd_slot_status_update, ct_card_status, ifd_card_status). *)
SlotsSound == TypeOK /\ TableTrue /\ NumberIsOneCard /\ AtrIsCurrent

(* A change of a slot nobody talks to any more is noticed. *)
ChangeNoticed ==
    \A s \in Slot :
        (mode = "poll" /\ edge[s]) ~> (~ edge[s] \/ talk)

(* include/openct/driver.h:345: the event callback is for the main loop "to
   wait for event instead of polling", so without polling a change arrives. *)
EventArrives ==
    (mode = "event" /\ \E s \in Slot : seq[s] = 0 /\ card[s] # 0)
      ~> (\A s \in Slot : seq[s] # 0 \/ card[s] = 0)
=============================================================================
