------------------------- MODULE ReaderSlotsProofs -------------------------
(***************************************************************************)
(* What the ifdhandler publishes about its slots, and what a client makes  *)
(* of it, for any number of slots and cards.  card_seq is an unsigned int  *)
(* and the code has no answer to its wrapping around (a card could then    *)
(* get the number 0, "no card"): the theorem is about the behaviours in    *)
(* which it does not.                                                      *)
(***************************************************************************)
EXTENDS ReaderSlots, FiniteSetTheorems, TLAPS

(* card_seq does not wrap around in this step *)
NoWrap == card_seq <= card_seq'

(* numbers are handed out in order, and 0 is none *)
Below ==
    /\ 0 < card_seq
    /\ \A s \in Slot : seq[s] < card_seq /\ hcard[s] < card_seq

(* a reader that is polled has no capture *)
PollOff == mode = "poll" => cap = "off"

Reported(s) == ~ edge[s] /\ ~ stolen[s] /\ ~ dirty

Listed(s) == of[s] = card[s] /\ (seq[s] = 0 <=> card[s] = 0)

TableOk == \A s \in Slot : Reported(s) /\ cap # "done" => Listed(s)

(* A message that waits to be processed tells the truth about every slot that
   has not changed again, and marks the ones the status file is wrong about. *)
MsgOk ==
    \A s \in Slot :
        Reported(s) /\ cap = "done" =>
            /\ msg[s].present <=> card[s] # 0
            /\ ~ msg[s].changed => Listed(s)

SlotsInv ==
    /\ TypeOK /\ PollOff /\ Below
    /\ NumberIsOneCard /\ TableOk /\ MsgOk /\ AtrIsCurrent

-----------------------------------------------------------------------------
(* Numbers *)

LEMMA ModUnique ==
  ASSUME NEW m \in Nat, NEW a \in Nat, NEW n \in Nat, a < m, n < m
  PROVE  (a + n) % m = IF a + n < m THEN a + n ELSE a + n - m
  OBVIOUS

LEMMA SlotFinite ==
  ASSUME NEW S \in SUBSET Slot
  PROVE  /\ IsFiniteSet(S) /\ Cardinality(S) \in Nat /\ Cardinality(S) < SeqMod
  <1>1. 0 \in Int /\ NSlots - 1 \in Int /\ NSlots \in Nat \ {0} /\ SeqMod \in Nat /\ NSlots < SeqMod
    BY SlotsAssumption
  <1>2. IsFiniteSet(Slot) /\ Cardinality(Slot) = NSlots
    BY <1>1, FS_Interval DEF Slot
  <1>3. IsFiniteSet(S) /\ Cardinality(S) <= Cardinality(Slot)
    BY <1>2, FS_Subset
  <1>4. Cardinality(S) \in Nat
    BY <1>3, FS_CardinalityType
  <1>. QED BY <1>1, <1>2, <1>3, <1>4

LEMMA Earlier ==
  ASSUME NEW S \in SUBSET Slot, NEW s \in S
  PROVE  /\ Cardinality({t \in S : t < s}) \in Nat
         /\ Cardinality({t \in S : t < s}) < Cardinality(S)
  <1> DEFINE T == {t \in S : t < s}
  <1>1. T \in SUBSET S /\ T \in SUBSET Slot /\ IsFiniteSet(S) /\ Cardinality(S) \in Nat
    BY SlotFinite
  <1>2. Cardinality(T) \in Nat
    BY <1>1, SlotFinite
  <1>3. Cardinality(T) <= Cardinality(S) /\ (Cardinality(S) = Cardinality(T) => S = T)
    BY <1>1, FS_Subset
  <1>4. s \in Int /\ s \notin T
    BY SlotsAssumption DEF Slot
  <1>. QED BY <1>1, <1>2, <1>3, <1>4

(* ifd_slot_status_update(): the three things it may do to an entry *)
NewNumber(s) == card_seq <= seq'[s] /\ seq'[s] < card_seq' /\ of'[s] = card[s]
Emptied(s) == seq'[s] = 0 /\ of'[s] = 0
LeftAlone(s) == seq'[s] = seq[s] /\ of'[s] = of[s]

LEMMA UpdateGives ==
  ASSUME TypeOK, Below, NoWrap, NEW S \in SUBSET Slot, NEW st, SlotStatusUpdate(S, st)
  PROVE  /\ card_seq' \in 0 .. SeqMod - 1
         /\ seq' \in [Slot -> 0 .. SeqMod - 1] /\ of' \in [Slot -> CardId]
         /\ \A s \in Slot :
              \/ s \in Renumbered(S, st) /\ NewNumber(s)
              \/ s \in S /\ ~ st[s].present /\ Emptied(s)
              \/ s \notin Renumbered(S, st) /\ (s \in S => st[s].present) /\ LeftAlone(s)
  <1> DEFINE new == Renumbered(S, st)
             before(s) == Cardinality({t \in new : t < s})
  <1>1. new \in SUBSET Slot
    BY DEF Renumbered
  <1>2. Cardinality(new) \in Nat /\ Cardinality(new) < SeqMod
    BY <1>1, SlotFinite
  <1>3. card_seq \in Nat /\ card_seq < SeqMod /\ 0 < card_seq /\ SeqMod \in Nat
    BY SlotsAssumption DEF TypeOK, Below
  <1>4. card_seq' = (card_seq + Cardinality(new)) % SeqMod
    BY DEF SlotStatusUpdate, Advance
  <1>5. card_seq + Cardinality(new) < SeqMod /\ card_seq' = card_seq + Cardinality(new)
    <2> HIDE DEF new
    <2>1. card_seq' = IF card_seq + Cardinality(new) < SeqMod THEN card_seq + Cardinality(new)
                      ELSE card_seq + Cardinality(new) - SeqMod
      BY <1>2, <1>3, <1>4, ModUnique
    <2>. QED BY <1>2, <1>3, <2>1 DEF NoWrap
  <1>6. ASSUME NEW s \in new
        PROVE  /\ Advance(before(s)) \in 0 .. SeqMod - 1
               /\ card_seq <= Advance(before(s)) /\ Advance(before(s)) < card_seq'
    <2>1. before(s) \in Nat /\ before(s) < Cardinality(new)
      BY <1>1, Earlier
    <2> HIDE DEF before, new
    <2>2. Advance(before(s)) = card_seq + before(s)
      <3>1. card_seq + before(s) < SeqMod /\ before(s) < SeqMod
        BY <1>2, <1>3, <1>5, <2>1
      <3>. QED BY <1>3, <2>1, <3>1, ModUnique DEF Advance
    <2>. QED BY <1>2, <1>3, <1>5, <2>1, <2>2
  <1>7. /\ seq' = [s \in Slot |->
                 IF s \in new THEN Advance(before(s))
                 ELSE IF s \in S /\ ~ st[s].present THEN 0 ELSE seq[s]]
        /\ of' = [s \in Slot |->
                 IF s \in new THEN card[s]
                 ELSE IF s \in S /\ ~ st[s].present THEN 0 ELSE of[s]]
    BY DEF SlotStatusUpdate
  <1> HIDE DEF before, new
  <1>8. /\ seq \in [Slot -> 0 .. SeqMod - 1] /\ of \in [Slot -> CardId]
        /\ card \in [Slot -> CardId] /\ 0 \in CardId /\ 0 \in 0 .. SeqMod - 1
    BY <1>3, SlotsAssumption DEF TypeOK, CardId
  <1>9. seq' \in [Slot -> 0 .. SeqMod - 1]
    BY <1>6, <1>7, <1>8
  <1>10. of' \in [Slot -> CardId]
    BY <1>7, <1>8
  <1>11. ASSUME NEW s \in Slot
         PROVE  \/ s \in new /\ NewNumber(s)
                \/ s \in S /\ ~ st[s].present /\ Emptied(s)
                \/ s \notin new /\ (s \in S => st[s].present) /\ LeftAlone(s)
    <2>1. CASE s \in new
      BY <1>6, <1>7, <2>1 DEF NewNumber
    <2>2. CASE s \notin new
      BY <1>7, <2>2 DEF Emptied, LeftAlone
    <2>. QED BY <2>1, <2>2
  <1>12. card_seq' \in 0 .. SeqMod - 1
    BY <1>2, <1>3, <1>5
  <1>. QED BY <1>9, <1>10, <1>11, <1>12 DEF new

LEMMA UpdateKeepsNumbers ==
  ASSUME TypeOK, Below, NumberIsOneCard, NoWrap, NEW S \in SUBSET Slot, NEW st,
         SlotStatusUpdate(S, st), UNCHANGED client
  PROVE  Below' /\ NumberIsOneCard'
  <1>1. /\ card_seq \in Nat /\ card_seq' \in Nat /\ 0 < card_seq /\ card_seq <= card_seq'
        /\ \A s \in Slot : seq[s] \in Nat /\ seq'[s] \in Nat /\ hcard[s] \in Nat
    <2>1. card_seq' \in 0 .. SeqMod - 1 /\ seq' \in [Slot -> 0 .. SeqMod - 1]
      BY UpdateGives
    <2>. QED BY <2>1, SlotsAssumption DEF TypeOK, Below, NoWrap
  <1>2. hcard' = hcard /\ known' = known
    BY DEF client
  <1>3. \A s \in Slot : NewNumber(s) \/ Emptied(s) \/ LeftAlone(s)
    BY UpdateGives
  <1>4. \A s \in Slot : seq[s] < card_seq /\ hcard[s] < card_seq
    BY DEF Below
  <1>5. Below'
    <2>1. ASSUME NEW s \in Slot PROVE seq'[s] < card_seq' /\ hcard'[s] < card_seq'
      <3>1. NewNumber(s) \/ Emptied(s) \/ LeftAlone(s)
        BY <1>3
      <3>. QED BY <1>1, <1>2, <1>4, <3>1 DEF NewNumber, Emptied, LeftAlone
    <2>. QED BY <1>1, <2>1 DEF Below
  <1>6. NumberIsOneCard'
    <2>1. ASSUME NEW s \in Slot, hcard'[s] = seq'[s], seq'[s] # 0 PROVE known'[s] = of'[s]
      <3>1. hcard[s] < card_seq /\ hcard[s] \in Nat
        BY <1>1, <1>4
      <3>2. ~ NewNumber(s) /\ ~ Emptied(s)
        BY <1>1, <1>2, <2>1, <3>1 DEF NewNumber, Emptied
      <3>3. LeftAlone(s)
        BY <1>3, <3>2
      <3>. QED BY <1>2, <2>1, <3>3 DEF NumberIsOneCard, LeftAlone
    <2>. QED BY <2>1 DEF NumberIsOneCard
  <1>. QED BY <1>5, <1>6

LEMMA TableKeepsNumbers ==
  ASSUME Below, NumberIsOneCard, UNCHANGED <<table, client>>
  PROVE  Below' /\ NumberIsOneCard'
  BY DEF Below, NumberIsOneCard, table, client

-----------------------------------------------------------------------------
(* Types *)

LEMMA BracketType ==
  ASSUME TypeOK, Bracket
  PROVE  cap' \in {"off", "armed", "done"} /\ dirty' \in BOOLEAN /\ msg' = msg
  <1>1. cap' \in {"off", "armed", "done"} /\ msg' = msg
    BY DEF Bracket
  <1>2. dirty' \in BOOLEAN
    BY Zenon DEF Bracket, EndCapture
  <1>. QED BY <1>1, <1>2

LEMMA CardStatusType ==
  ASSUME TypeOK, NEW s \in Slot, CardStatus(s)
  PROVE  edge' \in [Slot -> BOOLEAN] /\ atr' \in [Unit -> CardId]
  <1>1. 0 \in CardId /\ s \in Unit
    BY SlotsAssumption DEF CardId, Slot, Unit
  <1>. QED BY <1>1 DEF TypeOK, CardStatus

LEMMA UserType ==
  ASSUME TypeOK, User
  PROVE  TypeOK'
  <1>1. ASSUME NEW s \in Slot, NEW c \in CardId, Move(s, c), cards' \in CardId PROVE TypeOK'
    <2>1. notif' \in BOOLEAN
      BY <1>1, Zenon DEF Move
    <2>. QED
      BY <1>1, <2>1 DEF TypeOK, Move, capture, slots, table, client
  <1>2. ASSUME NEW s \in Slot, Insert(s) PROVE TypeOK'
    <2>1. cards + 1 \in CardId
      BY <1>2, SlotsAssumption DEF Insert, TypeOK, CardId
    <2>. QED BY <1>1, <1>2, <2>1 DEF Insert
  <1>3. ASSUME NEW s \in Slot, Remove(s) PROVE TypeOK'
    <2>1. 0 \in CardId
      BY SlotsAssumption DEF CardId
    <2>. QED BY <1>1, <1>3, <2>1 DEF Remove, TypeOK
  <1>. QED BY <1>2, <1>3 DEF User

LEMMA HandlerType ==
  ASSUME TypeOK, Below, NoWrap, Handler
  PROVE  TypeOK'
  <1>1. ASSUME NEW s \in Slot, PollSlot(s) PROVE TypeOK'
    <2>1. wait' \in [Unit -> BOOLEAN]
      BY <1>1 DEF PollSlot, TypeOK
    <2>2. UNCHANGED <<mode, card, cards, notif, cap, msg, dirty, proto, hcard, known>> /\ talk' = FALSE
      BY <1>1 DEF PollSlot, capture, client
    <2>3. CASE UNCHANGED <<edge, atr, table, stolen>>
      BY <2>1, <2>2, <2>3 DEF TypeOK, table
    <2>4. CASE /\ CardStatus(s) /\ SlotStatusUpdate({s}, Status)
               /\ stolen' = [stolen EXCEPT ![s] = @ /\ seq'[s] # 0 /\ seq'[s] = seq[s]]
      <3>1. stolen' \in [Slot -> BOOLEAN]
        <4>1. (stolen[s] /\ seq'[s] # 0 /\ seq'[s] = seq[s]) \in BOOLEAN
          BY Zenon
        <4>. QED BY <2>4, <4>1, Zenon DEF TypeOK
      <3>2. /\ card_seq' \in 0 .. SeqMod - 1
            /\ seq' \in [Slot -> 0 .. SeqMod - 1] /\ of' \in [Slot -> CardId]
        BY <2>4, UpdateGives
      <3>3. edge' \in [Slot -> BOOLEAN] /\ atr' \in [Unit -> CardId]
        BY <2>4, CardStatusType
      <3>. QED BY <2>1, <2>2, <3>1, <3>2, <3>3 DEF TypeOK
    <2>. QED BY <1>1, <2>3, <2>4 DEF PollSlot
  <1>2. ASSUME NEW st, SlotStatusUpdate(Slot, st), cap' = "armed", dirty' \in BOOLEAN,
               UNCHANGED <<mode, device, msg, slots, client, stolen>>, talk' = FALSE
        PROVE  TypeOK'
    <2>1. /\ card_seq' \in 0 .. SeqMod - 1
          /\ seq' \in [Slot -> 0 .. SeqMod - 1] /\ of' \in [Slot -> CardId]
      BY <1>2, UpdateGives
    <2>. QED BY <1>2, <2>1 DEF TypeOK, device, slots, client
  <1>3. CASE Event
    BY <1>2, <1>3 DEF Event, TypeOK
  <1>4. CASE EventOther
    BY <1>2, <1>4 DEF EventOther
  <1>. QED BY <1>1, <1>3, <1>4 DEF Handler

LEMMA CommandType ==
  ASSUME TypeOK, Command
  PROVE  TypeOK'
  <1>0. 0 \in CardId /\ Slot \subseteq Unit /\ "none" \in Known \cup {"none"}
    BY SlotsAssumption DEF CardId, Slot, Unit
  <1> USE DEF device, slots, table, client
  <1>1. CASE CmdRefused
    <2>1. dirty' \in BOOLEAN
      BY <1>1, Zenon DEF CmdRefused, EndCapture
    <2>. QED BY <1>1, <2>1 DEF TypeOK, CmdRefused
  <1>2. CASE CmdNothing
    BY <1>2, BracketType DEF TypeOK, CmdNothing
  <1>3. ASSUME NEW u \in Unit, CmdStatus(u) PROVE TypeOK'
    <2>1. stolen' \in [Slot -> BOOLEAN]
      BY <1>3 DEF CmdStatus, TypeOK
    <2>2. edge' \in [Slot -> BOOLEAN] /\ atr' \in [Unit -> CardId]
      <3>1. CASE u \in Slot /\ CardStatus(u)
        BY <3>1, CardStatusType
      <3>2. CASE atr' \in {atr, [atr EXCEPT ![u] = 0]} /\ UNCHANGED edge
        BY <1>0, <3>2 DEF TypeOK
      <3>. QED BY <1>3, <3>1, <3>2 DEF CmdStatus
    <2>3. Bracket
      BY <1>3 DEF CmdStatus
    <2>. QED BY <1>3, <2>1, <2>2, <2>3, BracketType DEF TypeOK, CmdStatus
  <1>4. ASSUME NEW s \in Slot, CmdEject(s) PROVE TypeOK'
    <2>1. notif' \in BOOLEAN
      BY <1>4, Zenon DEF CmdEject
    <2>2. card' \in [Slot -> CardId] /\ edge' \in [Slot -> BOOLEAN]
      BY <1>0, <1>4 DEF CmdEject, TypeOK
    <2>3. Bracket
      BY <1>4 DEF CmdEject
    <2>. QED BY <1>4, <2>1, <2>2, <2>3, BracketType DEF TypeOK, CmdEject
  <1>5. ASSUME NEW u \in Unit, CmdReset(u) PROVE TypeOK'
    <2>1. atr' \in [Unit -> CardId]
      BY <1>0, <1>5 DEF CmdReset, TypeOK
    <2>2. SelectProtocol \subseteq Known \cup {"none"}
      BY DEF SelectProtocol
    <2>3. \A p \in Known \cup {"none"} : [proto EXCEPT ![u] = p] \in [Unit -> Known \cup {"none"}]
      BY DEF TypeOK
    <2>4. \E p \in Known \cup {"none"} : proto' = [proto EXCEPT ![u] = p]
      BY <1>0, <1>5, <2>2 DEF CmdReset
    <2>5. Bracket
      BY <1>5 DEF CmdReset
    <2>. QED BY <1>5, <2>1, <2>3, <2>4, <2>5, BracketType DEF TypeOK, CmdReset
  <1>6. ASSUME NEW u \in Unit, Talked(u) PROVE wait' \in [Unit -> BOOLEAN]
    BY <1>6 DEF Talked, TypeOK
  <1>7. ASSUME NEW u \in Unit, CmdTransact(u) PROVE TypeOK'
    <2>1. Bracket /\ Talked(u)
      BY <1>7 DEF CmdTransact
    <2>. QED BY <1>6, <1>7, <2>1, BracketType DEF TypeOK, CmdTransact
  <1>8. ASSUME NEW u \in Unit, CmdTransactOld(u) PROVE TypeOK'
    BY <1>6, <1>8 DEF TypeOK, CmdTransactOld, capture
  <1>9. ASSUME NEW u \in Unit, NEW p \in {"T0", "T1", "T14"}, CmdSetProtocol(u, p) PROVE TypeOK'
    <2>1. proto' \in [Unit -> Known \cup {"none"}]
      BY <1>9 DEF CmdSetProtocol, TypeOK
    <2>2. Bracket
      BY <1>9 DEF CmdSetProtocol
    <2>. QED BY <1>9, <2>1, <2>2, BracketType DEF TypeOK, CmdSetProtocol
  <1>. QED BY <1>1, <1>2, <1>3, <1>4, <1>5, <1>7, <1>8, <1>9 DEF Command

LEMMA NextType ==
  ASSUME TypeOK, Below, NoWrap, Next
  PROVE  TypeOK'
  <1> USE DEF device, capture, slots, table, client
  <1>1. CASE Deliver
    <2>1. Status \in [Slot -> [present : BOOLEAN, changed : BOOLEAN]]
      <3>1. \A s \in Slot : (card[s] # 0) \in BOOLEAN /\ edge[s] \in BOOLEAN
        BY DEF TypeOK
      <3>. QED BY <3>1 DEF Status
    <2>. QED BY <1>1, <2>1 DEF TypeOK, Deliver
  <1>2. CASE Tick
    BY <1>2 DEF TypeOK, Tick
  <1>3. CASE Client
    BY <1>3 DEF TypeOK, Client, ClientStatus
  <1>. QED BY <1>1, <1>2, <1>3, UserType, HandlerType, CommandType DEF Next

-----------------------------------------------------------------------------
(* What the table, the message and the ATRs say *)

Told == TableOk /\ MsgOk /\ AtrIsCurrent

(* A card that moves leaves a change behind. *)
LEMMA MovedKeeps ==
  ASSUME TypeOK, Told, NEW s \in Slot, NEW c,
         card' = [card EXCEPT ![s] = c], edge' = [edge EXCEPT ![s] = TRUE],
         UNCHANGED <<mode, msg, atr, seq, of, stolen>>,
         \/ UNCHANGED <<cap, dirty>>
         \/ Bracket
  PROVE  Told'
  <1>1. \A t \in Slot : edge'[t] = IF t = s THEN TRUE ELSE edge[t]
    BY DEF TypeOK
  <1>2. \A t \in Slot : t # s => card'[t] = card[t]
    BY DEF TypeOK
  <1>3. (cap' = cap /\ dirty' = dirty) \/ (cap' # "done" /\ (dirty' <=> (dirty \/ cap = "done")))
    BY DEF Bracket, EndCapture
  <1>4. ASSUME NEW t \in Slot, Reported(t)'
        PROVE  Reported(t) /\ (Listed(t) => Listed(t)') /\ card'[t] = card[t] /\ cap' \in {cap, "armed", "off"}
               /\ (cap # cap' => cap # "done")
    <2>1. t # s /\ ~ edge[t] /\ ~ stolen[t] /\ ~ dirty' /\ card'[t] = card[t]
      BY <1>1, <1>2, <1>4 DEF Reported
    <2>2. ~ dirty /\ (cap' = cap \/ (cap' # "done" /\ cap # "done"))
      BY <1>3, <2>1
    <2>3. cap' \in {cap, "armed", "off"}
      BY DEF Bracket
    <2>. QED BY <2>1, <2>2, <2>3 DEF Reported, Listed
  <1>5. TableOk'
    BY <1>4 DEF Told, TableOk
  <1>6. MsgOk'
    BY <1>4 DEF Told, MsgOk
  <1>7. AtrIsCurrent'
    BY <1>1, <1>2 DEF Told, AtrIsCurrent
  <1>. QED BY <1>5, <1>6, <1>7 DEF Told

(* Commands end the capture: an unread message counts as lost. *)
LEMMA BracketKeeps ==
  ASSUME TypeOK, Told, EndCapture, cap' # "done",
         UNCHANGED <<mode, card, edge, msg, seq, of, stolen>>,
         \A s \in Slot : atr'[s] = atr[s] \/ atr'[s] = 0 \/ atr'[s] = card[s]
  PROVE  Told'
  <1>1. TableOk' /\ MsgOk'
    BY DEF Told, TableOk, MsgOk, Reported, Listed, EndCapture
  <1>2. AtrIsCurrent'
    BY DEF Told, AtrIsCurrent
  <1>. QED BY <1>1, <1>2 DEF Told

LEMMA PollKeeps ==
  ASSUME TypeOK, Below, NoWrap, PollOff, Told, NEW s \in Slot, PollSlot(s)
  PROVE  Told'
  <1>1. mode = "poll" /\ mode' = mode /\ cap = "off" /\ cap' = cap /\ card' = card
        /\ dirty' = dirty /\ msg' = msg
    BY DEF PollSlot, PollOff, capture
  <1>2. CASE UNCHANGED <<edge, atr, table, stolen>>
    BY <1>1, <1>2 DEF Told, TableOk, MsgOk, AtrIsCurrent, Reported, Listed, table
  <1>3. CASE /\ CardStatus(s) /\ SlotStatusUpdate({s}, Status)
             /\ stolen' = [stolen EXCEPT ![s] = @ /\ seq'[s] # 0 /\ seq'[s] = seq[s]]
    <2>1. \A t \in Slot : t # s => edge'[t] = edge[t] /\ atr'[t] = atr[t] /\ stolen'[t] = stolen[t]
      BY <1>3 DEF CardStatus, TypeOK
    <2>2. stolen'[s] <=> (stolen[s] /\ seq'[s] # 0 /\ seq'[s] = seq[s])
      BY <1>3 DEF TypeOK
    <2>3. Slot \subseteq Unit
      BY SlotsAssumption DEF Slot, Unit
    <2>4. atr'[s] = IF edge[s] THEN 0 ELSE atr[s]
      BY <1>3, <2>3 DEF CardStatus, TypeOK
    <2>5. \A t \in Slot :
            \/ t \in Renumbered({s}, Status) /\ NewNumber(t)
            \/ t \in {s} /\ ~ Status[t].present /\ Emptied(t)
            \/ t \notin Renumbered({s}, Status) /\ (t \in {s} => Status[t].present) /\ LeftAlone(t)
      BY <1>3, UpdateGives
    <2>6. \A t \in Slot : t # s => LeftAlone(t)
      BY <2>5 DEF Renumbered
    <2>7. Status[s].present = (card[s] # 0) /\ Status[s].changed = edge[s]
      BY DEF Status
    <2>8. s \in Renumbered({s}, Status) <=> card[s] # 0 /\ (seq[s] = 0 \/ edge[s])
      BY <2>7 DEF Renumbered
    <2>9. 0 < card_seq /\ card_seq \in Nat /\ seq'[s] \in Nat
      <3>1. seq' \in [Slot -> 0 .. SeqMod - 1]
        BY <1>3, UpdateGives
      <3>. QED BY <3>1, SlotsAssumption DEF TypeOK, Below
    <2>10. ASSUME Reported(s)' PROVE Listed(s)'
      <3>1. CASE card[s] # 0 /\ (seq[s] = 0 \/ edge[s])
        <4>1. NewNumber(s)
          BY <2>5, <2>7, <2>8, <3>1
        <4>2. seq'[s] # 0
          BY <2>9, <4>1 DEF NewNumber
        <4>. QED BY <1>1, <3>1, <4>1, <4>2 DEF NewNumber, Listed
      <3>2. CASE card[s] = 0
        BY <1>1, <2>5, <2>7, <2>8, <3>2 DEF Emptied, Listed
      <3>3. CASE card[s] # 0 /\ seq[s] # 0 /\ ~ edge[s]
        <4>1. LeftAlone(s)
          BY <2>5, <2>7, <2>8, <3>3
        <4>2. ~ stolen[s] /\ ~ dirty
          BY <1>1, <2>2, <2>10, <3>3, <4>1 DEF Reported, LeftAlone
        <4>3. Listed(s)
          BY <1>1, <3>3, <4>2 DEF Told, TableOk, Reported
        <4>. QED BY <1>1, <4>1, <4>3 DEF LeftAlone, Listed
      <3>. QED BY <3>1, <3>2, <3>3
    <2>11. ASSUME NEW t \in Slot, t # s, Reported(t)' PROVE Listed(t)'
      <3>1. Listed(t)
        BY <1>1, <2>1, <2>11 DEF Told, TableOk, Reported
      <3>. QED BY <1>1, <2>6, <2>11, <3>1 DEF LeftAlone, Listed
    <2>12. TableOk'
      BY <2>10, <2>11 DEF TableOk
    <2>13. MsgOk'
      BY <1>1 DEF MsgOk
    <2>14. AtrIsCurrent'
      BY <1>1, <2>1, <2>4 DEF Told, AtrIsCurrent
    <2>. QED BY <2>12, <2>13, <2>14 DEF Told
  <1>. QED BY <1>2, <1>3 DEF PollSlot

LEMMA EventKeeps ==
  ASSUME TypeOK, Below, NoWrap, PollOff, Told, Event
  PROVE  Told'
  <1>1. PICK st \in EventStatus : SlotStatusUpdate(Slot, st)
    BY DEF Event
  <1>2. /\ cap = "done" /\ cap' = "armed"
        /\ UNCHANGED <<mode, card, edge, msg, dirty, atr, stolen>>
    BY DEF Event, device, slots
  <1>3. \A s \in Slot : st[s].present = msg[s].present /\ (msg[s].changed => st[s].changed)
    BY DEF EventStatus
  <1>4. \A s \in Slot :
          \/ s \in Renumbered(Slot, st) /\ NewNumber(s)
          \/ s \in Slot /\ ~ st[s].present /\ Emptied(s)
          \/ s \notin Renumbered(Slot, st) /\ (s \in Slot => st[s].present) /\ LeftAlone(s)
    BY <1>1, UpdateGives
  <1>5. ASSUME NEW s \in Slot, Reported(s)' PROVE Listed(s)'
    <2>1. Reported(s) /\ (msg[s].present <=> card[s] # 0) /\ (~ msg[s].changed => Listed(s))
      BY <1>2, <1>5 DEF Reported, Told, MsgOk
    <2>2. 0 < card_seq /\ card_seq \in Nat /\ seq'[s] \in Nat
      <3>1. seq' \in [Slot -> 0 .. SeqMod - 1]
        BY <1>1, UpdateGives
      <3>. QED BY <3>1, SlotsAssumption DEF TypeOK, Below
    <2>3. CASE s \in Renumbered(Slot, st) /\ NewNumber(s)
      BY <1>2, <1>3, <2>1, <2>2, <2>3 DEF Renumbered, NewNumber, Listed
    <2>4. CASE ~ st[s].present /\ Emptied(s)
      BY <1>2, <1>3, <2>1, <2>4 DEF Emptied, Listed
    <2>5. CASE s \notin Renumbered(Slot, st) /\ st[s].present /\ LeftAlone(s)
      <3>1. ~ msg[s].changed
        BY <1>3, <2>5 DEF Renumbered
      <3>. QED BY <1>2, <2>1, <2>5, <3>1 DEF LeftAlone, Listed
    <2>. QED BY <1>4, <2>3, <2>4, <2>5
  <1>6. TableOk'
    BY <1>5 DEF TableOk
  <1>7. MsgOk'
    BY <1>2 DEF MsgOk
  <1>8. AtrIsCurrent'
    BY <1>2 DEF Told, AtrIsCurrent
  <1>. QED BY <1>6, <1>7, <1>8 DEF Told

LEMMA DeliverKeeps ==
  ASSUME TypeOK, PollOff, Told, Deliver
  PROVE  Told'
  <1>1. /\ cap = "armed" /\ cap' = "done" /\ msg' = Status
        /\ UNCHANGED <<mode, card, dirty, atr, seq, of, stolen>>
    BY DEF Deliver, slots, table
  <1>2. mode # "poll"
    BY <1>1 DEF PollOff
  <1>3. \A s \in Slot : Status[s].present = (card[s] # 0) /\ Status[s].changed = edge[s]
    BY DEF Status
  <1>4. ASSUME NEW s \in Slot, Reported(s)'
        PROVE  /\ msg'[s].present <=> card'[s] # 0
               /\ ~ msg'[s].changed => Listed(s)'
    <2>1. msg'[s].present <=> card'[s] # 0
      BY <1>1, <1>3
    <2>2. ASSUME ~ msg'[s].changed PROVE Listed(s)'
      <3>1. Reported(s)
        BY <1>1, <1>3, <1>4, <2>2 DEF Reported
      <3>. QED BY <1>1, <3>1 DEF Told, TableOk, Listed
    <2>. QED BY <2>1, <2>2
  <1>5. MsgOk'
    BY <1>4 DEF MsgOk
  <1>6. TableOk' /\ AtrIsCurrent'
    BY <1>1, <1>2 DEF TableOk, AtrIsCurrent
  <1>. QED BY <1>5, <1>6 DEF Told

LEMMA StatusKeeps ==
  ASSUME TypeOK, Told, NEW s \in Slot, CmdStatus(s), CardStatus(s),
         stolen' = [stolen EXCEPT ![s] = @ \/ edge[s]]
  PROVE  Told'
  <1>1. /\ EndCapture /\ cap' # "done" /\ CardStatus(s)
        /\ UNCHANGED <<mode, card, msg, seq, of>>
        /\ stolen' = [stolen EXCEPT ![s] = @ \/ edge[s]]
    BY DEF CmdStatus, Bracket, table
  <1>2. \A t \in Slot : t # s => edge'[t] = edge[t] /\ atr'[t] = atr[t] /\ stolen'[t] = stolen[t]
    BY <1>1 DEF CardStatus, TypeOK
  <1>3. stolen'[s] <=> (stolen[s] \/ edge[s])
    BY <1>1 DEF TypeOK
  <1>4. atr'[s] = IF edge[s] THEN 0 ELSE atr[s]
    <2>1. Slot \subseteq Unit
      BY SlotsAssumption DEF Slot, Unit
    <2>. QED BY <1>1, <2>1 DEF CardStatus, TypeOK
  <1>5. \A t \in Slot : Reported(t)' => Reported(t) /\ cap # "done"
    BY <1>1, <1>2, <1>3 DEF Reported, EndCapture
  <1>6. TableOk' /\ MsgOk'
    BY <1>1, <1>5 DEF Told, TableOk, MsgOk, Listed
  <1>7. AtrIsCurrent'
    BY <1>1, <1>2, <1>4 DEF Told, AtrIsCurrent
  <1>. QED BY <1>6, <1>7 DEF Told

LEMMA ResetKeeps ==
  ASSUME TypeOK, Told, NEW u \in Unit, CmdReset(u)
  PROVE  Told'
  <1>1. /\ EndCapture /\ cap' # "done"
        /\ UNCHANGED <<mode, card, edge, msg, seq, of, stolen>>
    BY DEF CmdReset, Bracket, device, table
  <1>2. Slot \subseteq Unit
    BY SlotsAssumption DEF Slot, Unit
  <1>3. \A s \in Slot : atr'[s] = atr[s] \/ atr'[s] = 0 \/ atr'[s] = card[s]
    BY <1>2 DEF CmdReset, TypeOK
  <1>. QED BY <1>1, <1>3, BracketKeeps

LEMMA CommandKeeps ==
  ASSUME TypeOK, Told, Command
  PROVE  Told'
  <1> USE DEF device, slots, table
  <1>1. CASE CmdRefused \/ CmdNothing
    <2>1. /\ EndCapture /\ cap' # "done"
          /\ UNCHANGED <<mode, card, edge, msg, seq, of, stolen, atr>>
      BY <1>1 DEF CmdRefused, CmdNothing, Bracket
    <2>. QED BY <2>1, BracketKeeps
  <1>2. ASSUME NEW u \in Unit, CmdStatus(u) PROVE Told'
    <2>1. CASE u \in Slot /\ CardStatus(u) /\ stolen' = [stolen EXCEPT ![u] = @ \/ edge[u]]
      BY <1>2, <2>1, StatusKeeps
    <2>2. CASE atr' \in {atr, [atr EXCEPT ![u] = 0]} /\ UNCHANGED <<edge, stolen>>
      <3>1. /\ EndCapture /\ cap' # "done"
            /\ UNCHANGED <<mode, card, edge, msg, seq, of, stolen>>
        BY <1>2, <2>2 DEF CmdStatus, Bracket
      <3>2. Slot \subseteq Unit
        BY SlotsAssumption DEF Slot, Unit
      <3>3. \A s \in Slot : atr'[s] = atr[s] \/ atr'[s] = 0 \/ atr'[s] = card[s]
        BY <2>2, <3>2 DEF TypeOK
      <3>. QED BY <3>1, <3>3, BracketKeeps
    <2>. QED BY <1>2, <2>1, <2>2 DEF CmdStatus
  <1>3. ASSUME NEW s \in Slot, CmdEject(s) PROVE Told'
    <2>1. /\ Bracket /\ msg' = msg
          /\ card' = [card EXCEPT ![s] = 0] /\ edge' = [edge EXCEPT ![s] = TRUE]
          /\ UNCHANGED <<mode, atr, seq, of, stolen>>
      BY <1>3 DEF CmdEject, Bracket
    <2>. QED BY <2>1, MovedKeeps
  <1>4. ASSUME NEW u \in Unit, CmdReset(u) PROVE Told'
    BY <1>4, ResetKeeps
  <1>5. ASSUME NEW u \in Unit, NEW p \in {"T0", "T1", "T14"}, CmdTransact(u) \/ CmdSetProtocol(u, p)
        PROVE  Told'
    <2>1. /\ EndCapture /\ cap' # "done"
          /\ UNCHANGED <<mode, card, edge, msg, seq, of, stolen, atr>>
      BY <1>5 DEF CmdTransact, CmdSetProtocol, Bracket
    <2>. QED BY <2>1, BracketKeeps
  <1>6. ASSUME NEW u \in Unit, CmdTransactOld(u) PROVE Told'
    BY <1>6 DEF CmdTransactOld, capture, Told, TableOk, MsgOk, AtrIsCurrent, Reported, Listed
  <1>7. "T0" \in {"T0", "T1", "T14"}
    OBVIOUS
  <1>. QED BY <1>1, <1>2, <1>3, <1>4, <1>5, <1>6, <1>7 DEF Command

LEMMA NextKeeps ==
  ASSUME SlotsInv, NoWrap, Next
  PROVE  Told' /\ PollOff' /\ Below' /\ NumberIsOneCard'
  <1>0. TypeOK /\ Told /\ PollOff /\ Below /\ NumberIsOneCard
    BY DEF SlotsInv, Told
  <1> USE DEF device, slots, table, capture, client
  <1>1. CASE User
    <2>1. PICK s \in Slot : Insert(s) \/ Remove(s)
      BY <1>1 DEF User
    <2>2. \E c : Move(s, c)
      BY <2>1 DEF Insert, Remove
    <2>3. PICK c : Move(s, c)
      BY <2>2
    <2>4. Told'
      BY <1>0, <2>3, MovedKeeps DEF Move
    <2>5. PollOff'
      BY <1>0, <2>3 DEF Move, PollOff
    <2>. QED BY <1>0, <2>3, <2>4, <2>5, TableKeepsNumbers DEF Move
  <1>2. CASE Deliver
    <2>1. PollOff'
      BY <1>0, <1>2 DEF Deliver, PollOff
    <2>. QED BY <1>0, <1>2, <2>1, DeliverKeeps, TableKeepsNumbers DEF Deliver
  <1>3. CASE Tick
    <2>1. Told' /\ PollOff'
      BY <1>0, <1>3 DEF Tick, PollOff, Told, TableOk, MsgOk, AtrIsCurrent, Reported, Listed
    <2>. QED BY <1>0, <1>3, <2>1, TableKeepsNumbers DEF Tick
  <1>4. ASSUME NEW s \in Slot, PollSlot(s)
        PROVE  Told' /\ PollOff' /\ Below' /\ NumberIsOneCard'
    <2>1. Told'
      BY <1>0, <1>4, PollKeeps
    <2>2. PollOff' /\ UNCHANGED client
      BY <1>0, <1>4 DEF PollSlot, PollOff
    <2>3. CASE UNCHANGED table
      BY <1>0, <2>1, <2>2, <2>3, TableKeepsNumbers
    <2>4. CASE SlotStatusUpdate({s}, Status)
      BY <1>0, <2>1, <2>2, <2>4, UpdateKeepsNumbers
    <2>. QED BY <1>4, <2>3, <2>4 DEF PollSlot
  <1>5. CASE Event
    <2>1. UNCHANGED client /\ \E st : SlotStatusUpdate(Slot, st)
      BY <1>5 DEF Event
    <2>2. PollOff'
      BY <1>0, <1>5 DEF Event, PollOff
    <2>. QED BY <1>0, <1>5, <2>1, <2>2, EventKeeps, UpdateKeepsNumbers
  <1>6. CASE EventOther
    <2>1. UNCHANGED client /\ \E st : SlotStatusUpdate(Slot, st)
      BY <1>6 DEF EventOther
    <2>2. PollOff'
      BY <1>0, <1>6 DEF EventOther, PollOff
    <2>3. Told'
      <3>1. dirty' = TRUE /\ UNCHANGED <<mode, edge, atr, card>>
        BY <1>6 DEF EventOther
      <3>. QED BY <1>0, <3>1 DEF Told, TableOk, MsgOk, Reported, AtrIsCurrent
    <2>. QED BY <1>0, <2>1, <2>2, <2>3, UpdateKeepsNumbers
  <1>7. CASE Command
    <2>1. UNCHANGED <<table, client>>
      BY <1>7 DEF Command, CmdRefused, CmdNothing, CmdStatus, CmdEject, CmdReset, CmdTransact,
         CmdTransactOld, CmdSetProtocol
    <2>2. PollOff'
      BY <1>0, <1>7 DEF PollOff, Command, CmdRefused, CmdNothing, CmdStatus, CmdEject, CmdReset,
         CmdTransact, CmdTransactOld, CmdSetProtocol, Bracket
    <2>. QED BY <1>0, <1>7, <2>1, <2>2, CommandKeeps, TableKeepsNumbers
  <1>8. CASE Client
    <2>1. PICK s \in Slot : ClientStatus(s)
      BY <1>8 DEF Client
    <2>2. Told' /\ PollOff'
      BY <1>0, <2>1 DEF ClientStatus, PollOff, Told, TableOk, MsgOk, AtrIsCurrent, Reported, Listed
    <2>3. Below'
      BY <1>0, <2>1 DEF ClientStatus, TypeOK, Below
    <2>4. NumberIsOneCard'
      BY <1>0, <2>1 DEF ClientStatus, TypeOK, NumberIsOneCard
    <2>. QED BY <2>2, <2>3, <2>4
  <1>. QED BY <1>1, <1>2, <1>3, <1>4, <1>5, <1>6, <1>7, <1>8 DEF Next, Handler

(* As long as card_seq does not wrap around, the status file tells the truth
   about every slot whose last change was reported, a number a client has seen
   and sees again stands for the same card, and a cached ATR is that of the
   card in the slot: for any number of slots, cards and clients' polls, in
   polling and in event mode, whatever commands come between. *)
THEOREM SlotsAreSound == Spec /\ [][NoWrap]_vars => []SlotsSound
  <1>1. Init => SlotsInv
    <2> SUFFICES ASSUME Init PROVE SlotsInv
      OBVIOUS
    <2>1. 0 \in CardId /\ 0 \in 0 .. SeqMod - 1 /\ 1 \in 0 .. SeqMod - 1
      BY SlotsAssumption DEF CardId
    <2>2. TypeOK
      BY <2>1 DEF Init, TypeOK, Absent
    <2>3. Below /\ PollOff /\ NumberIsOneCard
      BY DEF Init, Below, PollOff, NumberIsOneCard
    <2>4. TableOk /\ MsgOk
      BY DEF Init, TableOk, MsgOk, Listed
    <2>5. AtrIsCurrent
      <3>1. Slot \subseteq Unit
        BY SlotsAssumption DEF Slot, Unit
      <3>. QED BY <3>1 DEF Init, AtrIsCurrent
    <2>. QED BY <2>2, <2>3, <2>4, <2>5 DEF SlotsInv
  <1>2. SlotsInv /\ [Next]_vars /\ [NoWrap]_vars => SlotsInv'
    <2> SUFFICES ASSUME SlotsInv, [Next]_vars, [NoWrap]_vars PROVE SlotsInv'
      OBVIOUS
    <2>1. CASE Next /\ NoWrap
      BY <2>1, NextKeeps, NextType DEF SlotsInv, Told
    <2>2. CASE UNCHANGED vars
      BY <2>2 DEF vars, device, capture, slots, table, client, SlotsInv, TypeOK, PollOff, Below,
         NumberIsOneCard, TableOk, MsgOk, AtrIsCurrent, Reported, Listed
    <2>. QED BY <2>1, <2>2
  <1>3. SlotsInv => SlotsSound
    BY DEF SlotsInv, SlotsSound, TableOk, TableTrue, Reported, Listed
  <1>. QED BY <1>1, <1>2, <1>3, PTL DEF Spec
=============================================================================
