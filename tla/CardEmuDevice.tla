--------------------------- MODULE CardEmuDevice ---------------------------
(***************************************************************************)
(* The card emulator: setup(), loop() and resync() of main_loop.cpp on top *)
(* of CommHelper.  mode says which of them is running: loop(), resync()    *)
(* with resyncState 0 or 1, or smartCard.Commit() called from loop().      *)
(* One action is one request received and answered.                        *)
(***************************************************************************)
EXTENDS CardEmuWire

VARIABLES mode,          \* what the emulator is executing
          card,          \* bit 0 of status: IS_CARD_PRESENT
          writePending   \* only writePending > 0 is ever tested

dev == <<mode, card, writePending>>

DevTypeOK ==
    /\ mode \in {"loop", "resync0", "resync1", "commit"}
    /\ card \in {"absent", "present"}
    /\ writePending \in {"zero", "some"}

(* SendAnswer *)
Answer(type, payload) == d2h' = Append(d2h, Frame(type, payload))

(* setup() calls resync(), which announces itself first *)
DevInit ==
    /\ mode = "resync0"
    /\ card = "absent"
    /\ writePending = "zero"
    /\ d2h = <<Frame("Resync", "none")>>

(* ReceiveRequest returned request r *)
Receive(r) ==
    /\ h2d # <<>>
    /\ Head(h2d) = r
    /\ h2d' = Tail(h2d)

(* ReceiveRequest returned Request::Invalid() *)
ReceiveInvalid ==
    /\ h2d # <<>>
    /\ Head(h2d) \in Damaged
    /\ h2d' \in AfterDamaged(h2d)

(* loop() with result = 0: resync() begins *)
EnterResync ==
    /\ writePending' = "zero"
    /\ mode' = "resync0"
    /\ Answer("Resync", "none")

-----------------------------------------------------------------------------
(* loop() *)

QueryStatus ==
    /\ mode = "loop"
    /\ Receive(Frame("CardStatus", "none"))
    /\ Answer(IF card = "present" THEN "CardPresent" ELSE "CardAbsent", "none")
    /\ UNCHANGED dev

(* mutant: SET_CARD_STATUS(0) is missing *)
DeactivateCardForgets ==
    /\ mode = "loop"
    /\ Receive(Frame("CardStatus", "off"))
    /\ Answer("CardAbsent", "none")
    /\ UNCHANGED dev

DeactivateCard ==
    /\ mode = "loop"
    /\ Receive(Frame("CardStatus", "off"))
    /\ card' = "absent"
    /\ Answer("CardAbsent", "none")
    /\ UNCHANGED <<mode, writePending>>

(* card_reset(): the ATR length, then the 21 ATR bytes in frames of 14 and 7 *)
AtrFrames == << Frame("CardPresent", "atrlen"),
                Frame("CardPresent", "part1"),
                Frame("CardPresent", "part2") >>

ResetCard ==
    /\ mode = "loop"
    /\ Receive(Frame("CardStatus", "on"))
    /\ d2h' = d2h \o AtrFrames
    /\ card' = "present"
    /\ UNCHANGED <<mode, writePending>>

(* mutant: a refused commit is acknowledged *)
RefuseCommitOk ==
    /\ mode = "loop"
    /\ Receive(Frame("CardCommit", "none"))
    /\ writePending = "some"
    /\ writePending' = "zero"
    /\ Answer("Ok", "none")
    /\ UNCHANGED <<mode, card>>

(* writePending is never counted down, so CardCommit after a non-empty
   CardSend is refused and forces a resync *)
RefuseCommit ==
    /\ mode = "loop"
    /\ Receive(Frame("CardCommit", "none"))
    /\ writePending = "some"
    /\ EnterResync
    /\ UNCHANGED card

BeginCommit ==
    /\ mode = "loop"
    /\ Receive(Frame("CardCommit", "none"))
    /\ writePending = "zero"
    /\ mode' = "commit"
    /\ UNCHANGED <<d2h, card, writePending>>

(* Commit() "may take a LONG TIME" *)
EndCommit ==
    /\ mode = "commit"
    /\ mode' = "loop"
    /\ Answer("Ok", "none")
    /\ UNCHANGED <<h2d, card, writePending>>

ReadComplete ==
    /\ mode = "loop"
    /\ Receive(Frame("CardReadComplete", "none"))
    /\ Answer("Ok", "none")
    /\ UNCHANGED dev

(* the card has no output yet: CardRead is always answered CardEOD *)
ReadData ==
    /\ mode = "loop"
    /\ Receive(Frame("CardRead", "lenN"))
    /\ Answer("CardEOD", "none")
    /\ UNCHANGED dev

(* what writePending becomes when a two-byte payload is read as a length *)
AsLength(p) ==
    CASE p = "len0" -> {"zero"}
      [] p = "lenN" -> {"some"}
      [] p = "data2" -> {"zero", "some"}
      [] OTHER -> {}

WriteData(p) ==
    /\ mode = "loop"
    /\ Receive(Frame("CardSend", p))
    /\ \/ writePending = "some" /\ UNCHANGED writePending
       \/ writePending = "zero" /\ writePending' \in AsLength(p)
    /\ Answer("Ok", "none")
    /\ UNCHANGED <<mode, card>>

RefuseWrite(p) ==
    /\ mode = "loop"
    /\ Receive(Frame("CardSend", p))
    /\ writePending = "zero" /\ AsLength(p) = {}
    /\ EnterResync
    /\ UNCHANGED card

(* mutant: loop() answers but does not enter resync() *)
LoseSyncStays ==
    /\ mode = "loop"
    /\ \/ ReceiveInvalid
       \/ \E r \in Req : r.t \in {"Resync", "ResyncComplete"} /\ Receive(r)
    /\ writePending' = "zero"
    /\ Answer("Resync", "none")
    /\ UNCHANGED <<mode, card>>

(* Invalid, Resync and ResyncComplete end normal operation *)
LoseSync ==
    /\ mode = "loop"
    /\ \/ ReceiveInvalid
       \/ \E r \in Req : r.t \in {"Resync", "ResyncComplete"} /\ Receive(r)
    /\ EnterResync
    /\ UNCHANGED card

-----------------------------------------------------------------------------
(* resync() *)

InResync == mode \in {"resync0", "resync1"}

(* a Resync request is echoed, payload included *)
ResyncEcho ==
    /\ InResync
    /\ \E p \in Payload :
        /\ Receive(Frame("Resync", p))
        /\ Answer("Resync", p)
    /\ mode' = "resync1"
    /\ UNCHANGED <<card, writePending>>

(* mutant: Ok is sent, resync() goes on *)
ResyncDoneStays ==
    /\ mode = "resync1"
    /\ \E p \in Payload : Receive(Frame("ResyncComplete", p))
    /\ Answer("Ok", "none")
    /\ UNCHANGED dev

ResyncDone ==
    /\ mode = "resync1"
    /\ \E p \in Payload : Receive(Frame("ResyncComplete", p))
    /\ Answer("Ok", "none")
    /\ mode' = "loop"
    /\ UNCHANGED <<card, writePending>>

(* anything else is answered by a resync-pending notification *)
ResyncRestart ==
    /\ InResync
    /\ \/ ReceiveInvalid
       \/ \E r \in Req :
            /\ r.t # "Resync"
            /\ mode = "resync1" => r.t # "ResyncComplete"
            /\ Receive(r)
    /\ mode' = "resync0"
    /\ Answer("Resync", "none")
    /\ UNCHANGED <<card, writePending>>

-----------------------------------------------------------------------------
(* The emulator is reset: bytes it had not read yet may be lost, and setup()
   runs again. *)
Reboot ==
    /\ Fault
    /\ \E k \in 0 .. Len(h2d) : h2d' = SubSeq(h2d, k + 1, Len(h2d))
    /\ mode' = "resync0"
    /\ card' = "absent"
    /\ writePending' = "zero"
    /\ Answer("Resync", "none")

DevStep ==
    \/ QueryStatus \/ DeactivateCard \/ ResetCard
    \/ RefuseCommit \/ BeginCommit \/ EndCommit
    \/ ReadComplete \/ ReadData
    \/ \E p \in Payload : WriteData(p) \/ RefuseWrite(p)
    \/ LoseSync
    \/ ResyncEcho \/ ResyncDone \/ ResyncRestart
=============================================================================
