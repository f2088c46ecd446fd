------------------------------- MODULE MCParts -------------------------------
(***************************************************************************)
(* The parts around the server that do not act on each other, checked in   *)
(* one run: part says which of them this behaviour is about, the variables *)
(* of the others stay "off".  Bounds are in MCParts.cfg.                   *)
(***************************************************************************)
EXTENDS ProtoT0, ProtoGbp, ProtoSync, PertoSmart, Ccid, Kaan, Calls, Atr, CtApi

VARIABLE part

vars == <<part, t0, gbp, syn, ps, cc, kn, rp, at, ca>>

Init ==
    /\ part \in {"t0", "gbp", "sync", "pertosmart", "ccid", "kaan", "calls", "atr", "ctapi"}
    /\ IF part = "t0" THEN T0Init ELSE t0 = "off"
    /\ IF part = "gbp" THEN GbpInit ELSE gbp = "off"
    /\ IF part = "sync" THEN SyncInit ELSE syn = "off"
    /\ IF part = "pertosmart" THEN PsInit ELSE ps = "off"
    /\ IF part = "ccid" THEN CcInit ELSE cc = "off"
    /\ IF part = "kaan" THEN KnInit ELSE kn = "off"
    /\ IF part = "calls" THEN CallsInit ELSE rp = "off"
    /\ IF part = "atr" THEN AtrInit ELSE at = "off"
    /\ IF part = "ctapi" THEN CaInit ELSE ca = "off"

Next ==
    \/ part = "t0" /\ T0Next /\ UNCHANGED <<part, gbp, syn, ps, cc, kn, rp, at, ca>>
    \/ part = "gbp" /\ GbpNext /\ UNCHANGED <<part, t0, syn, ps, cc, kn, rp, at, ca>>
    \/ part = "sync" /\ SyncNext /\ UNCHANGED <<part, t0, gbp, ps, cc, kn, rp, at, ca>>
    \/ part = "pertosmart" /\ PsNext /\ UNCHANGED <<part, t0, gbp, syn, cc, kn, rp, at, ca>>
    \/ part = "ccid" /\ CcNext /\ UNCHANGED <<part, t0, gbp, syn, ps, kn, rp, at, ca>>
    \/ part = "kaan" /\ KnNext /\ UNCHANGED <<part, t0, gbp, syn, ps, cc, rp, at, ca>>
    \/ part = "calls" /\ CallsNext /\ UNCHANGED <<part, t0, gbp, syn, ps, cc, kn, at, ca>>
    \/ part = "atr" /\ AtrNext /\ UNCHANGED <<part, t0, gbp, syn, ps, cc, kn, rp, ca>>
    \/ part = "ctapi" /\ CaNext /\ UNCHANGED <<part, t0, gbp, syn, ps, cc, kn, rp, at>>

Spec == Init /\ [][Next]_vars

(* Both ends of a line go on: the driver runs until it waits, and waits with a
   timeout; the card or reader sends what it has begun. *)
FairSpec == /\ Spec
            /\ WF_t0(part = "t0" /\ T0Step) /\ WF_t0(part = "t0" /\ T0Card)
            /\ WF_gbp(part = "gbp" /\ GbpStep) /\ WF_gbp(part = "gbp" /\ GbpReader)

-----------------------------------------------------------------------------
(* An exchange that succeeds returns the answer to its own command, whole and
   undamaged: t0_transceive() and gbp_transceive() when they found the line
   clear, whatever failed before; ps_apdu_recv() always, but that the 1030 may
   cut it short; ccid_command() also while answers it gave up on are still to
   come, up to CcFails of them in a row.  A failed PertoSmart exchange does not
   lock out the next (PsUnlocks). *)
AnswerIsOwn ==
    CASE part = "t0" -> T0AnswerIsOwn
      [] part = "gbp" -> GbpAnswerIsOwn
      [] part = "pertosmart" -> PsAnswerIsOwn /\ PsUnlocks
      [] part = "ccid" -> CcAnswerIsOwn
      [] OTHER -> TRUE

(* A driver and what it drives agree on where they are: the step of a T=0
   command, the number of the next GBP block, the protocol of card, reader and
   slot after every path through the resets, the endpoints of a CCID. *)
EndsAgree ==
    CASE part = "t0" -> T0InStep
      [] part = "gbp" -> GbpSeqAgree
      [] part = "pertosmart" -> PsAgree
      [] part = "ccid" -> CcAgree /\ CcOpened
      [] part = "kaan" -> KnAgree
      [] OTHER -> TRUE

(* A write to a memory card leaves exactly the bytes asked for, unless a
   verifying read failed; looking for the kind of card leaves every byte but
   perhaps the first (sync_write, sync_detect_icc).  What T=0 and the Kaan
   driver store goes past the end of the buffer by no more than the code lets
   it: one SW2 behind le + 2 bytes (t0_recv), less than a block behind a memory
   access of more than 256 bytes (kaan_read_binary). *)
MemoryKept ==
    CASE part = "sync" -> SyncWritten /\ SyncProbeKeeps
      [] part = "kaan" -> KnFits
      [] part = "t0" -> T0Fits
      [] OTHER -> TRUE

(* A card that comes or goes is either reported by the next status call or was
   lost in one of the ways named in PsChangeKept and CcStatusTrue: read away by
   a reset, read away for the other slot, or compared with the state alone
   (ps_card_status of the 1030).  A sleeping Kaan misses none. *)
CardChangeKept ==
    CASE part = "pertosmart" -> PsChangeKept
      [] part = "ccid" -> CcStatusTrue
      [] part = "kaan" -> KnWakes
      [] OTHER -> TRUE

(* Calls and their data arrive whole: a call of the client library is executed
   as asked and returns what the driver answered, for every length of its
   arguments (client.c, process.c), and CT-API reads a file right from each of
   its records (CardTerminalFile_read, put). *)
CallIntact ==
    CASE part = "calls" -> CallIsAsked /\ ReturnIsAnswer
      [] part = "ctapi" -> CaFile
      [] OTHER -> TRUE

(* An ATR is taken whole and read as ISO 7816-3 has it, and after a PTS card
   and reader use the same protocol and speed (reader.c, atr.c). *)
AtrFollowed == part = "atr" => AtrWhole /\ AtrRead /\ PtsAgreed

(* CT-API: a listed terminal holds its lock, and memory commands go to the
   slot that was reset as synchronous (CT_init, ctapi_transact). *)
TerminalSound == part = "ctapi" => CaHeld /\ CaMemory

(* Every transceive ends, whatever the line does: NULL bytes for ever, damaged
   blocks, no answer; for GBP while no resync has changed the number that
   gbp_transceive() waits for. *)
TransceiveEnds ==
    /\ (part = "t0" /\ t0.pc # "idle") ~> (part = "t0" => t0.pc = "idle")
    /\ (part = "gbp" /\ gbp.pc # "idle")
          ~> (part = "gbp" => gbp.pc = "idle" \/ gbp.sseq # gbp.ns)
=============================================================================
