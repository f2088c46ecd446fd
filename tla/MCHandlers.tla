----------------------------- MODULE MCHandlers -----------------------------
(***************************************************************************)
(* What ifdhandler processes keep in the status file, in one run: how they *)
(* are started (StatusFile) and what one of them writes about its slots    *)
(* (ReaderSlots).  The two share no variable; part says which of them goes *)
(* on from its initial state while the other stays there.                  *)
(***************************************************************************)
EXTENDS StatusFile, ReaderSlots

VARIABLE part

HandlersInit ==
    /\ StatusInit /\ Init
    /\ part \in {"start", "slots"}
    /\ part = "start" => mode = "poll"

HandlersNext ==
    \/ part = "start" /\ StatusNext /\ UNCHANGED <<part, vars>>
    \/ part = "slots" /\ Next /\ UNCHANGED <<part, statusVars>>

(* Each part with the fairness of its own specification. *)
HandlersSpec ==
    /\ HandlersInit /\ [][HandlersNext]_<<part, statusVars, vars>>
    /\ \A h \in Starts : WF_statusVars(part = "start" /\ Parent(h))
    /\ WF_vars(part = "slots" /\ Tick) /\ WF_vars(part = "slots" /\ Deliver)
    /\ WF_vars(part = "slots" /\ Event)
    /\ \A s \in Slot : SF_vars(part = "slots" /\ PollSlot(s) /\ edge'[s] = FALSE)
=============================================================================
