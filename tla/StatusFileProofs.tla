-------------------------- MODULE StatusFileProofs --------------------------
(***************************************************************************)
(* Theorems about StatusFile: type correctness, and that two servers share *)
(* a slot, or one is not listed under its slot, only where two starts were *)
(* after the slot at once or a parent was killed behind its fork().  They  *)
(* hold for any number of starts, slots, attempts and killed processes.    *)
(***************************************************************************)
EXTENDS StatusFile, TLAPS

LEMMA StatusTypeStep == ASSUME StatusTypeOK, [StatusNext]_statusVars PROVE StatusTypeOK'
<1> USE StatusAssumption DEF StatusTypeOK
<1>1. ASSUME NEW h \in Starts, Start(h) PROVE StatusTypeOK'
  BY <1>1 DEF Start, Goto, Starting
<1>2. ASSUME NEW h \in Starts, LinkLock(h) PROVE StatusTypeOK'
  BY <1>2 DEF LinkLock, Goto, Starting
<1>3. ASSUME NEW h \in Starts, LinkFails(h) PROVE StatusTypeOK'
  BY <1>3 DEF LinkFails, Goto, Starting
<1>4. ASSUME NEW h \in Starts, Scan(h) PROVE StatusTypeOK'
  <2>1. exposed' \subseteq Entry
    BY <1>4 DEF Scan
  <2>2. cursor[h] \in 0 .. MaxReaders /\ MaxReaders \in Nat
    OBVIOUS
  <2>3. cursor' \in [Starts -> 0 .. MaxReaders]
    BY <1>4, <2>2 DEF Scan
  <2>4. pc' \in [Starts -> {"off", "done"} \cup Starting]
    BY <1>4 DEF Scan, Goto, Starting
  <2> QED BY <1>4, <2>1, <2>3, <2>4 DEF Scan
<1>5. ASSUME NEW h \in Starts, Unlock(h) PROVE StatusTypeOK'
  BY <1>5 DEF Unlock, Goto, Starting
<1>6. ASSUME NEW h \in Starts, Claim(h) PROVE StatusTypeOK'
  BY <1>6 DEF Claim, Put, Goto, Starting, Pid
<1>7. ASSUME NEW h \in Starts, Fork(h) PROVE StatusTypeOK'
  BY <1>7 DEF Fork, Goto, Starting
<1>8. ASSUME NEW h \in Starts, SetPid(h) PROVE StatusTypeOK'
  BY <1>8 DEF SetPid, Put, Goto, Starting, Pid
<1>9. ASSUME NEW h \in Starts, OpenReader(h) \/ Exit(h) \/ CrashServer(h) PROVE StatusTypeOK'
  BY <1>9 DEF OpenReader, Exit, CrashServer, Put
<1>10. ASSUME NEW h \in Starts, CrashStarting(h) PROVE StatusTypeOK'
  BY <1>10 DEF CrashStarting, Goto
<1>11. CASE UNCHANGED statusVars
  BY <1>11 DEF statusVars
<1> QED
  BY <1>1, <1>2, <1>3, <1>4, <1>5, <1>6, <1>7, <1>8, <1>9, <1>10, <1>11
  DEF StatusNext, Parent

(* The table holds pids and no entry is written outside it, whatever the
   processes do and wherever they are killed. *)
THEOREM StatusTypeCorrect == StatusSpec => []StatusTypeOK
<1>1. StatusInit => StatusTypeOK
  <2>1. 0 \in 0 .. MaxReaders /\ 0 \in 0 .. LockTries - 1 /\ 0 \in 0 .. MaxCrashes
    BY StatusAssumption
  <2> QED BY <2>1 DEF StatusInit, StatusTypeOK
<1> QED BY <1>1, StatusTypeStep, PTL DEF StatusSpec

-----------------------------------------------------------------------------
(* h has been given a slot and still needs it. *)
Holds(h) == Unlisted(h) \/ Serving(h)

(* A server exists only behind its fork; a slot that is not exposed is held by
   one start at most. *)
ForkFirst == \A h \in Starts : srv[h] # "none" => pc[h] \in {"setpid", "done"}
HeldOnce ==
    \A g, h \in Starts :
        g # h /\ Holds(g) /\ Holds(h) /\ cursor[g] \in Entry /\ cursor[g] = cursor[h]
            => cursor[g] \in exposed

SlotInv == ForkFirst /\ HeldOnce /\ RunningListed

(* A server whose start is over keeps its entry from being taken for free. *)
LEMMA ListedNotFree ==
  ASSUME StatusTypeOK, RunningListed, NEW h \in Starts, Serving(h), pc[h] = "done",
         cursor[h] \in Entry \ exposed
  PROVE  ~ Free(cursor[h])
<1>1. ct_pid[cursor[h]] = <<h, "child">>
  BY DEF RunningListed
<1>2. <<h, "child">> # NoPid
  BY StatusAssumption DEF Pid
<1> QED BY <1>1, <1>2 DEF Free, Exists

(* A step after which nobody holds a slot he did not hold before, and which
   leaves cursors alone, adds no second holder. *)
LEMMA NoNewHolder ==
  ASSUME HeldOnce, UNCHANGED cursor, exposed \subseteq exposed',
         \A h \in Starts : Holds(h)' => Holds(h)
  PROVE  HeldOnce'
BY DEF HeldOnce

LEMMA ScanKeeps ==
  ASSUME StatusTypeOK, SlotInv, NEW s \in Starts, Scan(s)
  PROVE  SlotInv'
<1> USE StatusAssumption DEF SlotInv
<1>1. /\ UNCHANGED <<ct_pid, srv>> /\ pc[s] = "scan" /\ srv[s] = "none"
      /\ exposed \subseteq exposed'
      /\ \A h \in Starts : h # s => cursor'[h] = cursor[h] /\ pc'[h] = pc[h]
      /\ pc'[s] # "done"
  BY DEF Scan, Goto, StatusTypeOK, ForkFirst
<1>2. ForkFirst'
  BY <1>1 DEF ForkFirst
<1>3. RunningListed'
  BY <1>1 DEF RunningListed, Serving
<1>4. ASSUME NEW h \in Starts, h # s, Holds(h), Unlisted(s)', cursor'[s] \in Entry,
             cursor[h] = cursor'[s], cursor'[s] \notin exposed'
      PROVE  FALSE
  <2>1. /\ cursor' = cursor /\ Free(cursor[s])
        /\ exposed' = exposed \cup
              (Entry \cap {cursor[g] : g \in {g \in Starts :
                              Unlisted(g) /\ cursor[g] = cursor[s]}})
    BY <1>1, <1>4 DEF Scan, Unlisted, StatusTypeOK, Entry
  <2>2. ~ Unlisted(h)
    BY <1>4, <2>1
  <2>3. pc[h] = "done" /\ Serving(h)
    BY <1>4, <2>2 DEF Holds, Serving, Unlisted, ForkFirst
  <2> QED BY <1>4, <2>1, <2>3, ListedNotFree
<1>5. HeldOnce'
  <2> SUFFICES ASSUME NEW g \in Starts, NEW h \in Starts, g # h,
                      Holds(g)', Holds(h)', cursor'[g] \in Entry, cursor'[g] = cursor'[h],
                      cursor'[g] \notin exposed'
               PROVE  FALSE
    BY DEF HeldOnce
  <2>1. ~ Serving(s)' /\ \A k \in Starts \ {s} : Holds(k)' => Holds(k)
    BY <1>1 DEF Holds, Serving, Unlisted
  <2>2. CASE g = s
    BY <1>1, <1>4, <2>1, <2>2 DEF Holds
  <2>3. CASE h = s
    BY <1>1, <1>4, <2>1, <2>3 DEF Holds
  <2>4. CASE g # s /\ h # s
    BY <1>1, <2>1, <2>4 DEF HeldOnce
  <2> QED BY <2>2, <2>3, <2>4
<1> QED BY <1>2, <1>3, <1>5

(* Writing its own slot, a holder does not touch the entry of another server. *)
LEMMA OwnSlotOnly ==
  ASSUME StatusTypeOK, HeldOnce, RunningListed, NEW s \in Starts, Holds(s),
         UNCHANGED <<cursor, exposed>>,
         \A n \in Entry : n # cursor[s] => ct_pid'[n] = ct_pid[n],
         NEW h \in Starts, h # s, Serving(h), pc[h] = "done", cursor[h] \in Entry \ exposed
  PROVE  ct_pid'[cursor'[h]] = <<h, "child">>
<1>1. ct_pid[cursor[h]] = <<h, "child">>
  BY DEF RunningListed
<1>2. cursor[h] # cursor[s]
  BY DEF HeldOnce, Holds
<1> QED BY <1>1, <1>2

LEMMA SlotStep == ASSUME StatusTypeOK, SlotInv, [StatusNext]_statusVars PROVE SlotInv'
<1> USE StatusAssumption DEF SlotInv
<1>1. ASSUME NEW s \in Starts, Start(s) \/ LinkLock(s) \/ LinkFails(s) PROVE SlotInv'
  <2>1. /\ UNCHANGED <<ct_pid, srv, cursor, exposed>> /\ pc[s] \in {"off", "lock"}
        /\ \/ pc' = pc
           \/ \E w \in {"lock", "scan"} : pc' = [pc EXCEPT ![s] = w]
    BY <1>1 DEF Start, LinkLock, LinkFails, Goto
  <2>2. \A h \in Starts : Holds(h)' => Holds(h)
    BY <2>1 DEF Holds, Unlisted, Serving, StatusTypeOK
  <2>3. ForkFirst' /\ RunningListed'
    BY <2>1 DEF StatusTypeOK, ForkFirst, RunningListed, Serving
  <2> QED BY <2>1, <2>2, <2>3, NoNewHolder
<1>2. ASSUME NEW s \in Starts, Scan(s) PROVE SlotInv'
  BY <1>2, ScanKeeps
<1>3. ASSUME NEW s \in Starts, Unlock(s) PROVE SlotInv'
  <2>1. /\ UNCHANGED <<ct_pid, srv, cursor, exposed>> /\ pc[s] = "unlock"
        /\ pc' = [pc EXCEPT ![s] = "claim"]
    BY <1>3 DEF Unlock, Goto
  <2>2. \A h \in Starts : Holds(h)' => Holds(h)
    BY <2>1 DEF Holds, Unlisted, Serving, StatusTypeOK
  <2>3. ForkFirst' /\ RunningListed'
    BY <2>1 DEF StatusTypeOK, ForkFirst, RunningListed, Serving
  <2> QED BY <2>1, <2>2, <2>3, NoNewHolder
<1>4. ASSUME NEW s \in Starts, Claim(s) PROVE SlotInv'
  <2>1. /\ UNCHANGED <<srv, cursor, exposed>> /\ pc[s] = "claim" /\ srv[s] = "none"
        /\ pc' \in {[pc EXCEPT ![s] = "fork"], [pc EXCEPT ![s] = "done"]}
        /\ \A n \in Entry : n # cursor[s] => ct_pid'[n] = ct_pid[n]
    BY <1>4 DEF Claim, Put, Goto, StatusTypeOK, ForkFirst
  <2>2. Holds(s) /\ \A h \in Starts : Holds(h)' => Holds(h)
    BY <2>1 DEF Holds, Unlisted, Serving, StatusTypeOK
  <2>3. ForkFirst'
    BY <2>1 DEF StatusTypeOK, ForkFirst
  <2>4. RunningListed'
    <3>1. \A h \in Starts : h # s => pc'[h] = pc[h]
      BY <2>1 DEF StatusTypeOK
    <3> QED BY <2>1, <2>2, <3>1, OwnSlotOnly DEF RunningListed, Serving
  <2> QED BY <2>1, <2>2, <2>3, <2>4, NoNewHolder
<1>5. ASSUME NEW s \in Starts, Fork(s) PROVE SlotInv'
  <2>1. /\ UNCHANGED <<ct_pid, cursor, exposed>> /\ pc[s] = "fork" /\ srv[s] = "none"
        /\ \/ pc' = [pc EXCEPT ![s] = "setpid"] /\ srv' = [srv EXCEPT ![s] = "open"]
           \/ pc' = [pc EXCEPT ![s] = "done"] /\ UNCHANGED srv
    BY <1>5 DEF Fork, Goto, ForkFirst, StatusTypeOK
  <2>2. \A h \in Starts : Holds(h)' => Holds(h)
    BY <2>1 DEF Holds, Unlisted, Serving, StatusTypeOK
  <2>3. ForkFirst' /\ RunningListed'
    BY <2>1 DEF StatusTypeOK, ForkFirst, RunningListed, Serving
  <2> QED BY <2>1, <2>2, <2>3, NoNewHolder
<1>6. ASSUME NEW s \in Starts, SetPid(s) PROVE SlotInv'
  <2>1. /\ UNCHANGED <<srv, cursor, exposed>> /\ pc[s] = "setpid"
        /\ pc' = [pc EXCEPT ![s] = "done"]
        /\ cursor[s] \in Entry => ct_pid'[cursor[s]] = <<s, "child">>
        /\ \A n \in Entry : n # cursor[s] => ct_pid'[n] = ct_pid[n]
    BY <1>6 DEF SetPid, Put, Goto, StatusTypeOK
  <2>2. Holds(s) /\ \A h \in Starts : Holds(h)' => Holds(h)
    BY <2>1 DEF Holds, Unlisted, Serving, StatusTypeOK
  <2>3. ForkFirst'
    BY <2>1 DEF StatusTypeOK, ForkFirst
  <2>4. RunningListed'
    <3>1. \A h \in Starts : h # s => pc'[h] = pc[h]
      BY <2>1 DEF StatusTypeOK
    <3> QED BY <2>1, <2>2, <3>1, OwnSlotOnly DEF RunningListed, Serving
  <2> QED BY <2>1, <2>2, <2>3, <2>4, NoNewHolder
<1>7. ASSUME NEW s \in Starts, OpenReader(s) \/ CrashServer(s) \/ Exit(s) PROVE SlotInv'
  <2>1. /\ UNCHANGED <<pc, cursor, exposed>> /\ Serving(s)
        /\ srv' \in {[srv EXCEPT ![s] = "run"], [srv EXCEPT ![s] = "gone"]}
        /\ ct_pid' # ct_pid => srv' = [srv EXCEPT ![s] = "gone"]
        /\ \A n \in Entry : n # cursor[s] => ct_pid'[n] = ct_pid[n]
    BY <1>7 DEF OpenReader, CrashServer, Exit, Put, Serving, StatusTypeOK
  <2>2. Holds(s) /\ \A h \in Starts : (Holds(h)' => Holds(h)) /\ (Serving(h)' => Serving(h))
    BY <2>1 DEF Holds, Unlisted, Serving, StatusTypeOK
  <2>3. ForkFirst'
    BY <2>1 DEF StatusTypeOK, ForkFirst, Serving
  <2>4. RunningListed'
    <3>1. ct_pid' # ct_pid => ~ Serving(s)'
      BY <2>1 DEF Serving, StatusTypeOK
    <3> QED BY <2>1, <2>2, <3>1, OwnSlotOnly DEF RunningListed
  <2> QED BY <2>1, <2>2, <2>3, <2>4, NoNewHolder
<1>8. ASSUME NEW s \in Starts, CrashStarting(s) PROVE SlotInv'
  <2>1. /\ UNCHANGED <<ct_pid, srv, cursor>> /\ pc[s] \in Starting
        /\ pc' = [pc EXCEPT ![s] = "done"] /\ exposed \subseteq exposed'
        /\ pc[s] = "setpid" /\ cursor[s] \in Entry => cursor[s] \in exposed'
    BY <1>8 DEF CrashStarting, Goto
  <2>2. \A h \in Starts : Holds(h)' => Holds(h)
    BY <2>1 DEF Holds, Unlisted, Serving, StatusTypeOK, Starting
  <2>3. ForkFirst'
    BY <2>1 DEF StatusTypeOK, ForkFirst, Starting
  <2>4. RunningListed'
    <3>1. Serving(s) => pc[s] = "setpid"
      BY <2>1 DEF ForkFirst, Serving, Starting
    <3> QED BY <2>1, <3>1 DEF RunningListed, Serving, StatusTypeOK
  <2> QED BY <2>1, <2>2, <2>3, <2>4, NoNewHolder
<1>9. CASE UNCHANGED statusVars
  BY <1>9 DEF statusVars, ForkFirst, HeldOnce, Holds, Unlisted, RunningListed, Serving
<1> QED
  BY <1>1, <1>2, <1>3, <1>4, <1>5, <1>6, <1>7, <1>8, <1>9 DEF StatusNext, Parent

LEMMA SlotInvariant == StatusSpec => []SlotInv
<1>1. StatusInit => SlotInv
  BY DEF StatusInit, SlotInv, ForkFirst, HeldOnce, Holds, Unlisted, RunningListed, Serving
<1> QED BY <1>1, SlotStep, StatusTypeCorrect, PTL DEF StatusSpec

(* Servers share a slot only where two starts had found it at once or a parent
   was killed before it wrote its child's pid.  Stale lock files, the lock given up after
   LockTries attempts or removed by another's unlink(), failed forks, early
   ends and killed servers share no slot by themselves. *)
THEOREM SlotsSharedByRaceOnly == StatusSpec => []SharedByRaceOnly
<1>1. SlotInv => SharedByRaceOnly
  BY DEF SlotInv, HeldOnce, Holds, SharedByRaceOnly
<1> QED BY <1>1, SlotInvariant, PTL

(* A server whose start is over stays listed under its slot as long as it
   lives, whatever other processes exit, start or are killed, unless the slot
   was given away in one of those two ways. *)
THEOREM RunningIsListed == StatusSpec => []RunningListed
BY SlotInvariant, PTL DEF SlotInv
=============================================================================
