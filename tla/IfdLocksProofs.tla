--------------------------- MODULE IfdLocksProofs ---------------------------
(***************************************************************************)
(* The lock table is sound for any number of connections, users and slots. *)
(***************************************************************************)
EXTENDS IfdLocks, TLAPS

(* Every step of the handler and its clients keeps the types. *)
LEMMA LocksTypeStep == ASSUME TypeOK, [Next]_vars PROVE TypeOK'
<1> USE LocksAssumption DEF TypeOK, Lock, Request, Apdu, Unit
<1>1. ASSUME NEW s \in Sock, NEW u \in Uid, Accept(s, u) PROVE TypeOK'
  BY <1>1 DEF Accept
<1>2. ASSUME NEW s \in Sock, NEW r \in Request, Write(s, r) PROVE TypeOK'
  BY <1>2 DEF Write
<1>3. ASSUME NEW s \in Sock, HangUp(s) PROVE TypeOK'
  BY <1>3 DEF HangUp
<1>4. ASSUME NEW s \in Sock, DoLock(s) PROVE TypeOK'
  <2>1. Grant(s, req[s].unit, req[s].type) \in Lock
    BY <1>4 DEF DoLock, Process, Grant, Connected
  <2> QED BY <1>4, <2>1 DEF DoLock, Process
<1>5. ASSUME NEW s \in Sock, DoUnlock(s) PROVE TypeOK'
  BY <1>5 DEF DoUnlock, Process
<1>6. ASSUME NEW s \in Sock, DoTransactOld(s) PROVE TypeOK'
  <2>1. req[s].unit \in Unit
    BY <1>6 DEF DoTransactOld, Process
  <2> QED BY <1>6, <2>1 DEF DoTransactOld, Process
<1>7. ASSUME NEW s \in Sock, DoTransact(s) PROVE TypeOK'
  <2>1. req[s].unit \in Unit
    BY <1>7 DEF DoTransact, Process
  <2> QED BY <1>7, <2>1 DEF DoTransact, Process
<1>8. ASSUME NEW s \in Sock, Refuse(s) PROVE TypeOK'
  BY <1>8 DEF Refuse, Process
<1>9. ASSUME NEW s \in Sock, Close(s) PROVE TypeOK'
  BY <1>9 DEF Close, UnlockAll
<1>10. ASSUME Restart PROVE TypeOK'
  BY <1>10 DEF Restart
<1>11. CASE UNCHANGED vars
  BY <1>11 DEF vars
<1> QED BY <1>1, <1>2, <1>3, <1>4, <1>5, <1>6, <1>7, <1>8, <1>9, <1>10, <1>11
        DEF Next, Serve

(* The types of the lock table and of the connections hold for every set of
   connections and users. *)
THEOREM LocksTypeCorrect == Spec => []TypeOK
<1>1. Init => TypeOK
  BY LocksAssumption DEF Init, TypeOK
<1> QED BY <1>1, LocksTypeStep, PTL DEF Spec

-----------------------------------------------------------------------------
(* A granted lock is compatible with the locks of every other connection:
   that is what ifdhandler_check_lock() has just established. *)
LEMMA GrantCompatible ==
    ASSUME LocksCompatible, NEW s \in Sock, DoLock(s) PROVE LocksCompatible'
<1> DEFINE g == Grant(s, req[s].unit, req[s].type)
<1>1. locks' = locks \cup {g}
  BY DEF DoLock
<1>2. g.slot = req[s].unit /\ g.uid = client[s] /\ g.owner = s /\ g.type = req[s].type
  BY DEF Grant
<1>3. \A l \in locks : l.slot = g.slot /\ l.owner # g.owner
        => l.type = "shared" /\ g.type = "shared" /\ l.uid = g.uid
  BY <1>2 DEF DoLock, CheckLock
<1> HIDE DEF g
<1> SUFFICES ASSUME NEW k \in locks', NEW l \in locks', k.slot = l.slot, k.owner # l.owner
             PROVE k.type = "shared" /\ l.type = "shared" /\ k.uid = l.uid
  BY DEF LocksCompatible
<1>4. CASE k \in locks /\ l \in locks
  BY <1>4 DEF LocksCompatible
<1>5. CASE k = g /\ l \in locks
  BY <1>3, <1>5
<1>6. CASE k \in locks /\ l = g
  BY <1>3, <1>6
<1>7. CASE k = g /\ l = g
  BY <1>7
<1> QED BY <1>1, <1>4, <1>5, <1>6, <1>7

(* Every other step only takes locks away. *)
LEMMA OnlyGrantsAdd ==
    ASSUME [Next]_vars, \A s \in Sock : ~ DoLock(s) PROVE locks' \subseteq locks
BY DEF Next, Serve, Accept, Write, HangUp, Process, DoUnlock, DoTransactOld, DoTransact,
       Refuse, Close, UnlockAll, Restart, vars

(* Exclusive locks exclude every other connection and shared ones every
   other user, for any number of clients. *)
THEOREM LocksExclude == Spec => []LocksCompatible
<1>1. Init => LocksCompatible
  BY DEF Init, LocksCompatible
<1>2. ASSUME LocksCompatible, [Next]_vars PROVE LocksCompatible'
  <2>1. CASE \E s \in Sock : DoLock(s)
    BY <1>2, <2>1, GrantCompatible
  <2>2. CASE \A s \in Sock : ~ DoLock(s)
    BY <1>2, <2>2, OnlyGrantsAdd DEF LocksCompatible
  <2> QED BY <2>1, <2>2
<1> QED BY <1>1, <1>2, PTL DEF Spec

-----------------------------------------------------------------------------
(* No client inherits the locks of the client whose connection object it was
   given: closing a connection releases its locks before the object can be
   used again. *)
THEOREM LocksNotInherited == Spec => []LocksOwned
<1> USE LocksAssumption
<1>1. Init => LocksOwned
  BY DEF Init, LocksOwned
<1>2. ASSUME TypeOK, LocksOwned, [Next]_vars PROVE LocksOwned'
  <2> USE <1>2 DEF LocksOwned
  <2>0. \A l \in locks : l.owner \in Sock /\ l.uid \in Uid
    BY DEF TypeOK, Lock
  <2>1. ASSUME NEW s \in Sock, NEW u \in Uid, Accept(s, u) PROVE LocksOwned'
    <3>1. \A l \in locks : l.owner # s
      BY <2>0, <2>1 DEF Accept, Connected
    <3> QED BY <2>0, <2>1, <3>1 DEF Accept, TypeOK
  <2>2. ASSUME NEW s \in Sock, DoLock(s) PROVE LocksOwned'
    <3>1. locks' = locks \cup {Grant(s, req[s].unit, req[s].type)} /\ client' = client
      BY <2>2 DEF DoLock, Process
    <3>2. client[Grant(s, req[s].unit, req[s].type).owner]
            = Grant(s, req[s].unit, req[s].type).uid
      BY DEF Grant
    <3> QED BY <3>1, <3>2
  <2>3. ASSUME NEW s \in Sock, Close(s) PROVE LocksOwned'
    BY <2>0, <2>3 DEF Close, UnlockAll, TypeOK
  <2>4. ASSUME Restart PROVE LocksOwned'
    BY <2>4 DEF Restart
  <2>5. CASE UNCHANGED client /\ locks' \subseteq locks
    BY <2>5
  <2>6. \/ \E s \in Sock : (\E u \in Uid : Accept(s, u)) \/ DoLock(s) \/ Close(s)
        \/ Restart
        \/ UNCHANGED client /\ locks' \subseteq locks
    BY DEF Next, Serve, Write, HangUp, Process, DoUnlock, DoTransactOld, DoTransact,
           Refuse, vars
  <2> QED BY <2>1, <2>2, <2>3, <2>4, <2>5, <2>6
<1> QED BY <1>1, <1>2, LocksTypeCorrect, PTL DEF Spec

-----------------------------------------------------------------------------
(* A client's lock is never released at another client's request. *)
THEOREM ReleaseIsOwn == Spec => NoForeignRelease
<1> DEFINE Released(l) ==
      \/ client'[l.owner] = None
      \/ /\ req[l.owner] # None /\ req'[l.owner] = None
         /\ req[l.owner].cmd = "unlock"
         /\ l.slot = req[l.owner].unit
         /\ HandleOf(l) = req[l.owner].handle
<1>1. ASSUME TypeOK, [Next]_vars, NEW l \in locks \ locks' PROVE Released(l)
  <2>0. l.owner \in Sock
    BY <1>1 DEF TypeOK, Lock
  <2>1. ASSUME NEW s \in Sock, DoUnlock(s) PROVE Released(l)
    <3>1. l \in Named(s)
      BY <1>1, <2>1 DEF DoUnlock
    <3> QED BY <1>1, <2>1, <3>1 DEF DoUnlock, Process, Named, TypeOK
  <2>2. ASSUME NEW s \in Sock, Close(s) PROVE Released(l)
    <3>1. l.owner = s
      BY <1>1, <2>2 DEF Close, UnlockAll
    <3> QED BY <1>1, <2>2, <3>1 DEF Close, UnlockAll, TypeOK
  <2>3. ASSUME Restart PROVE Released(l)
    BY <2>0, <2>3 DEF Restart
  <2>4. \/ \E s \in Sock : DoUnlock(s) \/ Close(s)
        \/ Restart
    BY <1>1 DEF Next, Serve, Accept, Write, HangUp, Process, DoLock, DoTransactOld,
               DoTransact, Refuse, vars
  <2> HIDE DEF Released
  <2> QED BY <2>1, <2>2, <2>3, <2>4
<1>2. TypeOK /\ [Next]_vars => [\A l \in locks \ locks' : Released(l)]_vars
  BY <1>1
<1> QED BY <1>2, LocksTypeCorrect, PTL DEF Spec, NoForeignRelease
=============================================================================
