------------------------------ MODULE IfdLocks ------------------------------
(***************************************************************************)
(* The lock table of an ifdhandler process and the clients it serves       *)
(* (ifd/locks.c, ifd/process.c, ifd/ifdhandler.c, ct/mainloop.c).          *)
(*                                                                         *)
(* The handler is one thread: a request is processed as one step.  Clients *)
(* are processes of their own; they connect, write a request, and may go   *)
(* away at any moment, also with a request the handler has not read.  The  *)
(* answers are not modelled.                                               *)
(***************************************************************************)
EXTENDS Naturals, FiniteSets

CONSTANTS Sock,       \* the ct_socket_t objects, reused after free()
          Uid,        \* users
          NSlots,     \* reader->nslots
          HandleMod,  \* lock_handle is an unsigned int: it wraps here
          MaxGrants,  \* bound on the locks granted by one handler process
          None        \* no client, no request

ASSUME LocksAssumption ==
    /\ NSlots \in Nat
    /\ HandleMod \in Nat \ {0}
    /\ MaxGrants \in Nat
    /\ None \notin Uid

VARIABLES client,   \* client_uid of the connection, None when it is free
          peer,     \* whether the process at the other end is still there
          req,      \* the request waiting in the socket
          locks,    \* the list of ct_lock_t, n telling how old each one is
          granted,  \* locks granted so far: lock_handle before it wraps
          apdu      \* history: what the card executed in the last step

vars == <<client, peer, req, locks, granted, apdu>>

Unit == 0 .. NSlots + 1
Type == {"shared", "excl"}
Handle == 0 .. HandleMod - 1

Request ==
    [cmd : {"lock"}, unit : Unit, type : Type]
      \cup [cmd : {"unlock"}, unit : Unit, handle : Handle]
      \cup [cmd : {"transact", "transact_old"}, unit : Unit]

Lock == [n : Nat, slot : Unit, uid : Uid, owner : Sock, type : Type]

HandleOf(l) == l.n % HandleMod

Apdu == [cmd : {"transact", "transact_old"}, sock : Sock, unit : Unit]

TypeOK ==
    /\ client \in [Sock -> Uid \cup {None}]
    /\ peer \in [Sock -> {"open", "closed"}]
    /\ req \in [Sock -> Request \cup {None}]
    /\ locks \subseteq Lock
    /\ granted \in Nat
    /\ apdu \in Apdu \cup {None}

Init ==
    /\ client = [s \in Sock |-> None]
    /\ peer = [s \in Sock |-> "closed"]
    /\ req = [s \in Sock |-> None]
    /\ locks = {}
    /\ granted = 0
    /\ apdu = None

-----------------------------------------------------------------------------
(* ifdhandler_check_lock() finds nothing in the way of this client. *)
CheckLock(s, unit, type) ==
    \A l \in locks :
        l.slot = unit /\ l.owner # s =>
            l.type = "shared" /\ type = "shared" /\ l.uid = client[s]

Connected(s) == client[s] # None

Accept(s, u) ==
    /\ ~ Connected(s)
    /\ client' = [client EXCEPT ![s] = u]
    /\ peer' = [peer EXCEPT ![s] = "open"]
    /\ req' = [req EXCEPT ![s] = None]
    /\ apdu' = None
    /\ UNCHANGED <<locks, granted>>

Write(s, r) ==
    /\ Connected(s)
    /\ peer[s] = "open"
    /\ req[s] = None
    /\ req' = [req EXCEPT ![s] = r]
    /\ apdu' = None
    /\ UNCHANGED <<client, peer, locks, granted>>

(* The client closes its end or dies. *)
HangUp(s) ==
    /\ peer[s] = "open"
    /\ peer' = [peer EXCEPT ![s] = "closed"]
    /\ apdu' = None
    /\ UNCHANGED <<client, req, locks, granted>>

(* What is true when ifdhandler_recv() hands a request to ifdhandler_process(). *)
Process(s, cmd) ==
    /\ Connected(s)
    /\ req[s] # None
    /\ req[s].cmd = cmd
    /\ req' = [req EXCEPT ![s] = None]
    /\ UNCHANGED <<client, peer>>

(* mutant: l->uid is not set *)
GrantWithoutUid(s, unit, type) ==
    [n |-> granted, slot |-> unit, uid |-> None, owner |-> s, type |-> type]

Grant(s, unit, type) ==
    [n |-> granted, slot |-> unit, uid |-> client[s], owner |-> s, type |-> type]

(* mutant: only exclusive locks of others are in the way *)
DoLockUnchecked(s) ==
    /\ Process(s, "lock")
    /\ granted < MaxGrants
    /\ req[s].unit <= NSlots
    /\ \A l \in locks : l.slot = req[s].unit /\ l.owner # s => l.type = "shared"
    /\ locks' = locks \cup {Grant(s, req[s].unit, req[s].type)}
    /\ granted' = granted + 1
    /\ apdu' = None

DoLock(s) ==
    /\ Process(s, "lock")
    /\ granted < MaxGrants
    /\ req[s].unit <= NSlots
    /\ CheckLock(s, req[s].unit, req[s].type)
    /\ locks' = locks \cup {Grant(s, req[s].unit, req[s].type)}
    /\ granted' = granted + 1
    /\ apdu' = None

Named(s) ==
    {l \in locks : l.owner = s /\ l.slot = req[s].unit /\ HandleOf(l) = req[s].handle}

(* mutant: the owner is not compared *)
DoUnlockAnyones(s) ==
    /\ Process(s, "unlock")
    /\ req[s].unit <= NSlots
    /\ \E l \in locks :
         /\ l.slot = req[s].unit /\ HandleOf(l) = req[s].handle
         /\ locks' = locks \ {l}
    /\ apdu' = None
    /\ UNCHANGED granted

(* The list is searched from its head, where the newest lock is. *)
DoUnlock(s) ==
    /\ Process(s, "unlock")
    /\ req[s].unit <= NSlots
    /\ \E l \in Named(s) :
         /\ \A k \in Named(s) : k.n <= l.n
         /\ locks' = locks \ {l}
    /\ apdu' = None
    /\ UNCHANGED granted

(* Only the old command asks whether the slot is locked by someone else.
   "transact" stands for it and for the other commands that reach the card
   unasked: reset, eject, verify, memory access, set protocol. *)
DoTransactOld(s) ==
    /\ Process(s, "transact_old")
    /\ CheckLock(s, req[s].unit, "excl")
    /\ req[s].unit <= NSlots
    /\ apdu' = [cmd |-> "transact_old", sock |-> s, unit |-> req[s].unit]
    /\ UNCHANGED <<locks, granted>>

DoTransact(s) ==
    /\ Process(s, "transact")
    /\ req[s].unit <= NSlots
    /\ apdu' = [cmd |-> "transact", sock |-> s, unit |-> req[s].unit]
    /\ UNCHANGED <<locks, granted>>

(* Every command has ways to fail that change nothing: a conflict, a bad
   unit or argument, ifd_before_command(), memory, the driver. *)
Refuse(s) ==
    /\ \E cmd \in {"lock", "unlock", "transact_old", "transact"} : Process(s, cmd)
    /\ apdu' = None
    /\ UNCHANGED <<locks, granted>>

(* mutant: ifdhandler_unlock_all() is not called *)
CloseKeepsLocks(s) ==
    /\ Connected(s)
    /\ peer[s] = "closed"
    /\ req[s] = None
    /\ client' = [client EXCEPT ![s] = None]
    /\ apdu' = None
    /\ UNCHANGED <<peer, req, locks, granted>>

(* mutant: the loop keeps a closed socket that still owns a lock *)
CloseUnlessLocked(s) ==
    /\ Connected(s)
    /\ peer[s] = "closed"
    /\ req[s] = None
    /\ \A l \in locks : l.owner # s
    /\ client' = [client EXCEPT ![s] = None]
    /\ apdu' = None
    /\ UNCHANGED <<peer, req, locks, granted>>

(* ifdhandler_unlock_all() *)
UnlockAll(s) == locks' = {l \in locks : l.owner # s}

(* The main loop finds the connection closed: ct_socket_free() calls
   ifdhandler_close(), which calls ifdhandler_unlock_all(). *)
Close(s) ==
    /\ Connected(s)
    /\ peer[s] = "closed"
    /\ req[s] = None
    /\ client' = [client EXCEPT ![s] = None]
    /\ UnlockAll(s)
    /\ apdu' = None
    /\ UNCHANGED <<peer, req, granted>>

(* The handler exits (SIGTERM, reader detached, crash) and is started again. *)
Restart ==
    /\ client' = [s \in Sock |-> None]
    /\ peer' = [s \in Sock |-> "closed"]
    /\ req' = [s \in Sock |-> None]
    /\ locks' = {}
    /\ granted' = 0
    /\ apdu' = None

Serve(s) ==
    \/ DoLock(s) \/ DoUnlock(s) \/ DoTransactOld(s) \/ DoTransact(s)
    \/ Refuse(s) \/ Close(s)

Next ==
    \/ \E s \in Sock :
         \/ \E u \in Uid : Accept(s, u)
         \/ \E r \in Request : Write(s, r)
         \/ HangUp(s)
         \/ Serve(s)
    \/ Restart

Spec == Init /\ [][Next]_vars

(* poll() reports a socket with something to read until it has been read. *)
FairSpec == Spec /\ \A s \in Sock : WF_vars(Serve(s))

-----------------------------------------------------------------------------
(* Two connections hold locks on one slot at a time only if all of these are
   shared and belong to one user, so an exclusive lock excludes everyone
   else and a shared one every other user (ifdhandler_check_lock). *)
LocksCompatible ==
    \A k, l \in locks :
        k.slot = l.slot /\ k.owner # l.owner =>
            k.type = "shared" /\ l.type = "shared" /\ k.uid = l.uid

(* Every lock belongs to a live connection and to the user behind it now: no
   client that is given a freed ct_socket_t inherits the locks of the client
   before it. *)
LocksOwned ==
    \A l \in locks : client[l.owner] = l.uid

(* A lock disappears only when its owner's connection is gone or the owner
   itself asked for the release, never at another client's request. *)
NoForeignRelease ==
    [][\A l \in locks \ locks' :
          \/ client'[l.owner] = None
          \/ /\ req[l.owner] # None /\ req'[l.owner] = None
             /\ req[l.owner].cmd = "unlock"
             /\ l.slot = req[l.owner].unit
             /\ HandleOf(l) = req[l.owner].handle]_vars

(* The locks of a client that has gone away are released. *)
DeadReleased ==
    \A s \in Sock : peer[s] = "closed" ~> {l \in locks : l.owner = s} = {}

(* process.c: "Security - deny any APDUs if there's an exclusive lock held by
   some other client." *)
ApduExclusion ==
    apdu # None =>
        ~ \E l \in locks : l.slot = apdu.unit /\ l.owner # apdu.sock /\ l.type = "excl"
=============================================================================
