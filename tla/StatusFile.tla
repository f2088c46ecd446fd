----------------------------- MODULE StatusFile -----------------------------
(***************************************************************************)
(* How ifdhandler processes share the status file: every start claims a    *)
(* slot of the table, forks the server, and the server gives the slot back *)
(* when it exits (ct/status.c, main() and the exits of ifd/ifdhandler.c,   *)
(* ifd_spawn_handler() of ifd/utils.c).  The file is mapped shared: every  *)
(* access is seen by all processes at once.                                *)
(***************************************************************************)
EXTENDS Naturals, FiniteSets

CONSTANTS Starts,      \* starts of ifdhandler
          MaxReaders,  \* entries of the table (OPENCT_MAX_READERS)
          LockTries,   \* link() attempts of ct_status_lock()
          MaxCrashes,  \* bound on processes that are killed
          NoPid        \* ct_pid = 0

Starting == {"lock", "scan", "unlock", "claim", "fork", "setpid"}

ASSUME StatusAssumption ==
    /\ MaxReaders \in Nat \ {0}
    /\ LockTries \in Nat \ {0}
    /\ MaxCrashes \in Nat
    /\ NoPid \notin Starts \X {"parent", "child"}

Entry == 0 .. MaxReaders - 1

(* A start is two processes, and no pid is used twice. *)
Pid == Starts \X {"parent", "child"}

VARIABLES ct_pid,   \* of every slot in the table
          lock,     \* status.lock exists
          pc,       \* where the parent process is
          srv,      \* what the forked server does
          cursor,   \* n, then *num; MaxReaders stands for -1, no slot found
          tries,    \* failed link() calls of a start that waits for the lock
          crashes,  \* processes killed so far
          exposed   \* history: slots whose entry has not protected their start

statusVars == <<ct_pid, lock, pc, srv, cursor, tries, crashes, exposed>>

StatusTypeOK ==
    /\ ct_pid \in [Entry -> Pid \cup {NoPid}]
    /\ lock \in BOOLEAN
    /\ pc \in [Starts -> {"off", "done"} \cup Starting]
    /\ srv \in [Starts -> {"none", "open", "run", "gone"}]
    /\ cursor \in [Starts -> 0 .. MaxReaders]
    /\ tries \in [Starts -> 0 .. LockTries - 1]
    /\ crashes \in 0 .. MaxCrashes
    /\ exposed \subseteq Entry

(* openct-control init has just written an empty table. *)
StatusInit ==
    /\ ct_pid = [n \in Entry |-> NoPid]
    /\ lock = FALSE
    /\ pc = [h \in Starts |-> "off"]
    /\ srv = [h \in Starts |-> "none"]
    /\ cursor = [h \in Starts |-> 0]
    /\ tries = [h \in Starts |-> 0]
    /\ crashes = 0
    /\ exposed = {}

-----------------------------------------------------------------------------
Serving(h) == srv[h] \in {"open", "run"}

(* What kill(pid, 0) finds.  A child that has ended is a zombie until its
   parent ends too. *)
Exists(p) ==
    \/ p[2] = "parent" /\ pc[p[1]] \in Starting
    \/ p[2] = "child" /\ (Serving(p[1]) \/ (srv[p[1]] = "gone" /\ pc[p[1]] = "setpid"))

(* mutant: a slot whose server was forked counts as free *)
FreeAlways(n) == ct_pid[n] = NoPid \/ ct_pid[n][2] = "child"

Free(n) == ct_pid[n] = NoPid \/ ~ Exists(ct_pid[n])

Goto(h, where) == pc' = [pc EXCEPT ![h] = where]

(* One openct-control waits for the parent process of each start, but several
   run at once: init, and an attach for every device that udev or hald finds. *)
Start(h) ==
    /\ pc[h] = "off"
    /\ Goto(h, "lock")
    /\ UNCHANGED <<ct_pid, lock, srv, cursor, tries, crashes, exposed>>

LinkLock(h) ==
    /\ pc[h] = "lock"
    /\ ~ lock
    /\ lock' = TRUE
    /\ tries' = [tries EXCEPT ![h] = 0]
    /\ Goto(h, "scan")
    /\ UNCHANGED <<ct_pid, srv, cursor, crashes, exposed>>

(* mutant: retries is not counted down *)
LinkFailsForever(h) ==
    /\ pc[h] = "lock"
    /\ lock
    /\ UNCHANGED statusVars

(* After the last attempt the caller goes on without the lock. *)
LinkFails(h) ==
    /\ pc[h] = "lock"
    /\ lock
    /\ IF tries[h] + 1 < LockTries
         THEN tries' = [tries EXCEPT ![h] = @ + 1] /\ UNCHANGED pc
         ELSE tries' = [tries EXCEPT ![h] = 0] /\ Goto(h, "scan")
    /\ UNCHANGED <<ct_pid, lock, srv, cursor, crashes, exposed>>

(* h has found its slot, and its parent process has not yet put a pid there that
   lasts. *)
Unlisted(h) == pc[h] \in {"unlock", "claim", "fork", "setpid"}

(* mutant: n <= max *)
ScanTooFar(h) ==
    /\ pc[h] = "scan"
    /\ IF cursor[h] < MaxReaders /\ Free(cursor[h])
         THEN UNCHANGED cursor
         ELSE cursor' = [cursor EXCEPT ![h] = @ + 1]
    /\ IF cursor'[h] > MaxReaders \/ cursor' = cursor THEN Goto(h, "unlock") ELSE UNCHANGED pc
    /\ UNCHANGED <<ct_pid, lock, srv, tries, crashes, exposed>>

(* The slot is exposed when another start has found it too and is not over. *)
Scan(h) ==
    /\ pc[h] = "scan"
    /\ IF cursor[h] = MaxReaders \/ Free(cursor[h])
         THEN /\ Goto(h, "unlock")
              /\ exposed' = exposed \cup
                    (Entry \cap {cursor[g] : g \in {g \in Starts :
                                    Unlisted(g) /\ cursor[g] = cursor[h]}})
              /\ UNCHANGED cursor
         ELSE cursor' = [cursor EXCEPT ![h] = @ + 1] /\ UNCHANGED <<pc, exposed>>
    /\ UNCHANGED <<ct_pid, lock, srv, tries, crashes>>

(* unlink() removes the lock, whoever made it. *)
Unlock(h) ==
    /\ pc[h] = "unlock"
    /\ lock' = FALSE
    /\ Goto(h, "claim")
    /\ UNCHANGED <<ct_pid, srv, cursor, tries, crashes, exposed>>

(* Writing the pid of p into the slot of h.  info[-1] lies outside the table. *)
Put(h, p) ==
    ct_pid' = IF cursor[h] \in Entry THEN [ct_pid EXCEPT ![cursor[h]] = p] ELSE ct_pid

(* The slot is written after the lock is gone.  Writing info[-1] ends the
   process or hits memory before the table. *)
Claim(h) ==
    /\ pc[h] = "claim"
    /\ Put(h, <<h, "parent">>)
    /\ \/ Goto(h, "fork")
       \/ cursor[h] \notin Entry /\ Goto(h, "done")
    /\ UNCHANGED <<lock, srv, cursor, tries, crashes, exposed>>

Fork(h) ==
    /\ pc[h] = "fork"
    /\ \/ Goto(h, "setpid") /\ srv' = [srv EXCEPT ![h] = "open"]
       \/ Goto(h, "done") /\ UNCHANGED srv
    /\ UNCHANGED <<ct_pid, lock, cursor, tries, crashes, exposed>>

(* mutant: the parent leaves its own pid in the slot *)
SetPidNot(h) ==
    /\ pc[h] = "setpid"
    /\ Goto(h, "done")
    /\ UNCHANGED <<ct_pid, lock, srv, cursor, tries, crashes, exposed>>

SetPid(h) ==
    /\ pc[h] = "setpid"
    /\ Put(h, <<h, "child">>)
    /\ Goto(h, "done")
    /\ UNCHANGED <<lock, srv, cursor, tries, crashes, exposed>>

(* ifd_open(), ifd_activate() and ct_socket_listen(): each failure ends the
   server and leaves the slot as it is. *)
OpenReader(h) ==
    /\ srv[h] = "open"
    /\ \E s \in {"run", "gone"} : srv' = [srv EXCEPT ![h] = s]
    /\ UNCHANGED <<ct_pid, lock, pc, cursor, tries, crashes, exposed>>

(* SIGTERM or the reader was detached: the slot is zeroed. *)
Exit(h) ==
    /\ srv[h] = "run"
    /\ srv' = [srv EXCEPT ![h] = "gone"]
    /\ Put(h, NoPid)
    /\ UNCHANGED <<lock, pc, cursor, tries, crashes, exposed>>

(* A parent killed behind its fork() leaves the server under a dead pid. *)
CrashStarting(h) ==
    /\ pc[h] \in Starting
    /\ crashes < MaxCrashes
    /\ crashes' = crashes + 1
    /\ exposed' = IF pc[h] = "setpid" THEN exposed \cup ({cursor[h]} \cap Entry) ELSE exposed
    /\ Goto(h, "done")
    /\ UNCHANGED <<ct_pid, lock, srv, cursor, tries>>

CrashServer(h) ==
    /\ Serving(h)
    /\ crashes < MaxCrashes
    /\ crashes' = crashes + 1
    /\ srv' = [srv EXCEPT ![h] = "gone"]
    /\ UNCHANGED <<ct_pid, lock, pc, cursor, tries, exposed>>

Parent(h) ==
    \/ LinkLock(h) \/ LinkFails(h) \/ Scan(h) \/ Unlock(h) \/ Claim(h) \/ Fork(h)
    \/ SetPid(h)

StatusNext ==
    \E h \in Starts :
        \/ Start(h) \/ Parent(h) \/ OpenReader(h) \/ Exit(h)
        \/ CrashStarting(h) \/ CrashServer(h)

StatusSpec == StatusInit /\ [][StatusNext]_statusVars

(* A started process runs on; servers need not ever end. *)
StatusFairSpec == StatusSpec /\ \A h \in Starts : WF_statusVars(Parent(h))

-----------------------------------------------------------------------------
(* Two servers come to have the same slot, and so the same socket path, in two
   ways only: one start found the slot while another that had found it was not over,
   or the parent of one was killed before it wrote its child's pid.  Nothing
   else gives a used slot away: no stale lock, no start that fails, no server that
   exits or is killed, whoever runs at the same time. *)
SharedByRaceOnly ==
    \A g, h \in Starts :
        g # h /\ Serving(g) /\ Serving(h) /\ cursor[g] \in Entry /\ cursor[g] = cursor[h]
            => cursor[g] \in exposed

(* Once a start is over, its server is found through the slot it was given
   as long as it lives: nobody else's exit or start has wiped the entry, except
   where the same two things happened. *)
RunningListed ==
    \A h \in Starts :
        Serving(h) /\ pc[h] = "done" /\ cursor[h] \in Entry \ exposed
            => ct_pid[cursor[h]] = <<h, "child">>

(* No two servers have the same slot.  status.c: "Lock the status file against
   concurrent access". *)
SlotsDistinct ==
    \A g, h \in Starts :
        g # h /\ Serving(g) /\ Serving(h) /\ cursor[g] \in Entry => cursor[g] # cursor[h]

(* Every start comes to an end, whatever locks killed processes left. *)
StartEnds == \A h \in Starts : pc[h] \in Starting ~> pc[h] = "done"
=============================================================================
