----------------------------- MODULE RpcService -----------------------------
(***************************************************************************)
(* What ct_socket_call() promises the users of the client library: a call  *)
(* runs at most once in the ifdhandler, it returns what that run answered, *)
(* or it fails; a caller that goes away may leave a call that still runs.  *)
(***************************************************************************)
EXTENDS Naturals

CONSTANTS Conn, Arg, NoArg

VARIABLES phase,  \* the caller: off, idle, called or gone
          arg,    \* the argument of the call in progress
          runs,   \* how often that call was executed
          ret     \* what the last call returned

vars == <<phase, arg, runs, ret>>

Init ==
    /\ phase = [c \in Conn |-> "off"]
    /\ arg = [c \in Conn |-> NoArg]
    /\ runs = [c \in Conn |-> 0]
    /\ ret = [c \in Conn |-> NoArg]

Connect(c) ==
    /\ phase[c] = "off"
    /\ phase' = [phase EXCEPT ![c] = "idle"]
    /\ arg' = [arg EXCEPT ![c] = NoArg]
    /\ runs' = [runs EXCEPT ![c] = 0]
    /\ ret' = [ret EXCEPT ![c] = NoArg]

Call(c, a) ==
    /\ phase[c] = "idle"
    /\ phase' = [phase EXCEPT ![c] = "called"]
    /\ arg' = [arg EXCEPT ![c] = a]
    /\ runs' = [runs EXCEPT ![c] = 0]
    /\ UNCHANGED ret

Run(c) ==
    /\ phase[c] \in {"called", "gone"}
    /\ runs[c] = 0
    /\ runs' = [runs EXCEPT ![c] = 1]
    /\ UNCHANGED <<phase, arg, ret>>

Return(c) ==
    /\ phase[c] = "called"
    /\ runs[c] = 1
    /\ phase' = [phase EXCEPT ![c] = "idle"]
    /\ ret' = [ret EXCEPT ![c] = arg[c]]
    /\ UNCHANGED <<arg, runs>>

Fail(c) ==
    /\ phase[c] \in {"idle", "called"}
    /\ phase' = [phase EXCEPT ![c] = "idle"]
    /\ ret' = [ret EXCEPT ![c] = NoArg]
    /\ UNCHANGED <<arg, runs>>

Leave(c) ==
    /\ phase[c] \in {"idle", "called"}
    /\ phase' = [phase EXCEPT ![c] = "gone"]
    /\ UNCHANGED <<arg, runs, ret>>

Forget(c) ==
    /\ phase[c] = "gone"
    /\ phase' = [phase EXCEPT ![c] = "off"]
    /\ UNCHANGED <<arg, runs, ret>>

Next ==
    \E c \in Conn :
        \/ Connect(c) \/ (\E a \in Arg : Call(c, a)) \/ Run(c) \/ Return(c)
        \/ Fail(c) \/ Leave(c) \/ Forget(c)

Spec == Init /\ [][Next]_vars
=============================================================================
