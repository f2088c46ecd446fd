-------------------------------- MODULE MCRia --------------------------------
EXTENDS Ria

CONSTANTS a1, a2

(* The first application sends data and commands after it opened the device;
   the second claims and resets it and sends one command more. *)
TwoApps == {a1, a2}
Budgets == [a \in App |-> IF a = a1 THEN 4 ELSE 3]
=============================================================================
