------------------------------ MODULE MCLocks ------------------------------
EXTENDS IfdLocks, TLC

SocketsAndUsers == Permutations(Sock) \cup Permutations(Uid)
=============================================================================
