------------------------------ MODULE MCServer ------------------------------
EXTENDS IfdServer
=============================================================================
