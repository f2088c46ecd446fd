-------------------------------- MODULE MCT1 --------------------------------
EXTENDS T1Link
=============================================================================
