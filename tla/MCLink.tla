------------------------------- MODULE MCLink -------------------------------
EXTENDS CardEmuLink, TLC

(* Control sequences are only compared and echoed, never ordered or chosen:
   exchanging them maps behaviours to behaviours (for invariants only). *)
NonceSymmetry == Permutations(Nonce)
=============================================================================
