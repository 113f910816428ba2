--------------------------- MODULE MCArbProofService ---------------------------
(* Three requests, up to two nodes; blocks b2 and c2 have one number.      *)
EXTENDS ArbProofService, TLC

MCNumberOf == [b1 |-> 1, b2 |-> 2, c2 |-> 2]
MCSymmetry == Permutations(Requests)
=============================================================================
