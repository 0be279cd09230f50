--------------------------- MODULE MCMessageExtra ---------------------------
(* Small instances of MessageExtra for TLC. *)
EXTENDS MessageExtra, TLC

CONSTANTS m1, m2, d1, d2, g1, g2, s1, s2

Symmetry == Permutations(Messages) \cup Permutations(Revokers) \cup Permutations(Syncers)
=============================================================================
