------------------------------ MODULE MCKeyLock ------------------------------
(* Small instances of KeyLock for TLC. *)
EXTENDS KeyLock

CONSTANTS p1, p2, p3, k1, k2, o1, o2, o3, o4
=============================================================================
