------------------------- MODULE MCConversationSync -------------------------
(* Small instances of ConversationSync for TLC. *)
EXTENDS ConversationSync, TLC

CONSTANTS d1, d2, c1, c2, g1, g2, none

Symmetry == Permutations(Routines) \cup Permutations(Convs) \cup Permutations(Devices)
=============================================================================
