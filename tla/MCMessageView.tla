---------------------------- MODULE MCMessageView ----------------------------
(* A channel of two messages whose rows are both erased: the older one expires, *)
(* and the payload of the newer one lists the user whose replies are followed.  *)
EXTENDS MessageView, TLC

CONSTANTS u1, u2, g1

SecondIsListed == [m \in Messages |-> IF m = 2 THEN {u1} ELSE {}]
FirstExpires == [m \in Messages |-> IF m = 1 THEN 1 ELSE 0]
=============================================================================
