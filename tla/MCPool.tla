------------------------------- MODULE MCPool -------------------------------
(* Two pools, with two workers and with one, which share the channel. *)
EXTENDS Pool, TLC

CONSTANTS j1, j2, j3, p1, p2, w1, w2, w3

TwoAndOne == p1 :> <<w1, w2>> @@ p2 :> <<w3>>
=============================================================================
