----------------------------- MODULE MCPackages -----------------------------
(* Small instances of the packages. *)
EXTENDS Packages

CONSTANTS g1, g2, t1, t2, c1, c2, c3, c4, c5, c6, r1, r2, admin, user, none

MCExps == -3 .. 1
MCPlaces == -1 .. 2
MCOperands == {[value |-> v[1], exp |-> v[2]] :
                 v \in {<<0, -2>>, <<3, 0>>, <<-7, -1>>, <<25, -2>>, <<1, 1>>, <<100, -2>>}}
MCFloats == [neg : BOOLEAN, mant : {0}, exp2 : {0}]
              \cup [neg : BOOLEAN, mant : {1, 3, 25, 77}, exp2 : -4 .. 2]

MCEntries == [t \in Tokens |-> IF t = admin THEN <<"u", "n", "admin">> ELSE <<"u", "n">>]
=============================================================================
