------------------------------ MODULE KeyedMutex ------------------------------
(***************************************************************************)
(* What Lock(key) and Unlock(key) promise, without saying how: a goroutine *)
(* asks for one key at a time, is let in when nobody is inside with that   *)
(* key, and leaves.  Other keys never matter.                              *)
(***************************************************************************)
CONSTANTS Procs, Keys

VARIABLE place   \* where every goroutine is, and with which key

Outside == [at |-> "outside"]
Waiting(k) == [at |-> "waiting", key |-> k]
Inside(k) == [at |-> "inside", key |-> k]

Init == place = [p \in Procs |-> Outside]

Ask(p, k) == /\ place[p] = Outside
             /\ place' = [place EXCEPT ![p] = Waiting(k)]

Enter(p, k) == /\ place[p] = Waiting(k)
               /\ \A q \in Procs : place[q] # Inside(k)
               /\ place' = [place EXCEPT ![p] = Inside(k)]

Leave(p, k) == /\ place[p] = Inside(k)
               /\ place' = [place EXCEPT ![p] = Outside]

Next == \E p \in Procs, k \in Keys : Ask(p, k) \/ Enter(p, k) \/ Leave(p, k)

Spec == Init /\ [][Next]_place
=============================================================================
