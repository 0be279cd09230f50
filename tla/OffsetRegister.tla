--------------------------- MODULE OffsetRegister ---------------------------
(***************************************************************************)
(* What POST /v1/message/offset promises, without saying how: for every    *)
(* user and channel the server remembers one number below which messages   *)
(* are hidden; the number only grows; and a request is granted only when   *)
(* the number has reached what the request asked for.                      *)
(***************************************************************************)
EXTENDS Integers

CONSTANTS Keys,      \* the user-channel pairs
          Asked      \* the sequence numbers a request may ask for

VARIABLES value,     \* the number remembered for every pair
          granted    \* the requests, as <<key, seq>>, answered OK so far

vars == <<value, granted>>

Init == /\ value \in [Keys -> Int]
        /\ granted = {}

Raise(k, n) == /\ n > value[k]
               /\ value' = [value EXCEPT ![k] = n]
               /\ UNCHANGED granted

Grant(k, n) == /\ n <= value[k]
               /\ granted' = granted \cup {<<k, n>>}
               /\ UNCHANGED value

\* The client has read the answer and goes on to something else.
Forget(k, n) == /\ granted' = granted \ {<<k, n>>}
                /\ UNCHANGED value

Next == \E k \in Keys, n \in Asked : Raise(k, n) \/ Grant(k, n) \/ Forget(k, n)

Spec == Init /\ [][Next]_vars
=============================================================================
