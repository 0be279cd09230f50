------------------------------- MODULE OneShot -------------------------------
(***************************************************************************)
(* What Register and Trigger promise, without saying how: one registration *)
(* of an identifier is open at a time; a trigger answers the open one of   *)
(* its identifier, which is then open no more; and the answer, that one    *)
(* trigger's, is received once.                                            *)
(***************************************************************************)
CONSTANTS Ids, Triggers,
          Registrations   \* those there may ever be

VARIABLE state            \* of every registration

New == [at |-> "new"]
Open(id) == [at |-> "open", id |-> id]
Answered(id, by) == [at |-> "answered", id |-> id, by |-> by]
Received(id, by) == [at |-> "received", id |-> id, by |-> by]

Init == state = [r \in Registrations |-> New]

Register(r, id) == /\ state[r] = New
                   /\ \A s \in Registrations : state[s] # Open(id)
                   /\ state' = [state EXCEPT ![r] = Open(id)]

Trigger(r, id, t) == /\ state[r] = Open(id)
                     /\ state' = [state EXCEPT ![r] = Answered(id, {t})]

Receive(r, id, t) == /\ state[r] = Answered(id, {t})
                     /\ state' = [state EXCEPT ![r] = Received(id, {t})]

Next == \E r \in Registrations, id \in Ids :
          Register(r, id) \/ \E t \in Triggers : Trigger(r, id, t) \/ Receive(r, id, t)

Spec == Init /\ [][Next]_state
=============================================================================
