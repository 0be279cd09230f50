-------------------------------- MODULE Wait --------------------------------
(***************************************************************************)
(* One-shot answers: a goroutine registers an identifier and receives from *)
(* the channel it got; another one triggers the identifier.  The table is  *)
(* read and written under a lock, one lock for every 64th identifier; the  *)
(* answer is sent and the channel closed outside of it.  A goroutine that  *)
(* registers an identifier twice panics.                                   *)
(***************************************************************************)
EXTENDS Naturals

CONSTANTS Ids, Chans, Registrants, Triggers,
          NoChan   \* the value of an identifier that is not in the table

VARIABLES table,   \* the channel of every identifier, over all locks
          buffer,  \* the contents of every channel, which holds one value
          closed,  \* the channels that are closed
          pc,      \* the goroutines
          sent,    \* history: the triggers that sent to every channel
          owner    \* history: what every channel was registered for

vars == <<table, buffer, closed, pc, sent, owner>>

Idle == [at |-> "idle"]
Empty == {}

Init == /\ table = [id \in Ids |-> NoChan]
        /\ buffer = [c \in Chans |-> Empty]
        /\ closed = {}
        /\ pc = [g \in Registrants \cup Triggers |-> Idle]
        /\ sent = [c \in Chans |-> {}]
        /\ owner = [c \in {} |-> NoChan]

Goto(g, p) == pc' = [pc EXCEPT ![g] = p]

IsRegistered(id) == table[id] # NoChan

-----------------------------------------------------------------------------

\* Variant with a bug: a registration replaces the one before it.
RegisterOver(g, id) ==
  /\ pc[g].at = "idle"
  /\ \E c \in Chans \ DOMAIN owner :
       /\ table' = [table EXCEPT ![id] = c]
       /\ owner' = [d \in DOMAIN owner \cup {c} |-> IF d = c THEN id ELSE owner[d]]
       /\ Goto(g, [at |-> "receive", id |-> id, chan |-> c])
  /\ UNCHANGED <<buffer, closed, sent>>

\* Register makes a channel and enters it; for a second one under the same
\* identifier it panics, with the lock released and the table as it was.
Register(g, id) ==
  /\ pc[g].at = "idle"
  /\ \/ /\ IsRegistered(id)
        /\ Goto(g, [at |-> "panicked"])
        /\ UNCHANGED <<table, owner>>
     \/ /\ ~IsRegistered(id)
        /\ \E c \in Chans \ DOMAIN owner :
             /\ table' = [table EXCEPT ![id] = c]
             /\ owner' = [d \in DOMAIN owner \cup {c} |-> IF d = c THEN id ELSE owner[d]]
             /\ Goto(g, [at |-> "receive", id |-> id, chan |-> c])
  /\ UNCHANGED <<buffer, closed, sent>>

\* The client of the package receives the answer.
Receive(g) ==
  /\ pc[g].at = "receive"
  /\ buffer[pc[g].chan] # Empty
  /\ buffer' = [buffer EXCEPT ![pc[g].chan] = Empty]
  /\ Goto(g, Idle)
  /\ UNCHANGED <<table, closed, sent, owner>>

\* A panic is recovered by the server around the goroutine; another request begins.
Again(g) ==
  /\ pc[g].at = "panicked"
  /\ Goto(g, Idle)
  /\ UNCHANGED <<table, buffer, closed, sent, owner>>

-----------------------------------------------------------------------------

\* Variant with a bug: the entry stays in the table.
TakeKept(t, id) ==
  /\ pc[t].at = "idle"
  /\ Goto(t, IF IsRegistered(id) THEN [at |-> "send", id |-> id, chan |-> table[id]] ELSE Idle)
  /\ UNCHANGED <<table, buffer, closed, sent, owner>>

\* Trigger: the channel is taken out of the table under the lock ...
Take(t, id) ==
  /\ pc[t].at = "idle"
  /\ table' = [table EXCEPT ![id] = NoChan]
  /\ Goto(t, IF IsRegistered(id) THEN [at |-> "send", id |-> id, chan |-> table[id]] ELSE Idle)
  /\ UNCHANGED <<buffer, closed, sent, owner>>

\* ... and the answer sent, which a full channel would block and a closed one turn
\* into a panic.
Send(t) ==
  LET c == pc[t].chan
  IN  /\ pc[t].at = "send"
      /\ c \notin closed /\ buffer[c] = Empty
      /\ buffer' = [buffer EXCEPT ![c] = {t}]
      /\ sent' = [sent EXCEPT ![c] = @ \cup {t}]
      /\ Goto(t, [pc[t] EXCEPT !.at = "close"])
      /\ UNCHANGED <<table, closed, owner>>

Close(t) ==
  /\ pc[t].at = "close"
  /\ closed' = closed \cup {pc[t].chan}
  /\ Goto(t, Idle)
  /\ UNCHANGED <<table, buffer, sent, owner>>

Next == \/ \E g \in Registrants : Receive(g) \/ Again(g) \/ (\E id \in Ids : Register(g, id))
        \/ \E t \in Triggers : Send(t) \/ Close(t) \/ (\E id \in Ids : Take(t, id))

Spec == Init /\ [][Next]_vars

-----------------------------------------------------------------------------
(* Properties. *)

TypeOK ==
  /\ table \in [Ids -> Chans \cup {NoChan}]
  /\ buffer \in [Chans -> {Empty} \cup {{t} : t \in Triggers}]
  /\ closed \in SUBSET Chans
  /\ \A g \in Registrants : pc[g].at \in {"idle", "receive", "panicked"}
  /\ \A t \in Triggers : pc[t].at \in {"idle", "send", "close"}
  /\ sent \in [Chans -> SUBSET Triggers]
  /\ DOMAIN owner \subseteq Chans /\ \A c \in DOMAIN owner : owner[c] \in Ids

\* A goroutine that waits can still be answered: its channel is in the table under
\* its identifier, or a trigger has it and has not sent, or the answer is in it.
CanBeAnswered(g) ==
  LET c == pc[g].chan
  IN  \/ table[pc[g].id] = c
      \/ \E t \in Triggers : pc[t].at = "send" /\ pc[t].chan = c
      \/ buffer[c] # Empty

\* However registrations and triggers of an identifier overlap: whoever waits can be
\* answered, no trigger finds its channel full or closed when it sends, and a channel
\* is answered once at most, by a trigger of the identifier it was registered for.
AnsweredOnce ==
  /\ \A g \in Registrants : pc[g].at = "receive" => CanBeAnswered(g)
  /\ \A t \in Triggers :
       pc[t].at = "send" => /\ pc[t].chan \notin closed /\ buffer[pc[t].chan] = Empty
                            /\ owner[pc[t].chan] = pc[t].id
  /\ \A c \in Chans : \A t \in sent[c] : sent[c] = {t} /\ c \in DOMAIN owner

\* The registration that a channel stands for: open while the channel is in the table
\* and no trigger has it; answered by the triggers that took it or have sent, until
\* what they sent is received.
AnsweredBy(c) == sent[c] \cup {t \in Triggers : pc[t].at = "send" /\ pc[t].chan = c}
Registration(c) ==
  IF c \notin DOMAIN owner THEN [at |-> "new"]
  ELSE IF AnsweredBy(c) = {} /\ table[owner[c]] = c THEN [at |-> "open", id |-> owner[c]]
  ELSE [at |-> IF sent[c] = {} \/ buffer[c] # Empty THEN "answered" ELSE "received",
        id |-> owner[c], by |-> AnsweredBy(c)]

Answers == INSTANCE OneShot WITH Registrations <- Chans, state <- [c \in Chans |-> Registration(c)]
=============================================================================
