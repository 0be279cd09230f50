---------------------------- MODULE PackagesProofs ----------------------------
(***************************************************************************)
(* The safety of the packages that share nothing, each for any goroutines, *)
(* identifiers, channels, requests, contexts and tokens; the identifiers   *)
(* at the widths of the source.                                            *)
(***************************************************************************)
EXTENDS Packages, SequenceTheorems, WellFoundedInduction, TLAPS

\* Parts are told apart by their names.
LEMMA OtherParts ==
  /\ "wait" # "decimal" /\ "wait" # "uuid" /\ "wait" # "http" /\ "http" # "decimal"
  /\ "http" # "uuid" /\ "uuid" # "decimal"
OBVIOUS

-----------------------------------------------------------------------------
(* Wait. *)

Panicked == [at |-> "panicked"]
Receiving == [at : {"receive"}, id : Ids, chan : Chans]
Answering == [at : {"send", "close"}, id : Ids, chan : Chans]

WaiterTypes ==
  /\ waiter \in [Registrants \cup Triggers -> {Waits!Idle, Panicked} \cup Receiving \cup Answering]
  /\ \A g \in Registrants : waiter[g] \in {Waits!Idle, Panicked} \cup Receiving
  /\ \A t \in Triggers : waiter[t] \in {Waits!Idle} \cup Answering
WaitTypes ==
  /\ table \in [Ids -> Chans \cup {NoChan}]
  /\ buffer \in [Chans -> SUBSET Triggers]
  /\ closed \in SUBSET Chans
  /\ WaiterTypes
  /\ sent \in [Chans -> SUBSET Triggers]
  /\ DOMAIN owner \in SUBSET Chans /\ \A c \in DOMAIN owner : owner[c] \in Ids

\* A channel was made for this identifier and nothing was sent to it.
Open(c, id) == c \in DOMAIN owner /\ owner[c] = id /\ sent[c] = {}

\* Entries of the table are open, and so is the channel a trigger will send to, which
\* left the table and no other trigger has.  A trigger that has sent is the only one.
Entered == \A id \in Ids : table[id] # NoChan => Open(table[id], id)
Taken ==
  /\ \A t \in Triggers : waiter[t].at = "send" => /\ Open(waiter[t].chan, waiter[t].id)
                                                  /\ table[waiter[t].id] # waiter[t].chan
  /\ \A t \in Triggers : waiter[t].at = "close" => t \in sent[waiter[t].chan]
  /\ \A t, u \in Triggers : waiter[t].at = "send" /\ waiter[u].at = "send" /\ waiter[t].chan = waiter[u].chan
                              => t = u

\* Whoever receives has a channel of its own, where an answer can still arrive.
Waiting ==
  /\ \A g \in Registrants : waiter[g].at = "receive" =>
       /\ waiter[g].chan \in DOMAIN owner /\ owner[waiter[g].chan] = waiter[g].id
       /\ Waits!CanBeAnswered(g)
  /\ \A g, h \in Registrants : waiter[g].at = "receive" /\ waiter[h].at = "receive" /\ waiter[g].chan = waiter[h].chan
                              => g = h

\* What a channel holds was sent to it, once, and it is closed after that.
Channels ==
  \A c \in Chans : /\ c \notin DOMAIN owner => sent[c] = {}
                   /\ \A t \in sent[c] : sent[c] = {t}
                   /\ buffer[c] \subseteq sent[c]
                   /\ c \in closed => sent[c] # {}

WaitInv == Entered /\ Taken /\ Waiting /\ Channels

\* Where a goroutine is tells which fields it has.
LEMMA WaiterFacts ==
  ASSUME WaitTypes
  PROVE  /\ \A g \in Registrants :
              /\ waiter[g].at \in {"idle", "receive", "panicked"}
              /\ waiter[g].at = "receive" => waiter[g].id \in Ids /\ waiter[g].chan \in Chans
         /\ \A t \in Triggers :
              /\ waiter[t].at \in {"idle", "send", "close"}
              /\ waiter[t].at # "idle" => waiter[t] \in Answering /\ waiter[t].id \in Ids
                                            /\ waiter[t].chan \in Chans
BY DEF WaitTypes, WaiterTypes, Waits!Idle, Panicked, Receiving, Answering

\* The type invariant of the goroutines, when one of them moves.
LEMMA WaiterMoves ==
  ASSUME WaitParameters, WaitTypes, NEW g \in Registrants \cup Triggers, NEW s,
         s \in {Waits!Idle, Panicked} \cup Receiving \/ g \in Triggers,
         s \in {Waits!Idle} \cup Answering \/ g \in Registrants,
         waiter' = [waiter EXCEPT ![g] = s]
  PROVE  WaiterTypes'
BY DEF WaitParameters, WaitTypes, WaiterTypes

\* Every step of Wait keeps the types.
LEMMA WaitTypesStep == WaitParameters /\ WaitTypes /\ [Waits!Next]_(Waits!vars) => WaitTypes'
<1> SUFFICES ASSUME WaitParameters, WaitTypes, [Waits!Next]_(Waits!vars) PROVE WaitTypes'
  OBVIOUS
<1>1. ASSUME NEW g \in Registrants, NEW id \in Ids, Waits!Register(g, id) PROVE WaitTypes'
  <2>1. CASE waiter' = [waiter EXCEPT ![g] = Panicked] /\ UNCHANGED <<table, owner>>
    <3>1. WaiterTypes'
      BY <2>1, WaiterMoves
    <3> QED BY <1>1, <2>1, <3>1 DEF Waits!Register, WaitTypes
  <2>2. ASSUME NEW c \in Chans,
               table' = [table EXCEPT ![id] = c],
               owner' = [d \in DOMAIN owner \cup {c} |-> IF d = c THEN id ELSE owner[d]],
               waiter' = [waiter EXCEPT ![g] = [at |-> "receive", id |-> id, chan |-> c]]
        PROVE  WaitTypes'
    <3>1. [at |-> "receive", id |-> id, chan |-> c] \in Receiving
      BY DEF Receiving
    <3>2. WaiterTypes'
      BY <2>2, <3>1, WaiterMoves
    <3>3. table' \in [Ids -> Chans \cup {NoChan}]
      BY <2>2 DEF WaitTypes
    <3>4. DOMAIN owner' \in SUBSET Chans /\ \A d \in DOMAIN owner' : owner'[d] \in Ids
      BY <2>2 DEF WaitTypes
    <3> QED BY <1>1, <3>2, <3>3, <3>4 DEF Waits!Register, WaitTypes
  <2> QED BY <1>1, <2>1, <2>2 DEF Waits!Register, Waits!Goto, Panicked
<1>2. ASSUME NEW g \in Registrants, Waits!Receive(g) \/ Waits!Again(g) PROVE WaitTypes'
  <2>1. waiter' = [waiter EXCEPT ![g] = Waits!Idle]
    BY <1>2 DEF Waits!Receive, Waits!Again, Waits!Goto
  <2>2. buffer' \in [Chans -> SUBSET Triggers]
    BY <1>2, WaiterFacts DEF Waits!Receive, Waits!Again, Waits!Empty, WaitTypes
  <2> QED BY <1>2, <2>1, <2>2, WaiterMoves DEF Waits!Receive, Waits!Again, WaitTypes
<1>3. ASSUME NEW t \in Triggers, NEW id \in Ids, Waits!Take(t, id) PROVE WaitTypes'
  <2>1. PICK s \in {Waits!Idle} \cup Answering : waiter' = [waiter EXCEPT ![t] = s]
    <3>1. CASE table[id] = NoChan
      BY <1>3, <3>1 DEF Waits!Take, Waits!Goto, Waits!IsRegistered
    <3>2. CASE table[id] # NoChan
      <4>1. [at |-> "send", id |-> id, chan |-> table[id]] \in Answering
        BY <3>2 DEF Answering, WaitTypes
      <4> QED BY <1>3, <3>2, <4>1 DEF Waits!Take, Waits!Goto, Waits!IsRegistered
    <3> QED BY <3>1, <3>2
  <2> QED BY <1>3, <2>1, WaiterMoves DEF Waits!Take, WaitTypes
<1>4. ASSUME NEW t \in Triggers, Waits!Send(t) PROVE WaitTypes'
  <2>1. PICK s \in Answering : s = [waiter[t] EXCEPT !.at = "close"]
    BY <1>4, WaiterFacts DEF Waits!Send, Answering
  <2> QED BY <1>4, <2>1, WaiterFacts, WaiterMoves DEF Waits!Send, Waits!Goto, WaitTypes
<1>5. ASSUME NEW t \in Triggers, Waits!Close(t) PROVE WaitTypes'
  BY <1>5, WaiterFacts, WaiterMoves DEF Waits!Close, Waits!Goto, WaitTypes
<1>6. CASE UNCHANGED Waits!vars
  BY <1>6 DEF Waits!vars, WaitTypes, WaiterTypes
<1> QED BY <1>1, <1>2, <1>3, <1>4, <1>5, <1>6 DEF Waits!Next
\* Register: a channel that was never made before is in no other place.
LEMMA RegisterKeeps ==
  ASSUME WaitParameters, WaitTypes, WaitInv, NEW g \in Registrants, NEW id \in Ids,
         Waits!Register(g, id)
  PROVE  WaitInv'
<1>0. /\ buffer' = buffer /\ closed' = closed /\ sent' = sent
      /\ \A t \in Triggers : waiter'[t] = waiter[t] /\ t # g
  BY DEF Waits!Register, Waits!Goto, WaitParameters, WaitTypes, WaiterTypes
<1>1. CASE waiter' = [waiter EXCEPT ![g] = Panicked] /\ UNCHANGED <<table, owner>>
  <2>1. waiter'[g].at = "panicked" /\ \A h \in Registrants \ {g} : waiter'[h] = waiter[h]
    BY <1>1 DEF Panicked, WaitTypes, WaiterTypes
  <2>2. Entered' /\ Taken' /\ Channels'
    BY <1>0, <1>1 DEF WaitInv, Entered, Taken, Channels, Open
  <2>3. ASSUME NEW h \in Registrants, waiter'[h].at = "receive"
        PROVE  /\ waiter[h].at = "receive" /\ waiter'[h] = waiter[h]
               /\ waiter'[h].chan \in DOMAIN owner' /\ owner'[waiter'[h].chan] = waiter'[h].id
               /\ Waits!CanBeAnswered(h)'
    <3>1. h # g /\ waiter'[h] = waiter[h]
      BY <2>1, <2>3
    <3> QED BY <1>0, <1>1, <2>3, <3>1 DEF WaitInv, Waiting, Waits!CanBeAnswered
  <2>4. Waiting'
    BY <2>3 DEF WaitInv, Waiting
  <2> QED BY <2>2, <2>4 DEF WaitInv
<1>2. ASSUME NEW c \in Chans \ DOMAIN owner, table[id] = NoChan,
             table' = [table EXCEPT ![id] = c],
             owner' = [d \in DOMAIN owner \cup {c} |-> IF d = c THEN id ELSE owner[d]],
             waiter' = [waiter EXCEPT ![g] = [at |-> "receive", id |-> id, chan |-> c]]
      PROVE  WaitInv'
  <2>1. /\ table'[id] = c /\ \A i \in Ids \ {id} : table'[i] = table[i]
        /\ c \in DOMAIN owner' /\ owner'[c] = id
        /\ \A d \in DOMAIN owner : d \in DOMAIN owner' /\ owner'[d] = owner[d] /\ d # c
        /\ \A d : d \notin DOMAIN owner' => d \notin DOMAIN owner
        /\ waiter'[g] = [at |-> "receive", id |-> id, chan |-> c]
        /\ \A h \in Registrants \ {g} : waiter'[h] = waiter[h]
    BY <1>2 DEF WaitTypes, WaiterTypes
  <2>2. sent[c] = {}
    BY <1>2 DEF WaitInv, Channels
  <2>3. Entered'
    <3> SUFFICES ASSUME NEW i \in Ids, table'[i] # NoChan PROVE Open(table[i], i)'
      BY DEF Entered
    <3>1. CASE i = id
      BY <1>0, <2>1, <2>2, <3>1 DEF Open
    <3>2. CASE i # id
      BY <1>0, <2>1, <3>2 DEF WaitInv, Entered, Open
    <3> QED BY <3>1, <3>2
  <2>4. Taken'
    <3>1. ASSUME NEW t \in Triggers, waiter'[t].at = "send"
          PROVE  Open(waiter[t].chan, waiter[t].id)' /\ table'[waiter'[t].id] # waiter'[t].chan
      <4>1. /\ Open(waiter[t].chan, waiter[t].id) /\ table[waiter[t].id] # waiter[t].chan
            /\ waiter[t].id \in Ids
        BY <1>0, <3>1, WaiterFacts DEF WaitInv, Taken
      <4>2. waiter[t].chan # c
        BY <1>2, <4>1 DEF Open
      <4> QED BY <1>0, <2>1, <4>1, <4>2 DEF Open
    <3> QED BY <1>0, <3>1 DEF WaitInv, Taken
  <2>5. ASSUME NEW h \in Registrants \ {g}, waiter'[h].at = "receive"
        PROVE  /\ waiter'[h].chan # c
               /\ waiter'[h].chan \in DOMAIN owner' /\ owner'[waiter'[h].chan] = waiter'[h].id
               /\ Waits!CanBeAnswered(h)'
    <3>1. /\ waiter'[h] = waiter[h] /\ waiter[h].chan \in DOMAIN owner
          /\ owner[waiter[h].chan] = waiter[h].id /\ Waits!CanBeAnswered(h)
          /\ waiter[h].id \in Ids /\ waiter[h].chan \in Chans
      BY <2>1, <2>5, WaiterFacts DEF WaitInv, Waiting
    <3>2. Waits!CanBeAnswered(h)'
      <4>1. CASE table[waiter[h].id] = waiter[h].chan
        <5>1. waiter[h].id # id
          BY <1>2, <3>1, <4>1 DEF WaitParameters
        <5> QED BY <2>1, <3>1, <4>1, <5>1 DEF Waits!CanBeAnswered
      <4>2. CASE buffer[waiter[h].chan] # Waits!Empty
        BY <1>0, <3>1, <4>2 DEF Waits!CanBeAnswered, Waits!Empty
      <4>3. CASE \E t \in Triggers : waiter[t].at = "send" /\ waiter[t].chan = waiter[h].chan
        BY <1>0, <3>1, <4>3 DEF Waits!CanBeAnswered
      <4> QED BY <3>1, <4>1, <4>2, <4>3 DEF Waits!CanBeAnswered
    <3> QED BY <2>1, <3>1, <3>2
  <2>6. /\ waiter'[g].chan = c /\ owner'[waiter'[g].chan] = waiter'[g].id
        /\ Waits!CanBeAnswered(g)'
    BY <2>1 DEF Waits!CanBeAnswered
  <2>7. Waiting'
    <3>1. \A h \in Registrants : waiter'[h].at = "receive" =>
            /\ waiter'[h].chan \in DOMAIN owner' /\ owner'[waiter'[h].chan] = waiter'[h].id
            /\ Waits!CanBeAnswered(h)'
      BY <2>1, <2>5, <2>6
    <3>2. ASSUME NEW h \in Registrants, NEW k \in Registrants, waiter'[h].at = "receive",
                 waiter'[k].at = "receive", waiter'[h].chan = waiter'[k].chan
          PROVE  h = k
      <4>1. CASE h = g \/ k = g
        BY <2>5, <2>6, <3>2, <4>1
      <4>2. CASE h # g /\ k # g
        BY <2>1, <3>2, <4>2 DEF WaitInv, Waiting
      <4> QED BY <4>1, <4>2
    <3> QED BY <3>1, <3>2 DEF Waiting
  <2>8. Channels'
    BY <1>0, <2>1 DEF WaitInv, Channels
  <2> QED BY <2>3, <2>4, <2>7, <2>8 DEF WaitInv
<1> QED BY <1>1, <1>2 DEF Waits!Register, Waits!Goto, Waits!IsRegistered, Panicked

\* Receive empties a channel that nobody else receives from.
LEMMA ReceiveKeeps ==
  ASSUME WaitParameters, WaitTypes, WaitInv, NEW g \in Registrants,
         Waits!Receive(g) \/ Waits!Again(g)
  PROVE  WaitInv'
<1>1. /\ table' = table /\ closed' = closed /\ sent' = sent /\ owner' = owner
      /\ waiter'[g].at = "idle" /\ \A h \in Registrants \ {g} : waiter'[h] = waiter[h]
      /\ \A t \in Triggers : waiter'[t] = waiter[t]
  BY DEF Waits!Receive, Waits!Again, Waits!Goto, Waits!Idle, WaitParameters, WaitTypes, WaiterTypes
<1>2. /\ \A c \in Chans : buffer'[c] = buffer[c] \/ buffer'[c] = {}
      /\ \A c \in Chans : (waiter[g].at = "receive" /\ waiter[g].chan = c) \/ buffer'[c] = buffer[c]
  BY WaiterFacts DEF Waits!Receive, Waits!Again, Waits!Empty, WaitTypes
<1>3. Entered' /\ Taken'
  BY <1>1 DEF WaitInv, Entered, Taken, Open
<1>4. Channels'
  BY <1>1, <1>2 DEF WaitInv, Channels
<1>5. ASSUME NEW h \in Registrants, waiter'[h].at = "receive"
      PROVE  /\ waiter'[h].chan \in DOMAIN owner' /\ owner'[waiter'[h].chan] = waiter'[h].id
             /\ Waits!CanBeAnswered(h)' /\ waiter'[h] = waiter[h]
  <2>1. /\ h # g /\ waiter'[h] = waiter[h] /\ waiter[h].chan \in Chans /\ Waits!CanBeAnswered(h)
        /\ waiter[h].chan \in DOMAIN owner /\ owner[waiter[h].chan] = waiter[h].id
    BY <1>1, <1>5, WaiterFacts DEF WaitInv, Waiting
  <2>2. ~(waiter[g].at = "receive" /\ waiter[g].chan = waiter[h].chan)
    BY <1>5, <2>1 DEF WaitInv, Waiting
  <2>3. buffer'[waiter[h].chan] = buffer[waiter[h].chan]
    BY <1>2, <2>1, <2>2
  <2>4. Waits!CanBeAnswered(h)'
    BY <1>1, <2>1, <2>3 DEF Waits!CanBeAnswered, Waits!Empty
  <2> QED BY <1>1, <2>1, <2>4
<1>6. Waiting'
  BY <1>5 DEF WaitInv, Waiting
<1> QED BY <1>3, <1>4, <1>6 DEF WaitInv

\* Take moves a channel from the table to the trigger.
LEMMA TakeKeeps ==
  ASSUME WaitParameters, WaitTypes, WaitInv, NEW t \in Triggers, NEW id \in Ids,
         Waits!Take(t, id)
  PROVE  WaitInv'
<1>0. /\ buffer' = buffer /\ closed' = closed /\ sent' = sent /\ owner' = owner
      /\ waiter[t].at = "idle"
      /\ \A h \in Registrants : waiter'[h] = waiter[h]
      /\ \A u \in Triggers \ {t} : waiter'[u] = waiter[u]
      /\ table'[id] = NoChan /\ \A i \in Ids \ {id} : table'[i] = table[i]
  BY DEF Waits!Take, Waits!Goto, WaitParameters, WaitTypes, WaiterTypes
<1>1. \/ table[id] = NoChan /\ waiter'[t].at = "idle"
      \/ table[id] # NoChan /\ waiter'[t] = [at |-> "send", id |-> id, chan |-> table[id]]
  BY DEF Waits!Take, Waits!Goto, Waits!IsRegistered, Waits!Idle, WaitTypes, WaiterTypes
<1>2. Entered'
  BY <1>0 DEF WaitInv, Entered, Open
<1>3. Taken'
  <2>1. ASSUME NEW u \in Triggers, waiter'[u].at = "send"
        PROVE  Open(waiter[u].chan, waiter[u].id)' /\ table'[waiter'[u].id] # waiter'[u].chan
    <3>1. CASE u = t
      <4>1. waiter'[u] = [at |-> "send", id |-> id, chan |-> table[id]] /\ table[id] # NoChan
        BY <1>1, <2>1, <3>1
      <4> QED BY <1>0, <4>1 DEF WaitInv, Entered, Open
    <3>2. CASE u # t
      <4>1. /\ waiter'[u] = waiter[u] /\ waiter[u].id \in Ids /\ waiter[u].chan \in Chans
            /\ Open(waiter[u].chan, waiter[u].id) /\ table[waiter[u].id] # waiter[u].chan
        BY <1>0, <2>1, <3>2, WaiterFacts DEF WaitInv, Taken
      <4>2. table'[waiter[u].id] # waiter[u].chan
        BY <1>0, <4>1 DEF WaitParameters
      <4> QED BY <1>0, <4>1, <4>2 DEF Open
    <3> QED BY <3>1, <3>2
  <2>2. \A u \in Triggers : waiter'[u].at = "close" => u \in sent'[waiter'[u].chan]
    BY <1>0, <1>1 DEF WaitInv, Taken
  <2>3. ASSUME NEW u \in Triggers \ {t}, waiter'[u].at = "send", waiter'[t].at = "send"
        PROVE  waiter'[u].chan # waiter'[t].chan
    <3>1. waiter'[t] = [at |-> "send", id |-> id, chan |-> table[id]] /\ table[id] # NoChan
      BY <1>1, <2>3
    <3>2. owner[table[id]] = id
      BY <3>1 DEF WaitInv, Entered, Open
    <3>3. /\ waiter'[u] = waiter[u] /\ owner[waiter[u].chan] = waiter[u].id
          /\ table[waiter[u].id] # waiter[u].chan
      BY <1>0, <2>3 DEF WaitInv, Taken, Open
    <3> QED BY <3>1, <3>2, <3>3
  <2>4. ASSUME NEW u \in Triggers, NEW v \in Triggers, waiter'[u].at = "send",
               waiter'[v].at = "send", waiter'[u].chan = waiter'[v].chan
        PROVE  u = v
    <3>1. CASE u = t \/ v = t
      BY <2>3, <2>4, <3>1
    <3>2. CASE u # t /\ v # t
      BY <1>0, <2>4, <3>2 DEF WaitInv, Taken
    <3> QED BY <3>1, <3>2
  <2> QED BY <2>1, <2>2, <2>4 DEF Taken
<1>4. ASSUME NEW h \in Registrants, waiter'[h].at = "receive"
      PROVE  /\ waiter'[h].chan \in DOMAIN owner' /\ owner'[waiter'[h].chan] = waiter'[h].id
             /\ Waits!CanBeAnswered(h)'
  <2>1. /\ waiter'[h] = waiter[h] /\ waiter[h].chan \in Chans /\ waiter[h].id \in Ids
        /\ waiter[h].chan \in DOMAIN owner /\ owner[waiter[h].chan] = waiter[h].id
        /\ Waits!CanBeAnswered(h)
    BY <1>0, <1>4, WaiterFacts DEF WaitInv, Waiting
  <2>2. CASE table[waiter[h].id] = waiter[h].chan
    <3>1. CASE waiter[h].id = id
      <4>1. waiter'[t] = [at |-> "send", id |-> id, chan |-> table[id]]
        BY <1>1, <2>1, <2>2, <3>1 DEF WaitParameters
      <4>2. waiter'[t].at = "send" /\ waiter'[t].chan = waiter'[h].chan
        BY <2>1, <2>2, <3>1, <4>1
      <4>3. Waits!CanBeAnswered(h)'
        BY <4>2 DEF Waits!CanBeAnswered
      <4> QED BY <1>0, <2>1, <4>3
    <3>2. CASE waiter[h].id # id
      BY <1>0, <2>1, <2>2, <3>2 DEF Waits!CanBeAnswered
    <3> QED BY <3>1, <3>2
  <2>3. CASE \E u \in Triggers : waiter[u].at = "send" /\ waiter[u].chan = waiter[h].chan
    <3>1. PICK u \in Triggers : waiter[u].at = "send" /\ waiter[u].chan = waiter[h].chan
      BY <2>3
    <3>2. waiter'[u] = waiter[u]
      BY <1>0, <3>1
    <3>3. Waits!CanBeAnswered(h)'
      BY <2>1, <3>1, <3>2 DEF Waits!CanBeAnswered
    <3> QED BY <1>0, <2>1, <3>3
  <2>4. CASE buffer[waiter[h].chan] # Waits!Empty
    BY <1>0, <2>1, <2>4 DEF Waits!CanBeAnswered, Waits!Empty
  <2> QED BY <2>1, <2>2, <2>3, <2>4 DEF Waits!CanBeAnswered
<1>5. Waiting'
  BY <1>0, <1>4 DEF WaitInv, Waiting
<1>6. Channels'
  BY <1>0 DEF WaitInv, Channels
<1> QED BY <1>2, <1>3, <1>5, <1>6 DEF WaitInv

\* Send: the channel is the trigger's own and was not sent to before.
LEMMA SendKeeps ==
  ASSUME WaitParameters, WaitTypes, WaitInv, NEW t \in Triggers, Waits!Send(t)
  PROVE  WaitInv'
<1>0. PICK c \in Chans : c = waiter[t].chan
  BY WaiterFacts DEF Waits!Send
<1>1. /\ table' = table /\ closed' = closed /\ owner' = owner /\ waiter[t].at = "send"
      /\ sent[c] = {} /\ sent'[c] = {t} /\ buffer'[c] = {t} /\ c \in DOMAIN owner
      /\ \A d \in Chans \ {c} : sent'[d] = sent[d] /\ buffer'[d] = buffer[d]
  BY <1>0 DEF Waits!Send, WaitTypes, WaitInv, Taken, Open
<1>2. /\ \A h \in Registrants : waiter'[h] = waiter[h]
      /\ \A u \in Triggers \ {t} : waiter'[u] = waiter[u]
  BY DEF Waits!Send, Waits!Goto, WaitParameters, WaitTypes, WaiterTypes
<1>3. waiter'[t].at = "close" /\ waiter'[t].chan = c
  <2>1. waiter[t] \in Answering
    BY <1>1, WaiterFacts
  <2>2. waiter'[t] = [waiter[t] EXCEPT !.at = "close"]
    BY DEF Waits!Send, Waits!Goto, WaitTypes, WaiterTypes
  <2> QED BY <1>0, <2>1, <2>2 DEF Answering
<1>4. Entered'
  <2> SUFFICES ASSUME NEW i \in Ids, table[i] # NoChan PROVE Open(table[i], i)'
    BY <1>1 DEF Entered
  <2>1. Open(table[i], i) /\ table[i] \in Chans
    BY DEF WaitInv, Entered, WaitTypes
  <2>2. table[i] # c
    BY <1>0, <1>1, <2>1 DEF WaitInv, Taken, Open
  <2> QED BY <1>1, <2>1, <2>2 DEF Open
<1>5. Taken'
  <2>1. ASSUME NEW u \in Triggers, waiter'[u].at = "send"
        PROVE  u # t /\ Open(waiter[u].chan, waiter[u].id)'
                 /\ table'[waiter'[u].id] # waiter'[u].chan
    <3>1. /\ u # t /\ waiter'[u] = waiter[u] /\ waiter[u].chan \in Chans
          /\ Open(waiter[u].chan, waiter[u].id) /\ table[waiter[u].id] # waiter[u].chan
      BY <1>2, <1>3, <2>1, WaiterFacts DEF WaitInv, Taken
    <3>2. waiter[u].chan # c
      BY <1>0, <1>1, <2>1, <3>1 DEF WaitInv, Taken
    <3> QED BY <1>1, <3>1, <3>2 DEF Open
  <2>2. ASSUME NEW u \in Triggers, waiter'[u].at = "close" PROVE u \in sent'[waiter'[u].chan]
    <3>1. CASE u = t
      BY <1>1, <1>3, <3>1
    <3>2. CASE u # t
      <4>1. waiter'[u] = waiter[u] /\ waiter[u].chan \in Chans /\ u \in sent[waiter[u].chan]
        BY <1>2, <2>2, <3>2, WaiterFacts DEF WaitInv, Taken
      <4> QED BY <1>1, <4>1
    <3> QED BY <3>1, <3>2
  <2> QED BY <1>2, <2>1, <2>2 DEF WaitInv, Taken
<1>6. ASSUME NEW h \in Registrants, waiter'[h].at = "receive"
      PROVE  /\ waiter'[h].chan \in DOMAIN owner' /\ owner'[waiter'[h].chan] = waiter'[h].id
             /\ Waits!CanBeAnswered(h)'
  <2>1. /\ waiter'[h] = waiter[h] /\ waiter[h].chan \in Chans
        /\ waiter[h].chan \in DOMAIN owner /\ owner[waiter[h].chan] = waiter[h].id
        /\ Waits!CanBeAnswered(h)
    BY <1>2, <1>6, WaiterFacts DEF WaitInv, Waiting
  <2>2. CASE waiter[h].chan = c
    <3>1. buffer'[waiter'[h].chan] # {}
      BY <1>1, <2>1, <2>2
    <3> QED BY <1>1, <2>1, <3>1 DEF Waits!CanBeAnswered, Waits!Empty
  <2>3. CASE waiter[h].chan # c
    <3>1. CASE \E u \in Triggers : waiter[u].at = "send" /\ waiter[u].chan = waiter[h].chan
      <4>1. PICK u \in Triggers : waiter[u].at = "send" /\ waiter[u].chan = waiter[h].chan
        BY <3>1
      <4>2. waiter'[u] = waiter[u]
        BY <1>0, <1>2, <2>3, <4>1
      <4>3. Waits!CanBeAnswered(h)'
        BY <2>1, <4>1, <4>2 DEF Waits!CanBeAnswered
      <4> QED BY <1>1, <2>1, <4>3
    <3>2. CASE table[waiter[h].id] = waiter[h].chan \/ buffer[waiter[h].chan] # Waits!Empty
      BY <1>1, <2>1, <2>3, <3>2 DEF Waits!CanBeAnswered, Waits!Empty
    <3> QED BY <2>1, <3>1, <3>2 DEF Waits!CanBeAnswered
  <2> QED BY <2>2, <2>3
<1>7. Waiting'
  BY <1>2, <1>6 DEF WaitInv, Waiting
<1>8. Channels'
  BY <1>1 DEF WaitInv, Channels
<1> QED BY <1>4, <1>5, <1>7, <1>8 DEF WaitInv

\* Close comes after the answer.
LEMMA CloseKeeps ==
  ASSUME WaitParameters, WaitTypes, WaitInv, NEW t \in Triggers, Waits!Close(t)
  PROVE  WaitInv'
<1>1. /\ table' = table /\ buffer' = buffer /\ owner' = owner /\ sent' = sent
      /\ waiter[t].at = "close" /\ closed' = closed \cup {waiter[t].chan}
      /\ waiter'[t].at = "idle"
      /\ \A h \in Registrants : waiter'[h] = waiter[h]
      /\ \A u \in Triggers \ {t} : waiter'[u] = waiter[u]
  BY DEF Waits!Close, Waits!Goto, Waits!Idle, WaitParameters, WaitTypes, WaiterTypes
<1>2. Entered'
  BY <1>1 DEF WaitInv, Entered, Open
<1>3. \A u \in Triggers : waiter'[u].at # "idle" => waiter'[u] = waiter[u]
  BY <1>1
<1>4. Taken'
  BY <1>1, <1>3 DEF WaitInv, Taken, Open
<1>5. ASSUME NEW h \in Registrants, waiter'[h].at = "receive"
      PROVE  /\ waiter'[h].chan \in DOMAIN owner' /\ owner'[waiter'[h].chan] = waiter'[h].id
             /\ Waits!CanBeAnswered(h)'
  <2>1. /\ waiter'[h] = waiter[h]
        /\ waiter[h].chan \in DOMAIN owner /\ owner[waiter[h].chan] = waiter[h].id
        /\ Waits!CanBeAnswered(h)
    BY <1>1, <1>5 DEF WaitInv, Waiting
  <2>2. \A u \in Triggers : waiter[u].at = "send" => waiter'[u] = waiter[u]
    BY <1>1
  <2>3. Waits!CanBeAnswered(h)'
    BY <1>1, <2>1, <2>2 DEF Waits!CanBeAnswered, Waits!Empty
  <2> QED BY <1>1, <2>1, <2>3
<1>6. Waiting'
  BY <1>1, <1>5 DEF WaitInv, Waiting
<1>7. Channels'
  BY <1>1 DEF WaitInv, Taken, Channels
<1> QED BY <1>2, <1>4, <1>6, <1>7 DEF WaitInv

\* Types and invariant together, for as long as Wait runs.
LEMMA WaitKept == Spec => [](part = "wait" => WaitTypes /\ WaitInv)
<1>0. WaitParameters
  BY PackagesAssumption
<1>1. Waits!Init => WaitTypes /\ WaitInv
  <2> SUFFICES ASSUME Waits!Init PROVE WaitTypes /\ WaitInv
    OBVIOUS
  <2>1. /\ \A id \in Ids : table[id] = NoChan
        /\ \A g \in Registrants \cup Triggers : waiter[g] = Waits!Idle /\ waiter[g].at = "idle"
        /\ \A c \in Chans : sent[c] = {} /\ buffer[c] = {} /\ c \notin closed
        /\ DOMAIN owner = {}
    BY DEF Waits!Init, Waits!Idle, Waits!Empty
  <2>2. WaitTypes
    BY <2>1 DEF WaitTypes, WaiterTypes, Waits!Init, Waits!Empty
  <2>3. WaitInv
    BY <2>1 DEF WaitInv, Entered, Taken, Waiting, Channels
  <2> QED BY <2>2, <2>3
<1>2. WaitTypes /\ WaitInv /\ [Waits!Next]_(Waits!vars) => WaitTypes' /\ WaitInv'
  <2>1. ASSUME WaitTypes, WaitInv, UNCHANGED Waits!vars PROVE WaitInv'
    BY <2>1 DEF Waits!vars, WaitInv, Entered, Taken, Waiting, Channels, Open,
                Waits!CanBeAnswered, Waits!Empty
  <2> QED BY <1>0, <2>1, WaitTypesStep, RegisterKeeps, ReceiveKeeps, TakeKeeps, SendKeeps,
             CloseKeeps DEF Waits!Next
<1>3. Init /\ part = "wait" => Waits!Init
  BY OtherParts, Zenon DEF Init
<1>4. [Next]_vars /\ part' = "wait" => part = "wait" /\ [Waits!Next]_(Waits!vars)
  BY OtherParts, Zenon DEF Next, vars, waitVars, Waits!vars
<1>5. (part = "wait" => WaitTypes /\ WaitInv) /\ [Next]_vars => (part = "wait" => WaitTypes /\ WaitInv)'
  BY <1>2, <1>4, Zenon
<1> QED BY <1>1, <1>3, <1>5, PTL DEF Spec

\* The values of every variable of Wait.
THEOREM WaitTypeCorrect == Spec => [](part = "wait" => Waits!TypeOK)
<1>1. WaitTypes /\ WaitInv => Waits!TypeOK
  <2> SUFFICES ASSUME WaitTypes, WaitInv PROVE Waits!TypeOK
    OBVIOUS
  <2>1. ASSUME NEW c \in Chans PROVE buffer[c] \in {{}} \cup {{t} : t \in Triggers}
    BY DEF WaitTypes, WaitInv, Channels
  <2>2. \A t \in Triggers : waiter[t].at \in {"idle", "send", "close"}
    BY WaiterFacts
  <2> QED BY <2>1, <2>2, WaiterFacts DEF WaitTypes, Waits!TypeOK, Waits!Empty
<1> QED BY <1>1, WaitKept, PTL

\* Whoever registered can be answered until it is; a trigger never blocks on a full
\* channel nor panics at a closed one; a channel is answered once, for its own
\* identifier.
THEOREM Answered == Spec => []AnsweredOnce
<1>1. WaitTypes /\ WaitInv => Waits!AnsweredOnce
  <2> SUFFICES ASSUME WaitTypes, WaitInv PROVE Waits!AnsweredOnce
    OBVIOUS
  <2>1. \A g \in Registrants : waiter[g].at = "receive" => Waits!CanBeAnswered(g)
    BY DEF WaitInv, Waiting
  <2>2. ASSUME NEW t \in Triggers, waiter[t].at = "send"
        PROVE  /\ waiter[t].chan \notin closed /\ buffer[waiter[t].chan] = Waits!Empty
               /\ owner[waiter[t].chan] = waiter[t].id
    <3>1. waiter[t].chan \in Chans /\ Open(waiter[t].chan, waiter[t].id)
      BY <2>2, WaiterFacts DEF WaitInv, Taken
    <3> QED BY <3>1 DEF Open, WaitInv, Channels, Waits!Empty
  <2>3. \A c \in Chans : \A t \in sent[c] : sent[c] = {t} /\ c \in DOMAIN owner
    BY DEF WaitInv, Channels
  <2>4. \A c \in Chans : \A t \in sent[c] : t \in Triggers
    BY DEF WaitTypes
  <2> QED BY <2>1, <2>2, <2>3 DEF Waits!AnsweredOnce
<1> QED BY <1>1, WaitKept, PTL DEF AnsweredOnce

\* The registrations that the channels stand for.
Shown == [c \in Chans |-> Waits!Registration(c)]

\* What a registration is depends on this much of the state.
LEMMA SameRegistration ==
  ASSUME NEW c \in Chans, c \in DOMAIN owner <=> c \in DOMAIN owner', owner'[c] = owner[c],
         Waits!AnsweredBy(c)' = Waits!AnsweredBy(c), sent'[c] = sent[c], buffer'[c] = buffer[c],
         c \in DOMAIN owner => (table'[owner[c]] = c <=> table[owner[c]] = c)
  PROVE  Waits!Registration(c)' = Waits!Registration(c)
  BY DEF Waits!Registration

\* Where one registration changes, the others being as they were.
LEMMA OneShown ==
  ASSUME NEW c \in Chans, NEW v, Waits!Registration(c)' = v,
         \A d \in Chans \ {c} : Waits!Registration(d)' = Waits!Registration(d)
  PROVE  Shown' = [Shown EXCEPT ![c] = v]
  BY DEF Shown

\* The channel of a trigger that will send, and that of an entry, was sent to by nobody,
\* and only the one that will send is counted.
LEMMA WhoAnswers ==
  ASSUME WaitTypes, WaitInv
  PROVE  /\ \A t \in Triggers : waiter[t].at = "send" =>
              /\ waiter[t].chan \in Chans /\ waiter[t].chan \in DOMAIN owner
              /\ sent[waiter[t].chan] = {} /\ owner[waiter[t].chan] = waiter[t].id
              /\ Waits!AnsweredBy(waiter[t].chan) = {t}
         /\ \A id \in Ids : table[id] # NoChan =>
              /\ table[id] \in Chans /\ table[id] \in DOMAIN owner
              /\ owner[table[id]] = id /\ Waits!AnsweredBy(table[id]) = {}
         /\ \A c \in Chans : sent[c] # {} => Waits!AnsweredBy(c) = sent[c]
<1>1. ASSUME NEW t \in Triggers, waiter[t].at = "send"
      PROVE  /\ waiter[t].chan \in Chans /\ waiter[t].chan \in DOMAIN owner
             /\ sent[waiter[t].chan] = {} /\ owner[waiter[t].chan] = waiter[t].id
  BY <1>1, WaiterFacts DEF WaitInv, Taken, Open
<1>2. ASSUME NEW t \in Triggers, waiter[t].at = "send"
      PROVE  Waits!AnsweredBy(waiter[t].chan) = {t}
  BY <1>1, <1>2 DEF Waits!AnsweredBy, WaitInv, Taken
<1>3. ASSUME NEW id \in Ids, table[id] # NoChan
      PROVE  /\ table[id] \in Chans /\ table[id] \in DOMAIN owner
             /\ owner[table[id]] = id /\ sent[table[id]] = {}
  BY <1>3 DEF WaitTypes, WaitInv, Entered, Open
<1>4. ASSUME NEW id \in Ids, table[id] # NoChan PROVE Waits!AnsweredBy(table[id]) = {}
  <2>1. \A t \in Triggers : waiter[t].at = "send" =>
          owner[waiter[t].chan] = waiter[t].id /\ table[waiter[t].id] # waiter[t].chan
    BY DEF WaitInv, Taken, Open
  <2> QED BY <1>3, <1>4, <2>1 DEF Waits!AnsweredBy
<1>5. ASSUME NEW c \in Chans, sent[c] # {} PROVE Waits!AnsweredBy(c) = sent[c]
  BY <1>1, <1>5 DEF Waits!AnsweredBy
<1> QED BY <1>1, <1>2, <1>3, <1>4, <1>5

\* Register opens the channel it made, and no other is open for the identifier; when it
\* panics nothing is to be seen.
LEMMA RegisterOpens ==
  ASSUME WaitParameters, WaitTypes, WaitInv, NEW g \in Registrants, NEW id \in Ids,
         Waits!Register(g, id)
  PROVE  Waits!Answers!Next \/ UNCHANGED Shown
<1>1. /\ sent' = sent /\ buffer' = buffer
      /\ \A t \in Triggers : waiter'[t] = waiter[t]
  BY DEF Waits!Register, Waits!Goto, WaitParameters, WaitTypes, WaiterTypes
<1>2. \A c \in Chans : Waits!AnsweredBy(c)' = Waits!AnsweredBy(c)
  BY <1>1 DEF Waits!AnsweredBy
<1>3. CASE UNCHANGED <<table, owner>>
  <2>1. \A c \in Chans : Waits!Registration(c)' = Waits!Registration(c)
    BY <1>1, <1>2, <1>3 DEF Waits!Registration
  <2> QED BY <2>1 DEF Shown
<1>4. ASSUME NEW c \in Chans \ DOMAIN owner, table[id] = NoChan,
             table' = [table EXCEPT ![id] = c],
             owner' = [d \in DOMAIN owner \cup {c} |-> IF d = c THEN id ELSE owner[d]]
      PROVE  Waits!Answers!Next
  <2>1. /\ table'[id] = c /\ \A i \in Ids \ {id} : table'[i] = table[i]
        /\ c \in DOMAIN owner' /\ owner'[c] = id
        /\ \A d : d # c => (d \in DOMAIN owner <=> d \in DOMAIN owner')
        /\ \A d \in DOMAIN owner : owner'[d] = owner[d] /\ owner[d] \in Ids
    BY <1>4 DEF WaitTypes
  <2>2. Waits!AnsweredBy(c) = {}
    <3>1. sent[c] = {}
      BY <1>4 DEF WaitInv, Channels
    <3> QED BY <1>4, <3>1, WhoAnswers DEF Waits!AnsweredBy
  <2>3. Shown[c] = Waits!Answers!New /\ Waits!Registration(c)' = Waits!Answers!Open(id)
    BY <1>2, <1>4, <2>1, <2>2 DEF Shown, Waits!Registration, Waits!Answers!New, Waits!Answers!Open
  <2>4. ASSUME NEW d \in Chans \ {c} PROVE Waits!Registration(d)' = Waits!Registration(d)
    <3>1. CASE d \in DOMAIN owner
      <4>1. table'[owner[d]] = d <=> table[owner[d]] = d
        BY <1>4, <2>1, <3>1 DEF WaitParameters
      <4> QED BY <1>1, <1>2, <2>1, <3>1, <4>1 DEF Waits!Registration
    <3>2. CASE d \notin DOMAIN owner
      BY <2>1, <3>2 DEF Waits!Registration
    <3> QED BY <3>1, <3>2
  <2>5. ASSUME NEW d \in Chans PROVE Shown[d] # Waits!Answers!Open(id)
    BY <1>4 DEF Shown, Waits!Registration, Waits!Answers!Open, WaitParameters
  <2>6. Shown' = [Shown EXCEPT ![c] = Waits!Answers!Open(id)]
    BY <2>3, <2>4, OneShown
  <2>7. Waits!Answers!Register(c, id)
    BY <2>3, <2>5, <2>6 DEF Waits!Answers!Register, Shown
  <2> QED BY <2>7 DEF Waits!Answers!Next
<1> QED BY <1>3, <1>4 DEF Waits!Register, Waits!IsRegistered

\* Taking a channel out of the table is answering its registration: from there on no
\* other trigger can.
LEMMA TakeAnswers ==
  ASSUME WaitParameters, WaitTypes, WaitInv, NEW t \in Triggers, NEW id \in Ids,
         Waits!Take(t, id)
  PROVE  Waits!Answers!Next \/ UNCHANGED Shown
<1>1. /\ buffer' = buffer /\ sent' = sent /\ owner' = owner /\ waiter[t].at = "idle"
      /\ \A u \in Triggers \ {t} : waiter'[u] = waiter[u]
      /\ table'[id] = NoChan /\ \A i \in Ids \ {id} : table'[i] = table[i]
  BY DEF Waits!Take, Waits!Goto, WaitParameters, WaitTypes, WaiterTypes
<1>2. \/ table[id] = NoChan /\ waiter'[t].at = "idle"
      \/ table[id] # NoChan /\ waiter'[t] = [at |-> "send", id |-> id, chan |-> table[id]]
  BY DEF Waits!Take, Waits!Goto, Waits!IsRegistered, Waits!Idle, WaitTypes, WaiterTypes
<1>3. \A d \in Chans : d \in DOMAIN owner => owner[d] \in Ids
  BY DEF WaitTypes
<1>4. CASE table[id] = NoChan /\ waiter'[t].at = "idle"
  <2>1. \A c \in Chans : Waits!AnsweredBy(c)' = Waits!AnsweredBy(c)
    BY <1>1, <1>4 DEF Waits!AnsweredBy
  <2>2. \A c \in Chans : Waits!Registration(c)' = Waits!Registration(c)
    BY <1>1, <1>3, <1>4, <2>1 DEF Waits!Registration
  <2> QED BY <2>2 DEF Shown
<1>5. CASE table[id] # NoChan /\ waiter'[t] = [at |-> "send", id |-> id, chan |-> table[id]]
  <2>1. PICK c \in Chans : c = table[id]
    BY <1>5, WhoAnswers
  <2>2. c \in DOMAIN owner /\ owner[c] = id /\ Waits!AnsweredBy(c) = {} /\ sent[c] = {}
    BY <1>5, <2>1, WhoAnswers DEF Waits!AnsweredBy
  <2>3. waiter'[t].at = "send" /\ waiter'[t].chan = c
    BY <1>5, <2>1
  <2>4. Waits!AnsweredBy(c)' = {t}
    BY <1>1, <2>2, <2>3 DEF Waits!AnsweredBy
  <2>5. /\ Shown[c] = Waits!Answers!Open(id)
        /\ Waits!Registration(c)' = Waits!Answers!Answered(id, {t})
    BY <1>1, <2>1, <2>2, <2>4 DEF Shown, Waits!Registration, Waits!Answers!Open, Waits!Answers!Answered
  <2>6. ASSUME NEW d \in Chans \ {c} PROVE Waits!Registration(d)' = Waits!Registration(d)
    <3>1. Waits!AnsweredBy(d)' = Waits!AnsweredBy(d)
      BY <1>1, <2>3 DEF Waits!AnsweredBy
    <3>2. d \in DOMAIN owner => (table'[owner[d]] = d <=> table[owner[d]] = d)
      BY <1>1, <1>3, <2>1 DEF WaitParameters
    <3> QED BY <1>1, <3>1, <3>2 DEF Waits!Registration
  <2>7. Shown' = [Shown EXCEPT ![c] = Waits!Answers!Answered(id, {t})]
    BY <2>5, <2>6, OneShown
  <2>8. Waits!Answers!Trigger(c, id, t)
    BY <2>5, <2>7 DEF Waits!Answers!Trigger, Shown
  <2> QED BY <2>8 DEF Waits!Answers!Next
<1> QED BY <1>2, <1>4, <1>5

\* Sending and closing change nothing: the registration was answered already.
LEMMA SendStutters ==
  ASSUME WaitParameters, WaitTypes, WaitInv, NEW t \in Triggers, Waits!Send(t)
  PROVE  UNCHANGED Shown
<1>1. PICK c \in Chans : c = waiter[t].chan
  BY WaiterFacts DEF Waits!Send
<1>2. /\ table' = table /\ owner' = owner /\ waiter[t].at = "send"
      /\ sent[c] = {} /\ sent'[c] = {t} /\ buffer'[c] = {t}
      /\ \A d \in Chans \ {c} : sent'[d] = sent[d] /\ buffer'[d] = buffer[d]
      /\ Waits!AnsweredBy(c) = {t}
  BY <1>1, WhoAnswers DEF Waits!Send, WaitTypes
<1>3. \A u \in Triggers \ {t} : waiter'[u] = waiter[u]
  BY DEF Waits!Send, Waits!Goto, WaitTypes, WaiterTypes
<1>4. waiter'[t].at = "close"
  <2>1. waiter[t] \in Answering
    BY <1>2, WaiterFacts
  <2>2. waiter'[t] = [waiter[t] EXCEPT !.at = "close"]
    BY DEF Waits!Send, Waits!Goto, WaitTypes, WaiterTypes
  <2> QED BY <2>1, <2>2 DEF Answering
<1>5. Waits!AnsweredBy(c)' = {t}
  BY <1>2, <1>3, <1>4 DEF Waits!AnsweredBy
<1>6. ASSUME NEW d \in Chans \ {c} PROVE Waits!AnsweredBy(d)' = Waits!AnsweredBy(d)
  BY <1>1, <1>2, <1>3, <1>4 DEF Waits!AnsweredBy
<1>7. Waits!Registration(c)' = Waits!Registration(c)
  BY <1>2, <1>5 DEF Waits!Registration, Waits!Empty
<1>8. \A d \in Chans \ {c} : Waits!Registration(d)' = Waits!Registration(d)
  BY <1>2, <1>6 DEF Waits!Registration
<1> QED BY <1>7, <1>8 DEF Shown

\* The channel is closed after the answer, which closing leaves in it.
LEMMA CloseStutters ==
  ASSUME WaitParameters, WaitTypes, WaitInv, NEW t \in Triggers, Waits!Close(t)
  PROVE  UNCHANGED Shown
<1>1. /\ table' = table /\ buffer' = buffer /\ owner' = owner /\ sent' = sent
      /\ waiter[t].at = "close" /\ waiter'[t].at = "idle"
      /\ \A u \in Triggers \ {t} : waiter'[u] = waiter[u]
  BY DEF Waits!Close, Waits!Goto, Waits!Idle, WaitParameters, WaitTypes, WaiterTypes
<1>2. \A c \in Chans : Waits!AnsweredBy(c)' = Waits!AnsweredBy(c)
  BY <1>1 DEF Waits!AnsweredBy
<1> QED BY <1>1, <1>2 DEF Shown, Waits!Registration

\* Receiving takes the answer that is there, which is one trigger's.
LEMMA ReceiveReceives ==
  ASSUME WaitParameters, WaitTypes, WaitInv, NEW g \in Registrants, Waits!Receive(g)
  PROVE  Waits!Answers!Next
<1>1. PICK c \in Chans : c = waiter[g].chan
  BY WaiterFacts DEF Waits!Receive
<1>2. /\ table' = table /\ owner' = owner /\ sent' = sent
      /\ buffer[c] # {} /\ buffer'[c] = {}
      /\ \A d \in Chans \ {c} : buffer'[d] = buffer[d]
      /\ \A t \in Triggers : waiter'[t] = waiter[t]
  BY <1>1 DEF Waits!Receive, Waits!Goto, Waits!Empty, WaitParameters, WaitTypes, WaiterTypes
<1>3. PICK t \in Triggers : sent[c] = {t}
  <2>1. PICK t \in buffer[c] : TRUE
    BY <1>2
  <2>2. t \in sent[c] /\ sent[c] = {t} /\ t \in Triggers
    BY DEF WaitInv, Channels, WaitTypes
  <2> QED BY <2>2
<1>4. c \in DOMAIN owner /\ owner[c] \in Ids
  BY <1>3 DEF WaitInv, Channels, WaitTypes
<1>5. Waits!AnsweredBy(c) = {t} /\ \A d \in Chans : Waits!AnsweredBy(d)' = Waits!AnsweredBy(d)
  BY <1>2, <1>3, WhoAnswers DEF Waits!AnsweredBy
<1>6. /\ Shown[c] = Waits!Answers!Answered(owner[c], {t})
      /\ Waits!Registration(c)' = Waits!Answers!Received(owner[c], {t})
  BY <1>2, <1>3, <1>4, <1>5 DEF Shown, Waits!Registration, Waits!Empty,
     Waits!Answers!Answered, Waits!Answers!Received
<1>7. \A d \in Chans \ {c} : Waits!Registration(d)' = Waits!Registration(d)
  BY <1>2, <1>5 DEF Waits!Registration
<1>8. Shown' = [Shown EXCEPT ![c] = Waits!Answers!Received(owner[c], {t})]
  BY <1>6, <1>7, OneShown
<1>9. Waits!Answers!Receive(c, owner[c], t)
  BY <1>6, <1>8 DEF Waits!Answers!Receive, Shown
<1> QED BY <1>4, <1>9 DEF Waits!Answers!Next

\* Every step of Wait is a step of the one-shot answers or shows nothing.
LEMMA WaitRefines ==
  ASSUME WaitParameters, WaitTypes, WaitInv, [Waits!Next]_(Waits!vars)
  PROVE  Waits!Answers!Next \/ UNCHANGED Shown
<1>1. ASSUME NEW g \in Registrants, Waits!Again(g) PROVE UNCHANGED Shown
  <2>1. /\ table' = table /\ buffer' = buffer /\ owner' = owner /\ sent' = sent
        /\ \A t \in Triggers : waiter'[t] = waiter[t]
    BY <1>1 DEF Waits!Again, Waits!Goto, WaitParameters, WaitTypes, WaiterTypes
  <2>2. \A c \in Chans : Waits!AnsweredBy(c)' = Waits!AnsweredBy(c)
    BY <2>1 DEF Waits!AnsweredBy
  <2> QED BY <2>1, <2>2 DEF Shown, Waits!Registration
<1>2. CASE UNCHANGED Waits!vars
  BY <1>2 DEF Waits!vars, Shown, Waits!Registration, Waits!AnsweredBy
<1> QED BY <1>1, <1>2, RegisterOpens, TakeAnswers, SendStutters, CloseStutters, ReceiveReceives
        DEF Waits!Next

\* Wait implements one-shot answers, for any goroutines, identifiers and channels.
THEOREM WaitImplementsOneShot == Spec => ImplementsOneShot
<1>1. Init => (part = "wait" => Waits!Answers!Init)
  <2> SUFFICES ASSUME Waits!Init PROVE Waits!Answers!Init
    BY OtherParts, Zenon DEF Init
  <2>1. \A c \in Chans : Waits!Registration(c) = Waits!Answers!New
    BY DEF Waits!Init, Waits!Registration, Waits!Answers!New
  <2> QED BY <2>1 DEF Waits!Answers!Init
<1>2. [Next]_vars /\ part = "wait" => [Waits!Next]_(Waits!vars)
  BY OtherParts, Zenon DEF Next, vars, waitVars, Waits!vars
<1>3. (part = "wait" => WaitTypes /\ WaitInv) /\ [Next]_vars
        => [part = "wait" => Waits!Answers!Next \/ UNCHANGED [c \in Chans |-> Waits!Registration(c)]]_vars
  BY <1>2, PackagesAssumption, WaitRefines DEF Shown
<1> QED BY <1>1, <1>3, WaitKept, PTL DEF Spec, ImplementsOneShot

-----------------------------------------------------------------------------
(* The HTTP server framework. *)

\* What the middleware stores in a context: the entry, split.
Keys == Seq(STRING)

Served == [at : {"enter", "run", "leave", "answered"}, method : {"OPTIONS", "POST"},
           token : Tokens \cup {NoToken}, stack : Seq(Contexts), keys : Keys, status : Int]

HttpTypes ==
  /\ pool \subseteq DOMAIN wraps /\ DOMAIN wraps \subseteq Contexts
  /\ \A c \in DOMAIN wraps : wraps[c] \in Requests
  /\ req \in [Requests -> {Http!Idle} \cup Served]

\* Which frames a request can be in tells what its chain decided so far: behind the
\* first one it is no preflight, behind the second its token was accepted, and a frame
\* that returns has the answer behind it.
Passed(q) == Len(Http!GetLoginUID(q.token)) >= 2 /\ q.keys = Http!GetLoginUID(q.token)
Fits(q) ==
  /\ q.at = "enter" => /\ Len(q.stack) \in 0 .. 2
                       /\ Len(q.stack) >= 1 => q.method = "POST"
                       /\ Len(q.stack) = 2 => Passed(q)
  /\ q.at = "run" => /\ Len(q.stack) \in 1 .. 3
                     /\ Len(q.stack) >= 2 => q.method = "POST"
                     /\ Len(q.stack) = 3 => Passed(q)
  /\ q.at = "leave" => Len(q.stack) \in 1 .. 3 /\ q.status = Http!Expected(q.method, q.token)
  /\ q.at = "answered" => Len(q.stack) = 0 /\ q.status = Http!Expected(q.method, q.token)

\* The contexts of the frames of r are out of the pool, wrap r, and differ.
Stacked(s, r) == \A i \in 1 .. Len(s) : /\ s[i] \in DOMAIN wraps /\ s[i] \notin pool
                                        /\ wraps[s[i]] = r
Distinct(s) == \A i, j \in 1 .. Len(s) : s[i] = s[j] => i = j

HttpInv ==
  \A r \in Requests : req[r] # Http!Idle =>
    Fits(req[r]) /\ Stacked(req[r].stack, r) /\ Distinct(req[r].stack)

\* What a request that is not idle is.
LEMMA ServedFacts ==
  ASSUME HttpTypes, NEW r \in Requests, req[r].at # "idle"
  PROVE  /\ req[r] \in Served /\ req[r] # Http!Idle
BY DEF HttpTypes, Served, Http!Idle

\* A step in which one request moves and no context of the others does.
LEMMA OneRequestMoves ==
  ASSUME HttpTypes, HttpInv, NEW r \in Requests, NEW v \in Served,
         req' = [req EXCEPT ![r] = v],
         Fits(v), Distinct(v.stack), Stacked(v.stack, r)',
         \A q \in Requests \ {r}, s \in Seq(Contexts) : Stacked(s, q) => Stacked(s, q)'
  PROVE  /\ HttpInv'
         /\ req' \in [Requests -> {Http!Idle} \cup Served]
<1>1. req'[r] = v /\ \A q \in Requests \ {r} : req'[q] = req[q]
  BY DEF HttpTypes
<1>2. ASSUME NEW q \in Requests, req'[q] # Http!Idle
      PROVE  Fits(req'[q]) /\ Stacked(req[q].stack, q)' /\ Distinct(req'[q].stack)
  <2>1. CASE q = r
    BY <1>1, <2>1 DEF Stacked
  <2>2. CASE q # r
    <3>1. PICK w \in Served : w = req[q] /\ w = req'[q]
      BY <1>1, <1>2, <2>2 DEF HttpTypes
    <3>2. w.stack \in Seq(Contexts)
      BY DEF Served
    <3>3. Fits(w) /\ Stacked(w.stack, q) /\ Distinct(w.stack)
      BY <1>2, <3>1 DEF HttpInv
    <3>4. Stacked(w.stack, q)'
      BY <2>2, <3>2, <3>3
    <3> QED BY <3>1, <3>3, <3>4 DEF Stacked
  <2> QED BY <2>1, <2>2
<1>3. HttpInv'
  BY <1>2 DEF HttpInv, Fits, Distinct
<1>4. req' \in [Requests -> {Http!Idle} \cup Served]
  BY DEF HttpTypes
<1> QED BY <1>3, <1>4

\* A handler that runs has a context that wraps its own request.
LEMMA WrapsItsOwn ==
  ASSUME HttpTypes, HttpInv, NEW r \in Requests, req[r].at = "run"
  PROVE  Http!Wrapped(r) = r
<1>1. req[r] \in Served /\ Fits(req[r]) /\ Stacked(req[r].stack, r)
  BY ServedFacts DEF HttpInv
<1>2. Len(req[r].stack) \in 1 .. 3
  BY <1>1 DEF Fits
<1>3. Len(req[r].stack) \in 1 .. Len(req[r].stack)
  <2>1. PICK n \in 1 .. 3 : n = Len(req[r].stack)
    BY <1>2
  <2>2. n \in 1 .. n
    OBVIOUS
  <2> QED BY <2>1, <2>2
<1> QED BY <1>1, <1>3 DEF Stacked, Http!Wrapped, Http!Last
\* A step of a handler: the contexts stay where they are.
LEMMA HandlerMoves ==
  ASSUME HttpTypes, HttpInv, NEW r \in Requests, req[r].at = "run", UNCHANGED <<pool, wraps>>,
         NEW v \in Served, v.stack = req[r].stack, Fits(v), req' = [req EXCEPT ![r] = v]
  PROVE  HttpTypes' /\ HttpInv'
<1>1. Distinct(req[r].stack) /\ Stacked(req[r].stack, r)
  BY ServedFacts DEF HttpInv
<1>2. Distinct(v.stack) /\ Stacked(v.stack, r)'
  BY <1>1 DEF Stacked
<1>3. \A q \in Requests \ {r}, s \in Seq(Contexts) : Stacked(s, q) => Stacked(s, q)'
  BY DEF Stacked
<1>4. HttpInv' /\ req' \in [Requests -> {Http!Idle} \cup Served]
  BY <1>2, <1>3, OneRequestMoves
<1> QED BY <1>4 DEF HttpTypes

\* An answer goes to the request of the handler that gives it.
LEMMA RespondKeeps ==
  ASSUME HttpTypes, HttpInv, NEW r \in Requests, req[r].at = "run", UNCHANGED <<pool, wraps>>,
         NEW status \in Int, Http!Respond(r, status),
         status = Http!Expected(req[r].method, req[r].token)
  PROVE  HttpTypes' /\ HttpInv'
<1>1. PICK u \in Served : u = req[r] /\ Fits(u)
  BY ServedFacts DEF HttpInv
<1>2. PICK v \in Served :
        /\ v.at = "leave" /\ v.status = status /\ v.method = u.method /\ v.token = u.token
        /\ v.stack = u.stack /\ v.keys = u.keys
        /\ v = [[u EXCEPT !.status = status] EXCEPT !.at = "leave"]
  BY DEF Served
<1>3. "status" \in DOMAIN u
  BY DEF Served
<1>4. Http!Wrapped(r) = r
  BY WrapsItsOwn
<1>5. req' = [req EXCEPT ![r] = v]
  <2>1. ASSUME NEW q \in Requests \ {r}
        PROVE  (IF q = Http!Wrapped(r) /\ "status" \in DOMAIN req[q]
                THEN [req[q] EXCEPT !.status = status] ELSE req[q]) = req[q]
    BY <1>4
  <2>2. req' = [q \in Requests |-> IF q = r THEN v ELSE req[q]]
    BY <1>1, <1>2, <1>3, <1>4, <2>1 DEF Http!Respond
  <2> QED BY <2>2 DEF HttpTypes
<1>6. Fits(v)
  <2>1. Len(u.stack) \in 1 .. 3
    BY <1>1 DEF Fits
  <2> QED BY <1>1, <1>2, <2>1 DEF Fits
<1> QED BY <1>1, <1>2, <1>5, <1>6, HandlerMoves

\* Preflights are answered, others go on.
LEMMA CORSKeeps ==
  ASSUME HttpTypes, HttpInv, NEW r \in Requests, Http!CORSMiddleware(r)
  PROVE  HttpTypes' /\ HttpInv'
<1>1. req[r].at = "run" /\ Len(req[r].stack) = 1 /\ UNCHANGED <<pool, wraps>>
  BY DEF Http!CORSMiddleware, Http!Frame
<1>2. PICK u \in Served : u = req[r] /\ Fits(u)
  BY <1>1, ServedFacts DEF HttpInv
<1>3. Http!Wrapped(r) = r
  BY <1>1, WrapsItsOwn
<1>4. CASE req[r].method = "OPTIONS" /\ Http!Respond(r, 204)
  BY <1>1, <1>4, RespondKeeps DEF Http!Expected
<1>5. CASE req[r].method # "OPTIONS" /\ req' = [req EXCEPT ![r].at = "enter"]
  <2>1. PICK v \in Served : v = [u EXCEPT !.at = "enter"]
    BY DEF Served
  <2>2. req' = [req EXCEPT ![r] = v]
    BY <1>2, <1>5, <2>1
  <2>3. /\ v.at = "enter" /\ v.stack = u.stack /\ v.method = u.method /\ u.method = "POST"
        /\ Len(v.stack) = 1
    BY <1>1, <1>2, <1>5, <2>1 DEF Served
  <2>4. Fits(v)
    BY <2>3 DEF Fits
  <2> QED BY <1>1, <1>2, <2>2, <2>3, <2>4, HandlerMoves
<1> QED BY <1>3, <1>4, <1>5 DEF Http!CORSMiddleware

\* A token that the cache does not know is refused; another's entry is set.
LEMMA AuthKeeps ==
  ASSUME HttpParameters, HttpTypes, HttpInv, NEW r \in Requests, Http!AuthMiddleware(r)
  PROVE  HttpTypes' /\ HttpInv'
<1>1. req[r].at = "run" /\ Len(req[r].stack) = 2 /\ UNCHANGED <<pool, wraps>>
  BY DEF Http!AuthMiddleware, Http!Frame
<1>2. PICK u \in Served : u = req[r] /\ Fits(u)
  BY <1>1, ServedFacts DEF HttpInv
<1>3. Http!Wrapped(r) = r /\ u.at = "run" /\ u.method = "POST"
  <2>1. Http!Wrapped(r) = r /\ u.at = "run" /\ Len(u.stack) = 2
    BY <1>1, <1>2, WrapsItsOwn
  <2>2. Len(u.stack) >= 2
    BY <2>1
  <2> QED BY <1>2, <2>1, <2>2, Zenon DEF Fits
<1>4. PICK entry \in Keys : entry = Http!GetLoginUID(u.token)
  BY EmptySeq DEF Keys, HttpParameters, Http!GetLoginUID
<1>5. Len(entry) \in Nat
  BY LenProperties DEF Keys
<1>6. CASE Len(entry) < 2 /\ Http!Respond(r, 401)
  BY <1>1, <1>2, <1>3, <1>4, <1>6, RespondKeeps DEF Http!Expected
<1>7. CASE /\ Len(entry) >= 2
           /\ req' = [q \in Requests |->
                        LET set == IF q = r THEN [req[q] EXCEPT !.keys = entry] ELSE req[q]
                        IN  IF q = r THEN [set EXCEPT !.at = "enter"] ELSE set]
  <2>1. PICK v \in Served :
          /\ v = [[u EXCEPT !.keys = entry] EXCEPT !.at = "enter"]
          /\ v.at = "enter" /\ v.stack = u.stack /\ v.method = u.method /\ v.token = u.token
          /\ v.keys = entry
    <3> DEFINE w == [u EXCEPT !.keys = entry]
               v == [w EXCEPT !.at = "enter"]
    <3>1. w \in Served
      BY DEF Served
    <3>2. w.stack = u.stack /\ w.method = u.method /\ w.token = u.token /\ w.keys = entry
      BY DEF Served
    <3> HIDE DEF w
    <3>3. v \in Served
      BY <3>1 DEF Served
    <3>4. /\ v.at = "enter" /\ v.stack = w.stack /\ v.method = w.method
          /\ v.token = w.token /\ v.keys = w.keys
      BY <3>1 DEF Served
    <3>5. v = [[u EXCEPT !.keys = entry] EXCEPT !.at = "enter"]
      BY DEF w
    <3> HIDE DEF v
    <3> QED BY <3>2, <3>3, <3>4, <3>5, Zenon
  <2>2. req' = [req EXCEPT ![r] = v]
    <3>1. req' = [q \in Requests |-> IF q = r THEN v ELSE req[q]]
      BY <1>2, <1>7, <2>1, Zenon
    <3> QED BY <3>1 DEF HttpTypes
  <2>3. Fits(v)
    <3>1. Passed(v) /\ v.method = "POST" /\ v.at = "enter" /\ Len(v.stack) = 2
      BY <1>1, <1>2, <1>3, <1>4, <1>7, <2>1, Zenon DEF Passed
    <3>2. Len(v.stack) \in 0 .. 2
      BY <3>1
    <3> QED BY <3>1, <3>2 DEF Fits
  <2> QED BY <1>1, <1>2, <2>1, <2>2, <2>3, HandlerMoves
<1> QED BY <1>2, <1>3, <1>4, <1>6, <1>7, Zenon DEF Http!AuthMiddleware

\* The handler behind the middleware asks for the role in what the middleware set.
LEMMA HandlerKeeps ==
  ASSUME HttpParameters, HttpTypes, HttpInv, NEW r \in Requests, Http!Handler(r)
  PROVE  HttpTypes' /\ HttpInv'
<1>1. req[r].at = "run" /\ Len(req[r].stack) = 3 /\ UNCHANGED <<pool, wraps>>
  BY DEF Http!Handler, Http!Frame
<1>2. PICK u \in Served : u = req[r] /\ Fits(u)
  BY <1>1, ServedFacts DEF HttpInv
<1>3. Http!Wrapped(r) = r /\ u.method = "POST" /\ Passed(u)
  BY <1>1, <1>2, WrapsItsOwn DEF Fits
<1>4. PICK entry \in Keys : entry = Http!GetLoginUID(u.token)
  BY EmptySeq DEF Keys, HttpParameters, Http!GetLoginUID
<1>5. Len(entry) \in Nat /\ Len(entry) >= 2 /\ u.keys = entry
  BY <1>3, <1>4, LenProperties DEF Passed, Keys
<1>6. PICK status \in Int : status = IF Http!CheckLoginRole(entry) THEN 200 ELSE 400
  OBVIOUS
<1>7. Http!Respond(r, status)
  BY <1>2, <1>3, <1>5, <1>6 DEF Http!Handler
<1>8. status = Http!Expected(u.method, u.token)
  BY <1>3, <1>4, <1>5, <1>6 DEF Http!Expected
<1> QED BY <1>1, <1>2, <1>7, <1>8, RespondKeeps
\* A request begins without a frame.
LEMMA ReceiveRequestKeeps ==
  ASSUME HttpTypes, HttpInv, NEW r \in Requests, Http!Receive(r)
  PROVE  HttpTypes' /\ HttpInv'
<1>1. PICK method \in {"OPTIONS", "POST"}, token \in Tokens \cup {NoToken} :
        req' = [req EXCEPT ![r] = [at |-> "enter", method |-> method, token |-> token,
                                   stack |-> <<>>, keys |-> <<>>, status |-> 0]]
  BY DEF Http!Receive
<1>2. <<>> \in Keys /\ <<>> \in Seq(Contexts) /\ Len(<<>>) = 0
  BY EmptySeq DEF Keys
<1>3. PICK v \in Served : /\ req' = [req EXCEPT ![r] = v]
                          /\ v.at = "enter" /\ v.stack = <<>>
  <2> DEFINE v == [at |-> "enter", method |-> method, token |-> token,
                   stack |-> <<>>, keys |-> <<>>, status |-> 0]
  <2>1. v \in Served
    BY <1>2 DEF Served
  <2>2. req' = [req EXCEPT ![r] = v] /\ v.at = "enter" /\ v.stack = <<>>
    BY <1>1
  <2> HIDE DEF v
  <2> QED BY <2>1, <2>2
<1>4. Fits(v) /\ Distinct(v.stack) /\ Stacked(v.stack, r)'
  BY <1>2, <1>3 DEF Fits, Distinct, Stacked
<1>5. pool' = pool /\ wraps' = wraps
  BY DEF Http!Receive
<1>6. \A q \in Requests \ {r}, s \in Seq(Contexts) : Stacked(s, q) => Stacked(s, q)'
  BY <1>5 DEF Stacked
<1>7. HttpInv' /\ req' \in [Requests -> {Http!Idle} \cup Served]
  BY <1>3, <1>4, <1>6, OneRequestMoves
<1> QED BY <1>5, <1>7 DEF HttpTypes

\* The context of a new frame comes from the pool or is new, so no frame has it.
LEMMA EnterKeeps ==
  ASSUME HttpTypes, HttpInv, NEW r \in Requests, Http!Enter(r)
  PROVE  HttpTypes' /\ HttpInv'
<1>1. PICK u \in Served : /\ u = req[r] /\ u.at = "enter" /\ Fits(u)
                          /\ Distinct(u.stack) /\ Stacked(u.stack, r)
  BY ServedFacts DEF HttpInv, Http!Enter
<1>2. PICK c \in pool \cup Http!Fresh :
        /\ pool' = pool \ {c}
        /\ wraps' = [d \in DOMAIN wraps \cup {c} |-> IF d = c THEN r ELSE wraps[d]]
        /\ req' = [req EXCEPT ![r].at = "run", ![r].stack = Append(@, c)]
  BY DEF Http!Enter
<1>3. c \in Contexts /\ (c \in pool \/ c \notin DOMAIN wraps)
  BY DEF Http!Fresh, HttpTypes
<1>4. PICK s \in Seq(Contexts) : s = u.stack
  BY DEF Served
<1>5. PICK t \in Seq(Contexts) :
        /\ t = Append(s, c) /\ Len(t) = Len(s) + 1 /\ t[Len(s) + 1] = c
        /\ \A i \in 1 .. Len(s) : t[i] = s[i]
  <2>1. PICK d \in Contexts : d = c
    BY <1>3
  <2>2. /\ Append(s, d) \in Seq(Contexts) /\ Len(Append(s, d)) = Len(s) + 1
        /\ Append(s, d)[Len(s) + 1] = d /\ \A i \in 1 .. Len(s) : Append(s, d)[i] = s[i]
    BY AppendProperties
  <2> QED BY <2>1, <2>2
<1>6. PICK n \in Nat : n = Len(s)
  BY LenProperties
<1> DEFINE v == [u EXCEPT !.at = "run", !.stack = t]
<1>7. v \in Served
  BY DEF Served
<1>8. /\ v.at = "run" /\ v.stack = t /\ v.method = u.method /\ v.token = u.token
      /\ v.keys = u.keys
  BY DEF Served
<1>9. req' = [req EXCEPT ![r] = v]
  BY <1>1, <1>2, <1>4, <1>5
<1> HIDE DEF v
<1>10. \A i \in 1 .. n + 1 : i \in 1 .. n \/ i = n + 1
  OBVIOUS
<1>11. \A i \in 1 .. n : t[i] \in DOMAIN wraps /\ t[i] \notin pool /\ wraps[t[i]] = r /\ t[i] # c
  BY <1>1, <1>3, <1>4, <1>5, <1>6 DEF Stacked
<1>12. Stacked(t, r)'
  <2>1. ASSUME NEW i \in 1 .. n + 1
        PROVE  t[i] \in DOMAIN wraps' /\ t[i] \notin pool' /\ wraps'[t[i]] = r
    BY <1>2, <1>5, <1>6, <1>10, <1>11
  <2> QED BY <1>5, <1>6, <2>1 DEF Stacked
<1>13. Distinct(t)
  <2>1. ASSUME NEW i \in 1 .. n + 1, NEW j \in 1 .. n + 1, t[i] = t[j] PROVE i = j
    <3>1. CASE i \in 1 .. n /\ j \in 1 .. n
      BY <1>1, <1>4, <1>5, <1>6, <2>1, <3>1 DEF Distinct
    <3>2. CASE i = n + 1 \/ j = n + 1
      BY <1>5, <1>6, <1>10, <1>11, <2>1, <3>2
    <3> QED BY <1>10, <3>1, <3>2
  <2> QED BY <1>5, <1>6, <2>1 DEF Distinct
<1>14. Fits(v)
  <2>1. n \in 0 .. 2 /\ Len(t) = n + 1
    BY <1>1, <1>4, <1>5, <1>6 DEF Fits
  <2>2. (n >= 1 => u.method = "POST") /\ (n = 2 => Passed(u))
    BY <1>1, <1>4, <1>6 DEF Fits
  <2>3. Passed(u) => Passed(v)
    BY <1>8 DEF Passed
  <2> QED BY <1>8, <2>1, <2>2, <2>3 DEF Fits
<1>15. \A q \in Requests \ {r}, z \in Seq(Contexts) : Stacked(z, q) => Stacked(z, q)'
  BY <1>2, <1>3 DEF Stacked
<1>16. HttpInv' /\ req' \in [Requests -> {Http!Idle} \cup Served]
  BY <1>7, <1>8, <1>9, <1>12, <1>13, <1>14, <1>15, OneRequestMoves
<1> QED BY <1>2, <1>3, <1>16 DEF HttpTypes

\* A frame gives back the context it has, which is no other frame's.
LEMMA LeaveKeeps ==
  ASSUME HttpTypes, HttpInv, NEW r \in Requests, Http!Leave(r)
  PROVE  HttpTypes' /\ HttpInv'
<1>1. PICK u \in Served : /\ u = req[r] /\ u.at = "leave" /\ Fits(u)
                          /\ Distinct(u.stack) /\ Stacked(u.stack, r)
  BY ServedFacts DEF HttpInv, Http!Leave
<1>2. PICK s \in Seq(Contexts) : s = u.stack
  BY DEF Served
<1>3. PICK n \in 1 .. 3 : n = Len(s)
  BY <1>1, <1>2 DEF Fits
<1>4. n \in 1 .. n /\ n \in Nat /\ \A i \in 1 .. n - 1 : i \in 1 .. n /\ i # n
  OBVIOUS
<1>5. \A i \in 1 .. n : s[i] \in DOMAIN wraps /\ s[i] \notin pool /\ wraps[s[i]] = r
                          /\ s[i] \in Contexts
  BY <1>1, <1>2, <1>3 DEF Stacked, HttpTypes
<1>6. PICK t \in Seq(Contexts) :
        t = SubSeq(s, 1, n - 1) /\ Len(t) = n - 1 /\ \A i \in 1 .. n - 1 : t[i] = s[i]
  <2>1. 1 \in Int /\ n - 1 \in Int /\ \A i \in 1 .. n - 1 : s[i] \in Contexts
    BY <1>4, <1>5
  <2>2. /\ SubSeq(s, 1, n - 1) \in Seq(Contexts)
        /\ Len(SubSeq(s, 1, n - 1)) = IF 1 <= n - 1 THEN (n - 1) - 1 + 1 ELSE 0
        /\ \A i \in 1 .. (n - 1) - 1 + 1 : SubSeq(s, 1, n - 1)[i] = s[1 + i - 1]
    BY <2>1, SubSeqProperties
  <2>3. Len(SubSeq(s, 1, n - 1)) = n - 1
    BY <2>2
  <2>4. \A i \in 1 .. n - 1 : i \in 1 .. (n - 1) - 1 + 1 /\ 1 + i - 1 = i
    OBVIOUS
  <2>5. \A i \in 1 .. n - 1 : SubSeq(s, 1, n - 1)[i] = s[i]
    BY <2>2, <2>4
  <2> QED BY <2>2, <2>3, <2>5
<1>7. PICK at \in {"answered", "leave"} : at = IF n = 1 THEN "answered" ELSE "leave"
  OBVIOUS
<1> DEFINE v == [u EXCEPT !.stack = t, !.at = at]
<1>8. v \in Served
  BY DEF Served
<1>9. v.at = at /\ v.stack = t /\ v.method = u.method /\ v.token = u.token /\ v.status = u.status
  BY DEF Served
<1>10. pool' = pool \cup {s[n]} /\ wraps' = wraps
  BY <1>1, <1>2, <1>3 DEF Http!Leave, Http!Last
<1>11. req' = [req EXCEPT ![r] = v]
  BY <1>1, <1>2, <1>3, <1>6, <1>7 DEF Http!Leave, Http!Front
<1> HIDE DEF v
<1>12. Stacked(t, r)'
  <2>1. ASSUME NEW i \in 1 .. n - 1
        PROVE  t[i] \in DOMAIN wraps' /\ t[i] \notin pool' /\ wraps'[t[i]] = r
    <3>1. s[i] # s[n]
      BY <1>1, <1>2, <1>3, <1>4 DEF Distinct
    <3> QED BY <1>4, <1>5, <1>6, <1>10, <3>1
  <2> QED BY <1>6, <2>1 DEF Stacked
<1>13. Distinct(t)
  <2>1. ASSUME NEW i \in 1 .. n - 1, NEW j \in 1 .. n - 1, t[i] = t[j] PROVE i = j
    <3>1. i \in 1 .. n /\ j \in 1 .. n /\ s[i] = s[j]
      BY <1>4, <1>6, <2>1
    <3> QED BY <1>1, <1>2, <1>3, <3>1 DEF Distinct
  <2> QED BY <1>6, <2>1 DEF Distinct
<1>14. Fits(v)
  <2>1. v.status = Http!Expected(v.method, v.token)
    BY <1>1, <1>9 DEF Fits
  <2>2. (at = "leave" => n - 1 \in 1 .. 3) /\ (at = "answered" => n - 1 = 0)
    BY <1>7
  <2> QED BY <1>6, <1>9, <2>1, <2>2 DEF Fits
<1>15. \A q \in Requests \ {r}, z \in Seq(Contexts) : Stacked(z, q) => Stacked(z, q)'
  BY <1>4, <1>5, <1>10 DEF Stacked
<1>16. HttpInv' /\ req' \in [Requests -> {Http!Idle} \cup Served]
  BY <1>8, <1>9, <1>11, <1>12, <1>13, <1>14, <1>15, OneRequestMoves
<1> QED BY <1>4, <1>5, <1>10, <1>16 DEF HttpTypes

\* Types and invariant together, for as long as the framework runs.
LEMMA HttpKept == Spec => [](part = "http" => HttpTypes /\ HttpInv)
<1>0. HttpParameters
  BY PackagesAssumption
<1>1. Http!Init => HttpTypes /\ HttpInv
  BY DEF Http!Init, HttpTypes, HttpInv
<1>2. HttpTypes /\ HttpInv /\ [Http!Next]_(Http!vars) => HttpTypes' /\ HttpInv'
  <2>1. ASSUME HttpTypes, HttpInv, UNCHANGED Http!vars PROVE HttpTypes' /\ HttpInv'
    BY <2>1 DEF Http!vars, HttpTypes, HttpInv, Stacked, Distinct, Fits
  <2> QED BY <1>0, <2>1, ReceiveRequestKeeps, EnterKeeps, LeaveKeeps, CORSKeeps, AuthKeeps, HandlerKeeps
          DEF Http!Next, Http!Serve
<1>3. Init /\ part = "http" => Http!Init
  BY OtherParts, Zenon DEF Init
<1>4. [Next]_vars /\ part' = "http" => part = "http" /\ [Http!Next]_(Http!vars)
  BY OtherParts, Zenon DEF Next, vars, httpVars, Http!vars
<1>5. (part = "http" => HttpTypes /\ HttpInv) /\ [Next]_vars => (part = "http" => HttpTypes /\ HttpInv)'
  BY <1>2, <1>4, Zenon
<1> QED BY <1>1, <1>3, <1>5, PTL DEF Spec

\* The contexts and the requests: a chain of three handlers has three frames at most.
THEOREM HttpTypeCorrect == Spec => [](part = "http" => Http!TypeOK)
<1>1. HttpTypes /\ HttpInv => Http!TypeOK
  <2> SUFFICES ASSUME HttpTypes, HttpInv, NEW r \in Requests, req[r].at # "idle"
               PROVE  Len(req[r].stack) <= 3 /\ Http!Held(r) \subseteq Contexts
    BY DEF HttpTypes, Http!TypeOK
  <2>1. PICK u \in Served : u = req[r] /\ Fits(u)
    BY ServedFacts DEF HttpInv
  <2>2. u.stack \in Seq(Contexts) /\ u.at \in {"enter", "run", "leave", "answered"}
    BY DEF Served
  <2>3. Len(u.stack) \in 0 .. 2 \/ Len(u.stack) \in 1 .. 3 \/ Len(u.stack) = 0
    BY <2>1, <2>2 DEF Fits
  <2>4. Len(u.stack) <= 3
    <3>1. 0 .. 2 \subseteq 0 .. 3 /\ 1 .. 3 \subseteq 0 .. 3 /\ 0 \in 0 .. 3
      OBVIOUS
    <3>2. PICK n \in 0 .. 3 : n = Len(u.stack)
      BY <2>3, <3>1, Zenon
    <3>3. n <= 3
      OBVIOUS
    <3> QED BY <3>2, <3>3
  <2>5. \A i \in 1 .. Len(u.stack) : u.stack[i] \in Contexts
    BY <2>2
  <2> QED BY <2>1, <2>4, <2>5 DEF Http!Held
<1> QED BY <1>1, HttpKept, PTL

\* However many requests are served at once and whichever contexts they are given: no
\* frame's context is in the pool or in another frame, and every request is answered as
\* if it were alone.
THEOREM Apart == Spec => []RequestsApart
<1>1. HttpTypes /\ HttpInv => Http!RequestsApart
  <2> SUFFICES ASSUME HttpTypes, HttpInv PROVE Http!RequestsApart
    OBVIOUS
  <2>1. ASSUME NEW r \in Requests, Http!InService(r)
        PROVE  Stacked(req[r].stack, r) /\ Distinct(req[r].stack)
    BY <2>1, ServedFacts DEF HttpInv, Http!InService
  <2>2. ASSUME NEW r \in Requests, NEW c \in Http!Held(r) PROVE c \notin pool /\ wraps[c] = r
    BY <2>1, <2>2 DEF Stacked, Http!Held
  <2>3. ASSUME NEW r \in Requests, Http!InService(r)
        PROVE  \A i, j \in 1 .. Len(req[r].stack) : req[r].stack[i] = req[r].stack[j] => i = j
    BY <2>1, <2>3 DEF Distinct
  <2>4. ASSUME NEW r \in Requests, NEW q \in Requests \ {r}
        PROVE  Http!Held(r) \cap Http!Held(q) = {}
    BY <2>2
  <2>5. ASSUME NEW r \in Requests, req[r].at = "answered"
        PROVE  req[r].status = Http!Expected(req[r].method, req[r].token)
    BY <2>5, ServedFacts DEF HttpInv, Fits
  <2> QED BY <2>2, <2>3, <2>4, <2>5 DEF Http!RequestsApart
<1> QED BY <1>1, HttpKept, PTL DEF RequestsApart
-----------------------------------------------------------------------------
(* Identifiers: the layout. *)

\* The widths of the source.
SourceWidths == ByteBits = 8 /\ LowBits = 32 /\ HighBits = 28

\* Their powers.
LEMMA Widths ==
  ASSUME SourceWidths
  PROVE  /\ 2 ^ ByteBits = 2 ^ 8 /\ 2 ^ (ByteBits - 1) = 2 ^ 7 /\ 2 ^ (ByteBits - 2) = 2 ^ 6
         /\ 2 ^ (2 * ByteBits) = 2 ^ 16 /\ 2 ^ (2 * ByteBits - 2) = 2 ^ 14
         /\ 2 ^ LowBits = 2 ^ 32 /\ 2 ^ HighBits = 2 ^ 28
<1>1. /\ ByteBits - 1 = 7 /\ ByteBits - 2 = 6
      /\ 2 * ByteBits = 16 /\ 2 * ByteBits - 2 = 14
  BY DEF SourceWidths
<1> QED BY <1>1, Zenon DEF SourceWidths

\* A time of 60 bits is put together from the lower 32 and the upper 28.
LEMMA TimeSplits ==
  ASSUME NEW t \in Nat, t < 2 ^ 32 * 2 ^ 28
  PROVE  /\ t % (2 ^ 32) \in Nat /\ t \div 2 ^ 32 \in Nat /\ t \div 2 ^ 32 < 2 ^ 28
         /\ (t % (2 ^ 32)) + 2 ^ 32 * (t \div 2 ^ 32) = t
<1>1. /\ t % (2 ^ 32) \in Nat /\ t \div 2 ^ 32 \in Nat
      /\ (t % (2 ^ 32)) + 2 ^ 32 * (t \div 2 ^ 32) = t
  OBVIOUS
<1>2. t \div 2 ^ 32 < 2 ^ 28
  BY SMT
<1> QED BY <1>1, <1>2

\* The version above the upper bits of the time leaves them readable.
LEMMA VersionField ==
  ASSUME NEW h \in Nat, h < 2 ^ 28
  PROVE  /\ 1 * 2 ^ 28 + (h % (2 ^ 28)) \in Nat
         /\ (1 * 2 ^ 28 + (h % (2 ^ 28))) \div 2 ^ 28 = 1
         /\ (1 * 2 ^ 28 + (h % (2 ^ 28))) % (2 ^ 28) = h
OBVIOUS

\* The remainder by 2^14 of a multiple and a rest.
LEMMA Remainder14 ==
  ASSUME NEW c \in Nat, NEW r \in 0 .. 2 ^ 14 - 1
  PROVE  (2 ^ 14 * c + r) % (2 ^ 14) = r
OBVIOUS

\* The variant takes the two upper bits of the sequence; fourteen are left.
LEMMA VariantField ==
  ASSUME NEW q \in 0 .. 2 ^ 16 - 1
  PROVE  /\ 2 ^ 7 + ((q \div 2 ^ 8) % (2 ^ 6)) \in Nat
         /\ (2 ^ 7 + ((q \div 2 ^ 8) % (2 ^ 6))) \div 2 ^ 6 = 2
         /\ 2 ^ 8 * ((2 ^ 7 + ((q \div 2 ^ 8) % (2 ^ 6))) % (2 ^ 6)) + (q % (2 ^ 8)) = q % (2 ^ 14)
<1>1. PICK a \in 0 .. 255, b \in 0 .. 255 : a = q \div 2 ^ 8 /\ b = q % (2 ^ 8) /\ q = 256 * a + b
  <2>1. q \div 2 ^ 8 \in 0 .. 255 /\ q % (2 ^ 8) \in 0 .. 255
    OBVIOUS
  <2>2. q = 256 * (q \div 2 ^ 8) + (q % (2 ^ 8))
    OBVIOUS
  <2> QED BY <2>1, <2>2, ZenonT(60)
<1>2. PICK c \in 0 .. 3, d \in 0 .. 63 : d = a % (2 ^ 6) /\ a = 64 * c + d
  OBVIOUS
<1>3. PICK r \in 0 .. 2 ^ 14 - 1 : r = 256 * d + b
  OBVIOUS
<1>4. q = 2 ^ 14 * c + r /\ c \in Nat
  BY <1>1, <1>2, <1>3
<1>5. q % (2 ^ 14) = r
  BY <1>4, Remainder14
<1>6. (2 ^ 7 + d) \in Nat /\ (2 ^ 7 + d) \div 2 ^ 6 = 2 /\ (2 ^ 7 + d) % (2 ^ 6) = d
  OBVIOUS
<1>7. (q \div 2 ^ 8) % (2 ^ 6) = d
  BY <1>1, <1>2
<1>8. 2 ^ 8 * ((2 ^ 7 + d) % (2 ^ 6)) + (q % (2 ^ 8)) = r
  BY <1>1, <1>3, <1>6
<1> QED BY <1>5, <1>6, <1>7, <1>8

\* What an identifier tells: its time, and its sequence but for the two bits that the
\* variant took.
TimeOf(u) == u.low + 2 ^ 32 * (u.high % (2 ^ 28))
SequenceOf(u) == 2 ^ 8 * (u.seqHi % (2 ^ 6)) + u.seqLow

Layouts == [low : Nat, high : Nat, seqHi : Nat, seqLow : Nat]

\* Version and variant replace bits of one number each.
LEMMA VersionSet ==
  ASSUME SourceWidths, NEW l, NEW h, NEW a, NEW b
  PROVE  Uuids!SetVersion([low |-> l, high |-> h, seqHi |-> a, seqLow |-> b], 1)
           = [low |-> l, high |-> 1 * 2 ^ 28 + (h % (2 ^ 28)), seqHi |-> a, seqLow |-> b]
<1>1. Uuids!SetVersion([low |-> l, high |-> h, seqHi |-> a, seqLow |-> b], 1)
        = [low |-> l, high |-> 1 * 2 ^ HighBits + (h % (2 ^ HighBits)), seqHi |-> a, seqLow |-> b]
  BY DEF Uuids!SetVersion
<1> QED BY <1>1, Widths, Zenon

\* The variant replaces the upper number of the sequence.
LEMMA VariantSet ==
  ASSUME SourceWidths, NEW l, NEW h, NEW a, NEW b, NEW c, c = 2 ^ 7 + (a % (2 ^ 6))
  PROVE  Uuids!SetVariant([low |-> l, high |-> h, seqHi |-> a, seqLow |-> b])
           = [low |-> l, high |-> h, seqHi |-> c, seqLow |-> b]
<1>1. Uuids!SetVariant([low |-> l, high |-> h, seqHi |-> a, seqLow |-> b])
        = [low |-> l, high |-> h, seqHi |-> 2 ^ (ByteBits - 1) + (a % (2 ^ (ByteBits - 2))),
           seqLow |-> b]
  BY DEF Uuids!SetVariant
<1> QED BY <1>1, Widths, Zenon

\* Version 1 of RFC 4122, from which time and sequence can be read again.
LEMMA NewV1Tells ==
  ASSUME SourceWidths, NEW t \in Nat, t < 2 ^ 32 * 2 ^ 28, NEW q \in 0 .. 2 ^ 16 - 1
  PROVE  /\ Uuids!NewV1(t, q) \in Layouts
         /\ Uuids!Version(Uuids!NewV1(t, q)) = 1 /\ Uuids!IsRFC4122(Uuids!NewV1(t, q))
         /\ TimeOf(Uuids!NewV1(t, q)) = t /\ SequenceOf(Uuids!NewV1(t, q)) = q % (2 ^ 14)
<1>1. PICK l \in Nat, h \in Nat :
        l = t % (2 ^ 32) /\ h = t \div 2 ^ 32 /\ h < 2 ^ 28 /\ l + 2 ^ 32 * h = t
  BY TimeSplits
<1>2. PICK high \in Nat :
        high = 1 * 2 ^ 28 + (h % (2 ^ 28)) /\ high \div 2 ^ 28 = 1 /\ high % (2 ^ 28) = h
  BY <1>1, VersionField
<1>3. PICK seqHi \in Nat :
        /\ seqHi = 2 ^ 7 + ((q \div 2 ^ 8) % (2 ^ 6)) /\ seqHi \div 2 ^ 6 = 2
        /\ 2 ^ 8 * (seqHi % (2 ^ 6)) + (q % (2 ^ 8)) = q % (2 ^ 14)
  BY VariantField
<1>4. PICK seqLow \in Nat : seqLow = q % (2 ^ 8)
  OBVIOUS
<1> DEFINE u == [low |-> l, high |-> high, seqHi |-> seqHi, seqLow |-> seqLow]
<1>5. u \in Layouts /\ u.low = l /\ u.high = high /\ u.seqHi = seqHi /\ u.seqLow = seqLow
  BY DEF Layouts
<1>6. Uuids!NewV1(t, q) = u
  <2>1. Uuids!NewV1(t, q) =
          Uuids!SetVariant(Uuids!SetVersion([low |-> l, high |-> h, seqHi |-> q \div 2 ^ 8,
                                             seqLow |-> seqLow], 1))
    BY <1>1, <1>4, Widths, Zenon DEF Uuids!NewV1
  <2>2. Uuids!SetVersion([low |-> l, high |-> h, seqHi |-> q \div 2 ^ 8, seqLow |-> seqLow], 1)
          = [low |-> l, high |-> high, seqHi |-> q \div 2 ^ 8, seqLow |-> seqLow]
    BY <1>2, VersionSet, Zenon
  <2>3. Uuids!SetVariant([low |-> l, high |-> high, seqHi |-> q \div 2 ^ 8, seqLow |-> seqLow]) = u
    BY <1>3, VariantSet
  <2> QED BY <2>1, <2>2, <2>3, Zenon
<1> HIDE DEF u
<1>7. Uuids!Version(u) = 1 /\ Uuids!IsRFC4122(u)
  BY <1>2, <1>3, <1>5, Widths, Zenon DEF Uuids!Version, Uuids!IsRFC4122
<1>8. TimeOf(u) = t /\ SequenceOf(u) = q % (2 ^ 14)
  BY <1>1, <1>2, <1>3, <1>4, <1>5 DEF TimeOf, SequenceOf
<1> QED BY <1>5, <1>6, <1>7, <1>8
-----------------------------------------------------------------------------
(* Identifiers: the goroutines. *)

UuidAssumption == UuidParameters /\ SourceWidths

Times == 1 .. MaxTime
Moves == 0 .. MaxBumps
Making == [at : {"make"}, time : Times, seq : 0 .. 2 ^ 16 - 1, bumps : Moves]
MakerStates == {Uuids!Idle} \cup [at : {"readClock"}] \cup [at : {"compare", "store"}, time : Times]
                 \cup Making

UuidTypes ==
  /\ clock \in Times /\ lastTime \in 0 .. MaxTime /\ clockSequence \in 0 .. 2 ^ 16 - 1
  /\ mutex \in Goroutines \cup {Nobody}
  /\ maker \in [Goroutines -> MakerStates]
  /\ bumps \in Moves
  /\ issued \in SUBSET [uuid : Layouts, bumps : Moves]
  /\ \A i \in issued : Uuids!Version(i.uuid) = 1 /\ Uuids!IsRFC4122(i.uuid)
  /\ repeats \in SUBSET Moves

\* Who reads and writes the storage holds the mutex.
Locked == \A g \in Goroutines : maker[g].at \in {"readClock", "compare", "store"} => mutex = g

\* The sequences follow the moves from where they started.
Counted(s) ==
  /\ clockSequence = (s + bumps) % (2 ^ 16)
  /\ \A g \in Goroutines :
       maker[g].at = "make" => maker[g].seq = (s + maker[g].bumps) % (2 ^ 16)
  /\ \A i \in issued : SequenceOf(i.uuid) = (s + i.bumps) % (2 ^ 14)

\* With the sequence where it is, times go up: what was made before is not later than
\* the last time, and earlier than what a goroutine is about to store.
Earlier(t, b) ==
  /\ b <= bumps /\ (b = bumps => t <= lastTime)
  /\ \A g \in Goroutines : maker[g].at = "store" /\ b = bumps => t < maker[g].time
Ordered ==
  /\ \A g \in Goroutines : maker[g].at = "make" => Earlier(maker[g].time, maker[g].bumps)
  /\ \A i \in issued : Earlier(TimeOf(i.uuid), i.bumps)

\* Hence no two results of getStorage have the same time and sequence.
Different ==
  /\ \A g, h \in Goroutines :
       g # h /\ maker[g].at = "make" /\ maker[h].at = "make" /\ maker[g].bumps = maker[h].bumps
         => maker[g].time # maker[h].time
  /\ \A g \in Goroutines, i \in issued :
       maker[g].at = "make" /\ maker[g].bumps = i.bumps => maker[g].time # TimeOf(i.uuid)

UuidInv == Locked /\ Ordered /\ Different

\* Where a goroutine is tells which fields it has.
LEMMA MakerFacts ==
  ASSUME NEW s \in MakerStates
  PROVE  /\ s.at \in {"idle", "readClock", "compare", "store", "make"}
         /\ s.at \in {"compare", "store", "make"} => s.time \in Times
         /\ s.at = "make" => s.seq \in 0 .. 2 ^ 16 - 1 /\ s.bumps \in Moves
         /\ s.at = "compare" => [s EXCEPT !.at = "store"] \in MakerStates
                                /\ [s EXCEPT !.at = "store"].at = "store"
                                /\ [s EXCEPT !.at = "store"].time = s.time
<1>1. CASE s \in {Uuids!Idle} \cup [at : {"readClock"}]
  BY <1>1 DEF Uuids!Idle
<1>2. CASE s \in [at : {"compare", "store"}, time : Times]
  <2>1. [s EXCEPT !.at = "store"] \in [at : {"compare", "store"}, time : Times]
    BY <1>2
  <2>2. [s EXCEPT !.at = "store"].at = "store" /\ [s EXCEPT !.at = "store"].time = s.time
    BY <1>2
  <2>3. [s EXCEPT !.at = "store"] \in MakerStates
    BY <2>1 DEF MakerStates
  <2>4. s.at \in {"compare", "store"} /\ s.time \in Times
    BY <1>2
  <2> QED BY <2>2, <2>3, <2>4
<1>3. CASE s \in Making
  <2>1. /\ s.at = "make" /\ s.time \in Times /\ s.seq \in 0 .. 2 ^ 16 - 1
        /\ s.bumps \in Moves
    BY <1>3, ZenonT(60) DEF Making
  <2> QED BY <2>1
<1> QED BY <1>1, <1>2, <1>3 DEF MakerStates

\* The states that getStorage leads through.
LEMMA MakerStatesExist ==
  /\ Uuids!Idle \in MakerStates /\ [at |-> "readClock"] \in MakerStates
  /\ \A t \in Times : [at |-> "compare", time |-> t] \in MakerStates
  /\ \A t \in Times, q \in 0 .. 2 ^ 16 - 1, b \in Moves :
       [at |-> "make", time |-> t, seq |-> q, bumps |-> b] \in MakerStates
BY Zenon DEF MakerStates, Making

\* The operating system sets the clock, and goroutines read it and take the mutex:
\* nothing is made.
LEMMA ClockKeeps ==
  ASSUME UuidAssumption, UuidTypes, UuidInv, NEW s \in Nat, Counted(s),
         \/ Uuids!SetClock
         \/ \E g \in Goroutines : Uuids!Lock(g) \/ Uuids!ReadClock(g)
  PROVE  UuidTypes' /\ UuidInv' /\ Counted(s)'
<1>1. CASE Uuids!SetClock
  BY <1>1 DEF Uuids!SetClock, UuidTypes, UuidInv, Locked, Ordered, Earlier, Different, Counted, Times
<1>2. ASSUME NEW g \in Goroutines, Uuids!Lock(g) \/ Uuids!ReadClock(g)
      PROVE  UuidTypes' /\ UuidInv' /\ Counted(s)'
  <2>1. /\ UNCHANGED <<clock, clockSequence, lastTime, bumps, issued, repeats>>
        /\ \A h \in Goroutines \ {g} : maker'[h] = maker[h]
        /\ maker'[g] \in MakerStates /\ maker'[g].at \in {"readClock", "compare"}
        /\ maker' \in [Goroutines -> MakerStates]
        /\ mutex' = g
    <3>1. CASE Uuids!Lock(g)
      BY <3>1, MakerStatesExist, Zenon DEF Uuids!Lock, UuidTypes
    <3>2. CASE Uuids!ReadClock(g)
      <4>1. mutex = g
        BY <3>2 DEF Uuids!ReadClock, UuidInv, Locked
      <4>2. PICK v \in MakerStates : v = [at |-> "compare", time |-> clock] /\ v.at = "compare"
        BY MakerStatesExist, Zenon DEF UuidTypes
      <4>3. maker' = [maker EXCEPT ![g] = v]
        BY <3>2, <4>2 DEF Uuids!ReadClock
      <4> QED BY <3>2, <4>1, <4>2, <4>3 DEF Uuids!ReadClock, UuidTypes
    <3> QED BY <1>2, <3>1, <3>2
  <2>2. \A h \in Goroutines : maker'[h].at \in {"store", "make"} => maker'[h] = maker[h]
    BY <2>1
  <2>3. mutex \in {Nobody, g}
    BY <1>2 DEF Uuids!Lock, Uuids!ReadClock, UuidInv, Locked
  <2>4. UuidTypes'
    BY <2>1 DEF UuidTypes
  <2>5. Locked'
    BY <2>1, <2>3 DEF UuidAssumption, UuidParameters, UuidInv, Locked
  <2>6. Counted(s)'
    BY <2>1, <2>2 DEF Counted
  <2>7. Ordered' /\ Different'
    BY <2>1, <2>2 DEF UuidInv, Ordered, Different, Earlier
  <2> QED BY <2>4, <2>5, <2>6, <2>7 DEF UuidInv
<1> QED BY <1>1, <1>2
\* Remainders of the sequence: of one move, of the lower bits, and of a difference.
LEMMA SequenceRemainders ==
  ASSUME NEW x \in Nat, NEW y \in Nat
  PROVE  /\ x % (2 ^ 16) \in 0 .. 2 ^ 16 - 1
         /\ ((x % (2 ^ 16)) + 1) % (2 ^ 16) = (x + 1) % (2 ^ 16)
         /\ (x % (2 ^ 16)) % (2 ^ 16) = x % (2 ^ 16)
         /\ (x % (2 ^ 16)) % (2 ^ 14) = x % (2 ^ 14)
         /\ x % (2 ^ 14) = y % (2 ^ 14) => (x - y) % (2 ^ 14) = 0
<1>1. x % (2 ^ 16) \in 0 .. 2 ^ 16 - 1
  OBVIOUS
<1>2. ((x % (2 ^ 16)) + 1) % (2 ^ 16) = (x + 1) % (2 ^ 16)
  OBVIOUS
<1>3. (x % (2 ^ 16)) % (2 ^ 16) = x % (2 ^ 16) /\ (x % (2 ^ 16)) % (2 ^ 14) = x % (2 ^ 14)
  OBVIOUS
<1>4. x % (2 ^ 14) = y % (2 ^ 14) => (x - y) % (2 ^ 14) = 0
  OBVIOUS
<1> QED BY <1>1, <1>2, <1>3, <1>4

\* The numbers in play.
LEMMA UuidNumbers ==
  ASSUME UuidAssumption
  PROVE  /\ \A t \in Times : t \in Nat /\ t \in 0 .. MaxTime /\ t < 2 ^ 32 * 2 ^ 28
         /\ \A t \in 0 .. MaxTime : t \in Nat
         /\ \A b : b \in Moves <=> b \in Nat /\ b <= MaxBumps
         /\ \A u \in Layouts : TimeOf(u) \in Nat
<1>1. ASSUME NEW u \in Layouts PROVE TimeOf(u) \in Nat
  <2>1. PICK l \in Nat, h \in Nat : l = u.low /\ h = u.high
    BY DEF Layouts
  <2>2. l + 2 ^ 32 * (h % (2 ^ 28)) \in Nat
    OBVIOUS
  <2> QED BY <2>1, <2>2 DEF TimeOf
<1>2. MaxTime \in Nat /\ MaxBumps \in Nat /\ MaxTime < 2 ^ 32 * 2 ^ 28
  BY Widths, Zenon DEF UuidAssumption, UuidParameters
<1>3. ASSUME NEW t \in Times PROVE t \in Nat /\ t \in 0 .. MaxTime /\ t < 2 ^ 32 * 2 ^ 28
  <2>1. MaxTime \in Nat
    BY <1>2
  <2>2. t \in Nat /\ t \in 0 .. MaxTime /\ t <= MaxTime
    BY <2>1 DEF Times
  <2>3. ASSUME NEW n, n = 2 ^ 32 * 2 ^ 28 PROVE t < n
    <3>1. n \in Nat
      BY <2>3
    <3>2. MaxTime < n
      BY <1>2, <2>3, Zenon
    <3> QED BY <2>1, <2>2, <3>1, <3>2
  <2> QED BY <2>2, <2>3
<1>4. \A t \in 0 .. MaxTime : t \in Nat
  OBVIOUS
<1>5. ASSUME NEW b PROVE b \in Moves <=> b \in Nat /\ b <= MaxBumps
  <2>1. MaxBumps \in Nat
    BY <1>2
  <2> QED BY <2>1 DEF Moves
<1> QED BY <1>1, <1>3, <1>4, <1>5, Zenon

\* The sequence moves unless the clock went on: either nothing made before has as many
\* moves, or all of it that has them is earlier.
LEMMA CompareKeeps ==
  ASSUME UuidAssumption, UuidTypes, UuidInv, NEW s \in Nat, Counted(s),
         NEW g \in Goroutines, Uuids!Compare(g)
  PROVE  UuidTypes' /\ UuidInv' /\ Counted(s)'
<1>1. PICK v \in MakerStates : v = maker[g] /\ v.at = "compare" /\ v.time \in Times
  BY MakerFacts DEF Uuids!Compare, UuidTypes
<1>2. PICK moved \in {0, 1} :
        /\ moved = 0 <=> ~(v.time <= lastTime)
        /\ bumps + moved <= MaxBumps /\ bumps' = bumps + moved
        /\ clockSequence' = (clockSequence + moved) % (2 ^ 16)
  <2>1. CASE v.time <= lastTime
    <3>1. /\ bumps + 1 <= MaxBumps /\ bumps' = bumps + 1
          /\ clockSequence' = (clockSequence + 1) % (2 ^ (2 * ByteBits))
      BY <1>1, <2>1 DEF Uuids!Compare, Uuids!Moved
    <3>2. clockSequence' = (clockSequence + 1) % (2 ^ 16)
      BY <3>1, Widths, Zenon DEF UuidAssumption
    <3> QED BY <2>1, <3>1, <3>2
  <2>2. CASE ~(v.time <= lastTime)
    <3>1. /\ bumps + 0 <= MaxBumps /\ bumps' = bumps + 0
          /\ clockSequence' = (clockSequence + 0) % (2 ^ (2 * ByteBits))
      BY <1>1, <2>2 DEF Uuids!Compare, Uuids!Moved
    <3>2. clockSequence' = (clockSequence + 0) % (2 ^ 16)
      BY <3>1, Widths, Zenon DEF UuidAssumption
    <3> QED BY <2>2, <3>1, <3>2
  <2> QED BY <2>1, <2>2
<1>3. PICK w \in MakerStates : w = [v EXCEPT !.at = "store"] /\ w.at = "store" /\ w.time = v.time
  BY <1>1, MakerFacts
<1>4. maker' = [maker EXCEPT ![g] = w]
  BY <1>1, <1>3 DEF Uuids!Compare
<1>5. UNCHANGED <<clock, lastTime, mutex, issued, repeats>>
  BY DEF Uuids!Compare
<1>6. /\ maker'[g] = w /\ maker' \in [Goroutines -> MakerStates]
      /\ \A h \in Goroutines \ {g} : maker'[h] = maker[h]
  BY <1>4 DEF UuidTypes
<1>7. mutex = g /\ \A h \in Goroutines \ {g} : maker[h].at # "store"
  BY <1>1 DEF UuidInv, Locked
<1>8. bumps \in Nat /\ lastTime \in Nat /\ v.time \in Nat /\ bumps' \in Moves
  <2>1. bumps \in Nat /\ lastTime \in Nat /\ v.time \in Nat
    BY <1>1, UuidNumbers, Zenon DEF UuidTypes
  <2>2. bumps' \in Nat /\ bumps' <= MaxBumps
    BY <1>2, <2>1
  <2> QED BY <2>1, <2>2, UuidNumbers, Zenon
<1>9. clockSequence' \in 0 .. 2 ^ 16 - 1 /\ clockSequence' = (s + bumps') % (2 ^ 16)
  <2>1. PICK n \in Nat : n = s + bumps
    BY <1>8
  <2>2. clockSequence = n % (2 ^ 16) /\ clockSequence \in Nat
    BY <2>1 DEF Counted, UuidTypes
  <2>3. CASE moved = 0
    BY <1>2, <1>8, <2>1, <2>2, <2>3, SequenceRemainders
  <2>4. CASE moved = 1
    <3>1. s + bumps' = n + 1 /\ n + 1 \in Nat
      BY <1>2, <1>8, <2>1, <2>4
    <3> QED BY <1>2, <2>2, <2>4, <3>1, SequenceRemainders
  <2> QED BY <2>3, <2>4
<1>10. UuidTypes'
  BY <1>5, <1>6, <1>8, <1>9 DEF UuidTypes
<1>11. \A h \in Goroutines : maker'[h].at = "make" => maker'[h] = maker[h]
  BY <1>3, <1>6
<1>12. Counted(s)'
  BY <1>5, <1>9, <1>11 DEF Counted
<1>13. Locked'
  BY <1>3, <1>5, <1>6, <1>7 DEF UuidInv, Locked
<1>14. ASSUME NEW t \in Nat, NEW b \in Nat, Earlier(t, b) PROVE Earlier(t, b)'
  <2>1. b <= bumps /\ (b = bumps => t <= lastTime)
    BY <1>14 DEF Earlier
  <2>2. b <= bumps' /\ (b = bumps' => b = bumps /\ moved = 0)
    BY <1>2, <1>8, <2>1
  <2>3. b = bumps' => t <= lastTime /\ t < v.time
    BY <1>2, <1>8, <2>1, <2>2
  <2> QED BY <1>3, <1>5, <1>6, <1>7, <2>2, <2>3 DEF Earlier
<1>15. Ordered'
  <2>1. ASSUME NEW h \in Goroutines, maker'[h].at = "make"
        PROVE  Earlier(maker[h].time, maker[h].bumps)'
    <3>1. PICK x \in MakerStates : x = maker[h] /\ x = maker'[h] /\ x.at = "make"
      BY <1>11, <2>1 DEF UuidTypes
    <3>2. Earlier(x.time, x.bumps)
      BY <3>1 DEF UuidInv, Ordered
    <3>3. x.time \in Times /\ x.bumps \in Moves
      BY <3>1, MakerFacts
    <3>4. x.time \in Nat /\ x.bumps \in Nat
      BY <3>3, UuidNumbers, Zenon
    <3>5. Earlier(x.time, x.bumps)'
      BY <1>14, <3>2, <3>4
    <3> QED BY <3>1, <3>5 DEF Earlier
  <2>2. ASSUME NEW i \in issued PROVE Earlier(TimeOf(i.uuid), i.bumps)'
    <3>1. Earlier(TimeOf(i.uuid), i.bumps) /\ TimeOf(i.uuid) \in Nat /\ i.bumps \in Nat
      BY UuidNumbers DEF UuidInv, Ordered, UuidTypes
    <3> QED BY <1>14, <3>1
  <2> QED BY <1>5, <2>1, <2>2 DEF Ordered
<1>16. Different'
  BY <1>5, <1>11 DEF UuidInv, Different
<1> QED BY <1>10, <1>12, <1>13, <1>15, <1>16 DEF UuidInv

\* What getStorage returns is later than all that was made with as many moves.
LEMMA StoreKeeps ==
  ASSUME UuidAssumption, UuidTypes, UuidInv, NEW s \in Nat, Counted(s),
         NEW g \in Goroutines, Uuids!Store(g)
  PROVE  UuidTypes' /\ UuidInv' /\ Counted(s)'
<1>1. PICK v \in MakerStates : v = maker[g] /\ v.at = "store" /\ v.time \in Times
  BY MakerFacts, Zenon DEF Uuids!Store, UuidTypes
<1>2. PICK w \in MakerStates :
        /\ w = [at |-> "make", time |-> v.time, seq |-> clockSequence, bumps |-> bumps]
        /\ w.at = "make" /\ w.time = v.time /\ w.seq = clockSequence /\ w.bumps = bumps
  BY <1>1, MakerStatesExist, Zenon DEF UuidTypes
<1>3. /\ maker' = [maker EXCEPT ![g] = w] /\ lastTime' = v.time /\ mutex' = Nobody
      /\ UNCHANGED <<clock, clockSequence, bumps, issued, repeats>>
  BY <1>1, <1>2 DEF Uuids!Store, UuidTypes
<1>4. /\ maker'[g] = w /\ maker' \in [Goroutines -> MakerStates]
      /\ \A h \in Goroutines \ {g} : maker'[h] = maker[h]
  BY <1>3 DEF UuidTypes
<1>5. \A h \in Goroutines : maker'[h].at \notin {"readClock", "compare", "store"}
  <2>1. \A h \in Goroutines \ {g} : maker[h].at \notin {"readClock", "compare", "store"}
    BY <1>1 DEF UuidInv, Locked
  <2> QED BY <1>2, <1>4, <2>1
<1>6. bumps \in Nat /\ v.time \in Nat /\ v.time \in 0 .. MaxTime
  BY <1>1, UuidNumbers, Zenon DEF UuidTypes
<1>7. UuidTypes'
  BY <1>3, <1>4, <1>6 DEF UuidTypes
<1>8. Locked'
  BY <1>5 DEF Locked
<1>9. Counted(s)'
  BY <1>2, <1>3, <1>4 DEF Counted
<1>10. ASSUME NEW t \in Nat, NEW b \in Nat, Earlier(t, b)
       PROVE  Earlier(t, b)' /\ (b = bumps => t < v.time)
  <2>1. b <= bumps /\ (b = bumps => t < v.time)
    BY <1>1, <1>10 DEF Earlier
  <2>2. b = bumps => t <= lastTime'
    BY <1>3, <1>6, <2>1
  <2> QED BY <1>3, <1>5, <2>1, <2>2 DEF Earlier
<1>11. Earlier(v.time, bumps)'
  BY <1>3, <1>5, <1>6 DEF Earlier
<1>12. ASSUME NEW h \in Goroutines \ {g}, maker'[h].at = "make"
       PROVE  /\ Earlier(maker[h].time, maker[h].bumps)'
              /\ maker'[h].bumps = bumps => maker'[h].time # v.time
  <2>1. PICK x \in MakerStates : x = maker[h] /\ x = maker'[h] /\ x.at = "make"
    BY <1>4, <1>12 DEF UuidTypes
  <2>2. Earlier(x.time, x.bumps) /\ x.time \in Nat /\ x.bumps \in Nat
    BY <2>1, MakerFacts, UuidNumbers, ZenonT(60) DEF UuidInv, Ordered
  <2>3. Earlier(x.time, x.bumps)' /\ (x.bumps = bumps => x.time < v.time)
    BY <1>10, <2>2
  <2>4. x.bumps = bumps => x.time # v.time
    BY <1>6, <2>2, <2>3
  <2> QED BY <2>1, <2>3, <2>4 DEF Earlier
<1>13. ASSUME NEW i \in issued
       PROVE  /\ Earlier(TimeOf(i.uuid), i.bumps)'
              /\ i.bumps = bumps => TimeOf(i.uuid) # v.time
  <2>1. Earlier(TimeOf(i.uuid), i.bumps) /\ TimeOf(i.uuid) \in Nat /\ i.bumps \in Nat
    BY UuidNumbers DEF UuidInv, Ordered, UuidTypes
  <2>2. Earlier(TimeOf(i.uuid), i.bumps)' /\ (i.bumps = bumps => TimeOf(i.uuid) < v.time)
    BY <1>10, <2>1
  <2> QED BY <1>6, <2>1, <2>2
<1>14. Ordered'
  <2>1. Earlier(maker[g].time, maker[g].bumps)'
    BY <1>2, <1>3, <1>4, <1>11 DEF Earlier
  <2> QED BY <1>3, <1>12, <1>13, <2>1 DEF Ordered
<1>15. Different'
  <2>1. ASSUME NEW h \in Goroutines, NEW k \in Goroutines, h # k, maker'[h].at = "make",
               maker'[k].at = "make", maker'[h].bumps = maker'[k].bumps
        PROVE  maker'[h].time # maker'[k].time
    <3>1. CASE h = g \/ k = g
      BY <1>2, <1>4, <1>12, <2>1, <3>1
    <3>2. CASE h # g /\ k # g
      BY <1>4, <2>1, <3>2 DEF UuidInv, Different
    <3> QED BY <3>1, <3>2
  <2>2. ASSUME NEW h \in Goroutines, NEW i \in issued, maker'[h].at = "make",
               maker'[h].bumps = i.bumps
        PROVE  maker'[h].time # TimeOf(i.uuid)
    <3>1. CASE h = g
      BY <1>2, <1>4, <1>13, <2>2, <3>1
    <3>2. CASE h # g
      BY <1>4, <2>2, <3>2 DEF UuidInv, Different
    <3> QED BY <3>1, <3>2
  <2> QED BY <1>3, <2>1, <2>2 DEF Different
<1> QED BY <1>7, <1>8, <1>9, <1>14, <1>15 DEF UuidInv
\* Two equal identifiers have the same time, so the clock sequence was moved between
\* them; and the same fourteen bits of it, so a multiple of 2^14 times.
LEMMA MakeKeeps ==
  ASSUME UuidAssumption, UuidTypes, UuidInv, NEW s \in Nat, Counted(s), Uuids!NoEarlyRepeat,
         NEW g \in Goroutines, Uuids!Make(g)
  PROVE  UuidTypes' /\ UuidInv' /\ Counted(s)' /\ Uuids!NoEarlyRepeat'
<1>1. PICK v \in MakerStates :
        /\ v = maker[g] /\ v.at = "make" /\ v.time \in Times
        /\ v.seq \in 0 .. 2 ^ 16 - 1 /\ v.bumps \in Moves
  BY MakerFacts DEF Uuids!Make, UuidTypes
<1>2. PICK u \in Layouts :
        /\ u = Uuids!NewV1(v.time, v.seq)
        /\ Uuids!Version(u) = 1 /\ Uuids!IsRFC4122(u)
        /\ TimeOf(u) = v.time /\ SequenceOf(u) = v.seq % (2 ^ 14)
  <2>1. v.time \in Nat /\ v.time < 2 ^ 32 * 2 ^ 28
    BY <1>1, UuidNumbers, Zenon
  <2> QED BY <1>1, <2>1, NewV1Tells, Zenon DEF UuidAssumption
<1> DEFINE new == [uuid |-> u, bumps |-> v.bumps]
<1>3. new \in [uuid : Layouts, bumps : Moves] /\ new.uuid = u /\ new.bumps = v.bumps
  BY <1>1
<1> DEFINE Twins == {j \in issued : j.uuid = u}
<1>4. /\ issued' = issued \cup {new}
      /\ repeats' = repeats \cup {Uuids!Distance(v.bumps, i.bumps) : i \in Twins}
      /\ maker' = [maker EXCEPT ![g] = Uuids!Idle]
      /\ UNCHANGED <<clock, clockSequence, lastTime, mutex, bumps>>
  BY <1>1, <1>2, Zenon DEF Uuids!Make
<1> HIDE DEF new
<1>5. /\ maker'[g].at = "idle" /\ maker' \in [Goroutines -> MakerStates]
      /\ \A h \in Goroutines \ {g} : maker'[h] = maker[h]
  BY <1>4, MakerStatesExist, Zenon DEF UuidTypes, Uuids!Idle
<1>6. \A h \in Goroutines : maker'[h].at # "idle" => h # g /\ maker'[h] = maker[h]
  BY <1>5
<1>7. SequenceOf(u) = (s + v.bumps) % (2 ^ 14) /\ v.bumps \in Nat
  <2>1. v.bumps \in Nat
    BY <1>1, UuidNumbers, Zenon
  <2>2. PICK n \in Nat : n = s + v.bumps
    BY <2>1
  <2>3. v.seq = n % (2 ^ 16)
    BY <1>1, <2>2, Zenon DEF Counted
  <2> QED BY <1>2, <2>1, <2>2, <2>3, SequenceRemainders, Zenon
<1>8. ASSUME NEW i \in Twins
      PROVE  /\ Uuids!Distance(v.bumps, i.bumps) \in Moves
             /\ Uuids!Distance(v.bumps, i.bumps) > 0
             /\ Uuids!Distance(v.bumps, i.bumps) % (2 ^ 14) = 0
  <2>1. i \in issued /\ i.uuid = u /\ i.bumps \in Moves
    BY DEF UuidTypes
  <2>2. PICK c \in Nat, d \in Nat : c = v.bumps /\ d = i.bumps /\ c <= MaxBumps /\ d <= MaxBumps
    BY <1>1, <2>1, UuidNumbers, Zenon
  <2>3. c # d
    BY <1>1, <1>2, <2>1, <2>2, Zenon DEF UuidInv, Different
  <2>4. (s + c) % (2 ^ 14) = (s + d) % (2 ^ 14)
    BY <1>7, <2>1, <2>2, Zenon DEF Counted
  <2>5. PICK x \in Nat, y \in Nat : x = s + c /\ y = s + d
    OBVIOUS
  <2>6. (x - y) % (2 ^ 14) = 0 /\ (y - x) % (2 ^ 14) = 0
    BY <2>4, <2>5, SequenceRemainders, Zenon
  <2>7. x - y = c - d /\ y - x = d - c
    BY <2>5
  <2>8. (c - d) % (2 ^ 14) = 0 /\ (d - c) % (2 ^ 14) = 0
    BY <2>6, <2>7, Zenon
  <2>9. PICK n \in Int : n = Uuids!Distance(c, d) /\ n \in {c - d, d - c} /\ n > 0
    <3>1. CASE c < d
      <4>1. Uuids!Distance(c, d) = d - c
        BY <3>1 DEF Uuids!Distance
      <4>2. d - c \in Int /\ d - c > 0
        BY <3>1
      <4> QED BY <4>1, <4>2
    <3>2. CASE ~(c < d)
      <4>1. Uuids!Distance(c, d) = c - d
        BY <3>2 DEF Uuids!Distance
      <4>2. c - d \in Int /\ c - d > 0
        BY <2>3, <3>2
      <4> QED BY <4>1, <4>2
    <3> QED BY <3>1, <3>2
  <2>10. n \in Nat /\ n <= MaxBumps
    <3>1. MaxBumps \in Nat
      BY Zenon DEF UuidAssumption, UuidParameters
    <3> QED BY <2>2, <2>9, <3>1
  <2>11. n % (2 ^ 14) = 0
    BY <2>8, <2>9
  <2>12. n \in Moves
    BY <2>10, UuidNumbers, Zenon
  <2> QED BY <2>2, <2>9, <2>11, <2>12
<1>9. \A n \in repeats' : n \in Moves /\ (n \in repeats \/ (n > 0 /\ n % (2 ^ 14) = 0))
  BY <1>4, <1>8, Zenon DEF UuidTypes
<1> HIDE DEF Twins
<1>10. UuidTypes'
  <2>1. repeats' \in SUBSET Moves
    BY <1>9, Zenon
  <2>2. \A i \in issued' : Uuids!Version(i.uuid) = 1 /\ Uuids!IsRFC4122(i.uuid)
    BY <1>2, <1>3, <1>4, Zenon DEF UuidTypes
  <2>3. issued' \in SUBSET [uuid : Layouts, bumps : Moves]
    BY <1>3, <1>4, Zenon DEF UuidTypes
  <2> QED BY <1>4, <1>5, <2>1, <2>2, <2>3, Zenon DEF UuidTypes
<1>11. Uuids!NoEarlyRepeat'
  <2>1. \A n \in repeats : n > 0 /\ n % (2 ^ 14) = 0
    BY Widths, Zenon DEF UuidAssumption, Uuids!NoEarlyRepeat
  <2>2. \A n \in repeats' : n > 0 /\ n % (2 ^ 14) = 0
    BY <1>9, <2>1, Zenon
  <2> QED BY <2>2, Widths, Zenon DEF UuidAssumption, Uuids!NoEarlyRepeat
<1>12. Counted(s)'
  <2>1. \A h \in Goroutines :
          maker'[h].at = "make" => maker'[h].seq = (s + maker'[h].bumps) % (2 ^ 16)
    BY <1>6, Zenon DEF Counted
  <2>2. \A i \in issued' : SequenceOf(i.uuid) = (s + i.bumps) % (2 ^ 14)
    BY <1>3, <1>4, <1>7, Zenon DEF Counted
  <2> QED BY <1>4, <2>1, <2>2, Zenon DEF Counted
<1>13. Locked'
  BY <1>4, <1>6 DEF UuidInv, Locked
<1>14. \A t, b : Earlier(t, b) => Earlier(t, b)'
  BY <1>4, <1>6 DEF Earlier
<1>15. Ordered'
  <2>1. ASSUME NEW h \in Goroutines, maker'[h].at = "make"
        PROVE  Earlier(maker[h].time, maker[h].bumps)'
    <3>1. maker'[h] = maker[h] /\ Earlier(maker[h].time, maker[h].bumps)
      BY <1>6, <2>1 DEF UuidInv, Ordered
    <3> QED BY <1>14, <3>1 DEF Earlier
  <2>2. ASSUME NEW i \in issued' PROVE Earlier(TimeOf(i.uuid), i.bumps)'
    <3>1. Earlier(TimeOf(i.uuid), i.bumps)
      <4>1. CASE i \in issued
        BY <4>1 DEF UuidInv, Ordered
      <4>2. CASE i = new
        <5>1. Earlier(v.time, v.bumps)
          BY <1>1 DEF UuidInv, Ordered
        <5> QED BY <1>2, <1>3, <4>2, <5>1
      <4> QED BY <1>4, <4>1, <4>2
    <3> QED BY <1>14, <3>1
  <2> QED BY <2>1, <2>2 DEF Ordered
<1>16. Different'
  <2>1. ASSUME NEW h \in Goroutines, NEW k \in Goroutines, h # k, maker'[h].at = "make",
               maker'[k].at = "make", maker'[h].bumps = maker'[k].bumps
        PROVE  maker'[h].time # maker'[k].time
    BY <1>6, <2>1 DEF UuidInv, Different
  <2>2. ASSUME NEW h \in Goroutines, NEW i \in issued', maker'[h].at = "make",
               maker'[h].bumps = i.bumps
        PROVE  maker'[h].time # TimeOf(i.uuid)
    <3>1. h # g /\ maker'[h] = maker[h]
      BY <1>6, <2>2
    <3>2. CASE i \in issued
      BY <2>2, <3>1, <3>2, Zenon DEF UuidInv, Different
    <3>3. CASE i = new
      BY <1>1, <1>2, <1>3, <2>2, <3>1, <3>3, Zenon DEF UuidInv, Different
    <3> QED BY <1>4, <3>2, <3>3
  <2> QED BY <2>1, <2>2 DEF Different
<1> QED BY <1>10, <1>11, <1>12, <1>13, <1>15, <1>16 DEF UuidInv

CountedFromStart == \E s \in Nat : Counted(s)
UuidIInv == UuidTypes /\ UuidInv /\ Uuids!NoEarlyRepeat /\ CountedFromStart

\* The clock sequence at the start counts with the moves for as long as the process
\* runs.
LEMMA UuidKept == ASSUME SourceWidths PROVE Spec => [](part = "uuid" => UuidIInv)
<1>0. UuidAssumption
  BY PackagesAssumption DEF UuidAssumption
<1>1. Uuids!Init => UuidIInv
  <2> SUFFICES ASSUME Uuids!Init PROVE UuidIInv
    OBVIOUS
  <2>1. clockSequence \in 0 .. 2 ^ 16 - 1 /\ clockSequence \in Nat
    <3>1. clockSequence \in 0 .. 2 ^ 16 - 1
      BY <1>0, Widths, Zenon DEF UuidAssumption, UuidParameters, Uuids!Init
    <3> QED BY <3>1
  <2>2. MaxTime \in Nat /\ MaxBumps \in Nat
    BY <1>0, Zenon DEF UuidAssumption, UuidParameters
  <2>3. lastTime \in 0 .. MaxTime /\ bumps \in Moves /\ bumps = 0 /\ clock \in Times
    BY <2>2 DEF Uuids!Init, Moves, Times
  <2>4. maker \in [Goroutines -> MakerStates] /\ \A g \in Goroutines : maker[g].at = "idle"
    BY MakerStatesExist, Zenon DEF Uuids!Init, Uuids!Idle
  <2>5. UuidTypes /\ UuidInv /\ Uuids!NoEarlyRepeat
    BY <2>1, <2>3, <2>4
       DEF Uuids!Init, UuidTypes, UuidInv, Locked, Ordered, Different, Uuids!NoEarlyRepeat
  <2>6. clockSequence = (clockSequence + bumps) % (2 ^ 16)
    BY <2>1, <2>3
  <2>7. Counted(clockSequence)
    BY <2>4, <2>6 DEF Uuids!Init, Counted
  <2> QED BY <2>1, <2>5, <2>7 DEF UuidIInv, CountedFromStart
<1>2. UuidIInv /\ [Uuids!Next]_(Uuids!vars) => UuidIInv'
  <2> SUFFICES ASSUME UuidIInv, [Uuids!Next]_(Uuids!vars) PROVE UuidIInv'
    OBVIOUS
  <2>1. PICK s \in Nat : Counted(s)
    BY DEF UuidIInv, CountedFromStart
  <2>2. \A g \in Goroutines : Uuids!Make(g) => UuidIInv'
    BY <1>0, <2>1, MakeKeeps DEF UuidIInv, CountedFromStart
  <2>3. /\ Uuids!SetClock => UNCHANGED repeats
        /\ \A g \in Goroutines :
             Uuids!Lock(g) \/ Uuids!ReadClock(g) \/ Uuids!Compare(g) \/ Uuids!Store(g)
               => UNCHANGED repeats
    BY DEF Uuids!SetClock, Uuids!Lock, Uuids!ReadClock, Uuids!Compare, Uuids!Store
  <2>4. UNCHANGED repeats => Uuids!NoEarlyRepeat'
    BY DEF UuidIInv, Uuids!NoEarlyRepeat
  <2>5. CASE Uuids!SetClock \/ \E g \in Goroutines : Uuids!Lock(g) \/ Uuids!ReadClock(g)
    BY <2>1, <2>3, <2>4, <2>5, <1>0, ClockKeeps DEF UuidIInv, CountedFromStart
  <2>6. \A g \in Goroutines : Uuids!Compare(g) => UuidIInv'
    BY <2>1, <2>3, <2>4, <1>0, CompareKeeps DEF UuidIInv, CountedFromStart
  <2>7. \A g \in Goroutines : Uuids!Store(g) => UuidIInv'
    BY <2>1, <2>3, <2>4, <1>0, StoreKeeps DEF UuidIInv, CountedFromStart
  <2>8. CASE UNCHANGED Uuids!vars
    <3>1. UuidTypes' /\ Uuids!NoEarlyRepeat' /\ Counted(s)'
      BY <2>1, <2>8 DEF Uuids!vars, UuidIInv, UuidTypes, Uuids!NoEarlyRepeat, Counted
    <3>2. UuidInv'
      BY <2>8 DEF Uuids!vars, UuidIInv, UuidInv, Locked, Ordered, Earlier, Different
    <3> QED BY <2>1, <3>1, <3>2 DEF UuidIInv, CountedFromStart
  <2> QED BY <2>2, <2>5, <2>6, <2>7, <2>8 DEF Uuids!Next
<1>3. Init /\ part = "uuid" => Uuids!Init
  BY OtherParts, Zenon DEF Init
<1>4. [Next]_vars /\ part' = "uuid" => part = "uuid" /\ [Uuids!Next]_(Uuids!vars)
  BY OtherParts, Zenon DEF Next, vars, uuidVars, Uuids!vars
<1>5. (part = "uuid" => UuidIInv) /\ [Next]_vars => (part = "uuid" => UuidIInv)'
  BY <1>2, <1>4, Zenon
<1> QED BY <1>1, <1>3, <1>5, PTL DEF Spec

\* The type invariant of the identifiers: each is of version 1 and of the variant of
\* RFC 4122.
THEOREM UuidTypeCorrect ==
  ASSUME SourceWidths PROVE Spec => [](part = "uuid" => Uuids!TypeOK)
<1>1. UuidTypes => Uuids!TypeOK
  <2> SUFFICES ASSUME UuidTypes PROVE Uuids!TypeOK
    OBVIOUS
  <2>1. \A g \in Goroutines : maker[g].at \in {"idle", "readClock", "compare", "store", "make"}
    BY MakerFacts, Zenon DEF UuidTypes
  <2>2. clockSequence \in Uuids!Sequences16
    BY Widths, Zenon DEF UuidTypes, Uuids!Sequences16
  <2> QED BY <2>1, <2>2 DEF UuidTypes, Uuids!TypeOK, Times, Moves
<1> QED BY <1>1, UuidKept, PTL DEF UuidIInv

\* Goroutines that share the storage make no identifier twice, however the clock is
\* set, before the clock sequence was moved a multiple of 2^14 times in between: NewV1
\* and getStorage of pkg/util/uuid.go.
THEOREM NoEarlyRepeats ==
  ASSUME SourceWidths PROVE Spec => []NoEarlyRepeat
BY UuidKept, PTL DEF UuidIInv, NoEarlyRepeat

-----------------------------------------------------------------------------
(* Decimals: integers, and decimals of any value and exponent. *)

\* The law of powers, which no backend knows for an exponent that varies.
PowersOfTen == \A n \in Nat : 10 ^ n \in Nat \ {0} /\ 10 ^ (n + 1) = 10 * 10 ^ n

\* An exponent has a sign bit.
ExponentBits == 2 ^ (ExpBits - 1) \in Nat \ {0} /\ 2 ^ ExpBits = 2 * 2 ^ (ExpBits - 1)

\* A multiple of u is one, and how many.
LEMMA Multiples ==
  ASSUME NEW k \in Int, NEW u \in Nat, u > 0
  PROVE  (k * u) % u = 0 /\ (k * u) \div u = k
<1>1. PICK q \in Int, r \in Int : /\ q = (k * u) \div u /\ r = (k * u) % u /\ 0 <= r /\ r < u
                                  /\ k * u = u * q + r
  OBVIOUS
<1>2. u * (k - q) = r
  BY <1>1
<1>3. PICK m \in Int : m = k - q
  OBVIOUS
<1>4. m = 0
  <2>1. CASE m >= 1
    <3>1. u * m >= u
      BY <2>1
    <3> QED BY <1>1, <1>2, <1>3, <3>1
  <2>2. CASE m <= -1
    <3>1. u * m <= -u
      BY <2>2
    <3> QED BY <1>1, <1>2, <1>3, <3>1
  <2> QED BY <2>1, <2>2
<1> QED BY <1>1, <1>2, <1>3, <1>4

\* Quo and Rem cut off toward zero.
LEMMA Quotients ==
  ASSUME NEW a \in Int, NEW b \in Int, b # 0
  PROVE  /\ Numbers!Quo(a, b) \in Int /\ Numbers!Rem(a, b) \in Int
         /\ a = b * Numbers!Quo(a, b) + Numbers!Rem(a, b)
         /\ a >= 0 => 0 <= Numbers!Rem(a, b)
         /\ a <= 0 => Numbers!Rem(a, b) <= 0
         /\ Numbers!Rem(a, b) < Numbers!AbsInt(b) /\ - Numbers!Rem(a, b) < Numbers!AbsInt(b)
<1>1. PICK x \in Nat, y \in Nat, q \in Nat, r \in Nat :
        /\ x = Numbers!AbsInt(a) /\ y = Numbers!AbsInt(b) /\ y > 0
        /\ q = x \div y /\ r = x % y /\ x = y * q + r /\ r < y
  <2>1. PICK x \in Nat, y \in Nat : x = Numbers!AbsInt(a) /\ y = Numbers!AbsInt(b) /\ y > 0
    BY DEF Numbers!AbsInt
  <2>2. PICK q \in Nat, r \in Nat : q = x \div y /\ r = x % y /\ x = y * q + r /\ r < y
    BY <2>1
  <2> QED BY <2>1, <2>2
<1>2. PICK sa \in {-1, 0, 1}, sb \in {-1, 1} :
        /\ sa = Numbers!Sign(a) /\ sb = Numbers!Sign(b) /\ a = sa * x /\ b = sb * y
        /\ (a > 0 => sa = 1) /\ (a < 0 => sa = -1) /\ (a = 0 => sa = 0)
  BY <1>1 DEF Numbers!Sign, Numbers!AbsInt
<1>3. PICK k \in Int : k = Numbers!Quo(a, b) /\ k = sa * sb * q
  BY <1>1, <1>2 DEF Numbers!Quo
<1>4. PICK m \in Int : m = Numbers!Rem(a, b) /\ m = a - b * k
  BY <1>3 DEF Numbers!Rem
<1>5. m = sa * r
  <2>1. PICK z \in Nat : z = y * q
    OBVIOUS
  <2>2. b * k = sa * z
    <3>1. CASE sb = 1
      BY <1>2, <1>3, <2>1, <3>1
    <3>2. CASE sb = -1
      <4>1. b = -y /\ k = -(sa * q)
        BY <1>2, <1>3, <3>2
      <4>2. b * k = y * (sa * q)
        BY <4>1
      <4> QED BY <2>1, <4>2
    <3> QED BY <3>1, <3>2
  <2>3. m = sa * x - sa * z /\ x = z + r
    BY <1>1, <1>2, <1>4, <2>1, <2>2
  <2> QED BY <2>3
<1>6. a = b * k + m
  <2>1. PICK w \in Int : w = b * k
    OBVIOUS
  <2> QED BY <1>4, <2>1
<1>7. (a >= 0 => 0 <= m) /\ (a <= 0 => m <= 0) /\ m < y /\ - m < y
  <2>1. r < y
    BY <1>1
  <2>2. \/ a > 0 /\ m = r
        \/ a < 0 /\ m = -r
        \/ a = 0 /\ m = 0
    <3>1. CASE a > 0
      <4>1. sa = 1
        BY <1>2, <3>1, Zenon
      <4>2. m = r
        BY <1>5, <4>1
      <4> QED BY <3>1, <4>2
    <3>2. CASE a < 0
      <4>1. sa = -1
        BY <1>2, <3>2, Zenon
      <4>2. m = -r
        BY <1>5, <4>1
      <4> QED BY <3>2, <4>2
    <3>3. CASE a = 0
      <4>1. sa = 0
        BY <1>2, <3>3, Zenon
      <4>2. m = 0
        BY <1>5, <4>1
      <4> QED BY <3>3, <4>2
    <3> QED BY <3>1, <3>2, <3>3
  <2> QED BY <2>1, <2>2
<1> QED BY <1>1, <1>3, <1>4, <1>6, <1>7

\* A quotient that is cut off toward zero.
LEMMA Truncated ==
  ASSUME NEW v \in Int, NEW T \in Nat \ {0}
  PROVE  /\ Numbers!Quo(v, T) \in Int
         /\ v >= 0 => /\ Numbers!Quo(v, T) >= 0 /\ T * Numbers!Quo(v, T) <= v
                      /\ v < T * Numbers!Quo(v, T) + T
         /\ v <= 0 => /\ Numbers!Quo(v, T) <= 0 /\ v <= T * Numbers!Quo(v, T)
                      /\ T * Numbers!Quo(v, T) - T < v
<1>1. PICK t \in Int, m \in Int :
        /\ t = Numbers!Quo(v, T) /\ v = T * t + m
        /\ (v >= 0 => 0 <= m) /\ (v <= 0 => m <= 0) /\ m < T /\ - m < T
  <2>1. Numbers!AbsInt(T) = T
    BY DEF Numbers!AbsInt
  <2>2. T \in Int /\ T # 0
    OBVIOUS
  <2>3. PICK t, m : t = Numbers!Quo(v, T) /\ m = Numbers!Rem(v, T)
    OBVIOUS
  <2>4. /\ t \in Int /\ m \in Int /\ v = T * t + m
        /\ (v >= 0 => 0 <= m) /\ (v <= 0 => m <= 0) /\ m < T /\ - m < T
    BY <2>1, <2>2, <2>3, Quotients, Zenon
  <2> QED BY <2>3, <2>4
<1>2. PICK w \in Int : w = T * t
  OBVIOUS
<1>3. v >= 0 => t >= 0
  <2> SUFFICES ASSUME v >= 0, t <= -1 PROVE FALSE
    BY <1>1
  <2>1. T * t <= -T
    OBVIOUS
  <2> QED BY <1>1, <2>1
<1>4. v <= 0 => t <= 0
  <2> SUFFICES ASSUME v <= 0, t >= 1 PROVE FALSE
    BY <1>1
  <2>1. T * t >= T
    OBVIOUS
  <2> QED BY <1>1, <2>1
<1> QED BY <1>1, <1>2, <1>3, <1>4

\* What Round does with a number that has one place too many.
Tenth(t) ==
  LET five == IF t < 0 THEN t - 5 ELSE t + 5
      q == five \div 10
  IN  IF q < 0 /\ five % 10 # 0 THEN q + 1 ELSE q

\* It is nearest, and ties go away from zero.
LEMMA TenthIsNearest ==
  ASSUME NEW t \in Int
  PROVE  /\ Tenth(t) \in Int
         /\ t >= 0 => Tenth(t) >= 0 /\ 10 * Tenth(t) - 5 <= t /\ t <= 10 * Tenth(t) + 4
         /\ t <= 0 => Tenth(t) <= 0 /\ 10 * Tenth(t) - 4 <= t /\ t <= 10 * Tenth(t) + 5
<1>1. CASE t >= 0
  <2>1. PICK q \in Nat : q = (t + 5) \div 10 /\ 10 * q <= t + 5 /\ t + 5 < 10 * q + 10
    BY <1>1
  <2>2. Tenth(t) = q
    BY <1>1, <2>1 DEF Tenth
  <2> QED BY <1>1, <2>1, <2>2
<1>2. CASE t < 0
  <2>1. PICK q \in Int, m \in 0 .. 9 :
          q = (t - 5) \div 10 /\ m = (t - 5) % 10 /\ t - 5 = 10 * q + m /\ q < 0
    BY <1>2
  <2>2. CASE m # 0
    <3>1. Tenth(t) = q + 1
      BY <1>2, <2>1, <2>2 DEF Tenth
    <3> QED BY <1>2, <2>1, <2>2, <3>1
  <2>3. CASE m = 0
    <3>1. Tenth(t) = q
      BY <1>2, <2>1, <2>3 DEF Tenth
    <3> QED BY <1>2, <2>1, <2>3, <3>1
  <2> QED BY <2>2, <2>3
<1> QED BY <1>1, <1>2

\* Cut off and rounded.
LEMMA RoundedOnce ==
  ASSUME NEW V \in Int, NEW T \in Nat \ {0}, NEW R, R = Tenth(Numbers!Quo(V, T))
  PROVE  /\ R \in Int
         /\ V >= 0 => R >= 0 /\ -5 * T <= V - 10 * (T * R) /\ V - 10 * (T * R) < 5 * T
         /\ V <= 0 => R <= 0 /\ -5 * T < V - 10 * (T * R) /\ V - 10 * (T * R) <= 5 * T
<1>1. PICK t \in Int :
        /\ t = Numbers!Quo(V, T)
        /\ V >= 0 => t >= 0 /\ T * t <= V /\ V < T * t + T
        /\ V <= 0 => t <= 0 /\ V <= T * t /\ T * t - T < V
  BY Truncated
<1>2. /\ R \in Int
      /\ t >= 0 => R >= 0 /\ 10 * R - 5 <= t /\ t <= 10 * R + 4
      /\ t <= 0 => R <= 0 /\ 10 * R - 4 <= t /\ t <= 10 * R + 5
  BY <1>1, TenthIsNearest
<1>3. PICK W \in Int, X \in Int : W = T * R /\ X = T * t
  BY <1>2
<1>4. CASE V >= 0
  <2>1. T * (10 * R - 5) <= T * t /\ T * t <= T * (10 * R + 4)
    BY <1>1, <1>2, <1>4
  <2>2. T * (10 * R - 5) = 10 * W - 5 * T /\ T * (10 * R + 4) = 10 * W + 4 * T
    BY <1>2, <1>3
  <2>3. X <= V /\ V < X + T
    BY <1>1, <1>3, <1>4
  <2>4. 10 * W - 5 * T <= X /\ X <= 10 * W + 4 * T
    BY <1>3, <2>1, <2>2
  <2>5. -5 * T <= V - 10 * W /\ V - 10 * W < 5 * T
    BY <2>3, <2>4
  <2>6. V >= 0 /\ R >= 0 /\ (V <= 0 => V = 0 /\ X = 0 /\ R = 0)
    BY <1>1, <1>2, <1>3, <1>4
  <2>7. V <= 0 => V = 0 /\ W = 0
    BY <1>3, <2>6
  <2>8. /\ V >= 0 => R >= 0 /\ -5 * T <= V - 10 * W /\ V - 10 * W < 5 * T
        /\ V <= 0 => R <= 0 /\ -5 * T < V - 10 * W /\ V - 10 * W <= 5 * T
    BY <2>5, <2>6, <2>7
  <2> QED BY <1>2, <1>3, <2>8, Zenon
<1>5. CASE V <= 0
  <2>1. T * (10 * R - 4) <= T * t /\ T * t <= T * (10 * R + 5)
    BY <1>1, <1>2, <1>5
  <2>2. T * (10 * R - 4) = 10 * W - 4 * T /\ T * (10 * R + 5) = 10 * W + 5 * T
    BY <1>2, <1>3
  <2>3. V <= X /\ X - T < V
    BY <1>1, <1>3, <1>5
  <2>4. 10 * W - 4 * T <= X /\ X <= 10 * W + 5 * T
    BY <1>3, <2>1, <2>2
  <2>5. -5 * T < V - 10 * W /\ V - 10 * W <= 5 * T
    BY <2>3, <2>4
  <2>6. V <= 0 /\ R <= 0 /\ (V >= 0 => V = 0 /\ X = 0 /\ R = 0)
    BY <1>1, <1>2, <1>3, <1>5
  <2>7. V >= 0 => V = 0 /\ W = 0
    BY <1>3, <2>6
  <2>8. /\ V >= 0 => R >= 0 /\ -5 * T <= V - 10 * W /\ V - 10 * W < 5 * T
        /\ V <= 0 => R <= 0 /\ -5 * T < V - 10 * W /\ V - 10 * W <= 5 * T
    BY <2>5, <2>6, <2>7
  <2> QED BY <1>2, <1>3, <2>8, Zenon
<1> QED BY <1>2, <1>4, <1>5

\* An exponent that fits in 32 bits is not changed by the conversion.
LEMMA Int32Fits ==
  ASSUME ExponentBits, NEW n \in Int, Numbers!FitsInt32(n)
  PROVE  Numbers!Int32(n) = n
<1>1. PICK b \in Nat \ {0} : b = 2 ^ (ExpBits - 1) /\ 2 * b = 2 ^ ExpBits
  BY Zenon DEF ExponentBits
<1>2. n \in -b .. b - 1
  BY <1>1, Zenon DEF Numbers!FitsInt32
<1>3. Numbers!Int32(n) = ((n + b) % (2 * b)) - b
  BY <1>1, Zenon DEF Numbers!Int32
<1>4. (n + b) % (2 * b) = n + b
  BY <1>1, <1>2
<1> QED BY <1>1, <1>3, <1>4

\* R units are half a unit away from n at most, and not closer to 0 when it is half.
Beside(n, unit, R) ==
  /\ n >= 0 => R >= 0 /\ -unit <= 2 * (n - R * unit) /\ 2 * (n - R * unit) < unit
  /\ n <= 0 => R <= 0 /\ -unit < 2 * (n - R * unit) /\ 2 * (n - R * unit) <= unit

\* V cut off to a multiple of T and rounded; n and unit are what is compared.
Scaled(V, T, c, R, n, unit) ==
  /\ V \in Int /\ T \in Nat \ {0} /\ c \in {1, 10}
  /\ R = Tenth(Numbers!Quo(V, T)) /\ n = c * V /\ unit = 10 * (c * T)

\* Cut off and rounded, at an exponent that is finer by one more place or not.
LEMMA RoundedAt ==
  ASSUME NEW V, NEW T, NEW c, NEW R, NEW n, NEW unit, Scaled(V, T, c, R, n, unit)
  PROVE  /\ R \in Int /\ n \in Int /\ unit \in Nat \ {0}
         /\ Beside(n, unit, R)
         /\ 2 * Numbers!AbsInt(n - R * unit) = unit <=> Numbers!AbsInt(V - 10 * (T * R)) = 5 * T
<1>0. /\ V \in Int /\ T \in Nat \ {0} /\ c \in {1, 10}
      /\ R = Tenth(Numbers!Quo(V, T)) /\ n = c * V /\ unit = 10 * (c * T)
  BY Zenon DEF Scaled
<1>1. /\ R \in Int
      /\ V >= 0 => R >= 0 /\ -5 * T <= V - 10 * (T * R) /\ V - 10 * (T * R) < 5 * T
      /\ V <= 0 => R <= 0 /\ -5 * T < V - 10 * (T * R) /\ V - 10 * (T * R) <= 5 * T
  BY <1>0, RoundedOnce
<1>2. PICK W \in Int : W = T * R
  BY <1>0, <1>1
<1>3. R * unit = 10 * (c * W)
  <2>1. CASE c = 1
    <3>1. R * unit = R * (10 * T)
      BY <1>0, <1>1, <2>1
    <3> QED BY <1>0, <1>1, <1>2, <2>1, <3>1
  <2>2. CASE c = 10
    <3>1. R * unit = R * (100 * T)
      BY <1>0, <1>1, <2>2
    <3> QED BY <1>0, <1>1, <1>2, <2>2, <3>1
  <2> QED BY <1>0, <2>1, <2>2
<1>4. PICK Y \in Int : Y = R * unit /\ Y = 10 * (c * W)
  BY <1>0, <1>2, <1>3
<1>5. /\ V >= 0 => R >= 0 /\ -5 * T <= V - 10 * W /\ V - 10 * W < 5 * T
      /\ V <= 0 => R <= 0 /\ -5 * T < V - 10 * W /\ V - 10 * W <= 5 * T
  BY <1>1, <1>2, Zenon
<1>6. n \in Int /\ unit \in Nat \ {0}
  BY <1>0
<1>7. /\ n >= 0 => R >= 0 /\ -unit <= 2 * (n - Y) /\ 2 * (n - Y) < unit
      /\ n <= 0 => R <= 0 /\ -unit < 2 * (n - Y) /\ 2 * (n - Y) <= unit
      /\ 2 * Numbers!AbsInt(n - Y) = unit <=> Numbers!AbsInt(V - 10 * W) = 5 * T
  <2>1. /\ Y = 10 * (c * W) /\ n = c * V /\ unit = 10 * (c * T)
        /\ V \in Int /\ T \in Nat \ {0} /\ R \in Int
    BY <1>0, <1>1, <1>4, Zenon
  <2>2. CASE c = 1
    BY <1>5, <2>1, <2>2 DEF Numbers!AbsInt
  <2>3. CASE c = 10
    BY <1>5, <2>1, <2>3 DEF Numbers!AbsInt
  <2> QED BY <1>0, <2>2, <2>3
<1> QED BY <1>1, <1>2, <1>4, <1>6, <1>7, Zenon DEF Beside

\* The neighbour R * unit of n, and the even one of two that are as near.
LEMMA NeighbourIsNearest ==
  ASSUME NEW n \in Int, NEW unit \in Nat \ {0}, NEW R \in Int,
         Beside(n, unit, R),
         NEW tie, tie \in BOOLEAN, tie <=> 2 * Numbers!AbsInt(n - R * unit) = unit,
         NEW B, B = IF tie /\ R % 2 # 0 THEN IF R < 0 THEN R + 1 ELSE R - 1 ELSE R
  PROVE  /\ Numbers!Nearest(R * unit, n, unit)
         /\ Numbers!Tie(R * unit, n, unit) => Numbers!AbsInt(R * unit) > Numbers!AbsInt(n)
         /\ Numbers!Nearest(B * unit, n, unit)
         /\ Numbers!Tie(B * unit, n, unit) => ((B * unit) \div unit) % 2 = 0
<1>1. PICK r \in Int : r = R * unit
  OBVIOUS
<1>2. /\ n >= 0 => R >= 0 /\ -unit <= 2 * (n - r) /\ 2 * (n - r) < unit
      /\ n <= 0 => R <= 0 /\ -unit < 2 * (n - r) /\ 2 * (n - r) <= unit
      /\ tie <=> 2 * Numbers!AbsInt(n - r) = unit
  BY <1>1, Zenon DEF Beside
<1>3. (R >= 0 => r >= 0) /\ (R <= 0 => r <= 0) /\ (R = 0 => r = 0)
  BY <1>1
<1>4. /\ 2 * Numbers!AbsInt(r - n) <= unit
      /\ 2 * Numbers!AbsInt(r - n) = unit => Numbers!AbsInt(r) > Numbers!AbsInt(n)
      /\ tie <=> 2 * Numbers!AbsInt(r - n) = unit
  BY <1>2, <1>3 DEF Numbers!AbsInt
<1>5. B \in Int
  BY SMT
<1>6. PICK b \in Int : b = B * unit
  BY <1>5
<1>7. 2 * Numbers!AbsInt(b - n) <= unit /\ (2 * Numbers!AbsInt(b - n) = unit => B % 2 = 0)
  <2>1. CASE tie /\ R % 2 # 0
    <3>1. CASE R < 0
      <4>1. B = R + 1
        BY <2>1, <3>1
      <4>2. b = r + unit
        BY <1>1, <1>6, <4>1
      <4>3. B % 2 = 0
        BY <2>1, <4>1
      <4> QED BY <1>2, <2>1, <3>1, <4>2, <4>3 DEF Numbers!AbsInt
    <3>2. CASE R >= 0
      <4>1. B = R - 1
        BY <2>1, <3>2
      <4>2. b = r - unit
        BY <1>1, <1>6, <4>1
      <4>3. B % 2 = 0
        BY <2>1, <4>1
      <4>4. R > 0
        BY <2>1, <3>2
      <4> QED BY <1>2, <2>1, <4>4, <4>2, <4>3 DEF Numbers!AbsInt
    <3> QED BY <3>1, <3>2
  <2>2. CASE ~(tie /\ R % 2 # 0)
    <3>1. B = R
      BY <2>2, Zenon
    <3>2. b = r
      BY <1>1, <1>6, <3>1, Zenon
    <3>3. tie => B % 2 = 0
      BY <2>2, <3>1, Zenon
    <3>4. 2 * Numbers!AbsInt(b - n) <= unit /\ (tie <=> 2 * Numbers!AbsInt(b - n) = unit)
      BY <1>4, <3>2, Zenon
    <3> QED BY <3>3, <3>4, Zenon
  <2> QED BY <2>1, <2>2
<1>8. /\ (R * unit) % unit = 0 /\ (B * unit) % unit = 0 /\ (B * unit) \div unit = B
  <2>1. unit \in Nat /\ unit > 0
    OBVIOUS
  <2> QED BY <1>5, <2>1, Multiples, Zenon
<1> QED BY <1>1, <1>4, <1>6, <1>7, <1>8, Zenon DEF Numbers!Nearest, Numbers!Tie

\* A decimal written at an exponent that is not above its own keeps its number.
LEMMA Finer ==
  ASSUME PowersOfTen, NEW d \in Numbers!Decimals, NEW e \in Int, e <= d.exp
  PROVE  /\ Numbers!Rescale(d, e).value = d.value * 10 ^ (d.exp - e)
         /\ Numbers!Rescale(d, e).value \in Int
         /\ 10 ^ (d.exp - e) \in Nat \ {0}
<1>1. d.exp \in Int /\ d.value \in Int /\ d.exp - e \in Nat
  BY DEF Numbers!Decimals
<1>2. PICK w \in Nat \ {0} : w = 10 ^ (d.exp - e)
  BY <1>1, Zenon DEF PowersOfTen
<1>3. ~ (e > d.exp)
  BY <1>1
<1>4. Numbers!Rescale(d, e).value = d.value * 10 ^ (d.exp - e)
  BY <1>3, Zenon DEF Numbers!Rescale, Numbers!Dec
<1>5. d.value * w \in Int
  BY <1>1
<1> QED BY <1>2, <1>4, <1>5, Zenon

\* At its own exponent a decimal is what it was.
LEMMA SameExponent ==
  ASSUME NEW y \in Int, NEW e \in Int
  PROVE  Numbers!Rescale(Numbers!Dec(y, e), e).value = y
<1>1. Numbers!Dec(y, e).value = y /\ Numbers!Dec(y, e).exp = e
  BY DEF Numbers!Dec
<1>2. ~ (e > e) /\ e - e = 0 /\ y * 1 = y
  OBVIOUS
<1>3. Numbers!Rescale(Numbers!Dec(y, e), e) = Numbers!Dec(y * 10 ^ (e - e), e)
  BY <1>1, <1>2, Zenon DEF Numbers!Rescale
<1>4. 10 ^ 0 = 1
  OBVIOUS
<1>5. Numbers!Rescale(Numbers!Dec(y, e), e) = Numbers!Dec(y, e)
  BY <1>2, <1>3, <1>4, Zenon
<1> QED BY <1>1, <1>5, Zenon

\* When RoundBank sees a tie.
LEMMA TieSeen ==
  ASSUME PowersOfTen, NEW d \in Numbers!Decimals, NEW p \in Int, NEW R \in Int,
         NEW s, s = Numbers!Lower(d.exp, -p), NEW m, m = Numbers!Lower(s, -p - 1)
  PROVE  Numbers!Equal(Numbers!Abs(Numbers!Sub(d, Numbers!Dec(R, -p))), Numbers!Dec(5, -p - 1))
           <=> Numbers!AbsInt(d.value * 10 ^ (d.exp - s) - R * 10 ^ (-p - s)) * 10 ^ (s - m)
                 = 5 * 10 ^ (-p - 1 - m)
<1> DEFINE round == Numbers!Dec(R, -p)
           five == Numbers!Dec(5, -p - 1)
<1>1. /\ d.exp \in Int /\ d.value \in Int /\ s \in Int /\ m \in Int
      /\ s <= d.exp /\ s <= -p /\ m <= s /\ m <= -p - 1
  BY DEF Numbers!Decimals, Numbers!Lower
<1>2. /\ round \in Numbers!Decimals /\ round.value = R /\ round.exp = -p
      /\ five \in Numbers!Decimals /\ five.value = 5 /\ five.exp = -p - 1
  BY DEF Numbers!Decimals, Numbers!Dec
<1>3. /\ Numbers!Rescale(d, s).value = d.value * 10 ^ (d.exp - s)
      /\ Numbers!Rescale(d, s).value \in Int
  BY <1>1, Finer
<1>4. /\ Numbers!Rescale(round, s).value = R * 10 ^ (-p - s)
      /\ Numbers!Rescale(round, s).value \in Int
  <2> HIDE DEF round
  <2> QED BY <1>1, <1>2, Finer
<1>5. PICK x \in Int : x = d.value * 10 ^ (d.exp - s) - R * 10 ^ (-p - s)
  BY <1>3, <1>4
<1>6. PICK sub : /\ sub = Numbers!Abs(Numbers!Sub(d, round)) /\ sub \in Numbers!Decimals
                 /\ sub.value = Numbers!AbsInt(x) /\ sub.exp = s
  <2>1. Numbers!Sub(d, round) = Numbers!Dec(x, s)
    BY <1>2, <1>3, <1>4, <1>5, Zenon DEF Numbers!Sub
  <2>2. Numbers!Abs(Numbers!Sub(d, round)) = Numbers!Dec(Numbers!AbsInt(x), s)
    BY <2>1 DEF Numbers!Abs, Numbers!Dec
  <2>3. Numbers!AbsInt(x) \in Int
    BY DEF Numbers!AbsInt
  <2> QED BY <1>1, <2>2, <2>3 DEF Numbers!Decimals, Numbers!Dec
<1> HIDE DEF round, five
<1>7. PICK y \in Int, z \in Int :
        /\ y = Numbers!Rescale(sub, m).value /\ y = Numbers!AbsInt(x) * 10 ^ (s - m)
        /\ z = Numbers!Rescale(five, m).value /\ z = 5 * 10 ^ (-p - 1 - m)
  <2>1. m <= sub.exp /\ m <= five.exp
    BY <1>1, <1>2, <1>6
  <2>2. /\ Numbers!Rescale(sub, m).value = sub.value * 10 ^ (sub.exp - m)
        /\ Numbers!Rescale(sub, m).value \in Int
    BY <1>1, <1>6, <2>1, Finer, Zenon
  <2>3. /\ Numbers!Rescale(five, m).value = five.value * 10 ^ (five.exp - m)
        /\ Numbers!Rescale(five, m).value \in Int
    BY <1>1, <1>2, <2>1, Finer, Zenon
  <2> QED BY <1>2, <1>6, <2>2, <2>3, Zenon
<1>8. Numbers!Equal(sub, five) <=> Numbers!Sign(y - z) = 0
  BY <1>2, <1>6, <1>7, Zenon DEF Numbers!Equal, Numbers!Cmp
<1>9. Numbers!Sign(y - z) = 0 <=> y = z
  BY DEF Numbers!Sign
<1>10. Numbers!Equal(Numbers!Abs(Numbers!Sub(d, round)), five)
         <=> Numbers!AbsInt(d.value * 10 ^ (d.exp - s) - R * 10 ^ (-p - s)) * 10 ^ (s - m)
               = 5 * 10 ^ (-p - 1 - m)
  BY <1>5, <1>6, <1>7, <1>8, <1>9, Zenon
<1> QED BY <1>10, Zenon DEF round, five

\* Rounding d to p places cuts V off to a multiple of T and then rounds; c is what
\* RoundingIsNearest multiplies V with to compare.
Cut(d, p, V, T, c) ==
  /\ V \in Int /\ T \in Nat \ {0} /\ c \in {1, 10}
  /\ Numbers!Rescale(d, -p - 1).value = Numbers!Quo(V, T)
  /\ Numbers!At(d, Numbers!Lower(d.exp, -p) - 1) = c * V
  /\ 10 ^ (-p - (Numbers!Lower(d.exp, -p) - 1)) = 10 * (c * T)
  /\ \A R \in Int :
       Numbers!Equal(Numbers!Abs(Numbers!Sub(d, Numbers!Dec(R, -p))), Numbers!Dec(5, -p - 1))
         <=> Numbers!AbsInt(V - 10 * (T * R)) = 5 * T

\* The first powers.
LEMMA SmallPowers == 10 ^ 0 = 1 /\ 10 ^ 1 = 10 /\ 10 ^ 2 = 100
OBVIOUS

\* A quotient by 1.
LEMMA QuoByOne ==
  ASSUME NEW v \in Int
  PROVE  Numbers!Quo(v, 1) = v
<1>1. Numbers!AbsInt(1) = 1 /\ Numbers!Sign(1) = 1
  BY DEF Numbers!AbsInt, Numbers!Sign
<1>2. CASE v < 0
  <2>1. Numbers!AbsInt(v) = -v /\ Numbers!Sign(v) = -1
    BY <1>2 DEF Numbers!AbsInt, Numbers!Sign
  <2>2. Numbers!Quo(v, 1) = (-1) * 1 * ((-v) \div 1)
    BY <1>1, <2>1, Zenon DEF Numbers!Quo
  <2> QED BY <2>2
<1>3. CASE v >= 0
  <2>1. PICK g \in {0, 1} : Numbers!AbsInt(v) = v /\ Numbers!Sign(v) = g /\ (g = 0 => v = 0)
    BY <1>3 DEF Numbers!AbsInt, Numbers!Sign
  <2>2. Numbers!Quo(v, 1) = g * 1 * (v \div 1)
    BY <1>1, <2>1, Zenon DEF Numbers!Quo
  <2>3. v \div 1 = v
    OBVIOUS
  <2> QED BY <2>1, <2>2, <2>3
<1> QED BY <1>2, <1>3

\* More than one place is dropped.
LEMMA CutLong ==
  ASSUME PowersOfTen, NEW d \in Numbers!Decimals, NEW p \in Int, d.exp < -p - 1
  PROVE  Cut(d, p, d.value, 10 ^ (-p - 1 - d.exp), 10)
<1>1. d.exp \in Int /\ d.value \in Int
  BY DEF Numbers!Decimals
<1>2. PICK k \in Nat : k = -p - 1 - d.exp
  BY <1>1
<1>3. PICK T \in Nat \ {0} : T = 10 ^ k
  BY Zenon DEF PowersOfTen
<1>4. k + 1 \in Nat
  BY <1>2
<1>5. 10 ^ (k + 1) = 10 * T /\ 10 ^ (k + 1 + 1) = 10 * (10 * T)
  BY <1>3, <1>4, Zenon DEF PowersOfTen
<1>6. /\ Numbers!Lower(d.exp, -p) = d.exp /\ Numbers!Lower(d.exp, -p - 1) = d.exp
      /\ d.exp - (d.exp - 1) = 1 /\ -p - (d.exp - 1) = k + 1 + 1
      /\ -p - d.exp = k + 1 /\ d.exp - d.exp = 0 /\ -p - 1 - d.exp = k /\ -p - 1 > d.exp
  BY <1>1, <1>2 DEF Numbers!Lower
<1>7. Numbers!Rescale(d, -p - 1).value = Numbers!Quo(d.value, T)
  BY <1>3, <1>6, Zenon DEF Numbers!Rescale, Numbers!Dec
<1>8. Numbers!At(d, d.exp - 1) = 10 * d.value
  <2>1. Numbers!At(d, d.exp - 1) = d.value * 10
    BY <1>6, SmallPowers, Zenon DEF Numbers!At
  <2> QED BY <1>1, <2>1
<1>9. 10 ^ (-p - (d.exp - 1)) = 10 * (10 * T)
  BY <1>5, <1>6, Zenon
<1>10. ASSUME NEW R \in Int
       PROVE  Numbers!Equal(Numbers!Abs(Numbers!Sub(d, Numbers!Dec(R, -p))), Numbers!Dec(5, -p - 1))
                <=> Numbers!AbsInt(d.value - 10 * (T * R)) = 5 * T
  <2>1. Numbers!Equal(Numbers!Abs(Numbers!Sub(d, Numbers!Dec(R, -p))), Numbers!Dec(5, -p - 1))
          <=> Numbers!AbsInt(d.value * 1 - R * (10 * T)) * 1 = 5 * T
    <3>1. PICK s, m : s = Numbers!Lower(d.exp, -p) /\ m = Numbers!Lower(s, -p - 1)
      OBVIOUS
    <3>2. 10 ^ (d.exp - s) = 1 /\ 10 ^ (-p - s) = 10 * T /\ 10 ^ (s - m) = 1 /\ 10 ^ (-p - 1 - m) = T
      BY <3>1, <1>3, <1>5, <1>6, SmallPowers, Zenon
    <3>3. Numbers!Equal(Numbers!Abs(Numbers!Sub(d, Numbers!Dec(R, -p))), Numbers!Dec(5, -p - 1))
            <=> Numbers!AbsInt(d.value * 10 ^ (d.exp - s) - R * 10 ^ (-p - s)) * 10 ^ (s - m)
                  = 5 * 10 ^ (-p - 1 - m)
      BY <1>10, <3>1, TieSeen
    <3> QED BY <1>10, <3>2, <3>3, Zenon
  <2>2. d.value * 1 - R * (10 * T) = d.value - 10 * (T * R)
    BY <1>1
  <2>3. PICK x \in Int : x = d.value - 10 * (T * R)
    BY <1>1
  <2>4. Numbers!AbsInt(x) * 1 = Numbers!AbsInt(x)
    BY DEF Numbers!AbsInt
  <2> QED BY <2>1, <2>2, <2>3, <2>4, Zenon
<1>11. Cut(d, p, d.value, T, 10)
  BY <1>1, <1>6, <1>7, <1>8, <1>9, <1>10, Zenon DEF Cut
<1> QED BY <1>3, <1>6, <1>11, Zenon

\* One place is dropped.
LEMMA CutOne ==
  ASSUME PowersOfTen, NEW d \in Numbers!Decimals, NEW p \in Int, d.exp = -p - 1
  PROVE  Cut(d, p, d.value, 1, 10)
<1>1. d.exp \in Int /\ d.value \in Int
  BY DEF Numbers!Decimals
<1>2. /\ Numbers!Lower(d.exp, -p) = d.exp /\ Numbers!Lower(d.exp, -p - 1) = d.exp
      /\ d.exp - (d.exp - 1) = 1 /\ -p - (d.exp - 1) = 2
      /\ -p - d.exp = 1 /\ d.exp - d.exp = 0 /\ -p - 1 - d.exp = 0 /\ ~ (-p - 1 > d.exp)
      /\ d.exp - (-p - 1) = 0
  BY <1>1 DEF Numbers!Lower
<1>3. Numbers!Rescale(d, -p - 1).value = Numbers!Quo(d.value, 1)
  <2>1. Numbers!Rescale(d, -p - 1).value = d.value * 1
    BY <1>2, SmallPowers, Zenon DEF Numbers!Rescale, Numbers!Dec
  <2> QED BY <1>1, <2>1, QuoByOne
<1>4. Numbers!At(d, d.exp - 1) = 10 * d.value
  <2>1. Numbers!At(d, d.exp - 1) = d.value * 10
    BY <1>2, SmallPowers, Zenon DEF Numbers!At
  <2> QED BY <1>1, <2>1
<1>5. 10 ^ (-p - (d.exp - 1)) = 10 * (10 * 1)
  BY <1>2, SmallPowers
<1>6. ASSUME NEW R \in Int
      PROVE  Numbers!Equal(Numbers!Abs(Numbers!Sub(d, Numbers!Dec(R, -p))), Numbers!Dec(5, -p - 1))
               <=> Numbers!AbsInt(d.value - 10 * (1 * R)) = 5 * 1
  <2>1. Numbers!Equal(Numbers!Abs(Numbers!Sub(d, Numbers!Dec(R, -p))), Numbers!Dec(5, -p - 1))
          <=> Numbers!AbsInt(d.value * 1 - R * 10) * 1 = 5 * 1
    <3>1. PICK s, m : s = Numbers!Lower(d.exp, -p) /\ m = Numbers!Lower(s, -p - 1)
      OBVIOUS
    <3>2. 10 ^ (d.exp - s) = 1 /\ 10 ^ (-p - s) = 10 /\ 10 ^ (s - m) = 1 /\ 10 ^ (-p - 1 - m) = 1
      BY <3>1, <1>2, SmallPowers, Zenon
    <3>3. Numbers!Equal(Numbers!Abs(Numbers!Sub(d, Numbers!Dec(R, -p))), Numbers!Dec(5, -p - 1))
            <=> Numbers!AbsInt(d.value * 10 ^ (d.exp - s) - R * 10 ^ (-p - s)) * 10 ^ (s - m)
                  = 5 * 10 ^ (-p - 1 - m)
      BY <1>6, <3>1, TieSeen
    <3> QED BY <1>6, <3>2, <3>3, Zenon
  <2>2. d.value * 1 - R * 10 = d.value - 10 * (1 * R)
    BY <1>1
  <2>3. PICK x \in Int : x = d.value - 10 * (1 * R)
    BY <1>1
  <2>4. Numbers!AbsInt(x) * 1 = Numbers!AbsInt(x)
    BY DEF Numbers!AbsInt
  <2> QED BY <2>1, <2>2, <2>3, <2>4, Zenon
<1>7. 1 \in Nat \ {0} /\ 10 \in {1, 10}
  OBVIOUS
<1> QED BY <1>1, <1>2, <1>3, <1>4, <1>5, <1>6, <1>7, Zenon DEF Cut

\* Nothing is dropped; a place is added before one is taken away.
LEMMA CutNone ==
  ASSUME PowersOfTen, NEW d \in Numbers!Decimals, NEW p \in Int, d.exp > -p - 1
  PROVE  Cut(d, p, d.value * 10 ^ (d.exp - (-p - 1)), 1, 1)
<1>1. d.exp \in Int /\ d.value \in Int
  BY DEF Numbers!Decimals
<1>2. PICK k \in Nat : k = d.exp - (-p)
  BY <1>1
<1>3. PICK w \in Nat \ {0} : w = 10 ^ k /\ 10 ^ (k + 1) = 10 * w
  BY Zenon DEF PowersOfTen
<1>4. PICK V \in Int : V = d.value * 10 ^ (k + 1) /\ V = 10 * (d.value * w)
  BY <1>1, <1>3
<1>5. /\ Numbers!Lower(d.exp, -p) = -p /\ Numbers!Lower(-p, -p - 1) = -p - 1
      /\ d.exp - (-p - 1) = k + 1 /\ -p - (-p - 1) = 1 /\ d.exp - (-p) = k
      /\ -p - (-p) = 0 /\ -p - 1 - (-p - 1) = 0 /\ ~ (-p - 1 > d.exp)
  BY <1>1, <1>2 DEF Numbers!Lower
<1>6. Numbers!Rescale(d, -p - 1).value = Numbers!Quo(V, 1)
  <2>1. Numbers!Rescale(d, -p - 1).value = V
    BY <1>4, <1>5, Zenon DEF Numbers!Rescale, Numbers!Dec
  <2> QED BY <2>1, QuoByOne
<1>7. Numbers!At(d, -p - 1) = 1 * V
  <2>1. Numbers!At(d, -p - 1) = V
    BY <1>4, <1>5, Zenon DEF Numbers!At
  <2> QED BY <2>1
<1>8. 10 ^ (-p - (-p - 1)) = 10 * (1 * 1)
  BY <1>5, SmallPowers
<1>9. ASSUME NEW R \in Int
      PROVE  Numbers!Equal(Numbers!Abs(Numbers!Sub(d, Numbers!Dec(R, -p))), Numbers!Dec(5, -p - 1))
               <=> Numbers!AbsInt(V - 10 * (1 * R)) = 5 * 1
  <2>1. Numbers!Equal(Numbers!Abs(Numbers!Sub(d, Numbers!Dec(R, -p))), Numbers!Dec(5, -p - 1))
          <=> Numbers!AbsInt(d.value * w - R * 1) * 10 = 5 * 1
    <3>1. PICK s, m : s = Numbers!Lower(d.exp, -p) /\ m = Numbers!Lower(s, -p - 1)
      OBVIOUS
    <3>2. 10 ^ (d.exp - s) = w /\ 10 ^ (-p - s) = 1 /\ 10 ^ (s - m) = 10 /\ 10 ^ (-p - 1 - m) = 1
      <4>1. s = -p /\ m = -p - 1
        BY <1>5, <3>1, Zenon
      <4> QED BY <1>3, <1>5, <4>1, SmallPowers, Zenon
    <3>3. Numbers!Equal(Numbers!Abs(Numbers!Sub(d, Numbers!Dec(R, -p))), Numbers!Dec(5, -p - 1))
            <=> Numbers!AbsInt(d.value * 10 ^ (d.exp - s) - R * 10 ^ (-p - s)) * 10 ^ (s - m)
                  = 5 * 10 ^ (-p - 1 - m)
      BY <1>9, <3>1, TieSeen
    <3> QED BY <1>9, <3>2, <3>3, Zenon
  <2>2. PICK x \in Int, y \in Int : x = d.value * w - R * 1 /\ y = V - 10 * (1 * R) /\ y = 10 * x
    <3>1. PICK z \in Int : z = d.value * w
      BY <1>1
    <3>2. V = 10 * z
      BY <1>4, <3>1, Zenon
    <3>3. V - 10 * (1 * R) = 10 * (z - R * 1)
      BY <3>1, <3>2
    <3> QED BY <3>1, <3>3
  <2>3. Numbers!AbsInt(x) * 10 = Numbers!AbsInt(y)
    BY <2>2 DEF Numbers!AbsInt
  <2> QED BY <2>1, <2>2, <2>3, Zenon
<1>10. 1 \in Nat \ {0} /\ 1 \in {1, 10}
  OBVIOUS
<1>11. Cut(d, p, V, 1, 1)
  BY <1>5, <1>6, <1>7, <1>8, <1>9, <1>10, Zenon DEF Cut
<1> QED BY <1>4, <1>5, <1>11, Zenon

\* Rounding to any number of places, by Round and by RoundBank.
THEOREM RoundsToNearest ==
  ASSUME ExponentBits, PowersOfTen, NEW d \in Numbers!Decimals, NEW p \in Int,
         Numbers!FitsInt32(-p), Numbers!FitsInt32(-p - 1)
  PROVE  Numbers!RoundingIsNearest(d, p)
<1>1. PICK V, T, c : Cut(d, p, V, T, c)
  <2>1. d.exp \in Int
    BY DEF Numbers!Decimals
  <2>2. d.exp < -p - 1 \/ d.exp = -p - 1 \/ d.exp > -p - 1
    BY <2>1
  <2> QED BY <2>2, CutLong, CutOne, CutNone, Zenon
<1>2. Numbers!Int32(-p) = -p /\ Numbers!Int32(-p - 1) = -p - 1
  <2>1. -p \in Int /\ -p - 1 \in Int
    OBVIOUS
  <2> QED BY <2>1, Int32Fits, Zenon
<1> DEFINE exp == Numbers!Lower(d.exp, -p) - 1
<1>3. /\ V \in Int /\ T \in Nat \ {0} /\ c \in {1, 10}
      /\ Numbers!At(d, exp) = c * V /\ 10 ^ (-p - exp) = 10 * (c * T)
  BY <1>1, Zenon DEF Cut
<1>4. PICK R : /\ R = Tenth(Numbers!Quo(V, T))
               /\ Numbers!Round(d, p) = Numbers!Dec(R, -p)
  <2>1. Numbers!Rescale(d, Numbers!Int32(-p - 1)).value = Numbers!Quo(V, T)
    BY <1>1, <1>2, Zenon DEF Cut
  <2>2. Numbers!Round(d, p) = Numbers!Dec(Tenth(Numbers!Quo(V, T)), -p)
    BY <1>2, <2>1, Zenon DEF Numbers!Round, Tenth
  <2> QED BY <2>2, Zenon
<1>5. PICK n, unit : n = c * V /\ unit = 10 * (c * T) /\ n = Numbers!At(d, exp) /\ unit = 10 ^ (-p - exp)
  BY <1>3, Zenon
<1>6. /\ R \in Int /\ n \in Int /\ unit \in Nat \ {0}
      /\ Beside(n, unit, R)
      /\ 2 * Numbers!AbsInt(n - R * unit) = unit <=> Numbers!AbsInt(V - 10 * (T * R)) = 5 * T
  <2>1. Scaled(V, T, c, R, n, unit)
    BY <1>3, <1>4, <1>5, Zenon DEF Scaled
  <2> QED BY <2>1, RoundedAt, SMT
<1>7. PICK tie \in BOOLEAN :
        /\ tie <=> Numbers!Equal(Numbers!Abs(Numbers!Sub(d, Numbers!Dec(R, -p))), Numbers!Dec(5, -p - 1))
        /\ tie <=> 2 * Numbers!AbsInt(n - R * unit) = unit
  BY <1>1, <1>6, Zenon DEF Cut
<1>8. PICK B : /\ B = IF tie /\ R % 2 # 0 THEN IF R < 0 THEN R + 1 ELSE R - 1 ELSE R
               /\ Numbers!RoundBank(d, p).value = B /\ Numbers!RoundBank(d, p).exp = -p
  <2>1. PICK r : r = Numbers!Dec(R, -p)
    OBVIOUS
  <2>2. /\ r = [r EXCEPT !.value = R] /\ r.value = R /\ r.exp = -p
        /\ \A x : [r EXCEPT !.value = x].value = x /\ [r EXCEPT !.value = x].exp = -p
    BY <2>1 DEF Numbers!Dec
  <2>3. Numbers!RoundBank(d, p) = IF tie /\ r.value % 2 # 0
                                  THEN [r EXCEPT !.value = IF r.value < 0 THEN r.value + 1 ELSE r.value - 1]
                                  ELSE r
    BY <1>2, <1>4, <1>7, <2>1, Zenon DEF Numbers!RoundBank
  <2> QED BY <2>2, <2>3, Zenon
<1>9. /\ Numbers!Nearest(R * unit, n, unit)
      /\ Numbers!Tie(R * unit, n, unit) => Numbers!AbsInt(R * unit) > Numbers!AbsInt(n)
      /\ Numbers!Nearest(B * unit, n, unit)
      /\ Numbers!Tie(B * unit, n, unit) => ((B * unit) \div unit) % 2 = 0
  BY <1>6, <1>7, <1>8, NeighbourIsNearest, Zenon
<1>10. Numbers!At(Numbers!Round(d, p), exp) = R * unit /\ Numbers!At(Numbers!RoundBank(d, p), exp) = B * unit
  <2>1. Numbers!Round(d, p).value = R /\ Numbers!Round(d, p).exp = -p
    BY <1>4 DEF Numbers!Dec
  <2> QED BY <1>5, <1>8, <2>1, Zenon DEF Numbers!At
<1> QED BY <1>5, <1>9, <1>10, Zenon DEF Numbers!RoundingIsNearest

\* What is written in binary is read back, whatever the exponent.
THEOREM BinaryIsRead ==
  ASSUME ExponentBits, NEW d \in Numbers!Decimals, Numbers!FitsInt32(d.exp)
  PROVE  Numbers!UnmarshalBinary(Numbers!MarshalBinary(d)) = d
<1>1. d = [value |-> d.value, exp |-> d.exp] /\ d.exp \in Int
  BY DEF Numbers!Decimals
<1>2. PICK b \in Nat \ {0} : b = 2 ^ (ExpBits - 1) /\ 2 * b = 2 ^ ExpBits
  BY Zenon DEF ExponentBits
<1>3. PICK x : x = d.exp % (2 * b)
  OBVIOUS
<1>4. d.exp \in -b .. b - 1
  BY <1>2, Zenon DEF Numbers!FitsInt32
<1>5. ((x + b) % (2 * b)) - b = d.exp
  <2>1. CASE d.exp >= 0
    <3>1. x = d.exp
      BY <1>2, <1>3, <1>4, <2>1
    <3> QED BY <1>2, <1>4, <2>1, <3>1
  <2>2. CASE d.exp < 0
    <3>1. PICK q \in Int, m \in Nat : q = d.exp \div (2 * b) /\ m = x /\ m < 2 * b /\ d.exp = (2 * b) * q + m
      <4>1. PICK c \in Nat \ {0}, e \in Int : c = 2 * b /\ e = d.exp
        BY <1>1
      <4>2. PICK q \in Int, m \in Nat : q = e \div c /\ m = e % c /\ m < c /\ e = c * q + m
        OBVIOUS
      <4> QED BY <1>3, <4>1, <4>2, Zenon
    <3>2. q = -1
      <4>1. CASE q >= 0
        <5>1. (2 * b) * q >= 0
          BY <1>2, <4>1
        <5> QED BY <2>2, <3>1, <5>1
      <4>2. CASE q <= -2
        <5>1. (2 * b) * q <= -4 * b
          BY <1>2, <4>2
        <5> QED BY <1>2, <1>4, <3>1, <5>1
      <4> QED BY <3>1, <4>1, <4>2
    <3>3. x = d.exp + 2 * b
      BY <1>1, <1>2, <3>1, <3>2
    <3>4. PICK y \in Int : y = d.exp + b /\ 0 <= y /\ y < 2 * b
      BY <1>1, <1>2, <1>4, <2>2
    <3>5. x + b = 2 * b + y
      BY <1>1, <1>2, <3>3, <3>4
    <3>6. (2 * b + y) % (2 * b) = y
      BY <1>2, <3>4
    <3> QED BY <1>1, <1>2, <3>4, <3>5, <3>6
  <2> QED BY <1>1, <2>1, <2>2
<1>6. Numbers!MarshalBinary(d) = <<x, d.value>>
  BY <1>2, <1>3, Zenon DEF Numbers!MarshalBinary
<1>7. Numbers!UnmarshalBinary(<<x, d.value>>) = Numbers!Dec(d.value, Numbers!Int32(x))
  BY DEF Numbers!UnmarshalBinary
<1>8. Numbers!Int32(x) = d.exp
  BY <1>2, <1>5, Zenon DEF Numbers!Int32
<1> QED BY <1>1, <1>6, <1>7, <1>8, Zenon DEF Numbers!Dec

\* Down to an integer, up to one, and cut off.
THEOREM WholesAreNext ==
  ASSUME PowersOfTen, NEW d \in Numbers!Decimals
  PROVE  Numbers!WholeIsNext(d)
<1>1. d = [value |-> d.value, exp |-> d.exp] /\ d.exp \in Int /\ d.value \in Int
  BY DEF Numbers!Decimals
<1>2. CASE d.exp >= 0
  <2>1. /\ Numbers!Lower(d.exp, 0) = 0 /\ -0 = 0
        /\ Numbers!Floor(d) = d /\ Numbers!Ceil(d) = d /\ Numbers!Truncate(d, 0) = d
    <3>1. PICK e \in Int : e = d.exp /\ e >= 0
      BY <1>1, <1>2
    <3>2. -0 = 0
      <4>1. \A z \in Int : -z = 0 - z
        OBVIOUS
      <4>2. 0 \in Int /\ 0 - 0 = 0
        OBVIOUS
      <4> QED BY <4>1, <4>2, Zenon
    <3>3. Numbers!Lower(e, 0) = 0
      BY <3>1 DEF Numbers!Lower
    <3>4. ~ (0 > e)
      BY <3>1
    <3> QED BY <3>1, <3>2, <3>3, <3>4, Zenon DEF Numbers!Floor, Numbers!Ceil, Numbers!Truncate
  <2>2. d.exp - 0 \in Nat
    BY <1>1, <1>2
  <2>3. PICK w \in Nat \ {0} : w = 10 ^ (d.exp - 0)
    BY <2>2, Zenon DEF PowersOfTen
  <2>4. PICK n \in Int : n = Numbers!At(d, 0)
    BY <1>1, <2>3 DEF Numbers!At
  <2>5. n <= n /\ n < n + 1 /\ n >= n /\ n > n - 1
    OBVIOUS
  <2> QED BY <2>1, <2>4, <2>5, SmallPowers, Zenon DEF Numbers!WholeIsNext
<1>3. CASE d.exp < 0
  <2>1. -d.exp \in Nat
    BY <1>1, <1>3
  <2>2. PICK T \in Nat \ {0} : T = 10 ^ (-d.exp)
    BY <2>1, Zenon DEF PowersOfTen
  <2>3. PICK v \in Int, q \in Int, m \in Int :
          v = d.value /\ q = v \div T /\ m = v % T /\ v = T * q + m /\ 0 <= m /\ m < T
    BY <1>1, <2>2
  <2>4. PICK up \in {0, 1} : up = (IF m = 0 THEN 0 ELSE 1) /\ (up = 0 <=> m = 0)
    OBVIOUS
  <2>5. PICK t \in Int : t = Numbers!Quo(v, T)
    BY <2>2, <2>3, Truncated, Zenon
  <2>6. /\ Numbers!Lower(d.exp, 0) = d.exp /\ ~ (d.exp >= 0) /\ d.exp - d.exp = 0
        /\ 0 - d.exp = -d.exp /\ 0 > d.exp /\ -0 = 0 /\ 0 >= 0
    <3>1. PICK e \in Int : e = d.exp /\ e < 0
      BY <1>1, <1>3
    <3>2. /\ Numbers!Lower(e, 0) = e /\ ~ (e >= 0) /\ e - e = 0
          /\ 0 - e = -e /\ 0 > e /\ 0 >= 0
      BY <3>1 DEF Numbers!Lower
    <3>3. -0 = 0
      <4>1. \A z \in Int : -z = 0 - z
        OBVIOUS
      <4>2. 0 \in Int /\ 0 - 0 = 0
        OBVIOUS
      <4> QED BY <4>1, <4>2, Zenon
    <3> QED BY <3>1, <3>2, <3>3, Zenon
  <2>7. /\ Numbers!Floor(d) = Numbers!Dec(q, 0) /\ Numbers!Ceil(d) = Numbers!Dec(q + up, 0)
        /\ Numbers!Truncate(d, 0) = Numbers!Dec(t, 0)
    <3>1. Numbers!Floor(d) = Numbers!Dec(q, 0)
      BY <2>2, <2>3, <2>6, Zenon DEF Numbers!Floor
    <3>2. Numbers!Ceil(d) = Numbers!Dec(q + up, 0)
      BY <2>2, <2>3, <2>4, <2>6, Zenon DEF Numbers!Ceil
    <3>3. Numbers!Truncate(d, 0) = Numbers!Dec(t, 0)
      BY <2>2, <2>3, <2>5, <2>6, Zenon DEF Numbers!Truncate, Numbers!Rescale
    <3> QED BY <3>1, <3>2, <3>3
  <2>8. PICK Q \in Int : Q = q * T /\ Q = T * q
    OBVIOUS
  <2>9. PICK U \in Int : U = (q + up) * T /\ U = Q + up * T
    BY <2>8
  <2>10. PICK X \in Int : X = t * T /\ X = T * t
    OBVIOUS
  <2>11. Q <= v /\ v < Q + T /\ U >= v /\ v > U - T
    <3>1. v = Q + m /\ 0 <= m /\ m < T
      BY <2>3, <2>8, Zenon
    <3>2. U = IF m = 0 THEN Q ELSE Q + T
      BY <2>4, <2>9
    <3> QED BY <3>1, <3>2
  <2>12. X = IF v < 0 THEN U ELSE Q
    <3>1. /\ v >= 0 => t >= 0 /\ X <= v /\ v < X + T
          /\ v <= 0 => t <= 0 /\ v <= X /\ X - T < v
      BY <2>5, <2>10, Truncated, Zenon
    <3>2. CASE v >= 0
      <4>1. PICK z \in Int : z = t - q /\ T * z = X - Q
        BY <2>8, <2>10
      <4>2. z < 1 /\ z > -1
        <5>1. CASE z >= 1
          <6>1. T * z >= T
            BY <5>1
          <6> QED BY <2>11, <3>1, <3>2, <4>1, <6>1
        <5>2. CASE z <= -1
          <6>1. T * z <= -T
            BY <5>2
          <6> QED BY <2>11, <3>1, <3>2, <4>1, <6>1
        <5> QED BY <5>1, <5>2
      <4>3. z = 0
        BY <4>2
      <4>4. t = q
        BY <4>1, <4>3
      <4>5. X = Q
        BY <2>8, <2>10, <4>4, Zenon
      <4> QED BY <3>2, <4>5
    <3>3. CASE v < 0
      <4>1. PICK z \in Int : z = t - (q + up) /\ T * z = X - U
        BY <2>9, <2>10
      <4>2. z < 1 /\ z > -1
        <5>1. CASE z >= 1
          <6>1. T * z >= T
            BY <5>1
          <6> QED BY <2>11, <3>1, <3>3, <4>1, <6>1
        <5>2. CASE z <= -1
          <6>1. T * z <= -T
            BY <5>2
          <6> QED BY <2>11, <3>1, <3>3, <4>1, <6>1
        <5> QED BY <5>1, <5>2
      <4>3. z = 0
        BY <4>2
      <4>4. t = q + up
        BY <4>1, <4>3
      <4>5. X = U
        BY <2>9, <2>10, <4>4, Zenon
      <4> QED BY <3>3, <4>5
    <3> QED BY <3>2, <3>3
  <2>13. /\ Numbers!At(Numbers!Floor(d), d.exp) = Q /\ Numbers!At(Numbers!Ceil(d), d.exp) = U
         /\ Numbers!At(Numbers!Truncate(d, 0), d.exp) = X /\ Numbers!At(d, d.exp) = v
    <3>1. \A x \in Int : Numbers!Dec(x, 0).value = x /\ Numbers!Dec(x, 0).exp = 0
      BY DEF Numbers!Dec
    <3>2. \A x \in Int : Numbers!At(Numbers!Dec(x, 0), d.exp) = x * T
      BY <2>2, <2>6, <3>1, Zenon DEF Numbers!At
    <3>3. Numbers!At(d, d.exp) = v * 1
      BY <2>3, <2>6, SmallPowers, Zenon DEF Numbers!At
    <3>4. v * 1 = v /\ q + up \in Int
      OBVIOUS
    <3> QED BY <2>7, <2>8, <2>9, <2>10, <3>2, <3>3, <3>4, Zenon
  <2> QED BY <2>2, <2>6, <2>11, <2>12, <2>13, Zenon DEF Numbers!WholeIsNext
<1> QED BY <1>1, <1>2, <1>3

\* Whole multiples of b near a: w is cut off, z is w or the next one.
LEMMA NextMultiple ==
  ASSUME NEW a \in Int, NEW b \in Int, NEW u \in Nat \ {0}, NEW w \in Int, NEW z \in Int, NEW r \in Int,
         u = Numbers!AbsInt(b), a = w + r,
         a >= 0 => 0 <= r /\ r < u, a <= 0 => r <= 0 /\ -r < u,
         \/ 2 * Numbers!AbsInt(r) < u /\ z = w
         \/ 2 * Numbers!AbsInt(r) >= u /\ Numbers!Sign(a) * Numbers!Sign(b) < 0 /\ z = w - b
         \/ 2 * Numbers!AbsInt(r) >= u /\ ~ (Numbers!Sign(a) * Numbers!Sign(b) < 0) /\ z = w + b
  PROVE  /\ 2 * Numbers!AbsInt(z - a) <= u
         /\ 2 * Numbers!AbsInt(z - a) = u => Numbers!AbsInt(z) > Numbers!AbsInt(a)
<1>1. (b = u /\ b > 0) \/ (b = -u /\ b < 0)
  BY DEF Numbers!AbsInt
<1>2. CASE 2 * Numbers!AbsInt(r) < u /\ z = w
  BY <1>2 DEF Numbers!AbsInt
<1>3. CASE 2 * Numbers!AbsInt(r) >= u /\ Numbers!Sign(a) * Numbers!Sign(b) < 0 /\ z = w - b
  <2>1. (a > 0 /\ b < 0) \/ (a < 0 /\ b > 0)
    BY <1>3 DEF Numbers!Sign
  <2>2. CASE a > 0 /\ b < 0
    <3>1. z = w + u /\ 0 <= r /\ r < u /\ 2 * r >= u
      BY <1>1, <1>3, <2>2 DEF Numbers!AbsInt
    <3> QED BY <2>2, <3>1 DEF Numbers!AbsInt
  <2>3. CASE a < 0 /\ b > 0
    <3>1. z = w - u /\ r <= 0 /\ -r < u /\ 2 * (-r) >= u
      BY <1>1, <1>3, <2>3 DEF Numbers!AbsInt
    <3> QED BY <2>3, <3>1 DEF Numbers!AbsInt
  <2> QED BY <2>1, <2>2, <2>3
<1>4. CASE 2 * Numbers!AbsInt(r) >= u /\ ~ (Numbers!Sign(a) * Numbers!Sign(b) < 0) /\ z = w + b
  <2>1. a # 0
    BY <1>4 DEF Numbers!AbsInt
  <2>2. (a > 0 /\ b > 0) \/ (a < 0 /\ b < 0)
    BY <1>1, <1>4, <2>1 DEF Numbers!Sign
  <2>3. CASE a > 0 /\ b > 0
    <3>1. z = w + u /\ 0 <= r /\ r < u /\ 2 * r >= u
      BY <1>1, <1>4, <2>3 DEF Numbers!AbsInt
    <3> QED BY <2>3, <3>1 DEF Numbers!AbsInt
  <2>4. CASE a < 0 /\ b < 0
    <3>1. z = w - u /\ r <= 0 /\ -r < u /\ 2 * (-r) >= u
      BY <1>1, <1>4, <2>4 DEF Numbers!AbsInt
    <3> QED BY <2>4, <3>1 DEF Numbers!AbsInt
  <2> QED BY <2>2, <2>3, <2>4
<1> QED BY <1>2, <1>3, <1>4

\* The quotient that is rounded, ties away from zero.
Neighbour(a, b) ==
  IF 2 * Numbers!AbsInt(Numbers!Rem(a, b)) < Numbers!AbsInt(b) THEN Numbers!Quo(a, b)
  ELSE IF Numbers!Sign(a) * Numbers!Sign(b) < 0 THEN Numbers!Quo(a, b) - 1 ELSE Numbers!Quo(a, b) + 1

\* What is asked of a quotient q, its remainder r and the rounded quotient Q.
NearestQuotients(a, b, q, r, Q) ==
  /\ q \in Int /\ r \in Int /\ Q \in Int
  /\ a = b * q + r /\ Numbers!AbsInt(r) < Numbers!AbsInt(b)
  /\ Numbers!Sign(r) \in {0, Numbers!Sign(a)}
  /\ Numbers!Nearest(b * Q, a, Numbers!AbsInt(b))
  /\ Numbers!Tie(b * Q, a, Numbers!AbsInt(b)) => Numbers!AbsInt(b * Q) > Numbers!AbsInt(a)

\* Integers are divided that way.
LEMMA QuotientIsNearest ==
  ASSUME NEW a \in Int, NEW b \in Int, b # 0
  PROVE  NearestQuotients(a, b, Numbers!Quo(a, b), Numbers!Rem(a, b), Neighbour(a, b))
<1>0. PICK q, r, Q : /\ q = Numbers!Quo(a, b) /\ r = Numbers!Rem(a, b) /\ Q = Neighbour(a, b)
  OBVIOUS
<1>1. /\ q \in Int /\ r \in Int
      /\ a = b * q + r
      /\ a >= 0 => 0 <= r
      /\ a <= 0 => r <= 0
      /\ r < Numbers!AbsInt(b) /\ - r < Numbers!AbsInt(b)
  BY <1>0, Quotients, Zenon
<1>2. PICK u \in Nat : u = Numbers!AbsInt(b) /\ u > 0
  BY DEF Numbers!AbsInt
<1>3. /\ (a >= 0 => 0 <= r /\ r < u) /\ (a <= 0 => r <= 0 /\ -r < u)
  BY <1>1, <1>2, Zenon
<1>4. Numbers!AbsInt(r) < u /\ Numbers!Sign(r) \in {0, Numbers!Sign(a)}
  BY <1>1, <1>3 DEF Numbers!AbsInt, Numbers!Sign
<1>5. PICK w \in Int : w = b * q /\ a = w + r
  <2>1. b * q \in Int
    BY <1>1
  <2> QED BY <1>1, <2>1, Zenon
<1>6. \/ 2 * Numbers!AbsInt(r) < u /\ Q = q
      \/ 2 * Numbers!AbsInt(r) >= u /\ Numbers!Sign(a) * Numbers!Sign(b) < 0 /\ Q = q - 1
      \/ 2 * Numbers!AbsInt(r) >= u /\ ~ (Numbers!Sign(a) * Numbers!Sign(b) < 0) /\ Q = q + 1
  <2>1. Numbers!AbsInt(r) \in Int
    BY <1>1 DEF Numbers!AbsInt
  <2>2. 2 * Numbers!AbsInt(r) < u \/ 2 * Numbers!AbsInt(r) >= u
    BY <2>1
  <2>3. PICK small \in BOOLEAN : small <=> 2 * Numbers!AbsInt(r) < u
    OBVIOUS
  <2>4. Q = IF small THEN q ELSE IF Numbers!Sign(a) * Numbers!Sign(b) < 0 THEN q - 1 ELSE q + 1
    BY <1>0, <1>2, <2>3, Zenon DEF Neighbour
  <2> QED BY <2>2, <2>3, <2>4, Zenon
<1>7. Q \in Int
  BY <1>1, <1>6
<1>8. PICK z \in Int : z = b * Q
  BY <1>7
<1>9. /\ 2 * Numbers!AbsInt(z - a) <= u
      /\ 2 * Numbers!AbsInt(z - a) = u => Numbers!AbsInt(z) > Numbers!AbsInt(a)
  <2>1. /\ Q = q => z = w
        /\ Q = q - 1 => z = w - b
        /\ Q = q + 1 => z = w + b
    <3>1. q \in Int /\ b * (q - 1) = b * q - b /\ b * (q + 1) = b * q + b
      <4>1. q \in Int
        BY <1>1
      <4> QED BY <4>1
    <3> QED BY <1>5, <1>8, <3>1, Zenon
  <2>2. \/ 2 * Numbers!AbsInt(r) < u /\ z = w
        \/ 2 * Numbers!AbsInt(r) >= u /\ Numbers!Sign(a) * Numbers!Sign(b) < 0 /\ z = w - b
        \/ 2 * Numbers!AbsInt(r) >= u /\ ~ (Numbers!Sign(a) * Numbers!Sign(b) < 0) /\ z = w + b
    BY <1>6, <2>1, Zenon
  <2>3. u \in Nat \ {0} /\ r \in Int
    BY <1>1, <1>2
  <2> QED BY <1>2, <1>3, <1>5, <2>2, <2>3, NextMultiple, Zenon
<1>10. z % u = 0
  <2>1. CASE b = u
    <3>1. z = Q * u
      BY <1>7, <1>8, <2>1
    <3> QED BY <1>2, <1>7, <3>1, Multiples, Zenon
  <2>2. CASE b = -u
    <3>1. PICK k \in Int : k = -Q
      BY <1>7
    <3>2. z = k * u
      BY <1>7, <1>8, <2>2, <3>1
    <3> QED BY <1>2, <3>1, <3>2, Multiples, Zenon
  <2> QED BY <1>2, <2>1, <2>2 DEF Numbers!AbsInt
<1>11. NearestQuotients(a, b, q, r, Q)
  BY <1>1, <1>2, <1>4, <1>7, <1>8, <1>9, <1>10, Zenon DEF Numbers!Nearest, Numbers!Tie, NearestQuotients
<1> QED BY <1>0, <1>11, Zenon

\* The integers a and b that QuoRem divides, and the exponent x of the remainder.
Divided(d, d2, p, a, b, x) ==
  /\ a \in Int /\ b \in Int /\ b # 0 /\ x \in Int
  /\ Numbers!Sign(a) = Numbers!Sign(d.value) /\ Numbers!Sign(b) = Numbers!Sign(d2.value)
  /\ Numbers!QuoRem(d, d2, p) = <<Numbers!Dec(Numbers!Quo(a, b), -p), Numbers!Dec(Numbers!Rem(a, b), x)>>
  /\ x = Numbers!Lower(d.exp, d2.exp - p) /\ (x = d.exp \/ x = d2.exp - p)
  /\ Numbers!At(d, x) = a /\ b = d2.value * 10 ^ (d2.exp - p - x)
  /\ 10 ^ (d2.exp - p - x) \in Nat \ {0}

\* A factor that is positive changes no sign.
LEMMA SameSign ==
  ASSUME NEW v \in Int, NEW w \in Nat \ {0}
  PROVE  /\ Numbers!Sign(v * w) = Numbers!Sign(v) /\ v * w \in Int
         /\ Numbers!AbsInt(v * w) = Numbers!AbsInt(v) * w /\ (v # 0 => v * w # 0)
<1>1. CASE v > 0
  <2>1. v * w > 0
    BY <1>1
  <2> QED BY <1>1, <2>1 DEF Numbers!Sign, Numbers!AbsInt
<1>2. CASE v = 0
  <2>1. v * w = 0
    BY <1>2
  <2> QED BY <1>2, <2>1 DEF Numbers!Sign, Numbers!AbsInt
<1>3. CASE v < 0
  <2>1. v * w < 0 /\ -(v * w) = (-v) * w
    BY <1>3
  <2> QED BY <1>3, <2>1 DEF Numbers!Sign, Numbers!AbsInt
<1> QED BY <1>1, <1>2, <1>3

\* The exponents that fit.
LEMMA FittingExponents ==
  ASSUME NEW e, NEW e2, NEW p, DivisionFits(e, e2, p)
  PROVE  /\ Numbers!FitsInt32(e) /\ Numbers!FitsInt32(e2) /\ Numbers!FitsInt32(-p)
         /\ Numbers!FitsInt32(e - e2 + p) /\ Numbers!FitsInt32(e2 - p) /\ Numbers!FitsInt32(e + p)
BY Zenon DEF DivisionFits

\* QuoRem divides integers.
LEMMA DivisionParts ==
  ASSUME ExponentBits, PowersOfTen, NEW d \in Numbers!Decimals, NEW d2 \in Numbers!Decimals,
         NEW p \in Int, d2.value # 0, DivisionFits(d.exp, d2.exp, p)
  PROVE  \E a, b, x : Divided(d, d2, p, a, b, x)
<1>1. PICK v \in Int, v2 \in Int, e1 \in Int, e2 \in Int :
        v = d.value /\ v2 = d2.value /\ e1 = d.exp /\ e2 = d2.exp /\ v2 # 0
  BY DEF Numbers!Decimals
<1>2. PICK e \in Int : e = e1 - e2 - (-p) /\ e = e1 - e2 + p
  OBVIOUS
<1>3. Numbers!Int32(-p) = -p /\ Numbers!Int32(e) = e /\ Numbers!Int32((-p) + e2) = e2 - p
  <2>1. Numbers!FitsInt32(-p) /\ Numbers!FitsInt32(e) /\ Numbers!FitsInt32(e2 - p)
    BY <1>1, <1>2, FittingExponents, Zenon
  <2>2. -p \in Int /\ e2 - p \in Int /\ (-p) + e2 = e2 - p
    OBVIOUS
  <2> QED BY <2>1, <2>2, Int32Fits, Zenon
<1>4. CASE e < 0
  <2>1. -e \in Nat /\ e1 < e2 - p /\ e2 - p - e1 = -e /\ e1 - e1 = 0
    BY <1>2, <1>4
  <2>2. PICK w \in Nat \ {0} : w = 10 ^ (-e)
    BY <2>1, Zenon DEF PowersOfTen
  <2>3. PICK b \in Int : b = v2 * w /\ b # 0 /\ Numbers!Sign(b) = Numbers!Sign(v2)
    BY <1>1, SameSign, Zenon
  <2>4. Numbers!QuoRem(d, d2, p) = <<Numbers!Dec(Numbers!Quo(v, b), -p), Numbers!Dec(Numbers!Rem(v, b), e1)>>
    BY <1>1, <1>2, <1>3, <1>4, <2>2, <2>3, Zenon DEF Numbers!QuoRem
  <2>5. Numbers!Lower(e1, e2 - p) = e1
    BY <2>1 DEF Numbers!Lower
  <2>6. Numbers!At(d, e1) = v
    <3>1. Numbers!At(d, e1) = v * 1
      BY <1>1, <2>1, SmallPowers, Zenon DEF Numbers!At
    <3> QED BY <3>1
  <2>7. b = v2 * 10 ^ (e2 - p - e1) /\ 10 ^ (e2 - p - e1) \in Nat \ {0}
    BY <2>1, <2>2, <2>3, Zenon
  <2>8. Divided(d, d2, p, v, b, e1)
    BY <1>1, <2>3, <2>4, <2>5, <2>6, <2>7, Zenon DEF Divided
  <2> QED BY <2>8, Zenon
<1>5. CASE ~ (e < 0)
  <2>1. e \in Nat /\ e1 >= e2 - p /\ e1 - (e2 - p) = e /\ e2 - p - (e2 - p) = 0 /\ e2 - p \in Int
    BY <1>2, <1>5
  <2>2. PICK w \in Nat \ {0} : w = 10 ^ e
    BY <2>1, Zenon DEF PowersOfTen
  <2>3. PICK a \in Int : a = v * w /\ Numbers!Sign(a) = Numbers!Sign(v)
    BY SameSign, Zenon
  <2>4. Numbers!QuoRem(d, d2, p) = <<Numbers!Dec(Numbers!Quo(a, v2), -p), Numbers!Dec(Numbers!Rem(a, v2), e2 - p)>>
    BY <1>1, <1>2, <1>3, <1>5, <2>2, <2>3, Zenon DEF Numbers!QuoRem
  <2>5. Numbers!Lower(e1, e2 - p) = e2 - p
    BY <2>1 DEF Numbers!Lower
  <2>6. Numbers!At(d, e2 - p) = a
    BY <1>1, <2>1, <2>2, <2>3, Zenon DEF Numbers!At
  <2>7. v2 = v2 * 10 ^ (e2 - p - (e2 - p)) /\ 10 ^ (e2 - p - (e2 - p)) \in Nat \ {0}
    <3>1. v2 = v2 * 1 /\ 1 \in Nat \ {0}
      OBVIOUS
    <3> QED BY <2>1, <3>1, SmallPowers, Zenon
  <2>8. Divided(d, d2, p, a, v2, e2 - p)
    BY <1>1, <2>1, <2>3, <2>4, <2>5, <2>6, <2>7, Zenon DEF Divided
  <2> QED BY <2>8, Zenon
<1> QED BY <1>4, <1>5

\* DivRound takes the neighbour of the quotient when twice the remainder reaches b.
LEMMA RoundedQuotient ==
  ASSUME ExponentBits, PowersOfTen, NEW d \in Numbers!Decimals, NEW d2 \in Numbers!Decimals,
         NEW p \in Int, d2.value # 0, DivisionFits(d.exp, d2.exp, p),
         NEW a, NEW b, NEW x, Divided(d, d2, p, a, b, x)
  PROVE  Numbers!DivRound(d, d2, p) = Numbers!Dec(Neighbour(a, b), -p)
<1>0. PICK q, r : q = Numbers!Quo(a, b) /\ r = Numbers!Rem(a, b)
  OBVIOUS
<1>1. /\ a \in Int /\ b \in Int /\ b # 0 /\ x \in Int
      /\ Numbers!Sign(a) = Numbers!Sign(d.value) /\ Numbers!Sign(b) = Numbers!Sign(d2.value)
      /\ Numbers!QuoRem(d, d2, p) = <<Numbers!Dec(q, -p), Numbers!Dec(r, x)>>
      /\ x = Numbers!Lower(d.exp, d2.exp - p) /\ (x = d.exp \/ x = d2.exp - p)
      /\ b = d2.value * 10 ^ (d2.exp - p - x) /\ 10 ^ (d2.exp - p - x) \in Nat \ {0}
  BY <1>0, Zenon DEF Divided
<1>2. q \in Int /\ r \in Int
  BY <1>0, <1>1, Quotients, Zenon
<1>3. PICK v2 \in Int, e1 \in Int, e2 \in Int : v2 = d2.value /\ e1 = d.exp /\ e2 = d2.exp
  BY DEF Numbers!Decimals
<1>4. x + p \in Int /\ Numbers!Int32(x + p) = x + p /\ Numbers!Int32(-p) = -p /\ x + p <= e2
  <2>1. Numbers!FitsInt32(x + p)
    <3>1. Numbers!FitsInt32(e1 + p) /\ Numbers!FitsInt32(e2)
      BY <1>3, FittingExponents, Zenon
    <3>2. e2 - p + p = e2
      OBVIOUS
    <3> QED BY <1>1, <1>3, <3>1, <3>2, Zenon
  <2>2. Numbers!FitsInt32(-p) /\ -p \in Int /\ x + p \in Int
    <3>1. -p \in Int /\ x + p \in Int
      BY <1>1
    <3> QED BY <3>1, FittingExponents, Zenon
  <2>3. x + p <= e2
    <3>1. x = Numbers!Lower(e1, e2 - p)
      BY <1>1, <1>3, Zenon
    <3> QED BY <3>1 DEF Numbers!Lower
  <2> QED BY <2>1, <2>2, <2>3, Int32Fits, Zenon
<1>5. PICK t \in Int, w \in Nat \ {0}, u \in Int :
        /\ t = 2 * Numbers!AbsInt(r) /\ w = 10 ^ (e2 - p - x) /\ u = Numbers!AbsInt(b)
        /\ u = Numbers!AbsInt(v2) * w /\ Numbers!AbsInt(v2) \in Int
  <2>1. 2 * Numbers!AbsInt(r) \in Int /\ Numbers!AbsInt(b) \in Int /\ Numbers!AbsInt(v2) \in Int
    BY <1>1, <1>2 DEF Numbers!AbsInt
  <2>2. Numbers!AbsInt(b) = Numbers!AbsInt(v2) * 10 ^ (e2 - p - x)
    BY <1>1, <1>3, SameSign, Zenon
  <2> QED BY <1>1, <1>3, <2>1, <2>2, Zenon
<1>6. PICK rv2, abs2, ulp, quo :
        /\ rv2 = Numbers!Dec(t, x + p) /\ abs2 = Numbers!Abs(d2)
        /\ ulp = Numbers!Dec(1, -p) /\ quo = Numbers!Dec(q, -p)
  OBVIOUS
<1>61. /\ rv2 \in Numbers!Decimals /\ rv2.value = t /\ rv2.exp = x + p
       /\ abs2 \in Numbers!Decimals /\ abs2.value = Numbers!AbsInt(v2) /\ abs2.exp = e2
       /\ ulp \in Numbers!Decimals /\ ulp.value = 1 /\ ulp.exp = -p
       /\ quo \in Numbers!Decimals /\ quo.value = q /\ quo.exp = -p
  <2>1. \A y \in Int, z \in Int : /\ Numbers!Dec(y, z) \in Numbers!Decimals
                                  /\ Numbers!Dec(y, z).value = y /\ Numbers!Dec(y, z).exp = z
    BY DEF Numbers!Dec, Numbers!Decimals
  <2>2. Numbers!Abs(d2) = Numbers!Dec(Numbers!AbsInt(v2), e2)
    BY <1>3, Zenon DEF Numbers!Abs
  <2>3. -p \in Int /\ 1 \in Int
    OBVIOUS
  <2>4. rv2 \in Numbers!Decimals /\ rv2.value = t /\ rv2.exp = x + p
    BY <1>4, <1>5, <1>6, <2>1, Zenon
  <2>5. abs2 \in Numbers!Decimals /\ abs2.value = Numbers!AbsInt(v2) /\ abs2.exp = e2
    <3>1. abs2 = Numbers!Dec(Numbers!AbsInt(v2), e2)
      BY <1>6, <2>2, Zenon
    <3>2. Numbers!AbsInt(v2) \in Int
      BY <1>5
    <3> QED BY <1>3, <2>1, <3>1, <3>2, Zenon
  <2>6. ulp \in Numbers!Decimals /\ ulp.value = 1 /\ ulp.exp = -p
    BY <1>6, <2>1, <2>3, Zenon
  <2>7. quo \in Numbers!Decimals /\ quo.value = q /\ quo.exp = -p
    BY <1>2, <1>6, <2>1, <2>3, Zenon
  <2> QED BY <2>4, <2>5, <2>6, <2>7
<1>7. Numbers!Cmp(rv2, abs2) < 0 <=> t < u
  <2>1. Numbers!Lower(x + p, e2) = x + p
    BY <1>4 DEF Numbers!Lower
  <2>2. Numbers!Rescale(rv2, x + p).value = t
    BY <1>4, <1>6, SameExponent, Zenon
  <2>3. Numbers!Rescale(abs2, x + p).value = Numbers!AbsInt(v2) * 10 ^ (e2 - (x + p))
    <3>1. x + p <= abs2.exp
      BY <1>4, <1>61
    <3> QED BY <1>4, <1>61, <3>1, Finer
  <2>4. e2 - (x + p) = e2 - p - x
    BY <1>1
  <2>5. Numbers!Rescale(rv2, x + p).value = t /\ Numbers!Rescale(abs2, x + p).value = u
    <3>1. Numbers!Rescale(abs2, x + p).value = u
      BY <1>5, <2>3, <2>4, Zenon
    <3> QED BY <2>2, <3>1
  <2>6. Numbers!Cmp(rv2, abs2) = Numbers!Sign(t - u)
    BY <1>61, <2>1, <2>5, Zenon DEF Numbers!Cmp
  <2>7. Numbers!Sign(t - u) < 0 <=> t < u
    BY DEF Numbers!Sign
  <2> QED BY <2>6, <2>7, Zenon
<1>8. Numbers!Sub(quo, ulp) = Numbers!Dec(q - 1, -p) /\ Numbers!Add(quo, ulp) = Numbers!Dec(q + 1, -p)
  <2>1. Numbers!Lower(-p, -p) = -p /\ -p \in Int /\ 1 \in Int
    BY DEF Numbers!Lower
  <2>2. Numbers!Rescale(quo, -p).value = q /\ Numbers!Rescale(ulp, -p).value = 1
    BY <1>2, <1>6, <2>1, SameExponent, Zenon
  <2> QED BY <1>61, <2>1, <2>2, Zenon DEF Numbers!Sub, Numbers!Add
<1>9. Numbers!DivRound(d, d2, p)
        = IF Numbers!Cmp(rv2, abs2) < 0 THEN quo
          ELSE IF Numbers!Sign(d.value) * Numbers!Sign(d2.value) < 0 THEN Numbers!Sub(quo, ulp)
          ELSE Numbers!Add(quo, ulp)
  <2>1. PICK qr : /\ qr = Numbers!QuoRem(d, d2, p) /\ qr[1] = quo /\ qr[2] = Numbers!Dec(r, x)
                  /\ qr[2].value = r /\ qr[2].exp = x
    <3>1. PICK qr, rem : qr = Numbers!QuoRem(d, d2, p) /\ rem = Numbers!Dec(r, x) /\ qr = <<quo, rem>>
      BY <1>1, <1>6, Zenon
    <3>2. rem.value = r /\ rem.exp = x
      BY <3>1 DEF Numbers!Dec
    <3>3. qr[1] = quo /\ qr[2] = rem
      BY <3>1
    <3> QED BY <3>1, <3>2, <3>3, Zenon
  <2> QED BY <1>4, <1>5, <1>6, <2>1, Zenon DEF Numbers!DivRound
<1>10. Neighbour(a, b) = IF t < u THEN q
                         ELSE IF Numbers!Sign(a) * Numbers!Sign(b) < 0 THEN q - 1 ELSE q + 1
  BY <1>0, <1>5, Zenon DEF Neighbour
<1>11. CASE t < u
  BY <1>6, <1>7, <1>9, <1>10, <1>11, Zenon
<1>12. CASE ~ (t < u) /\ Numbers!Sign(a) * Numbers!Sign(b) < 0
  BY <1>1, <1>7, <1>8, <1>9, <1>10, <1>12, Zenon
<1>13. CASE ~ (t < u) /\ ~ (Numbers!Sign(a) * Numbers!Sign(b) < 0)
  BY <1>1, <1>7, <1>8, <1>9, <1>10, <1>13, Zenon
<1> QED BY <1>11, <1>12, <1>13, Zenon

\* A quotient and its remainder are what was divided, and DivRound rounds to nearest.
THEOREM DividesToNearest ==
  ASSUME ExponentBits, PowersOfTen, NEW d \in Numbers!Decimals, NEW d2 \in Numbers!Decimals,
         NEW p \in Int, d2.value # 0, DivisionFits(d.exp, d2.exp, p)
  PROVE  Numbers!DivisionIsNearest(d, d2, p)
<1>1. PICK a, b, x : Divided(d, d2, p, a, b, x)
  BY DivisionParts, Zenon
<1>2. PICK q, r, Q : q = Numbers!Quo(a, b) /\ r = Numbers!Rem(a, b) /\ Q = Neighbour(a, b)
  OBVIOUS
<1>3. /\ a \in Int /\ b \in Int /\ b # 0 /\ x \in Int
      /\ Numbers!QuoRem(d, d2, p) = <<Numbers!Dec(q, -p), Numbers!Dec(r, x)>>
      /\ x = Numbers!Lower(d.exp, d2.exp - p)
      /\ Numbers!At(d, x) = a /\ b = d2.value * 10 ^ (d2.exp - p - x)
      /\ 10 ^ (d2.exp - p - x) \in Nat \ {0}
  BY <1>1, <1>2, Zenon DEF Divided
<1>4. /\ q \in Int /\ r \in Int /\ Q \in Int
      /\ a = b * q + r /\ Numbers!AbsInt(r) < Numbers!AbsInt(b)
      /\ Numbers!Sign(r) \in {0, Numbers!Sign(a)}
      /\ Numbers!Nearest(b * Q, a, Numbers!AbsInt(b))
      /\ Numbers!Tie(b * Q, a, Numbers!AbsInt(b)) => Numbers!AbsInt(b * Q) > Numbers!AbsInt(a)
  <2>1. NearestQuotients(a, b, q, r, Q)
    BY <1>2, <1>3, QuotientIsNearest, Zenon
  <2> QED BY <2>1, Zenon DEF NearestQuotients
<1>5. Numbers!DivRound(d, d2, p) = Numbers!Dec(Q, -p)
  BY <1>1, <1>2, RoundedQuotient
<1>6. PICK v2 \in Int, w \in Nat \ {0} : v2 = d2.value /\ w = 10 ^ (d2.exp - p - x) /\ b = v2 * w
  <2>1. d2.value \in Int
    BY DEF Numbers!Decimals
  <2> QED BY <1>3, <2>1, Zenon
<1>7. v2 * q * w = b * q /\ v2 * Q * w = b * Q /\ Numbers!AbsInt(v2) * w = Numbers!AbsInt(b)
  <2>1. \A y \in Int : v2 * y * w = (v2 * w) * y
    OBVIOUS
  <2> QED BY <1>4, <1>6, <2>1, SameSign, Zenon
<1>8. Numbers!Lower(x, x) = x /\ x - x = 0
  BY <1>3 DEF Numbers!Lower
<1>9. PICK qr, quo, rem, res :
        /\ qr = Numbers!QuoRem(d, d2, p) /\ qr[1] = quo /\ qr[2] = rem
        /\ quo.value = q /\ quo.exp = -p /\ rem.value = r /\ rem.exp = x
        /\ res = Numbers!DivRound(d, d2, p) /\ res.value = Q /\ res.exp = -p
  <2>1. PICK qr, quo, rem, res :
          /\ qr = Numbers!QuoRem(d, d2, p) /\ quo = Numbers!Dec(q, -p) /\ rem = Numbers!Dec(r, x)
          /\ qr = <<quo, rem>> /\ res = Numbers!DivRound(d, d2, p) /\ res = Numbers!Dec(Q, -p)
    BY <1>3, <1>5, Zenon
  <2>2. qr[1] = quo /\ qr[2] = rem
    BY <2>1
  <2>3. quo.value = q /\ quo.exp = -p /\ rem.value = r /\ rem.exp = x /\ res.value = Q /\ res.exp = -p
    BY <2>1 DEF Numbers!Dec
  <2> QED BY <2>1, <2>2, <2>3, Zenon
<1>10. Numbers!At(rem, x) = r
  <2>1. Numbers!At(rem, x) = r * 1
    BY <1>8, <1>9, SmallPowers, Zenon DEF Numbers!At
  <2> QED BY <1>4, <2>1
<1>11. PICK n, unit, rounded :
         /\ n = a /\ unit = Numbers!AbsInt(b) /\ rounded = b * Q
         /\ n = Numbers!At(d, x) /\ unit = Numbers!AbsInt(d2.value) * 10 ^ (d2.exp - p - x)
         /\ rounded = d2.value * res.value * 10 ^ (d2.exp - p - x)
         /\ b * q = d2.value * quo.value * 10 ^ (d2.exp - p - x)
  BY <1>3, <1>6, <1>7, <1>9, Zenon
<1>12. /\ n = (d2.value * quo.value * 10 ^ (d2.exp - p - x)) + r
       /\ Numbers!AbsInt(r) < unit /\ Numbers!Sign(r) \in {0, Numbers!Sign(n)}
       /\ Numbers!Nearest(rounded, n, unit)
       /\ Numbers!Tie(rounded, n, unit) => Numbers!AbsInt(rounded) > Numbers!AbsInt(n)
  BY <1>4, <1>11, Zenon
<1>13. Numbers!Lower(Numbers!Lower(d.exp, d2.exp - p), qr[2].exp) = x
  BY <1>3, <1>8, <1>9, Zenon
<1> QED BY <1>9, <1>10, <1>11, <1>12, <1>13, Zenon DEF Numbers!DivisionIsNearest

-----------------------------------------------------------------------------
(* Decimals: powers of ten, and rounding to cash. *)

\* A set of numbers that is not empty has a least one.
LEMMA LeastOf ==
  ASSUME NEW T \in SUBSET Nat, T # {}
  PROVE  \E m \in T : \A k \in T : m <= k
<1> DEFINE R == {ss \in Nat \X Nat : ss[1] < ss[2]}
<1>1. IsWellFoundedOn(R, Nat)
  BY NatLessThanWellFounded, Zenon DEF OpToRel
<1>2. PICK m \in T : \A k \in T : ~ (<<k, m>> \in R)
  <2> HIDE DEF R
  <2> QED BY <1>1, WFMin
<1>3. ASSUME NEW k \in T PROVE m <= k
  <2>1. <<k, m>> \in Nat \X Nat /\ <<k, m>>[1] = k /\ <<k, m>>[2] = m
    OBVIOUS
  <2>2. ~(k < m)
    BY <1>2, <2>1
  <2> QED BY <2>2
<1> QED BY <1>3

\* The law of powers of another base.
Powers(b) == \A n \in Nat : b ^ n \in Nat \ {0} /\ b ^ (n + 1) = b * b ^ n

\* Exponents add up: the least one that would not add is not 0, nor one more than another.
LEMMA PowerSum ==
  ASSUME NEW b \in Nat, b ^ 0 = 1, Powers(b), NEW m \in Nat, NEW n \in Nat
  PROVE  b ^ (m + n) = b ^ m * b ^ n
<1> DEFINE T == {k \in Nat : b ^ (m + k) # b ^ m * b ^ k}
<1>1. SUFFICES ASSUME T # {} PROVE FALSE
  OBVIOUS
<1>2. PICK k \in T : \A j \in T : k <= j
  <2>1. T \in SUBSET Nat
    OBVIOUS
  <2> HIDE DEF T
  <2> QED BY <1>1, <2>1, LeastOf
<1>3. k \in Nat /\ b ^ (m + k) # b ^ m * b ^ k
  OBVIOUS
<1>4. PICK x \in Nat : x = b ^ m
  BY Zenon DEF Powers
<1>5. CASE k = 0
  <2>1. m + k = m /\ x * 1 = x
    BY <1>5
  <2> QED BY <1>3, <1>4, <1>5, <2>1, Zenon
<1>6. CASE k # 0
  <2>1. PICK j \in Nat : k = j + 1
    BY <1>3, <1>6
  <2>2. ~(j \in T)
    BY <1>2, <2>1
  <2>3. b ^ (m + j) = x * b ^ j
    BY <1>4, <2>2
  <2>4. PICK y \in Nat : y = b ^ j /\ b ^ (j + 1) = b * y
    BY Zenon DEF Powers
  <2>5. b ^ (m + j + 1) = b * (x * y)
    <3>1. m + j \in Nat
      OBVIOUS
    <3> QED BY <2>3, <2>4, <3>1, Zenon DEF Powers
  <2>6. m + k = m + j + 1 /\ b * (x * y) = x * (b * y)
    BY <2>1
  <2> QED BY <1>3, <1>4, <2>1, <2>4, <2>5, <2>6, Zenon
<1> QED BY <1>5, <1>6

\* The laws of the powers that decimals and floats are made of.
PowerLaws == PowersOfTen /\ Powers(2) /\ Powers(5)

\* A power of ten is one of two and one of five.
LEMMA TenIsTwoFives ==
  ASSUME PowerLaws, NEW n \in Nat
  PROVE  10 ^ n = 5 ^ n * 2 ^ n
<1> DEFINE T == {k \in Nat : 10 ^ k # 5 ^ k * 2 ^ k}
<1>1. SUFFICES ASSUME T # {} PROVE FALSE
  OBVIOUS
<1>2. PICK k \in T : \A j \in T : k <= j
  <2>1. T \in SUBSET Nat
    OBVIOUS
  <2> HIDE DEF T
  <2> QED BY <1>1, <2>1, LeastOf
<1>3. k \in Nat /\ 10 ^ k # 5 ^ k * 2 ^ k
  OBVIOUS
<1>4. k # 0
  <2>1. 10 ^ 0 = 1 /\ 5 ^ 0 = 1 /\ 2 ^ 0 = 1
    OBVIOUS
  <2>2. 1 * 1 = 1
    OBVIOUS
  <2> QED BY <1>3, <2>1, <2>2, Zenon
<1>5. PICK j \in Nat : k = j + 1
  BY <1>3, <1>4
<1>6. 10 ^ j = 5 ^ j * 2 ^ j
  BY <1>2, <1>5
<1>7. PICK x \in Nat, y \in Nat : x = 5 ^ j /\ y = 2 ^ j /\ 5 ^ (j + 1) = 5 * x /\ 2 ^ (j + 1) = 2 * y
  BY Zenon DEF PowerLaws, Powers
<1>8. 10 ^ (j + 1) = 10 * (x * y)
  BY <1>6, <1>7, Zenon DEF PowerLaws, PowersOfTen
<1>9. 10 * (x * y) = (5 * x) * (2 * y)
  OBVIOUS
<1> QED BY <1>3, <1>5, <1>7, <1>8, <1>9, Zenon

\* A quotient has the two places of money at least, and its exponent fits.
Quotient == DivisionPrecision \in Nat /\ DivisionPrecision >= 2 /\ Numbers!FitsInt32(DivisionPrecision)

\* A division that leaves nothing.
LEMMA ExactQuotient ==
  ASSUME NEW b \in Nat \ {0}, NEW q \in Int
  PROVE  Numbers!Quo(b * q, b) = q /\ Neighbour(b * q, b) = q
<1>1. PICK a \in Int : a = b * q
  OBVIOUS
<1>2. PICK k \in Int, r \in Int : /\ k = Numbers!Quo(a, b) /\ r = Numbers!Rem(a, b)
                                  /\ a = b * k + r /\ r < b /\ -r < b
  <2>1. Numbers!AbsInt(b) = b
    BY DEF Numbers!AbsInt
  <2>2. b \in Int /\ b # 0
    OBVIOUS
  <2>3. /\ Numbers!Quo(a, b) \in Int /\ Numbers!Rem(a, b) \in Int
        /\ a = b * Numbers!Quo(a, b) + Numbers!Rem(a, b)
        /\ Numbers!Rem(a, b) < b /\ - Numbers!Rem(a, b) < b
    BY <2>1, <2>2, Quotients, Zenon
  <2> QED BY <2>3, Zenon
<1>3. b * (q - k) = r
  BY <1>1, <1>2
<1>4. PICK m \in Int : m = q - k /\ b * m = r
  BY <1>3
<1>5. m = 0
  <2>1. CASE m >= 1
    <3>1. b * m >= b
      BY <2>1
    <3> QED BY <1>2, <1>4, <3>1
  <2>2. CASE m <= -1
    <3>1. b * m <= -b
      BY <2>2
    <3> QED BY <1>2, <1>4, <3>1
  <2> QED BY <2>1, <2>2
<1>6. k = q /\ r = 0
  BY <1>4, <1>5
<1>7. 2 * Numbers!AbsInt(r) < Numbers!AbsInt(b)
  BY <1>6 DEF Numbers!AbsInt
<1>8. Neighbour(a, b) = k
  BY <1>2, <1>7, Zenon DEF Neighbour
<1> QED BY <1>1, <1>2, <1>6, <1>8, Zenon

\* A decimal is its value and its exponent.
LEMMA DecFacts ==
  ASSUME NEW v \in Int, NEW e \in Int
  PROVE  /\ Numbers!Dec(v, e) \in Numbers!Decimals
         /\ Numbers!Dec(v, e).value = v /\ Numbers!Dec(v, e).exp = e
BY DEF Numbers!Dec, Numbers!Decimals

LEMMA AsDec ==
  ASSUME NEW d \in Numbers!Decimals
  PROVE  d.value \in Int /\ d.exp \in Int /\ d = Numbers!Dec(d.value, d.exp)
BY DEF Numbers!Dec, Numbers!Decimals

\* Exponents next to 0 fit.
LEMMA NearZeroFits ==
  ASSUME ExponentBits, Quotient
  PROVE  /\ \A n \in -3 .. 2 : Numbers!FitsInt32(n) /\ Numbers!Int32(n) = n
         /\ Numbers!FitsInt32(-DivisionPrecision)
         /\ Numbers!Int32(-DivisionPrecision) = -DivisionPrecision
<1>1. PICK b \in Nat \ {0} : b = 2 ^ (ExpBits - 1)
  BY Zenon DEF ExponentBits
<1>2. DivisionPrecision \in -b .. b - 1 /\ DivisionPrecision \in Nat /\ DivisionPrecision >= 2
  BY <1>1, Zenon DEF Quotient, Numbers!FitsInt32
<1>3. ASSUME NEW n \in Int, n \in -3 .. 2 \/ n = -DivisionPrecision
      PROVE  Numbers!FitsInt32(n) /\ Numbers!Int32(n) = n
  <2>1. n \in -b .. b - 1
    BY <1>2, <1>3
  <2>2. Numbers!FitsInt32(n)
    BY <1>1, <2>1, Zenon DEF Numbers!FitsInt32
  <2> QED BY <2>2, Int32Fits, Zenon
<1>4. -DivisionPrecision \in Int
  BY <1>2
<1>5. \A n \in -3 .. 2 : n \in Int
  OBVIOUS
<1> QED BY <1>3, <1>4, <1>5, Zenon

\* The quotient by an integer of an integer, or of another quotient.
LEMMA DividedByInteger ==
  ASSUME ExponentBits, PowersOfTen, Quotient,
         NEW v \in Int, NEW u \in Nat \ {0}, NEW e \in {0, -DivisionPrecision}
  PROVE  Numbers!Div(Numbers!Dec(v, e), Numbers!Dec(u, 0))
           = Numbers!Dec(Neighbour(v * 10 ^ (e + DivisionPrecision), u), -DivisionPrecision)
<1>1. PICK p \in Int : p = DivisionPrecision /\ e \in Int /\ p >= 2
  BY DEF Quotient
<1>2. PICK d, d2 : /\ d = Numbers!Dec(v, e) /\ d2 = Numbers!Dec(u, 0)
                   /\ d \in Numbers!Decimals /\ d2 \in Numbers!Decimals
                   /\ d.value = v /\ d.exp = e /\ d2.value = u /\ d2.exp = 0 /\ u # 0
  <2>1. u \in Int /\ 0 \in Int /\ u # 0
    OBVIOUS
  <2>2. /\ Numbers!Dec(v, e) \in Numbers!Decimals
        /\ Numbers!Dec(v, e).value = v /\ Numbers!Dec(v, e).exp = e
    BY <1>1, DecFacts, Zenon
  <2>3. /\ Numbers!Dec(u, 0) \in Numbers!Decimals
        /\ Numbers!Dec(u, 0).value = u /\ Numbers!Dec(u, 0).exp = 0
    BY <2>1, DecFacts, Zenon
  <2> QED BY <2>1, <2>2, <2>3, Zenon
<1>3. DivisionFits(d.exp, d2.exp, p)
  <2>1. \A n \in {e, 0, -p, e - 0 + p, 0 - p, e + p} : n \in {0, -p, p}
    BY <1>1
  <2>2. Numbers!FitsInt32(0) /\ Numbers!FitsInt32(-p) /\ Numbers!FitsInt32(p)
    <3>1. 0 \in -3 .. 2
      OBVIOUS
    <3> QED BY <1>1, <3>1, NearZeroFits, Zenon DEF Quotient
  <2>3. \A n \in {e, 0, -p, e - 0 + p, 0 - p, e + p} : Numbers!FitsInt32(n)
    <3> SUFFICES ASSUME NEW n \in {e, 0, -p, e - 0 + p, 0 - p, e + p} PROVE Numbers!FitsInt32(n)
      OBVIOUS
    <3>1. n = 0 \/ n = -p \/ n = p
      BY <2>1
    <3> QED BY <2>2, <3>1, Zenon
  <2> QED BY <1>2, <2>3, Zenon DEF DivisionFits
<1>4. PICK a, b, x : Divided(d, d2, p, a, b, x)
  BY <1>1, <1>2, <1>3, DivisionParts, Zenon
<1>5. Numbers!DivRound(d, d2, p) = Numbers!Dec(Neighbour(a, b), -p)
  BY <1>1, <1>2, <1>3, <1>4, RoundedQuotient
<1>6. x = -p
  <2>1. x = Numbers!Lower(e, 0 - p)
    BY <1>2, <1>4, Zenon DEF Divided
  <2> QED BY <1>1, <2>1 DEF Numbers!Lower
<1>7. a = v * 10 ^ (e + p)
  <2>1. a = v * 10 ^ (e - x)
    BY <1>2, <1>4, Zenon DEF Divided, Numbers!At
  <2>2. e - x = e + p
    BY <1>1, <1>6
  <2> QED BY <2>1, <2>2, Zenon
<1>8. b = u
  <2>1. b = u * 10 ^ (0 - p - x)
    BY <1>2, <1>4, Zenon DEF Divided
  <2>2. 0 - p - x = 0
    BY <1>1, <1>6
  <2>3. b = u * 1
    BY <2>1, <2>2, SmallPowers, Zenon
  <2> QED BY <2>3
<1> QED BY <1>1, <1>2, <1>5, <1>7, <1>8, Zenon DEF Numbers!Div

\* Round gives a number of as many places as are asked for, half a unit away at most.
LEMMA RoundedTo ==
  ASSUME ExponentBits, PowersOfTen, NEW d \in Numbers!Decimals, NEW p \in Int,
         Numbers!FitsInt32(-p), Numbers!FitsInt32(-p - 1),
         NEW e, e = Numbers!Lower(d.exp, -p) - 1
  PROVE  \E R \in Int : /\ Numbers!Round(d, p) = Numbers!Dec(R, -p)
                        /\ 2 * Numbers!AbsInt(R * 10 ^ (-p - e) - Numbers!At(d, e)) <= 10 ^ (-p - e)
<1>1. PICK V, T, c : Cut(d, p, V, T, c)
  <2>1. d.exp \in Int
    BY DEF Numbers!Decimals
  <2>2. d.exp < -p - 1 \/ d.exp = -p - 1 \/ d.exp > -p - 1
    BY <2>1
  <2> QED BY <2>2, CutLong, CutOne, CutNone, Zenon
<1>2. Numbers!Int32(-p) = -p /\ Numbers!Int32(-p - 1) = -p - 1
  <2>1. -p \in Int /\ -p - 1 \in Int
    OBVIOUS
  <2> QED BY <2>1, Int32Fits, Zenon
<1>3. PICK R : /\ R = Tenth(Numbers!Quo(V, T))
               /\ Numbers!Round(d, p) = Numbers!Dec(R, -p)
  <2>1. Numbers!Rescale(d, Numbers!Int32(-p - 1)).value = Numbers!Quo(V, T)
    BY <1>1, <1>2, Zenon DEF Cut
  <2>2. Numbers!Round(d, p) = Numbers!Dec(Tenth(Numbers!Quo(V, T)), -p)
    BY <1>2, <2>1, Zenon DEF Numbers!Round, Tenth
  <2> QED BY <2>2, Zenon
<1>4. R \in Int
  <2>1. V \in Int /\ T \in Nat \ {0}
    BY <1>1, Zenon DEF Cut
  <2>2. Numbers!Quo(V, T) \in Int
    BY <2>1, Truncated, Zenon
  <2> QED BY <1>3, <2>2, TenthIsNearest, Zenon
<1>5. Numbers!Nearest(Numbers!At(Numbers!Round(d, p), e), Numbers!At(d, e), 10 ^ (-p - e))
  <2>1. Numbers!RoundingIsNearest(d, p)
    BY RoundsToNearest, Zenon
  <2> QED BY <2>1, Zenon DEF Numbers!RoundingIsNearest
<1>6. Numbers!At(Numbers!Round(d, p), e) = R * 10 ^ (-p - e)
  <2>1. Numbers!Round(d, p).value = R /\ Numbers!Round(d, p).exp = -p
    BY <1>3 DEF Numbers!Dec
  <2> QED BY <2>1, Zenon DEF Numbers!At
<1> QED BY <1>3, <1>4, <1>5, <1>6, Zenon DEF Numbers!Nearest

\* How many cash units there are in 1, and how many hundredths in a unit.
LEMMA CashUnitFacts ==
  ASSUME NEW i \in DOMAIN Numbers!CashUnits \ {15}
  PROVE  \E u, c \in Nat \ {0} : /\ u = Numbers!CashUnits[i] /\ u * c = 100
                                 /\ \/ u = 20 /\ c = 5
                                    \/ u = 10 /\ c = 10
                                    \/ u = 4 /\ c = 25
                                    \/ u = 2 /\ c = 50
                                    \/ u = 1 /\ c = 100
<1>1. i \in {5, 10, 25, 50, 100}
  BY DEF Numbers!CashUnits
<1>2. CASE i = 5
  <2>1. Numbers!CashUnits[i] = 20
    BY <1>2 DEF Numbers!CashUnits
  <2> QED BY <2>1
<1>3. CASE i = 10
  <2>1. Numbers!CashUnits[i] = 10
    BY <1>3 DEF Numbers!CashUnits
  <2> QED BY <2>1
<1>4. CASE i = 25
  <2>1. Numbers!CashUnits[i] = 4
    BY <1>4 DEF Numbers!CashUnits
  <2> QED BY <2>1
<1>5. CASE i = 50
  <2>1. Numbers!CashUnits[i] = 2
    BY <1>5 DEF Numbers!CashUnits
  <2> QED BY <2>1
<1>6. CASE i = 100
  <2>1. Numbers!CashUnits[i] = 1
    BY <1>6 DEF Numbers!CashUnits
  <2> QED BY <2>1
<1> QED BY <1>1, <1>2, <1>3, <1>4, <1>5, <1>6

\* An integer divided by a divisor of 100 is cut off to two places without a loss.
LEMMA HundredthsAreExact ==
  ASSUME ExponentBits, PowersOfTen, Quotient,
         NEW R \in Int, NEW u \in Nat \ {0}, NEW c \in Nat, u * c = 100
  PROVE  Numbers!Truncate(Numbers!Div(Numbers!Dec(R, 0), Numbers!Dec(u, 0)), 2) = Numbers!Dec(R * c, -2)
<1>1. PICK p \in Int, k \in Nat : p = DivisionPrecision /\ k = p - 2 /\ p = k + 1 + 1
  BY DEF Quotient
<1>2. PICK w \in Nat \ {0} : w = 10 ^ k /\ 10 ^ p = 100 * w
  <2>1. PICK w \in Nat \ {0} : w = 10 ^ k /\ 10 ^ (k + 1) = 10 * w
    BY Zenon DEF PowersOfTen
  <2>2. k + 1 \in Nat
    OBVIOUS
  <2>3. 10 ^ (k + 1 + 1) = 10 * (10 * w)
    BY <2>1, <2>2, Zenon DEF PowersOfTen
  <2>4. 10 * (10 * w) = 100 * w
    OBVIOUS
  <2> QED BY <1>1, <2>1, <2>3, <2>4, Zenon
<1>3. PICK x \in Int : x = R * c
  OBVIOUS
<1>4. Numbers!Div(Numbers!Dec(R, 0), Numbers!Dec(u, 0)) = Numbers!Dec(w * x, -p)
  <2>1. Numbers!Div(Numbers!Dec(R, 0), Numbers!Dec(u, 0))
          = Numbers!Dec(Neighbour(R * 10 ^ (0 + DivisionPrecision), u), -DivisionPrecision)
    <3>1. 0 \in {0, -DivisionPrecision}
      OBVIOUS
    <3> QED BY <3>1, DividedByInteger, Zenon
  <2>2. 0 + DivisionPrecision = p
    BY <1>1
  <2>3. R * (100 * w) = u * (w * x)
    <3>1. u * (w * (R * c)) = (u * c) * (R * w)
      OBVIOUS
    <3>2. PICK y \in Int : y = R * w
      OBVIOUS
    <3>3. R * (100 * w) = 100 * y
      BY <3>2
    <3> QED BY <1>3, <3>1, <3>2, <3>3, Zenon
  <2>4. Neighbour(u * (w * x), u) = w * x
    <3>1. w * x \in Int
      OBVIOUS
    <3> QED BY <3>1, ExactQuotient, Zenon
  <2> QED BY <1>1, <1>2, <2>1, <2>2, <2>3, <2>4, Zenon
<1>5. PICK d : d = Numbers!Dec(w * x, -p) /\ d.value = w * x /\ d.exp = -p
  <2>1. PICK y \in Int, n \in Int : y = w * x /\ n = -p
    OBVIOUS
  <2>2. Numbers!Dec(y, n).value = y /\ Numbers!Dec(y, n).exp = n
    BY DecFacts
  <2> QED BY <2>1, <2>2, Zenon
<1>6. Numbers!Truncate(d, 2) = Numbers!Dec(x, -2)
  <2>1. CASE k = 0
    <3>1. w = 1
      BY <1>2, <2>1, SmallPowers, Zenon
    <3>2. w * x = x /\ ~ (-2 > -p) /\ -p = -2
      BY <1>1, <2>1, <3>1
    <3>3. ~ (-2 > d.exp)
      BY <1>5, <3>2, Zenon
    <3>4. Numbers!Truncate(d, 2) = d
      BY <3>3, Zenon DEF Numbers!Truncate
    <3> QED BY <1>5, <3>2, <3>4, Zenon
  <2>2. CASE k # 0
    <3>1. -2 > -p /\ -2 - (-p) = k /\ 2 >= 0
      BY <1>1, <2>2
    <3>2. Numbers!Truncate(d, 2) = Numbers!Rescale(d, -2)
      BY <1>5, <3>1, Zenon DEF Numbers!Truncate
    <3>3. Numbers!Rescale(d, -2) = Numbers!Dec(Numbers!Quo(w * x, 10 ^ k), -2)
      BY <1>5, <3>1, Zenon DEF Numbers!Rescale
    <3>4. Numbers!Quo(w * x, w) = x
      BY ExactQuotient, Zenon
    <3> QED BY <1>2, <3>2, <3>3, <3>4, Zenon
  <2> QED BY <2>1, <2>2
<1> QED BY <1>3, <1>4, <1>5, <1>6, Zenon

\* RoundCash in hundredths: c for each of R units, the nearest number of them when d and
\* the units are compared at exponent e.
InUnits(d, i, u, c, e) ==
  \E R \in Int : /\ Numbers!RoundCash(d, i) = Numbers!Dec(R * c, -2)
                 /\ 2 * Numbers!AbsInt(R * 10 ^ (-e) - (d.value * u) * 10 ^ (d.exp - e)) <= 10 ^ (-e)

LEMMA CashInHundredths ==
  ASSUME ExponentBits, PowersOfTen, Quotient, NEW d \in Numbers!Decimals,
         NEW i \in DOMAIN Numbers!CashUnits \ {15},
         NEW u \in Nat \ {0}, NEW c \in Nat, u = Numbers!CashUnits[i], u * c = 100,
         NEW e, e = Numbers!Lower(d.exp, 0) - 1
  PROVE  InUnits(d, i, u, c, e)
<1>1. d.value \in Int /\ d.exp \in Int /\ d = Numbers!Dec(d.value, d.exp)
  BY AsDec, Zenon
<1>2. PICK m : /\ m = Numbers!Mul(d, Numbers!Dec(u, 0)) /\ m \in Numbers!Decimals
               /\ m.value = d.value * u /\ m.exp = d.exp
  <2>1. Numbers!Dec(u, 0).value = u /\ Numbers!Dec(u, 0).exp = 0
    BY DEF Numbers!Dec
  <2>2. d.exp + 0 = d.exp /\ d.value * u \in Int
    BY <1>1
  <2>3. Numbers!Mul(d, Numbers!Dec(u, 0)) = Numbers!Dec(d.value * u, d.exp)
    BY <2>1, <2>2, Zenon DEF Numbers!Mul
  <2> QED BY <1>1, <2>2, <2>3, DecFacts
<1>3. -0 = 0
  <2>1. \A z \in Int : -z = 0 - z
    OBVIOUS
  <2>2. 0 \in Int /\ 0 - 0 = 0
    OBVIOUS
  <2> QED BY <2>1, <2>2, Zenon
<1>4. PICK R \in Int : /\ Numbers!Round(m, 0) = Numbers!Dec(R, 0)
                       /\ 2 * Numbers!AbsInt(R * 10 ^ (-e) - Numbers!At(m, e)) <= 10 ^ (-e)
  <2>1. Numbers!FitsInt32(-0) /\ Numbers!FitsInt32(-0 - 1)
    <3>1. 0 \in -3 .. 2 /\ -1 \in -3 .. 2 /\ 0 - 1 = -1
      OBVIOUS
    <3> QED BY <1>3, <3>1, NearZeroFits
  <2>2. e = Numbers!Lower(m.exp, -0) - 1 /\ e \in Int
    <3>1. Numbers!Lower(d.exp, 0) - 1 \in Int
      BY <1>1 DEF Numbers!Lower
    <3> QED BY <1>2, <1>3, <3>1, Zenon
  <2>3. -0 - e = -e
    <3>1. 0 - e = -e
      BY <2>2
    <3> QED BY <1>3, <3>1, Zenon
  <2>4. 0 \in Int
    OBVIOUS
  <2>5. \E R \in Int : /\ Numbers!Round(m, 0) = Numbers!Dec(R, -0)
                       /\ 2 * Numbers!AbsInt(R * 10 ^ (-0 - e) - Numbers!At(m, e)) <= 10 ^ (-0 - e)
    BY <1>2, <2>1, <2>2, <2>4, RoundedTo, Zenon
  <2> QED BY <1>3, <2>3, <2>5
<1>5. Numbers!RoundCash(d, i) = Numbers!Dec(R * c, -2)
  <2>1. i # 15
    OBVIOUS
  <2>2. Numbers!RoundCash(d, i)
          = Numbers!Truncate(Numbers!Div(Numbers!Dec(R, 0), Numbers!Dec(u, 0)), 2)
    BY <1>2, <1>4, <2>1, Zenon DEF Numbers!RoundCash
  <2> QED BY <2>2, HundredthsAreExact
<1>6. Numbers!At(m, e) = (d.value * u) * 10 ^ (d.exp - e)
  BY <1>2, Zenon DEF Numbers!At
<1> QED BY <1>4, <1>5, <1>6, Zenon DEF InUnits

\* Said for the provers, which see it of no literal.
LEMMA Negated == ASSUME NEW n \in Int PROVE -n = 0 - n
OBVIOUS

\* A common factor does not matter.
LEMMA NearestScaled ==
  ASSUME NEW x \in Int, NEW n \in Int, NEW q \in Nat, NEW u \in {20, 10, 4, 2, 1},
         2 * Numbers!AbsInt(u * x - u * n) <= u * q
  PROVE  2 * Numbers!AbsInt(x - n) <= q
BY DEF Numbers!AbsInt

\* RoundCash gives the nearest number of cash units.
THEOREM CashRounds ==
  ASSUME ExponentBits, PowersOfTen, Quotient, NEW d \in Numbers!Decimals
  PROVE  Numbers!CashIsNearest(d)
<1>0. PICK e \in Int : e = Numbers!Lower(d.exp, -2)
  BY AsDec DEF Numbers!Lower
<1> SUFFICES ASSUME NEW i \in DOMAIN Numbers!CashUnits \ {15}
             PROVE  Numbers!Nearest(Numbers!At(Numbers!RoundCash(d, i), e), Numbers!At(d, e),
                                    10 ^ (-e) \div Numbers!CashUnits[i])
  BY <1>0, Zenon DEF Numbers!CashIsNearest
<1>1. PICK v \in Int, x \in Int : v = d.value /\ x = d.exp
  BY AsDec, Zenon
<1>2. PICK u \in Nat \ {0}, c \in Nat \ {0} :
        /\ u = Numbers!CashUnits[i] /\ u * c = 100
        /\ \/ u = 20 /\ c = 5
           \/ u = 10 /\ c = 10
           \/ u = 4 /\ c = 25
           \/ u = 2 /\ c = 50
           \/ u = 1 /\ c = 100
  BY CashUnitFacts
<1>3. u \in {20, 10, 4, 2, 1} /\ u \in Nat \ {0} /\ u * c = 100 /\ c > 0 /\ c \in Nat
  BY <1>2
<1>4. PICK f \in Int : f = Numbers!Lower(x, 0) - 1
  BY DEF Numbers!Lower
<1>5. PICK R \in Int :
        /\ Numbers!RoundCash(d, i) = Numbers!Dec(R * c, -2)
        /\ 2 * Numbers!AbsInt(R * 10 ^ (-f) - (v * u) * 10 ^ (x - f)) <= 10 ^ (-f)
  <2>1. f = Numbers!Lower(d.exp, 0) - 1
    BY <1>1, <1>4, Zenon
  <2>2. InUnits(d, i, u, c, f)
    BY <1>2, <1>3, <2>1, CashInHundredths
  <2> QED BY <1>1, <2>2, Zenon DEF InUnits
<1>6. e \in Int /\ -2 - e \in Nat /\ (x <= -2 => e = x) /\ (x > -2 => e = -2)
  BY <1>0, <1>1 DEF Numbers!Lower
<1>7. PICK z \in Nat \ {0} : z = 10 ^ (-2 - e) /\ 10 ^ (-e) = 100 * z /\ 10 ^ (-e + 1) = 1000 * z
  <2>1. PICK k \in Nat : k = -2 - e
    BY <1>6
  <2>2. k + 1 \in Nat /\ k + 1 + 1 \in Nat
    OBVIOUS
  <2>3. PICK z \in Nat \ {0} : z = 10 ^ k /\ 10 ^ (k + 1) = 10 * z
    BY Zenon DEF PowersOfTen
  <2>4. 10 ^ (k + 1 + 1) = 10 * (10 * z)
    BY <2>2, <2>3, Zenon DEF PowersOfTen
  <2>5. 10 ^ (k + 1 + 1 + 1) = 10 * (10 * (10 * z))
    BY <2>2, <2>4, Zenon DEF PowersOfTen
  <2>6. k + 1 + 1 = -e /\ k + 1 + 1 + 1 = -e + 1
    BY <1>6, <2>1
  <2>7. 10 * (10 * z) = 100 * z /\ 10 * (10 * (10 * z)) = 1000 * z
    OBVIOUS
  <2> QED BY <2>1, <2>3, <2>4, <2>5, <2>6, <2>7
<1>8. PICK y \in Int, q \in Nat \ {0} : q = c * z /\ y = R * q /\ 10 ^ (-e) = q * u
  <2>1. c * z \in Nat \ {0}
    BY <1>3
  <2>2. (c * z) * u = 100 * z
    BY <1>3
  <2>3. R * (c * z) \in Int
    OBVIOUS
  <2> QED BY <1>7, <2>1, <2>2, <2>3
<1>9. 10 ^ (-e) \div u = q
  BY <1>3, <1>8, Multiples
<1>10. Numbers!At(Numbers!RoundCash(d, i), e) = y
  <2>1. Numbers!At(Numbers!RoundCash(d, i), e) = (R * c) * 10 ^ (-2 - e)
    BY <1>5 DEF Numbers!At, Numbers!Dec
  <2>2. (R * c) * z = R * (c * z)
    OBVIOUS
  <2> QED BY <1>7, <1>8, <2>1, <2>2
<1>11. PICK n \in Int : /\ n = Numbers!At(d, e)
                        /\ 2 * Numbers!AbsInt(u * y - u * n) <= u * q
  <2>0. Numbers!At(d, e) = v * 10 ^ (x - e)
    BY <1>1, Zenon DEF Numbers!At
  <2>1. PICK s \in Int : s = R * z
    OBVIOUS
  <2>2. u * y = 100 * s /\ u * q = 100 * z
    <3>1. u * (R * (c * z)) = (u * c) * (R * z) /\ u * (c * z) = (u * c) * z
      OBVIOUS
    <3> QED BY <1>3, <1>8, <2>1, <3>1, Zenon
  <2>3. CASE x <= -2
    <3>1. e = x /\ f = x - 1 /\ -f = -e + 1 /\ x - e = 0 /\ x - f = 1
      BY <1>4, <1>6, <2>3 DEF Numbers!Lower
    <3>2. 2 * Numbers!AbsInt(R * (1000 * z) - (v * u) * 10) <= 1000 * z
      BY <1>5, <1>7, <3>1, SmallPowers
    <3>3. PICK t \in Int : t = u * v /\ (v * u) * 10 = 10 * t
      OBVIOUS
    <3>4. R * (1000 * z) = 1000 * s
      BY <2>1
    <3>5. 2 * Numbers!AbsInt(1000 * s - 10 * t) <= 1000 * z
      BY <3>2, <3>3, <3>4
    <3>6. 2 * Numbers!AbsInt(100 * s - t) <= 100 * z
      BY <3>5 DEF Numbers!AbsInt
    <3>7. Numbers!At(d, e) = v
      BY <2>0, <3>1, SmallPowers
    <3> QED BY <2>2, <3>3, <3>6, <3>7, Zenon
  <2>4. CASE x = -1
    <3>0. e = -2 /\ f = -2
      BY <1>4, <1>6, <2>4 DEF Numbers!Lower
    <3>1. e = -2 /\ f = -2 /\ -f = 2 /\ x - e = 1 /\ x - f = 1 /\ -2 - e = 0
      <4>1. 0 - f = 2 /\ x - e = 1 /\ x - f = 1 /\ -2 - e = 0
        BY <2>4, <3>0
      <4> QED BY <3>0, <4>1, Negated, Zenon
    <3>2. 2 * Numbers!AbsInt(R * 100 - (v * u) * 10) <= 100
      BY <1>5, <3>1, SmallPowers
    <3>3. z = 1
      BY <1>7, <3>1, SmallPowers
    <3>4. PICK n \in Int : n = v * 10
      OBVIOUS
    <3>5. u * n = (v * u) * 10
      BY <3>4
    <3>6. 2 * Numbers!AbsInt(100 * s - u * n) <= 100 * z
      <4>1. R * 100 = 100 * s /\ 100 * z = 100
        BY <2>1, <3>3
      <4> QED BY <3>2, <3>5, <4>1, Zenon
    <3>7. Numbers!At(d, e) = n
      BY <2>0, <3>1, <3>4, SmallPowers
    <3> QED BY <2>2, <3>4, <3>6, <3>7, Zenon
  <2>5. CASE x >= 0
    <3>0. e = -2 /\ f = -1
      BY <1>4, <1>6, <2>5 DEF Numbers!Lower
    <3>1. e = -2 /\ f = -1 /\ -f = 1 /\ x - e = x + 1 + 1 /\ x - f = x + 1 /\ -2 - e = 0 /\ x \in Nat /\ x + 1 \in Nat
      <4>1. /\ 0 - f = 1 /\ x - e = x + 1 + 1 /\ x - f = x + 1 /\ -2 - e = 0
            /\ x \in Nat /\ x + 1 \in Nat
        BY <2>5, <3>0
      <4> QED BY <3>0, <4>1, Negated, Zenon
    <3>2. PICK w \in Nat \ {0} : w = 10 ^ x /\ 10 ^ (x + 1) = 10 * w /\ 10 ^ (x + 1 + 1) = 10 * (10 * w)
      <4>1. PICK w \in Nat \ {0} : w = 10 ^ x /\ 10 ^ (x + 1) = 10 * w
        BY <3>1, Zenon DEF PowersOfTen
      <4> QED BY <3>1, <4>1, Zenon DEF PowersOfTen
    <3>3. z = 1
      BY <1>7, <3>1, SmallPowers
    <3>4. 2 * Numbers!AbsInt(R * 10 - (v * u) * (10 * w)) <= 10
      BY <1>5, <3>1, <3>2, SmallPowers
    <3>5. PICK t \in Int, n \in Int : t = (v * u) * w /\ n = v * (10 * (10 * w))
      OBVIOUS
    <3>6. (v * u) * (10 * w) = 10 * t /\ u * n = 100 * t
      BY <3>5
    <3>7. 2 * Numbers!AbsInt(10 * R - 10 * t) <= 10
      <4>1. R * 10 = 10 * R
        OBVIOUS
      <4> QED BY <3>4, <3>6, <4>1, Zenon
    <3>8. R = t
      BY <3>7 DEF Numbers!AbsInt
    <3>9. 2 * Numbers!AbsInt(100 * s - u * n) <= 100 * z
      <4>1. 100 * s = 100 * t /\ 100 * z = 100
        BY <2>1, <3>3, <3>8
      <4> QED BY <3>6, <4>1 DEF Numbers!AbsInt
    <3>10. Numbers!At(d, e) = n
      BY <2>0, <3>1, <3>2, <3>5, Zenon
    <3> QED BY <2>2, <3>5, <3>9, <3>10, Zenon
  <2> QED BY <2>3, <2>4, <2>5
<1>12. 2 * Numbers!AbsInt(y - n) <= q
  <2>1. q \in Nat /\ u \in {20, 10, 4, 2, 1} /\ 2 * Numbers!AbsInt(u * y - u * n) <= u * q
    BY <1>3, <1>11
  <2> QED BY <2>1, NearestScaled, Zenon
<1>13. y % q = 0
  <2>1. q \in Nat /\ q > 0 /\ R * q = y
    BY <1>8
  <2>2. (R * q) % q = 0
    BY <2>1, Multiples, Zenon
  <2> QED BY <2>1, <2>2, Zenon
<1> QED BY <1>2, <1>9, <1>10, <1>11, <1>12, <1>13, Zenon DEF Numbers!Nearest

-----------------------------------------------------------------------------
(* Decimals: powers, by recursion on the exponent. *)

\* The exponents that Pow goes through, how it halves one, and what it makes of the
\* power t of the half.
Exponents == [value : Int, exp : {0, -DivisionPrecision}]
Half(n) == Numbers!Div(n, Numbers!Dec(2, 0))
Power(d, t, n) ==
  IF Numbers!IntPart(n) = 0 THEN Numbers!Dec(1, 0)
  ELSE LET square == Numbers!Mul(t, t)
       IN  IF Numbers!IntPart(n) % 2 = 0 THEN square
           ELSE IF Numbers!IntPart(n) > 0 THEN Numbers!Mul(square, d) ELSE Numbers!Div(square, d)

\* A half is smaller, counted in units of the last place, as long as Pow goes on.
Size(n) ==
  IF n.exp = 0 THEN Numbers!AbsInt(n.value) * 10 ^ DivisionPrecision + 1 ELSE Numbers!AbsInt(n.value)

\* The neighbour of a half.
LEMMA HalfOf ==
  ASSUME NEW a \in Int
  PROVE  /\ Neighbour(a, 2) \in Int
         /\ 2 * Neighbour(a, 2) - a \in -1 .. 1
<1>1. PICK q, r, Q : q = Numbers!Quo(a, 2) /\ r = Numbers!Rem(a, 2) /\ Q = Neighbour(a, 2)
  OBVIOUS
<1>2. NearestQuotients(a, 2, q, r, Q)
  BY <1>1, QuotientIsNearest
<1>3. Q \in Int /\ 2 * Numbers!AbsInt(2 * Q - a) <= Numbers!AbsInt(2)
  BY <1>2, Zenon DEF NearestQuotients, Numbers!Nearest
<1>4. 2 * Q - a \in -1 .. 1
  BY <1>3 DEF Numbers!AbsInt
<1> QED BY <1>1, <1>3, <1>4, Zenon

\* The integers that exponents stand for.
LEMMA IntParts ==
  ASSUME Quotient, PowersOfTen, NEW v \in Int
  PROVE  /\ Numbers!IntPart(Numbers!Dec(v, 0)) = v
         /\ Numbers!IntPart(Numbers!Dec(v, -DivisionPrecision)) = Numbers!Quo(v, 10 ^ DivisionPrecision)
<1>1. PICK p \in Nat : p = DivisionPrecision /\ p >= 2
  BY DEF Quotient
<1>2. PICK e \in Int : e = -p /\ 0 > e /\ 0 - e = p
  BY <1>1
<1>3. /\ Numbers!Dec(v, 0).value = v /\ Numbers!Dec(v, 0).exp = 0
      /\ Numbers!Dec(v, e).value = v /\ Numbers!Dec(v, e).exp = e
  BY DEF Numbers!Dec
<1>4. Numbers!IntPart(Numbers!Dec(v, 0)) = v
  <2>1. 0 \in Int
    OBVIOUS
  <2> QED BY <2>1, SameExponent, Zenon DEF Numbers!IntPart
<1>5. Numbers!Rescale(Numbers!Dec(v, e), 0) = Numbers!Dec(Numbers!Quo(v, 10 ^ p), 0)
  BY <1>2, <1>3, Zenon DEF Numbers!Rescale
<1>6. Numbers!Rescale(Numbers!Dec(v, e), 0).value = Numbers!Quo(v, 10 ^ p)
  <2>1. \A x : Numbers!Dec(x, 0).value = x
    BY DEF Numbers!Dec
  <2> QED BY <1>5, <2>1, Zenon
<1> QED BY <1>1, <1>2, <1>4, <1>6, Zenon DEF Numbers!IntPart

\* What halving does.
LEMMA HalfFacts ==
  ASSUME ExponentBits, PowersOfTen, Quotient, NEW n \in Exponents
  PROVE  /\ Half(n) = Numbers!Dec(Neighbour(n.value * 10 ^ (n.exp + DivisionPrecision), 2), -DivisionPrecision)
         /\ Half(n) \in Exponents /\ Size(n) \in Nat
         /\ Numbers!IntPart(n) # 0 => Size(Half(n)) < Size(n)
<1>1. PICK p \in Nat, P \in Nat \ {0} : p = DivisionPrecision /\ p >= 2 /\ P = 10 ^ p
  BY DEF Quotient, PowersOfTen
<1>2. P >= 2
  <2>1. PICK k \in Nat : p = k + 1
    BY <1>1
  <2>2. PICK w \in Nat \ {0} : w = 10 ^ k /\ 10 ^ (k + 1) = 10 * w
    BY Zenon DEF PowersOfTen
  <2>3. P = 10 * w
    BY <1>1, <2>1, <2>2, Zenon
  <2> QED BY <2>2, <2>3
<1>3. PICK v \in Int, e \in {0, -DivisionPrecision} : v = n.value /\ e = n.exp /\ n = Numbers!Dec(v, e)
  BY DEF Exponents, Numbers!Dec
<1>4. PICK a \in Int : a = v * 10 ^ (e + DivisionPrecision)
  <2>1. e + p \in Nat
    BY <1>1
  <2>2. PICK y \in Nat : y = 10 ^ (e + p)
    BY <2>1, Zenon DEF PowersOfTen
  <2>3. v * y \in Int
    OBVIOUS
  <2> QED BY <1>1, <2>2, <2>3, Zenon
<1>5. PICK h \in Int : h = Neighbour(a, 2) /\ 2 * h - a \in -1 .. 1
  BY HalfOf
<1>6. Half(n) = Numbers!Dec(h, -DivisionPrecision)
  <2>1. 2 \in Nat \ {0}
    OBVIOUS
  <2>2. Numbers!Div(Numbers!Dec(v, e), Numbers!Dec(2, 0))
          = Numbers!Dec(Neighbour(v * 10 ^ (e + DivisionPrecision), 2), -DivisionPrecision)
    BY <2>1, DividedByInteger
  <2> QED BY <1>3, <1>4, <1>5, <2>2, Zenon DEF Half
<1>7. Half(n) \in Exponents /\ Half(n).value = h /\ Half(n).exp # 0
  BY <1>1, <1>6 DEF Exponents, Numbers!Dec
<1>8. Size(Half(n)) = Numbers!AbsInt(h)
  BY <1>7, Zenon DEF Size
<1>9. CASE e = 0
  <2>1. e + DivisionPrecision = p
    BY <1>1, <1>9
  <2>2. a = v * P
    BY <1>1, <1>4, <2>1, Zenon
  <2>3. Numbers!AbsInt(a) = Numbers!AbsInt(v) * P /\ Numbers!AbsInt(a) \in Nat
    <3>1. Numbers!AbsInt(v * P) = Numbers!AbsInt(v) * P
      BY SameSign, Zenon
    <3>2. Numbers!AbsInt(a) \in Nat
      BY DEF Numbers!AbsInt
    <3> QED BY <2>2, <3>1, <3>2, Zenon
  <2>4. PICK s \in Nat : s = Numbers!AbsInt(a) /\ Size(n) = s + 1
    BY <1>1, <1>3, <1>9, <2>3, Zenon DEF Size
  <2>5. Numbers!AbsInt(h) < s + 1
    BY <1>5, <2>4 DEF Numbers!AbsInt
  <2>6. s + 1 \in Nat
    OBVIOUS
  <2> QED BY <1>3, <1>4, <1>5, <1>6, <1>7, <1>8, <2>4, <2>5, <2>6, Zenon
<1>10. CASE e # 0
  <2>1. e = -DivisionPrecision
    BY <1>10
  <2>2. a = v
    <3>1. e + DivisionPrecision = 0
      BY <1>1, <2>1
    <3>2. a = v * 1
      BY <1>4, <3>1, SmallPowers, Zenon
    <3> QED BY <3>2
  <2>3. Size(n) = Numbers!AbsInt(v) /\ Numbers!AbsInt(v) \in Nat
    <3>1. Size(n) = Numbers!AbsInt(v)
      BY <1>3, <1>10, Zenon DEF Size
    <3>2. Numbers!AbsInt(v) \in Nat
      BY DEF Numbers!AbsInt
    <3> QED BY <3>1, <3>2
  <2>4. ASSUME Numbers!IntPart(n) # 0 PROVE Numbers!AbsInt(h) < Numbers!AbsInt(v)
    <3>1. PICK q \in Int : /\ q = Numbers!Quo(v, P) /\ q # 0
                           /\ v >= 0 => q >= 0 /\ P * q <= v
                           /\ v <= 0 => q <= 0 /\ v <= P * q
      <4>1. Numbers!Quo(v, P) # 0
        BY <1>1, <1>3, <2>1, <2>4, IntParts, Zenon
      <4> QED BY <4>1, Truncated
    <3>2. v >= 2 \/ v <= -2
      <4>1. CASE v >= 0
        <5>1. P * q >= P
          BY <3>1, <4>1
        <5> QED BY <1>2, <3>1, <4>1, <5>1
      <4>2. CASE v <= 0
        <5>1. P * q <= -P
          BY <3>1, <4>2
        <5> QED BY <1>2, <3>1, <4>2, <5>1
      <4> QED BY <4>1, <4>2
    <3> QED BY <1>5, <2>2, <3>2 DEF Numbers!AbsInt
  <2> QED BY <1>3, <1>4, <1>5, <1>6, <1>7, <1>8, <2>3, <2>4, Zenon
<1> QED BY <1>9, <1>10

\* The powers of exponents up to a size.
Upto(k) == {n \in Exponents : Size(n) <= k}
Solves(d, f, k) == f = [n \in Upto(k) |-> Power(d, f[Half(n)], n)]

\* When the power of an exponent is that of its half, only that matters.
LEMMA PowerStops ==
  ASSUME NEW d, NEW n, NEW t, NEW u, Numbers!IntPart(n) = 0 \/ t = u
  PROVE  Power(d, t, n) = Power(d, u, n)
BY Zenon DEF Power

LEMMA HalfUpto ==
  ASSUME ExponentBits, PowersOfTen, Quotient, NEW k \in Nat, NEW n \in Upto(k), Numbers!IntPart(n) # 0
  PROVE  /\ n \in Exponents /\ Half(n) \in Upto(Size(Half(n))) /\ Size(Half(n)) \in Nat
         /\ Size(Half(n)) < Size(n) /\ Size(n) <= k /\ Half(n) \in Upto(k)
         /\ \A j \in Nat : k = j + 1 => Half(n) \in Upto(j)
<1>1. n \in Exponents /\ Size(n) <= k
  BY Zenon DEF Upto
<1>2. Half(n) \in Exponents /\ Size(n) \in Nat /\ Size(Half(n)) < Size(n)
  BY <1>1, HalfFacts, Zenon
<1>3. PICK h : h = Half(n) /\ h \in Exponents
  BY <1>2
<1>4. Size(h) \in Nat
  BY <1>3, HalfFacts, Zenon
<1>5. Size(h) <= Size(h) /\ Size(h) <= k /\ \A j \in Nat : k = j + 1 => Size(h) <= j
  BY <1>1, <1>2, <1>3, <1>4
<1> QED BY <1>1, <1>2, <1>3, <1>4, <1>5, Zenon DEF Upto

\* There are powers of exponents up to any size.
LEMMA PowersExist ==
  ASSUME ExponentBits, PowersOfTen, Quotient, NEW d, NEW k \in Nat
  PROVE  \E f : Solves(d, f, k)
<1> DEFINE T == {j \in Nat : ~ \E f : Solves(d, f, j)}
<1>1. SUFFICES ASSUME T # {} PROVE FALSE
  OBVIOUS
<1>2. PICK m \in T : \A j \in T : m <= j
  <2>1. T \in SUBSET Nat
    OBVIOUS
  <2> HIDE DEF T
  <2> QED BY <1>1, <2>1, LeastOf
<1>3. m \in Nat /\ ~ \E f : Solves(d, f, m)
  OBVIOUS
<1>4. CASE m = 0
  <2>1. PICK f : f = [n \in Upto(0) |-> Power(d, 0, n)]
    OBVIOUS
  <2>2. ASSUME NEW n \in Upto(0) PROVE Power(d, 0, n) = Power(d, f[Half(n)], n)
    <3>1. CASE Numbers!IntPart(n) = 0
      BY <3>1, PowerStops, Zenon
    <3>2. CASE Numbers!IntPart(n) # 0
      <4>1. 0 \in Nat
        OBVIOUS
      <4>2. Size(Half(n)) \in Nat /\ Size(Half(n)) < Size(n) /\ Size(n) <= 0 /\ n \in Exponents
        BY <3>2, <4>1, HalfUpto
      <4>3. Size(n) \in Nat
        BY <4>2, HalfFacts, Zenon
      <4> QED BY <4>2, <4>3
    <3> QED BY <3>1, <3>2
  <2>3. [n \in Upto(0) |-> Power(d, 0, n)] = [n \in Upto(0) |-> Power(d, f[Half(n)], n)]
    BY <2>2, Zenon
  <2>4. Solves(d, f, 0)
    BY <2>1, <2>3, Zenon DEF Solves
  <2> QED BY <1>3, <1>4, <2>4, Zenon
<1>5. CASE m # 0
  <2>1. PICK j \in Nat : m = j + 1
    BY <1>3, <1>5
  <2>2. ~(j \in T)
    BY <1>2, <2>1
  <2>3. PICK f : Solves(d, f, j)
    BY <2>2
  <2>4. PICK g : g = [n \in Upto(m) |-> Power(d, f[Half(n)], n)]
    OBVIOUS
  <2>5. ASSUME NEW n \in Upto(m) PROVE Power(d, f[Half(n)], n) = Power(d, g[Half(n)], n)
    <3>1. CASE Numbers!IntPart(n) = 0
      BY <3>1, PowerStops, Zenon
    <3>2. CASE Numbers!IntPart(n) # 0
      <4>1. Half(n) \in Upto(m) /\ Half(n) \in Upto(j)
        BY <1>3, <2>1, <3>2, HalfUpto, Zenon
      <4>2. f[Half(n)] = Power(d, f[Half(Half(n))], Half(n))
        BY <2>3, <4>1, Zenon DEF Solves
      <4>3. g[Half(n)] = Power(d, f[Half(Half(n))], Half(n))
        BY <2>4, <4>1, Zenon
      <4> QED BY <4>2, <4>3, Zenon
    <3> QED BY <3>1, <3>2
  <2>6. [n \in Upto(m) |-> Power(d, f[Half(n)], n)] = [n \in Upto(m) |-> Power(d, g[Half(n)], n)]
    BY <2>5, Zenon
  <2>7. Solves(d, g, m)
    BY <2>4, <2>6, Zenon DEF Solves
  <2> QED BY <1>3, <2>7, Zenon
<1> QED BY <1>4, <1>5

\* Two of them agree where both are given.
LEMMA PowersAgree ==
  ASSUME ExponentBits, PowersOfTen, Quotient, NEW d, NEW j \in Nat, NEW k \in Nat, NEW f, NEW g,
         Solves(d, f, j), Solves(d, g, k), NEW n \in Upto(j), n \in Upto(k)
  PROVE  f[n] = g[n]
<1> DEFINE T == {s \in Nat : \E x \in Upto(j) : x \in Upto(k) /\ Size(x) = s /\ f[x] # g[x]}
<1>1. SUFFICES ASSUME T # {} PROVE FALSE
  <2>1. n \in Exponents
    BY Zenon DEF Upto
  <2>2. Size(n) \in Nat
    BY <2>1, HalfFacts, Zenon
  <2> QED BY <2>2
<1>2. PICK m \in T : \A s \in T : m <= s
  <2>1. T \in SUBSET Nat
    OBVIOUS
  <2> HIDE DEF T
  <2> QED BY <1>1, <2>1, LeastOf
<1>3. PICK x \in Upto(j) : x \in Upto(k) /\ Size(x) = m /\ f[x] # g[x]
  OBVIOUS
<1>4. f[x] = Power(d, f[Half(x)], x) /\ g[x] = Power(d, g[Half(x)], x)
  BY <1>3, Zenon DEF Solves
<1>5. CASE Numbers!IntPart(x) = 0
  BY <1>3, <1>4, <1>5, PowerStops, Zenon
<1>6. CASE Numbers!IntPart(x) # 0
  <2>1. /\ Half(x) \in Upto(j) /\ Half(x) \in Upto(k)
        /\ Size(Half(x)) \in Nat /\ Size(Half(x)) < m
    BY <1>3, <1>6, HalfUpto, Zenon
  <2>2. ~(Size(Half(x)) \in T)
    BY <1>2, <2>1
  <2>3. f[Half(x)] = g[Half(x)]
    BY <2>1, <2>2, Zenon
  <2> QED BY <1>3, <1>4, <2>3, Zenon
<1> QED BY <1>5, <1>6

\* And so there are powers of all exponents.
LEMMA AllPowersExist ==
  ASSUME ExponentBits, PowersOfTen, Quotient, NEW d
  PROVE  \E f : f = [n \in Exponents |-> Power(d, f[Half(n)], n)]
<1> DEFINE F(k) == CHOOSE f : Solves(d, f, k)
<1>1. ASSUME NEW k \in Nat PROVE Solves(d, F(k), k)
  BY PowersExist, Zenon
<1> HIDE DEF F
<1>2. PICK g : g = [n \in Exponents |-> F(Size(n))[n]]
  OBVIOUS
<1>3. ASSUME NEW n \in Exponents PROVE F(Size(n))[n] = Power(d, g[Half(n)], n)
  <2>1. Size(n) \in Nat /\ n \in Upto(Size(n))
    <3>1. Size(n) \in Nat
      BY HalfFacts, Zenon
    <3>2. Size(n) <= Size(n)
      BY <3>1
    <3> QED BY <3>1, <3>2, Zenon DEF Upto
  <2>2. F(Size(n))[n] = Power(d, F(Size(n))[Half(n)], n)
    BY <1>1, <2>1, Zenon DEF Solves
  <2>3. CASE Numbers!IntPart(n) = 0
    BY <2>2, <2>3, PowerStops, Zenon
  <2>4. CASE Numbers!IntPart(n) # 0
    <3>1. /\ Half(n) \in Upto(Size(n)) /\ Half(n) \in Upto(Size(Half(n))) /\ Size(Half(n)) \in Nat
      BY <2>1, <2>4, HalfUpto, Zenon
    <3>2. Half(n) \in Exponents
      BY <3>1, Zenon DEF Upto
    <3>3. g[Half(n)] = F(Size(Half(n)))[Half(n)]
      BY <1>2, <3>2, Zenon
    <3>4. F(Size(n))[Half(n)] = F(Size(Half(n)))[Half(n)]
      <4>1. PICK j \in Nat, k \in Nat, x \in Exponents :
              /\ j = Size(n) /\ k = Size(Half(n)) /\ x = Half(n)
              /\ x \in Upto(j) /\ x \in Upto(k)
        BY <2>1, <3>1, <3>2
      <4>2. Solves(d, F(j), j) /\ Solves(d, F(k), k)
        BY <1>1, Zenon
      <4>3. F(j)[x] = F(k)[x]
        BY <4>1, <4>2, PowersAgree
      <4> QED BY <4>1, <4>3, Zenon
    <3> QED BY <2>2, <3>3, <3>4, Zenon
  <2> QED BY <2>3, <2>4
<1>4. [n \in Exponents |-> F(Size(n))[n]] = [n \in Exponents |-> Power(d, g[Half(n)], n)]
  BY <1>3, Zenon
<1> QED BY <1>2, <1>4, Zenon

\* A total to the power of three.
THEOREM CubesMultiply ==
  ASSUME ExponentBits, PowersOfTen, Quotient, NEW d \in Numbers!Decimals
  PROVE  Numbers!Pow(d, Numbers!Dec(3, 0)) = Numbers!Mul(Numbers!Mul(d, d), d)
<1> DEFINE pow == CHOOSE f : f = [n \in Exponents |-> Power(d, f[Half(n)], n)]
<1>1. pow = [n \in Exponents |-> Power(d, pow[Half(n)], n)]
  BY AllPowersExist, Zenon
<1>2. Numbers!Pow(d, Numbers!Dec(3, 0)) = pow[Numbers!Dec(3, 0)]
  <2>1. Numbers!Dec(3, 0).exp = 0 /\ Numbers!Int32(-DivisionPrecision) = -DivisionPrecision
    BY NearZeroFits DEF Numbers!Dec
  <2>2. [value : Int, exp : {Numbers!Dec(3, 0).exp, Numbers!Int32(-DivisionPrecision)}] = Exponents
    BY <2>1, Zenon DEF Exponents
  <2> QED BY <2>2, Zenon DEF Numbers!Pow, Power, Half
<1> HIDE DEF pow
<1>3. PICK p \in Nat, w \in Nat \ {0} :
        /\ p = DivisionPrecision /\ 10 ^ DivisionPrecision = 10 * w /\ 10 * w \in Nat \ {0}
  <2>1. PICK p \in Nat, k \in Nat : p = DivisionPrecision /\ p = k + 1
    <3>1. DivisionPrecision - 1 \in Nat /\ DivisionPrecision = DivisionPrecision - 1 + 1
      BY DEF Quotient
    <3> QED BY <3>1 DEF Quotient
  <2>2. PICK w \in Nat \ {0} : 10 ^ (k + 1) = 10 * w
    BY Zenon DEF PowersOfTen
  <2>3. 10 * w \in Nat \ {0}
    OBVIOUS
  <2> QED BY <2>1, <2>2, <2>3, Zenon
<1>4. PICK three : /\ three = Numbers!Dec(3, 0) /\ three \in Exponents
                   /\ three.value = 3 /\ three.exp = 0 /\ Numbers!IntPart(three) = 3
  <2>1. Numbers!IntPart(Numbers!Dec(3, 0)) = 3
    BY IntParts
  <2> QED BY <2>1 DEF Numbers!Dec, Exponents
<1>5. PICK half : /\ half = Half(three) /\ half \in Exponents
                  /\ half.value = 15 * w /\ half.exp = -DivisionPrecision
                  /\ Numbers!IntPart(half) = Numbers!Quo(15 * w, 10 * w)
  <2>1. Half(three) = Numbers!Dec(Neighbour(3 * 10 ^ (0 + DivisionPrecision), 2), -DivisionPrecision)
    BY <1>4, HalfFacts, Zenon
  <2>2. 0 + DivisionPrecision = DivisionPrecision
    BY DEF Quotient
  <2>3. 3 * (10 * w) = 2 * (15 * w) /\ 15 * w \in Int
    OBVIOUS
  <2>4. Neighbour(2 * (15 * w), 2) = 15 * w
    BY <2>3, ExactQuotient
  <2>5. Half(three) = Numbers!Dec(15 * w, -DivisionPrecision)
    BY <1>3, <2>1, <2>2, <2>3, <2>4, Zenon
  <2>6. Numbers!IntPart(Half(three)) = Numbers!Quo(15 * w, 10 * w)
    BY <1>3, <2>3, <2>5, IntParts, Zenon
  <2>7. Half(three) \in Exponents
    BY <1>4, HalfFacts, Zenon
  <2>8. \A x, y : Numbers!Dec(x, y).value = x /\ Numbers!Dec(x, y).exp = y
    BY DEF Numbers!Dec
  <2> QED BY <2>5, <2>6, <2>7, <2>8, Zenon
<1>6. Numbers!IntPart(half) = 1
  <2>1. PICK q \in Int : /\ q = Numbers!Quo(15 * w, 10 * w)
                         /\ q >= 0 /\ (10 * w) * q <= 15 * w /\ 15 * w < (10 * w) * q + 10 * w
    <3>1. 15 * w \in Int /\ 15 * w >= 0
      OBVIOUS
    <3> QED BY <1>3, <3>1, Truncated, Zenon
  <2>2. q <= 1
    <3> SUFFICES ASSUME q >= 2 PROVE FALSE
      BY <2>1
    <3>1. (10 * w) * q >= 20 * w
      OBVIOUS
    <3> QED BY <2>1, <3>1
  <2>3. q # 0
    BY <2>1
  <2>4. q = 1
    BY <2>1, <2>2, <2>3
  <2> QED BY <1>5, <2>1, <2>4, Zenon
<1>7. PICK last : /\ last = Half(half) /\ last \in Exponents /\ Numbers!IntPart(last) = 0
  <2>1. Half(half) = Numbers!Dec(Neighbour(15 * w * 10 ^ (-DivisionPrecision + DivisionPrecision), 2), -DivisionPrecision)
    BY <1>5, HalfFacts, Zenon
  <2>2. -DivisionPrecision + DivisionPrecision = 0
    BY DEF Quotient
  <2>3. PICK a \in Int : a = 15 * w /\ a = 15 * w * 1
    OBVIOUS
  <2>4. PICK v \in Int : v = Neighbour(a, 2) /\ 2 * v - a \in -1 .. 1
    BY HalfOf
  <2>5. Half(half) = Numbers!Dec(v, -DivisionPrecision)
    BY <2>1, <2>2, <2>3, <2>4, SmallPowers, Zenon
  <2>6. Numbers!IntPart(Half(half)) = Numbers!Quo(v, 10 * w)
    BY <1>3, <2>5, IntParts, Zenon
  <2>7. PICK q \in Int : q = Numbers!Quo(v, 10 * w) /\ q >= 0 /\ (10 * w) * q <= v
    <3>1. v >= 0
      BY <2>3, <2>4
    <3> QED BY <1>3, <3>1, Truncated, Zenon
  <2>8. q <= 0
    <3> SUFFICES ASSUME q >= 1 PROVE FALSE
      BY <2>7
    <3>1. (10 * w) * q >= 10 * w
      OBVIOUS
    <3> QED BY <2>3, <2>4, <2>7, <3>1
  <2>9. Half(half) \in Exponents
    BY <1>5, HalfFacts, Zenon
  <2> QED BY <2>6, <2>7, <2>8, <2>9
<1>8. pow[last] = Numbers!Dec(1, 0)
  BY <1>1, <1>7, Zenon DEF Power
<1>9. pow[half] = d
  <2>1. pow[half] = Power(d, pow[last], half)
    BY <1>1, <1>5, <1>7, Zenon
  <2>2. 1 # 0 /\ 1 % 2 # 0 /\ 1 > 0
    OBVIOUS
  <2>3. pow[half] = Numbers!Mul(Numbers!Mul(Numbers!Dec(1, 0), Numbers!Dec(1, 0)), d)
    BY <1>6, <1>8, <2>1, <2>2, Zenon DEF Power
  <2>4. Numbers!Mul(Numbers!Dec(1, 0), Numbers!Dec(1, 0)) = Numbers!Dec(1, 0)
    BY DEF Numbers!Mul, Numbers!Dec
  <2>5. PICK v \in Int, e \in Int : v = d.value /\ e = d.exp /\ d = Numbers!Dec(v, e)
    BY AsDec, Zenon
  <2>6. Numbers!Mul(Numbers!Dec(1, 0), d) = Numbers!Dec(1 * v, 0 + e)
    BY <2>5 DEF Numbers!Mul, Numbers!Dec
  <2>7. 1 * v = v /\ 0 + e = e
    OBVIOUS
  <2> QED BY <2>3, <2>4, <2>5, <2>6, <2>7, Zenon
<1>10. pow[three] = Power(d, pow[half], three)
  BY <1>1, <1>4, <1>5, Zenon
<1>11. 3 # 0 /\ 3 % 2 # 0 /\ 3 > 0
  OBVIOUS
<1> QED BY <1>2, <1>4, <1>9, <1>10, <1>11, Zenon DEF Power

\* A number is the same as itself.
LEMMA EqualsItself ==
  ASSUME PowersOfTen, NEW d \in Numbers!Decimals
  PROVE  Numbers!Equal(d, d)
<1>1. PICK v \in Int, e \in Int : v = d.value /\ e = d.exp
  BY AsDec
<1>2. Numbers!Lower(d.exp, d.exp) = e /\ e - e = 0 /\ ~(e > d.exp) /\ v * 1 = v
  BY <1>1 DEF Numbers!Lower
<1>3. Numbers!Rescale(d, e) = Numbers!Dec(v, e)
  BY <1>1, <1>2, SmallPowers, Zenon DEF Numbers!Rescale
<1>4. Numbers!Rescale(d, e).value = v
  BY <1>3, DecFacts
<1>5. Numbers!Sign(v - v) = 0
  BY DEF Numbers!Sign
<1> QED BY <1>2, <1>4, <1>5, Zenon DEF Numbers!Equal, Numbers!Cmp

-----------------------------------------------------------------------------
(* Decimals: their texts. *)

\* Trimming leaves f with k places: no digit is lost, and the last one is no zero.
Trimmed(frac, places, f, k) ==
  /\ f \in Nat /\ k \in 0 .. places
  /\ Numbers!TrimZeros(frac, places) = <<f, k>>
  /\ frac = f * 10 ^ (places - k) /\ (k > 0 => f % 10 # 0)

LEMMA TrimFacts ==
  ASSUME PowersOfTen, NEW frac \in Nat, NEW places \in Nat
  PROVE  \E f, k : Trimmed(frac, places, f, k)
<1> DEFINE T == {k \in 0 .. places : frac % (10 ^ (places - k)) = 0}
           Good(k) == /\ frac % (10 ^ (places - k)) = 0
                      /\ \A j \in 0 .. k - 1 : frac % (10 ^ (places - j)) # 0
           kept == CHOOSE k \in 0 .. places : Good(k)
<1>1. places \in T
  <2>1. places - places = 0 /\ frac % 1 = 0 /\ places \in 0 .. places
    OBVIOUS
  <2> QED BY <2>1, SmallPowers, Zenon
<1>2. PICK m \in T : \A j \in T : m <= j
  <2>1. \A k \in T : k \in Nat
    OBVIOUS
  <2> HIDE DEF T
  <2>2. T \in SUBSET Nat /\ T # {}
    BY <1>1, <2>1
  <2> QED BY <2>2, LeastOf
<1>3. m \in 0 .. places /\ Good(m)
  <2>1. m \in 0 .. places /\ frac % (10 ^ (places - m)) = 0
    OBVIOUS
  <2>2. ASSUME NEW j \in 0 .. m - 1 PROVE frac % (10 ^ (places - j)) # 0
    <3>1. ~(m <= j) /\ j \in 0 .. places
      BY <2>1, <2>2
    <3> QED BY <1>2, <3>1
  <2> QED BY <2>1, <2>2
<1> HIDE DEF Good, T
<1>4. kept \in 0 .. places /\ Good(kept)
  BY <1>3, Zenon
<1>5. PICK k : k \in 0 .. places /\ k = kept /\ Good(k) /\ places - k \in Nat
  BY <1>4
<1>6. PICK w \in Nat \ {0} : w = 10 ^ (places - k) /\ 10 ^ (places - k + 1) = 10 * w
  BY <1>5, Zenon DEF PowersOfTen
<1>7. frac % w = 0
  BY <1>5, <1>6, Zenon DEF Good
<1>8. PICK f \in Nat : f = frac \div w /\ frac = f * w
  <2>1. PICK f \in Nat, r \in Nat : f = frac \div w /\ r = frac % w /\ frac = w * f + r
    OBVIOUS
  <2>2. frac = f * w
    BY <1>7, <2>1
  <2> QED BY <2>1, <2>2
<1>9. ASSUME k > 0 PROVE f % 10 # 0
  <2> SUFFICES ASSUME f % 10 = 0 PROVE FALSE
    OBVIOUS
  <2>1. PICK g \in Nat : f = 10 * g
    OBVIOUS
  <2>2. frac = g * (10 * w)
    BY <1>8, <2>1
  <2>3. k - 1 \in 0 .. k - 1 /\ places - (k - 1) = places - k + 1
    BY <1>5, <1>9
  <2>4. frac % (10 * w) # 0
    BY <1>5, <1>6, <2>3, Zenon DEF Good
  <2>5. (g * (10 * w)) % (10 * w) = 0
    <3>1. 10 * w \in Nat /\ 10 * w > 0
      OBVIOUS
    <3> QED BY <3>1, Multiples
  <2> QED BY <2>2, <2>4, <2>5, Zenon
<1>10. Numbers!TrimZeros(frac, places) = <<f, k>>
  <2>1. Numbers!TrimZeros(frac, places) = <<frac \div (10 ^ (places - kept)), kept>>
    BY Zenon DEF Numbers!TrimZeros, Good
  <2> QED BY <1>5, <1>6, <1>8, <2>1, Zenon
<1>11. Trimmed(frac, places, f, k)
  BY <1>5, <1>6, <1>8, <1>9, <1>10, Zenon DEF Trimmed
<1> QED BY <1>11

\* What is trimmed stays as it is.
LEMMA TrimAgain ==
  ASSUME PowersOfTen, NEW f \in Nat, NEW k \in Nat, k > 0 => f % 10 # 0
  PROVE  Numbers!TrimZeros(f, k) = <<f, k>>
<1>1. PICK g, j : Trimmed(f, k, g, j)
  BY TrimFacts
<1>2. g \in Nat /\ j \in 0 .. k /\ Numbers!TrimZeros(f, k) = <<g, j>> /\ f = g * 10 ^ (k - j)
  BY <1>1, Zenon DEF Trimmed
<1>3. CASE j = k
  <2>1. k - j = 0 /\ g * 1 = g
    BY <1>2, <1>3
  <2>2. f = g
    BY <1>2, <2>1, SmallPowers, Zenon
  <2> QED BY <1>2, <1>3, <2>2, Zenon
<1>4. CASE j # k
  <2>1. PICK n \in Nat : k - j = n + 1 /\ k > 0
    <3>1. k - j - 1 \in Nat /\ k - j = k - j - 1 + 1 /\ k > 0
      BY <1>2, <1>4
    <3> QED BY <3>1
  <2>2. PICK w \in Nat : 10 ^ (n + 1) = 10 * w
    BY Zenon DEF PowersOfTen
  <2>3. f = g * (10 * w)
    BY <1>2, <2>1, <2>2, Zenon
  <2>4. PICK z \in Nat : z = g * w /\ f = 10 * z
    BY <1>2, <2>3
  <2>5. f % 10 = 0
    BY <2>4
  <2> QED BY <2>1, <2>5
<1> QED BY <1>3, <1>4

LEMMA TenPowerSum ==
  ASSUME PowersOfTen, NEW m \in Nat, NEW n \in Nat
  PROVE  10 ^ (m + n) = 10 ^ m * 10 ^ n
<1>1. PICK b \in Nat : b = 10
  OBVIOUS
<1>2. b ^ 0 = 1 /\ Powers(b)
  BY <1>1, SmallPowers, Zenon DEF PowersOfTen, Powers
<1>3. b ^ (m + n) = b ^ m * b ^ n
  BY <1>2, PowerSum
<1> QED BY <1>1, <1>3, Zenon

\* The texts that String writes, the digits in one, and the number it stands for.
Texts == [neg : BOOLEAN, whole : Nat, frac : Nat, places : Nat]
Digits(t) == t.whole * 10 ^ t.places + t.frac
Canonical(t) == /\ t \in Texts
                /\ t.frac < 10 ^ t.places
                /\ t.places > 0 => t.frac % 10 # 0
                /\ t.neg => Digits(t) # 0
Number(t) == Numbers!Dec(IF t.neg THEN -Digits(t) ELSE Digits(t), 0 - t.places)

\* A text is of the digits A with P places when it has lost zeros at the end only.
Writes(t, A, P) == /\ t.places <= P /\ Digits(t) * 10 ^ (P - t.places) = A

\* The digits and the places that string takes apart.
LEMMA DigitsSplit ==
  ASSUME PowersOfTen, NEW A \in Nat, NEW P \in Nat, NEW neg \in BOOLEAN, neg => A # 0,
         NEW rest, rest = Numbers!TrimZeros(A % (10 ^ P), P),
         NEW t, t = [neg |-> neg, whole |-> A \div (10 ^ P), frac |-> rest[1], places |-> rest[2]]
  PROVE  Canonical(t) /\ Writes(t, A, P) /\ t.neg = neg
<1>1. PICK X \in Nat \ {0} : X = 10 ^ P
  BY Zenon DEF PowersOfTen
<1>2. PICK b \in Nat, r \in Nat : b = A \div X /\ r = A % X /\ A = X * b + r /\ r < X
  OBVIOUS
<1>3. PICK f, k : Trimmed(r, P, f, k)
  BY TrimFacts
<1>4. /\ f \in Nat /\ k \in 0 .. P /\ k \in Nat /\ P - k \in Nat
      /\ rest[1] = f /\ rest[2] = k
      /\ r = f * 10 ^ (P - k) /\ (k > 0 => f % 10 # 0)
  <2>1. f \in Nat /\ k \in 0 .. P /\ r = f * 10 ^ (P - k) /\ (k > 0 => f % 10 # 0)
    BY <1>3, Zenon DEF Trimmed
  <2>2. rest = <<f, k>>
    BY <1>1, <1>2, <1>3, Zenon DEF Trimmed
  <2>3. k \in Nat /\ P - k \in Nat
    BY <2>1
  <2> QED BY <2>1, <2>2, <2>3
<1>5. PICK y \in Nat \ {0}, z \in Nat \ {0} : y = 10 ^ k /\ z = 10 ^ (P - k) /\ X = y * z
  <2>1. PICK y \in Nat \ {0}, z \in Nat \ {0} : y = 10 ^ k /\ z = 10 ^ (P - k)
    BY <1>4, Zenon DEF PowersOfTen
  <2>2. 10 ^ (k + (P - k)) = 10 ^ k * 10 ^ (P - k)
    <3>1. PICK j \in Nat : j = P - k
      BY <1>4
    <3>2. 10 ^ (k + j) = 10 ^ k * 10 ^ j
      BY <1>4, TenPowerSum
    <3> QED BY <3>1, <3>2, Zenon
  <2>3. k + (P - k) = P
    BY <1>4
  <2> QED BY <1>1, <2>1, <2>2, <2>3, Zenon
<1>6. t = [neg |-> neg, whole |-> b, frac |-> f, places |-> k]
  BY <1>1, <1>2, <1>4, Zenon
<1>7. t \in Texts /\ t.neg = neg /\ t.whole = b /\ t.frac = f /\ t.places = k
  BY <1>2, <1>4, <1>6 DEF Texts
<1>8. PICK D \in Nat : D = Digits(t) /\ D = b * y + f
  BY <1>4, <1>5, <1>7 DEF Digits
<1>9. D * z = A
  <2>1. D * z = b * (y * z) + f * z
    BY <1>4, <1>8
  <2>2. b * X = X * b
    OBVIOUS
  <2> QED BY <1>2, <1>4, <1>5, <2>1, <2>2, Zenon
<1>10. f < y
  <2> SUFFICES ASSUME f >= y PROVE FALSE
    BY <1>4
  <2>1. f * z >= y * z
    BY <1>4
  <2>2. r = f * z /\ r < y * z
    BY <1>2, <1>4, <1>5, Zenon
  <2> QED BY <2>1, <2>2
<1>11. neg => D # 0
  BY <1>9
<1>12. Canonical(t)
  BY <1>4, <1>5, <1>7, <1>8, <1>10, <1>11, Zenon DEF Canonical
<1>13. t.places <= P
  BY <1>4, <1>7
<1> QED BY <1>5, <1>7, <1>8, <1>9, <1>12, <1>13, Zenon DEF Writes

\* What String writes, from an integer of A digits with P places.
StringWrites(d, A, P) ==
  /\ A \in Nat /\ P \in Nat
  /\ Canonical(Numbers!String(d)) /\ Writes(Numbers!String(d), A, P)
  /\ Numbers!String(d).neg <=> d.value < 0
  /\ d.exp >= 0 => P = 0 /\ A = Numbers!AbsInt(d.value) * 10 ^ d.exp
  /\ d.exp < 0 => P = 0 - d.exp /\ A = Numbers!AbsInt(d.value)

LEMMA StringParts ==
  ASSUME PowersOfTen, NEW d \in Numbers!Decimals
  PROVE  \E A, P : StringWrites(d, A, P)
<1>1. PICK v \in Int, e \in Int : v = d.value /\ e = d.exp
  BY AsDec
<1>2. PICK n \in Nat : n = Numbers!AbsInt(v) /\ (v < 0 => n # 0)
  BY DEF Numbers!AbsInt
<1>3. PICK P \in Nat, A \in Nat : /\ P = (IF d.exp >= 0 THEN 0 ELSE -d.exp)
                                  /\ A = (IF d.exp >= 0 THEN Numbers!AbsInt(Numbers!Rescale(d, 0).value)
                                                        ELSE Numbers!AbsInt(d.value))
                                  /\ e >= 0 => P = 0 /\ A = n * 10 ^ e
                                  /\ e < 0 => P = 0 - e /\ A = n
                                  /\ v < 0 => A # 0
  <2>1. CASE e >= 0
    <3>0. e \in Nat
      BY <2>1
    <3>1. PICK w \in Nat \ {0} : w = 10 ^ e
      BY <3>0, Zenon DEF PowersOfTen
    <3>2. 0 <= d.exp /\ 0 \in Int /\ e - 0 = e
      BY <1>1, <2>1
    <3>3. Numbers!Rescale(d, 0).value = v * w
      BY <1>1, <3>1, <3>2, Finer, Zenon
    <3>4. Numbers!AbsInt(v * w) = n * w
      BY <1>2, SameSign, Zenon
    <3>5. n * w \in Nat /\ (v < 0 => n * w # 0)
      BY <1>2
    <3>6. 0 \in Nat /\ d.exp >= 0 /\ ~(e < 0)
      BY <1>1, <2>1
    <3> QED BY <1>1, <2>1, <3>1, <3>3, <3>4, <3>5, <3>6, Zenon
  <2>2. CASE e < 0
    <3>1. -e \in Nat /\ ~(e >= 0) /\ -e = 0 - e
      BY <2>2
    <3> QED BY <1>1, <1>2, <2>2, <3>1, Zenon
  <2> QED BY <2>1, <2>2
<1>4. PICK neg, rest, t :
        /\ neg = (v < 0) /\ neg \in BOOLEAN /\ rest = Numbers!TrimZeros(A % (10 ^ P), P)
        /\ t = [neg |-> neg, whole |-> A \div (10 ^ P), frac |-> rest[1], places |-> rest[2]]
  <2>1. PICK neg : neg = (v < 0) /\ neg \in BOOLEAN
    <3>1. (v < 0) \in BOOLEAN
      OBVIOUS
    <3>2. PICK b : b = (v < 0)
      BY Zenon
    <3> QED BY <3>1, <3>2, Zenon
  <2>2. PICK rest : rest = Numbers!TrimZeros(A % (10 ^ P), P)
    OBVIOUS
  <2>3. PICK t : t = [neg |-> neg, whole |-> A \div (10 ^ P), frac |-> rest[1], places |-> rest[2]]
    OBVIOUS
  <2> QED BY <2>1, <2>2, <2>3, Zenon
<1>5. Canonical(t) /\ Writes(t, A, P) /\ t.neg = neg
  <2>1. neg => A # 0
    BY <1>3, <1>4
  <2> QED BY <1>4, <2>1, DigitsSplit, Zenon
<1>6. Numbers!String(d) = t
  <2>1. Numbers!String(d) = [neg |-> v < 0, whole |-> A \div (10 ^ P), frac |-> rest[1], places |-> rest[2]]
    BY <1>1, <1>3, <1>4, Zenon DEF Numbers!String, Numbers!string
  <2> QED BY <1>4, <2>1, Zenon
<1>7. StringWrites(d, A, P)
  BY <1>1, <1>2, <1>3, <1>4, <1>5, <1>6 DEF StringWrites
<1> QED BY <1>7

\* The sign of a text's number.
Signed(neg, n) == IF neg THEN -n ELSE n

\* Texts stand for the numbers that they are written from.
LEMMA Denotes ==
  ASSUME PowersOfTen, NEW d \in Numbers!Decimals, NEW m \in Int, m <= d.exp, m <= 0
  PROVE  /\ Canonical(Numbers!String(d)) /\ m <= 0 - Numbers!String(d).places
         /\ Numbers!At(Number(Numbers!String(d)), m) = Numbers!At(d, m)
<1>1. PICK v \in Int, e \in Int : v = d.value /\ e = d.exp
  BY AsDec
<1>2. PICK A, P : StringWrites(d, A, P)
  BY StringParts
<1>3. PICK t : t = Numbers!String(d)
  OBVIOUS
<1>4. A \in Nat /\ P \in Nat /\ Canonical(t) /\ Writes(t, A, P) /\ (t.neg <=> v < 0)
  BY <1>1, <1>2, <1>3, Zenon DEF StringWrites
<1>5. PICK k \in Nat, D \in Nat : k = t.places /\ D = Digits(t) /\ k <= P /\ t.neg \in BOOLEAN
  <2>1. t \in Texts /\ t.places <= P
    BY <1>4, Zenon DEF Canonical, Writes
  <2>2. PICK k \in Nat, a \in Nat, b \in Nat : k = t.places /\ a = t.whole /\ b = t.frac /\ t.neg \in BOOLEAN
    BY <2>1 DEF Texts
  <2>3. PICK w \in Nat : w = 10 ^ k
    BY Zenon DEF PowersOfTen
  <2>4. a * w + b \in Nat
    OBVIOUS
  <2>5. Digits(t) \in Nat
    BY <2>2, <2>3, <2>4, Zenon DEF Digits
  <2> QED BY <2>1, <2>2, <2>5, Zenon
<1>6. PICK j \in Nat, i \in Nat : j = P - k /\ i = 0 - P - m /\ j + i = 0 - k - m
  <2>1. 0 - P - m \in Nat
    <3>1. e >= 0 => P = 0
      BY <1>1, <1>2, Zenon DEF StringWrites
    <3>2. e < 0 => P = 0 - e
      BY <1>1, <1>2, Zenon DEF StringWrites
    <3> QED BY <1>1, <1>4, <3>1, <3>2
  <2>2. P - k \in Nat /\ (P - k) + (0 - P - m) = 0 - k - m
    BY <1>4, <1>5
  <2> QED BY <2>1, <2>2
<1>0. Canonical(t) /\ m <= 0 - t.places
  BY <1>4, <1>5, <1>6
<1>7. PICK y \in Nat \ {0}, z \in Nat \ {0} : y = 10 ^ j /\ z = 10 ^ i /\ 10 ^ (j + i) = y * z
  <2>1. PICK y \in Nat \ {0}, z \in Nat \ {0} : y = 10 ^ j /\ z = 10 ^ i
    BY Zenon DEF PowersOfTen
  <2> QED BY <2>1, TenPowerSum, Zenon
<1>8. D * y = A
  BY <1>4, <1>5, <1>6, <1>7, Zenon DEF Writes
<1>9. Numbers!At(Number(t), m) = Signed(t.neg, D) * (y * z)
  <2>1. Number(t) = Numbers!Dec(Signed(t.neg, D), 0 - k)
    BY <1>5, Zenon DEF Number, Signed
  <2>2. Number(t).value = Signed(t.neg, D) /\ Number(t).exp = 0 - k
    BY <2>1 DEF Numbers!Dec
  <2> QED BY <1>6, <1>7, <2>2, Zenon DEF Numbers!At
<1>10. PICK s \in Int : s = Signed(t.neg, D) /\ s * y = Signed(t.neg, A)
  <2>1. Signed(t.neg, D) \in Int
    BY <1>5 DEF Signed
  <2>2. (-D) * y = -(D * y)
    OBVIOUS
  <2>3. Signed(t.neg, D) * y = Signed(t.neg, D * y)
    BY <2>2, Zenon DEF Signed
  <2> QED BY <1>8, <2>1, <2>3, Zenon
<1>11. Numbers!At(Number(t), m) = Signed(t.neg, A) * z
  <2>1. s * (y * z) = (s * y) * z
    OBVIOUS
  <2> QED BY <1>9, <1>10, <2>1, Zenon
<1>12. Numbers!At(d, m) = v * 10 ^ (e - m)
  BY <1>1, Zenon DEF Numbers!At
<1>13. PICK n \in Nat : n = Numbers!AbsInt(v) /\ v = Signed(t.neg, n)
  BY <1>4 DEF Numbers!AbsInt, Signed
<1>14. CASE e >= 0
  <2>1. P = 0 /\ A = n * 10 ^ e
    BY <1>1, <1>2, <1>13, <1>14, Zenon DEF StringWrites
  <2>3. e \in Nat /\ e + i = e - m
    BY <1>6, <1>14, <2>1
  <2>2. PICK g \in Nat : g = 10 ^ e
    BY <2>3, Zenon DEF PowersOfTen
  <2>4. 10 ^ (e - m) = g * z
    <3>1. 10 ^ (e + i) = 10 ^ e * 10 ^ i
      BY <2>3, TenPowerSum, Zenon
    <3> QED BY <1>7, <2>2, <2>3, <3>1, Zenon
  <2>5. A = n * g
    BY <2>1, <2>2, Zenon
  <2>6. Signed(t.neg, n * g) * z = Signed(t.neg, n) * (g * z)
    BY DEF Signed
  <2>7. Numbers!At(Number(t), m) = Numbers!At(d, m)
    BY <1>11, <1>12, <1>13, <2>4, <2>5, <2>6, Zenon
  <2> QED BY <1>0, <1>3, <2>7, Zenon
<1>15. CASE e < 0
  <2>1. P = 0 - e /\ A = n
    BY <1>1, <1>2, <1>13, <1>15, Zenon DEF StringWrites
  <2>2. i = e - m
    BY <1>6, <2>1
  <2>3. Numbers!At(Number(t), m) = Numbers!At(d, m)
    BY <1>7, <1>11, <1>12, <1>13, <2>1, <2>2, Zenon
  <2> QED BY <1>0, <1>3, <2>3, Zenon
<1> QED BY <1>14, <1>15

\* A positive factor can be dropped.
LEMMA Cancel ==
  ASSUME NEW p \in Int, NEW q \in Int, NEW w \in Nat \ {0}, p * w = q * w
  PROVE  p = q
<1>1. CASE p > q
  <2>1. (p - q) * w > 0 /\ (p - q) * w = p * w - q * w
    BY <1>1
  <2> QED BY <2>1
<1>2. CASE p < q
  <2>1. (q - p) * w > 0 /\ (q - p) * w = q * w - p * w
    BY <1>2
  <2> QED BY <2>1
<1> QED BY <1>1, <1>2

\* A decimal at an exponent that is finer still.
LEMMA AtFiner ==
  ASSUME PowersOfTen, NEW d \in Numbers!Decimals, NEW l \in Int, NEW m \in Int, l <= d.exp, m <= l
  PROVE  /\ Numbers!At(d, l) \in Int /\ 10 ^ (l - m) \in Nat \ {0}
         /\ Numbers!At(d, m) = Numbers!At(d, l) * 10 ^ (l - m)
<1>1. PICK v \in Int, e \in Int : v = d.value /\ e = d.exp
  BY AsDec
<1>2. PICK i \in Nat, j \in Nat : i = e - l /\ j = l - m /\ i + j = e - m
  BY <1>1
<1>3. PICK y \in Nat \ {0}, z \in Nat \ {0} : y = 10 ^ i /\ z = 10 ^ j /\ 10 ^ (i + j) = y * z
  <2>1. PICK y \in Nat \ {0}, z \in Nat \ {0} : y = 10 ^ i /\ z = 10 ^ j
    BY Zenon DEF PowersOfTen
  <2> QED BY <2>1, TenPowerSum, Zenon
<1>4. Numbers!At(d, l) = v * y /\ Numbers!At(d, m) = v * (y * z)
  BY <1>1, <1>2, <1>3, Zenon DEF Numbers!At
<1>5. v * y \in Int /\ v * (y * z) = (v * y) * z
  OBVIOUS
<1> QED BY <1>2, <1>3, <1>4, <1>5, Zenon

\* Two decimals are the same number exactly if they are at an exponent fine enough.
LEMMA SameNumber ==
  ASSUME PowersOfTen, NEW d \in Numbers!Decimals, NEW x \in Numbers!Decimals,
         NEW m \in Int, m <= d.exp, m <= x.exp
  PROVE  /\ Numbers!Cmp(d, x) \in {-1, 0, 1}
         /\ Numbers!Cmp(d, x) = 0 <=> Numbers!At(d, m) = Numbers!At(x, m)
<1>1. PICK l \in Int : l = Numbers!Lower(d.exp, x.exp) /\ l <= d.exp /\ l <= x.exp /\ m <= l
  BY AsDec DEF Numbers!Lower
<1>2. PICK p \in Int, q \in Int, w \in Nat \ {0} :
        /\ p = Numbers!At(d, l) /\ q = Numbers!At(x, l)
        /\ Numbers!At(d, m) = p * w /\ Numbers!At(x, m) = q * w
  <2>1. /\ Numbers!At(d, l) \in Int /\ 10 ^ (l - m) \in Nat \ {0}
        /\ Numbers!At(d, m) = Numbers!At(d, l) * 10 ^ (l - m)
    BY <1>1, AtFiner, Zenon
  <2>2. /\ Numbers!At(x, l) \in Int
        /\ Numbers!At(x, m) = Numbers!At(x, l) * 10 ^ (l - m)
    BY <1>1, AtFiner, Zenon
  <2> QED BY <2>1, <2>2, Zenon
<1>3. Numbers!Cmp(d, x) = Numbers!Sign(p - q)
  <2>1. Numbers!Rescale(d, l).value = p
    BY <1>1, <1>2, Finer, Zenon DEF Numbers!At
  <2>2. Numbers!Rescale(x, l).value = q
    BY <1>1, <1>2, Finer, Zenon DEF Numbers!At
  <2> QED BY <1>1, <2>1, <2>2, Zenon DEF Numbers!Cmp
<1>4. /\ Numbers!Sign(p - q) \in {-1, 0, 1}
      /\ Numbers!Sign(p - q) = 0 <=> p = q
  BY DEF Numbers!Sign
<1>5. p = q <=> p * w = q * w
  BY Cancel
<1> QED BY <1>2, <1>3, <1>4, <1>5, Zenon

\* The parts of a canonical text.
TextParts(t, neg, b, f, k, D, X) ==
  /\ neg \in BOOLEAN /\ b \in Nat /\ f \in Nat /\ k \in Nat /\ D \in Nat /\ X \in Nat \ {0}
  /\ t = [neg |-> neg, whole |-> b, frac |-> f, places |-> k]
  /\ t.neg = neg /\ t.whole = b /\ t.frac = f /\ t.places = k
  /\ X = 10 ^ k /\ D = Digits(t) /\ D = b * X + f /\ f < X
  /\ (k > 0 => f % 10 # 0) /\ (neg => D # 0)

LEMMA CanonicalParts ==
  ASSUME PowersOfTen, NEW t, Canonical(t)
  PROVE  \E neg, b, f, k, D, X : TextParts(t, neg, b, f, k, D, X)
<1>1. PICK neg \in BOOLEAN, b \in Nat, f \in Nat, k \in Nat :
        /\ t = [neg |-> neg, whole |-> b, frac |-> f, places |-> k]
        /\ t.neg = neg /\ t.whole = b /\ t.frac = f /\ t.places = k
  <2>1. t \in Texts
    BY Zenon DEF Canonical
  <2> QED BY <2>1 DEF Texts
<1>2. PICK X \in Nat \ {0} : X = 10 ^ k
  BY Zenon DEF PowersOfTen
<1>3. PICK D \in Nat : D = Digits(t) /\ D = b * X + f
  <2>1. b * X + f \in Nat
    OBVIOUS
  <2>2. Digits(t) = b * X + f
    BY <1>1, <1>2, Zenon DEF Digits
  <2> QED BY <2>1, <2>2, Zenon
<1>4. f < X /\ (k > 0 => f % 10 # 0) /\ (neg => D # 0)
  BY <1>1, <1>2, <1>3, Zenon DEF Canonical
<1>5. b \in Nat /\ f \in Nat /\ k \in Nat /\ D \in Nat /\ X \in Nat \ {0} /\ neg \in BOOLEAN
  OBVIOUS
<1>6. TextParts(t, neg, b, f, k, D, X)
  BY <1>1, <1>2, <1>3, <1>4, <1>5, Zenon DEF TextParts
<1> QED BY <1>6, Zenon

\* The digits do not end in a zero, when there are some after the point.
LEMMA LastDigit ==
  ASSUME PowersOfTen, NEW b \in Nat, NEW f \in Nat, NEW k \in Nat, k > 0, f % 10 # 0
  PROVE  (b * 10 ^ k + f) % 10 # 0
<1>1. PICK j \in Nat : k = j + 1
  <2>1. k - 1 \in Nat /\ k = k - 1 + 1
    OBVIOUS
  <2> QED BY <2>1
<1>2. PICK w \in Nat : w = 10 ^ j /\ 10 ^ k = 10 * w
  BY <1>1, Zenon DEF PowersOfTen
<1>3. PICK g \in Nat : g = b * w /\ b * (10 * w) = 10 * g
  <2>1. b * w \in Nat /\ b * (10 * w) = 10 * (b * w)
    OBVIOUS
  <2> QED BY <2>1
<1>4. (10 * g + f) % 10 = f % 10
  OBVIOUS
<1> QED BY <1>2, <1>3, <1>4, Zenon

\* Of two equal numbers of digits, the one with the smaller power of ten ends in a zero.
LEMMA EndsInZero ==
  ASSUME PowersOfTen, NEW D \in Nat, NEW E \in Nat, NEW a \in Nat, NEW b \in Nat,
         D * 10 ^ a = E * 10 ^ b, a < b
  PROVE  D % 10 = 0
<1>1. PICK j \in Nat : b = a + (j + 1)
  <2>1. b - a - 1 \in Nat /\ b = a + (b - a - 1 + 1)
    OBVIOUS
  <2> QED BY <2>1
<1>2. PICK w \in Nat, A \in Nat \ {0} : w = 10 ^ j /\ 10 ^ (j + 1) = 10 * w /\ A = 10 ^ a
  BY Zenon DEF PowersOfTen
<1>3. 10 ^ b = A * (10 * w)
  <2>1. j + 1 \in Nat
    OBVIOUS
  <2>2. 10 ^ (a + (j + 1)) = 10 ^ a * 10 ^ (j + 1)
    BY <2>1, TenPowerSum, Zenon
  <2> QED BY <1>1, <1>2, <2>2, Zenon
<1>4. PICK g \in Nat : g = E * w
  OBVIOUS
<1>5. D * A = (10 * g) * A
  <2>1. E * (A * (10 * w)) = (10 * (E * w)) * A
    OBVIOUS
  <2> QED BY <1>2, <1>3, <1>4, <2>1, Zenon
<1>6. D = 10 * g
  <2>1. 10 * g \in Int /\ D \in Int
    OBVIOUS
  <2> QED BY <1>5, <2>1, Cancel
<1> QED BY <1>6

\* A number has one canonical text.
LEMMA CanonicalUnique ==
  ASSUME PowersOfTen, NEW s, NEW t, Canonical(s), Canonical(t), NEW m \in Int,
         m <= 0 - s.places, m <= 0 - t.places,
         Numbers!At(Number(s), m) = Numbers!At(Number(t), m)
  PROVE  s = t
<1>1. PICK n1, b1, f1, k1, D1, X1 : TextParts(s, n1, b1, f1, k1, D1, X1)
  BY CanonicalParts
<1>2. PICK n2, b2, f2, k2, D2, X2 : TextParts(t, n2, b2, f2, k2, D2, X2)
  BY CanonicalParts
<1>3. /\ n1 \in BOOLEAN /\ b1 \in Nat /\ f1 \in Nat /\ k1 \in Nat /\ D1 \in Nat /\ X1 \in Nat \ {0}
      /\ s = [neg |-> n1, whole |-> b1, frac |-> f1, places |-> k1]
      /\ s.neg = n1 /\ s.places = k1 /\ X1 = 10 ^ k1 /\ D1 = Digits(s) /\ D1 = b1 * X1 + f1 /\ f1 < X1
      /\ (k1 > 0 => f1 % 10 # 0) /\ (n1 => D1 # 0)
  BY <1>1, Zenon DEF TextParts
<1>4. /\ n2 \in BOOLEAN /\ b2 \in Nat /\ f2 \in Nat /\ k2 \in Nat /\ D2 \in Nat /\ X2 \in Nat \ {0}
      /\ t = [neg |-> n2, whole |-> b2, frac |-> f2, places |-> k2]
      /\ t.neg = n2 /\ t.places = k2 /\ X2 = 10 ^ k2 /\ D2 = Digits(t) /\ D2 = b2 * X2 + f2 /\ f2 < X2
      /\ (k2 > 0 => f2 % 10 # 0) /\ (n2 => D2 # 0)
  BY <1>2, Zenon DEF TextParts
<1>5. PICK i \in Nat, j \in Nat : i = 0 - k1 - m /\ j = 0 - k2 - m
  <2>1. k1 \in Nat /\ k2 \in Nat /\ m <= 0 - k1 /\ m <= 0 - k2
    BY <1>3, <1>4, Zenon
  <2>2. 0 - k1 - m \in Nat /\ 0 - k2 - m \in Nat
    BY <2>1
  <2> QED BY <2>2, Zenon
<1>6. PICK y \in Nat \ {0}, z \in Nat \ {0} : y = 10 ^ i /\ z = 10 ^ j
  BY Zenon DEF PowersOfTen
<1>7. Signed(n1, D1) * y = Signed(n2, D2) * z
  <2>1. Number(s) = Numbers!Dec(Signed(n1, D1), 0 - k1) /\ Number(t) = Numbers!Dec(Signed(n2, D2), 0 - k2)
    BY <1>3, <1>4, Zenon DEF Number, Signed
  <2>2. /\ Number(s).value = Signed(n1, D1) /\ Number(s).exp = 0 - k1
        /\ Number(t).value = Signed(n2, D2) /\ Number(t).exp = 0 - k2
    BY <2>1 DEF Numbers!Dec
  <2> QED BY <1>5, <1>6, <2>2, Zenon DEF Numbers!At
<1>8. D1 * y \in Nat /\ D2 * z \in Nat /\ (D1 # 0 => D1 * y > 0) /\ (D2 # 0 => D2 * z > 0)
  BY <1>3, <1>4
<1>9. n1 = n2 /\ D1 * y = D2 * z
  <2>1. (-D1) * y = -(D1 * y) /\ (-D2) * z = -(D2 * z)
    BY <1>3, <1>4
  <2>2. CASE n1 /\ n2
    BY <1>7, <1>8, <2>1, <2>2 DEF Signed
  <2>3. CASE ~n1 /\ ~n2
    BY <1>3, <1>4, <1>7, <2>3 DEF Signed
  <2>4. CASE n1 /\ ~n2
    BY <1>3, <1>7, <1>8, <2>1, <2>4 DEF Signed
  <2>5. CASE ~n1 /\ n2
    BY <1>4, <1>7, <1>8, <2>1, <2>5 DEF Signed
  <2> QED BY <2>2, <2>3, <2>4, <2>5
<1>10. ~ (i < j)
  <2> SUFFICES ASSUME i < j PROVE FALSE
    OBVIOUS
  <2>1. D1 % 10 = 0
    BY <1>3, <1>4, <1>6, <1>9, EndsInZero
  <2>2. k1 > 0
    BY <1>3, <1>4, <1>5
  <2>3. (b1 * 10 ^ k1 + f1) % 10 # 0
    BY <1>3, <2>2, LastDigit
  <2> QED BY <1>3, <2>1, <2>3, Zenon
<1>11. ~ (j < i)
  <2> SUFFICES ASSUME j < i PROVE FALSE
    OBVIOUS
  <2>1. D2 % 10 = 0
    BY <1>3, <1>4, <1>6, <1>9, EndsInZero
  <2>2. k2 > 0
    BY <1>3, <1>4, <1>5
  <2>3. (b2 * 10 ^ k2 + f2) % 10 # 0
    BY <1>4, <2>2, LastDigit
  <2> QED BY <1>4, <2>1, <2>3, Zenon
<1>12. i = j /\ k1 = k2
  BY <1>3, <1>4, <1>5, <1>10, <1>11
<1>13. D1 = D2 /\ X1 = X2
  <2>1. D1 * y = D2 * y
    BY <1>6, <1>9, <1>12
  <2>2. D1 \in Int /\ D2 \in Int
    BY <1>3, <1>4
  <2> QED BY <1>3, <1>4, <1>12, <2>1, <2>2, Cancel
<1>14. b1 = b2 /\ f1 = f2
  <2>1. b1 * X1 + f1 = b2 * X1 + f2 /\ f2 < X1
    BY <1>3, <1>4, <1>13
  <2>2. (b1 - b2) * X1 = f2 - f1
    BY <1>3, <1>4, <2>1
  <2>3. CASE b1 > b2
    <3>1. (b1 - b2) * X1 >= X1
      BY <1>3, <1>4, <2>3
    <3> QED BY <1>3, <1>4, <2>1, <2>2, <3>1
  <2>4. CASE b1 < b2
    <3>1. (b1 - b2) * X1 <= -X1
      BY <1>3, <1>4, <2>4
    <3> QED BY <1>3, <1>4, <2>1, <2>2, <3>1
  <2>5. CASE b1 = b2
    BY <1>3, <1>4, <2>1, <2>5
  <2> QED BY <1>3, <1>4, <2>3, <2>4, <2>5
<1> QED BY <1>3, <1>4, <1>9, <1>12, <1>14, Zenon

\* A canonical text is read as its number.
LEMMA CanonicalIsRead ==
  ASSUME PowersOfTen, NEW t, Canonical(t)
  PROVE  /\ Numbers!NewFromString(t, 0) = Number(t)
         /\ Number(t) \in Numbers!Decimals /\ Number(t).exp = 0 - t.places /\ t.places \in Nat
<1>1. PICK n, b, f, k, D, X : TextParts(t, n, b, f, k, D, X)
  BY CanonicalParts
<1>2. /\ n \in BOOLEAN /\ f \in Nat /\ k \in Nat /\ D \in Nat
      /\ t.neg = n /\ t.whole = b /\ t.frac = f /\ t.places = k
      /\ X = 10 ^ k /\ D = Digits(t) /\ D = b * X + f /\ (k > 0 => f % 10 # 0)
  BY <1>1, Zenon DEF TextParts
<1>3. Numbers!TrimZeros(f, k) = <<f, k>>
  BY <1>2, TrimAgain, Zenon
<1>4. <<f, k>>[1] = f /\ <<f, k>>[2] = k
  OBVIOUS
<1>5. Numbers!NewFromString(t, 0) = Numbers!Dec(IF n THEN -D ELSE D, 0 - k)
  BY <1>2, <1>3, <1>4, Zenon DEF Numbers!NewFromString, Numbers!ParsedExp
<1>6. Number(t) = Numbers!Dec(IF n THEN -D ELSE D, 0 - k)
  BY <1>2, Zenon DEF Number
<1>7. PICK v \in Int, e \in Int : v = (IF n THEN -D ELSE D) /\ e = 0 - k
  BY <1>2
<1>8. Number(t) \in Numbers!Decimals /\ Number(t).exp = e
  BY <1>6, <1>7, DecFacts
<1> QED BY <1>2, <1>5, <1>6, <1>7, <1>8, Zenon

\* What String writes is read as the same number, and written again as the same text.
Rewritten(d, x) ==
  /\ x = Numbers!NewFromString(Numbers!String(d), 0) /\ x \in Numbers!Decimals
  /\ Numbers!Equal(x, d) /\ Numbers!String(x) = Numbers!String(d)

LEMMA TextIsRead ==
  ASSUME PowersOfTen, NEW d \in Numbers!Decimals
  PROVE  \E x : Rewritten(d, x)
<1>1. PICK t : t = Numbers!String(d)
  OBVIOUS
<1>2. PICK m \in Int : m <= d.exp /\ m <= 0
  <2>1. Numbers!Lower(d.exp, 0) \in Int /\ Numbers!Lower(d.exp, 0) <= d.exp /\ Numbers!Lower(d.exp, 0) <= 0
    BY AsDec DEF Numbers!Lower
  <2> QED BY <2>1
<1>3. Canonical(t) /\ m <= 0 - t.places /\ Numbers!At(Number(t), m) = Numbers!At(d, m)
  BY <1>1, <1>2, Denotes, Zenon
<1>4. PICK x : /\ x = Number(t) /\ x = Numbers!NewFromString(t, 0) /\ x \in Numbers!Decimals
               /\ m <= x.exp
  BY <1>3, CanonicalIsRead
<1>5. Numbers!Equal(x, d)
  BY <1>2, <1>3, <1>4, SameNumber, Zenon DEF Numbers!Equal
<1>6. PICK s : s = Numbers!String(x)
  OBVIOUS
<1>7. Canonical(s) /\ m <= 0 - s.places /\ Numbers!At(Number(s), m) = Numbers!At(x, m)
  BY <1>2, <1>4, <1>6, Denotes, Zenon
<1>8. s = t
  BY <1>3, <1>4, <1>7, CanonicalUnique, Zenon
<1>9. Rewritten(d, x)
  BY <1>1, <1>4, <1>5, <1>6, <1>8, Zenon DEF Rewritten
<1> QED BY <1>9

\* StringFixed has the places asked for.
LEMMA FixedPlaces ==
  ASSUME ExponentBits, PowersOfTen, NEW d \in Numbers!Decimals, NEW p \in Nat,
         Numbers!FitsInt32(-p), Numbers!FitsInt32(-p - 1)
  PROVE  Numbers!StringFixed(d, p).places = p
<1>1. PICK r : r = Numbers!Round(d, p) /\ r.exp = -p
  <2>1. PICK e : e = Numbers!Lower(d.exp, -p) - 1
    OBVIOUS
  <2>2. PICK R \in Int : Numbers!Round(d, p) = Numbers!Dec(R, -p)
    BY <2>1, RoundedTo
  <2>3. Numbers!Round(d, p).exp = -p
    BY <2>2 DEF Numbers!Dec
  <2> QED BY <2>3
<1>2. PICK q : q = (IF r.exp >= 0 THEN 0 ELSE -r.exp) /\ q = p
  BY <1>1
<1>3. PICK neg, whole, frac : Numbers!string(r, FALSE)
         = [neg |-> neg, whole |-> whole, frac |-> <<frac, q>>[1], places |-> <<frac, q>>[2]]
  BY <1>2, Zenon DEF Numbers!string
<1>4. Numbers!string(r, FALSE).places = q
  <2>1. PICK f, k : f = <<frac, q>>[1] /\ k = <<frac, q>>[2]
    OBVIOUS
  <2>2. PICK t : t = [neg |-> neg, whole |-> whole, frac |-> f, places |-> k]
    OBVIOUS
  <2>3. t.places = k /\ k = q
    BY <2>1, <2>2
  <2> QED BY <1>3, <2>1, <2>2, <2>3, Zenon
<1> QED BY <1>1, <1>2, <1>4, Zenon DEF Numbers!StringFixed

\* Two decimals have one text exactly if neither is less than the other, and a fixed text
\* has the places asked for: String and StringFixed of pkg/util/decimal.go.
THEOREM TextsAreCanonical ==
  ASSUME ExponentBits, PowersOfTen, NEW d \in Numbers!Decimals,
         Operands \subseteq Numbers!Decimals, Places \subseteq Int,
         \A p \in Places : Numbers!FitsInt32(-p) /\ Numbers!FitsInt32(-p - 1)
  PROVE  Numbers!TextIsCanonical(d)
<1>1. ASSUME NEW x \in Operands
      PROVE  Numbers!String(d) = Numbers!String(x)
               <=> ~Numbers!LessThan(d, x) /\ ~Numbers!GreaterThan(d, x)
  <2>1. x \in Numbers!Decimals
    OBVIOUS
  <2>2. PICK m \in Int : m <= d.exp /\ m <= x.exp /\ m <= 0
    <3>1. PICK a \in Int, b \in Int : a = d.exp /\ b = x.exp
      BY <2>1, AsDec
    <3>2. PICK m \in Int : m <= a /\ m <= b /\ m <= 0
      <4>1. CASE a <= b /\ a <= 0
        BY <4>1
      <4>2. CASE b <= a /\ b <= 0
        BY <4>2
      <4>3. CASE 0 <= a /\ 0 <= b
        BY <4>3
      <4> QED BY <4>1, <4>2, <4>3
    <3> QED BY <3>1, <3>2
  <2>3. PICK s, t : s = Numbers!String(d) /\ t = Numbers!String(x)
    OBVIOUS
  <2>4. Canonical(s) /\ m <= 0 - s.places /\ Numbers!At(Number(s), m) = Numbers!At(d, m)
    BY <2>2, <2>3, Denotes, Zenon
  <2>5. Canonical(t) /\ m <= 0 - t.places /\ Numbers!At(Number(t), m) = Numbers!At(x, m)
    BY <2>1, <2>2, <2>3, Denotes, Zenon
  <2>6. s = t <=> Numbers!At(d, m) = Numbers!At(x, m)
    BY <2>4, <2>5, CanonicalUnique, Zenon
  <2>7. /\ Numbers!Cmp(d, x) \in {-1, 0, 1}
        /\ Numbers!Cmp(d, x) = 0 <=> Numbers!At(d, m) = Numbers!At(x, m)
    BY <2>1, <2>2, SameNumber, Zenon
  <2>8. Numbers!Cmp(d, x) = 0 <=> ~(Numbers!Cmp(d, x) = -1) /\ ~(Numbers!Cmp(d, x) = 1)
    BY <2>7
  <2> QED BY <2>3, <2>6, <2>7, <2>8, Zenon DEF Numbers!LessThan, Numbers!GreaterThan
<1>2. ASSUME NEW p \in {q \in Places : q >= 0} PROVE Numbers!StringFixed(d, p).places = p
  <2>1. p \in Nat /\ p \in Places
    OBVIOUS
  <2> QED BY <2>1, FixedPlaces
<1> QED BY <1>1, <1>2, Zenon DEF Numbers!TextIsCanonical

\* JSON and columns that hold something are told from null.
LEMMA NotNull ==
  ASSUME NEW d, NEW b \in BOOLEAN
  PROVE  Numbers!MarshalJSON(d, b) # Numbers!Null /\ Numbers!Value(d) # Numbers!Null
<1>1. PICK t : t = Numbers!String(d)
  OBVIOUS
<1>2. /\ DOMAIN [quoted |-> ~b, text |-> t] = {"quoted", "text"}
      /\ DOMAIN [type |-> "text", text |-> t] = {"type", "text"}
      /\ DOMAIN [null |-> TRUE] = {"null"}
  OBVIOUS
<1>3. "text" \in {"quoted", "text"} /\ "text" \in {"type", "text"} /\ "text" \notin {"null"}
  OBVIOUS
<1> QED BY <1>1, <1>2, <1>3, Zenon DEF Numbers!MarshalJSON, Numbers!Value, Numbers!Null

\* What a column is read from, and what is read from what was written.
LEMMA ReadBack ==
  ASSUME NEW d, NEW x, Rewritten(d, x), NEW y, NEW b \in BOOLEAN
  PROVE  /\ Numbers!UnmarshalJSON(y, Numbers!MarshalJSON(d, b)) = x
         /\ Numbers!Scan(Numbers!Value(d)) = x
         /\ Numbers!MarshalJSON(x, b) = Numbers!MarshalJSON(d, b)
         /\ Numbers!Value(x) = Numbers!Value(d)
<1>1. PICK t : /\ t = Numbers!String(d) /\ t = Numbers!String(x)
               /\ x = Numbers!NewFromString(t, 0)
  BY Zenon DEF Rewritten
<1>2. Numbers!UnmarshalJSON(y, Numbers!MarshalJSON(d, b)) = x
  <2>1. Numbers!MarshalJSON(d, b) # Numbers!Null
    BY NotNull
  <2>2. Numbers!MarshalJSON(d, b).text = t
    BY <1>1 DEF Numbers!MarshalJSON
  <2> QED BY <1>1, <2>1, <2>2, Zenon DEF Numbers!UnmarshalJSON
<1>3. Numbers!Scan(Numbers!Value(d)) = x
  <2>0. PICK v : v = Numbers!Value(d)
    OBVIOUS
  <2>1. v = Numbers!Value(d) /\ v.type = "text" /\ v.text = t
    BY <1>1, <2>0 DEF Numbers!Value
  <2>2. Numbers!Scan(v) = Numbers!NewFromString(v.text, 0)
    BY <2>1 DEF Numbers!Scan
  <2> QED BY <1>1, <2>1, <2>2, Zenon
<1> QED BY <1>1, <1>2, <1>3, Zenon DEF Numbers!MarshalJSON, Numbers!Value

\* A column that may be null comes back, null or not.
LEMMA ColumnIsRead ==
  ASSUME NEW d, NEW x, Rewritten(d, x), NEW valid \in BOOLEAN, NEW b \in BOOLEAN,
         NEW column, column = [Decimal |-> d, Valid |-> valid],
         NEW json, json = Numbers!NullDecimalMarshalJSON(column, b),
         NEW value, value = Numbers!NullDecimalValue(column)
  PROVE  /\ Numbers!NullDecimalMarshalJSON(Numbers!NullDecimalUnmarshalJSON(column, json), b) = json
         /\ Numbers!NullDecimalValue(Numbers!NullDecimalScan(column, value)) = value
<1>1. column.Decimal = d /\ column.Valid = valid
  OBVIOUS
<1>2. CASE valid
  <2>1. json = Numbers!MarshalJSON(d, b) /\ value = Numbers!Value(d)
    BY <1>1, <1>2, Zenon DEF Numbers!NullDecimalMarshalJSON, Numbers!NullDecimalValue
  <2>2. json # Numbers!Null /\ value # Numbers!Null
    BY <2>1, NotNull
  <2>0. PICK read : read = [Decimal |-> x, Valid |-> TRUE]
    OBVIOUS
  <2>3. read = [Decimal |-> x, Valid |-> TRUE] /\ read.Decimal = x /\ read.Valid
    BY <2>0
  <2>4. Numbers!NullDecimalUnmarshalJSON(column, json) = read
    <3>1. Numbers!UnmarshalJSON(column.Decimal, json) = x
      BY <2>1, ReadBack
    <3>2. (json # Numbers!Null) = TRUE
      BY <2>2
    <3> QED BY <2>3, <3>1, <3>2, Zenon DEF Numbers!NullDecimalUnmarshalJSON
  <2>5. Numbers!NullDecimalScan(column, value) = read
    <3>1. Numbers!Scan(value) = x
      BY <2>1, ReadBack
    <3> QED BY <2>2, <2>3, <3>1, Zenon DEF Numbers!NullDecimalScan
  <2>6. Numbers!MarshalJSON(x, b) = json /\ Numbers!Value(x) = value
    BY <2>1, ReadBack
  <2>7. Numbers!NullDecimalMarshalJSON(read, b) = json /\ Numbers!NullDecimalValue(read) = value
    BY <2>3, <2>6, Zenon DEF Numbers!NullDecimalMarshalJSON, Numbers!NullDecimalValue
  <2> QED BY <2>4, <2>5, <2>7, Zenon
<1>3. CASE ~valid
  <2>1. json = Numbers!Null /\ value = Numbers!Null
    BY <1>1, <1>3, Zenon DEF Numbers!NullDecimalMarshalJSON, Numbers!NullDecimalValue
  <2>2. PICK read : read = Numbers!NullDecimalUnmarshalJSON(column, json) /\ ~read.Valid
    <3>1. Numbers!NullDecimalUnmarshalJSON(column, json)
            = [Decimal |-> Numbers!UnmarshalJSON(d, json), Valid |-> FALSE]
      <4>1. (json # Numbers!Null) = FALSE
        BY <2>1
      <4> QED BY <1>1, <4>1, Zenon DEF Numbers!NullDecimalUnmarshalJSON
    <3> QED BY <3>1
  <2>3. PICK scanned : scanned = Numbers!NullDecimalScan(column, value) /\ ~scanned.Valid
    <3>1. Numbers!NullDecimalScan(column, value) = [column EXCEPT !.Valid = FALSE]
      BY <2>1, Zenon DEF Numbers!NullDecimalScan
    <3>2. ~ [column EXCEPT !.Valid = FALSE].Valid
      OBVIOUS
    <3> QED BY <3>1, <3>2, Zenon
  <2>4. Numbers!NullDecimalMarshalJSON(read, b) = Numbers!Null /\ Numbers!NullDecimalValue(scanned) = Numbers!Null
    BY <2>2, <2>3, Zenon DEF Numbers!NullDecimalMarshalJSON, Numbers!NullDecimalValue
  <2> QED BY <2>1, <2>2, <2>3, <2>4, Zenon
<1> QED BY <1>2, <1>3

\* A decimal comes back from its text, its JSON, its binary form and a column, null or not,
\* as the number it was: MarshalJSON, UnmarshalJSON, MarshalBinary, UnmarshalBinary, Value,
\* Scan and those of NullDecimal of pkg/util/decimal.go.
THEOREM SurvivesWriting ==
  ASSUME ExponentBits, PowersOfTen, NEW d \in Numbers!Decimals, Numbers!FitsInt32(d.exp)
  PROVE  Numbers!Survives(d)
<1>1. PICK x : Rewritten(d, x)
  BY TextIsRead
<1>2. Numbers!Equal(x, d)
  BY <1>1, Zenon DEF Rewritten
<1>3. \A b \in BOOLEAN : Numbers!UnmarshalJSON(Numbers!Dec(0, 0), Numbers!MarshalJSON(d, b)) = x
  BY <1>1, ReadBack
<1>4. Numbers!Scan(Numbers!Value(d)) = x
  <2>1. TRUE \in BOOLEAN
    OBVIOUS
  <2> QED BY <1>1, <2>1, ReadBack
<1>5. Numbers!UnmarshalBinary(Numbers!MarshalBinary(d)) = d
  BY BinaryIsRead
<1>6. ASSUME NEW valid \in BOOLEAN, NEW b \in BOOLEAN
      PROVE  LET column == [Decimal |-> d, Valid |-> valid]
             IN  /\ Numbers!NullDecimalMarshalJSON(Numbers!NullDecimalUnmarshalJSON(column, Numbers!NullDecimalMarshalJSON(column, b)), b)
                      = Numbers!NullDecimalMarshalJSON(column, b)
                 /\ Numbers!NullDecimalValue(Numbers!NullDecimalScan(column, Numbers!NullDecimalValue(column)))
                      = Numbers!NullDecimalValue(column)
  <2>1. PICK column, json, value : /\ column = [Decimal |-> d, Valid |-> valid]
                                   /\ json = Numbers!NullDecimalMarshalJSON(column, b)
                                   /\ value = Numbers!NullDecimalValue(column)
    OBVIOUS
  <2>2. /\ Numbers!NullDecimalMarshalJSON(Numbers!NullDecimalUnmarshalJSON(column, json), b) = json
        /\ Numbers!NullDecimalValue(Numbers!NullDecimalScan(column, value)) = value
    BY <1>1, <2>1, ColumnIsRead
  <2> QED BY <2>1, <2>2, Zenon
<1> QED BY <1>2, <1>3, <1>4, <1>5, <1>6, Zenon DEF Numbers!Survives

-----------------------------------------------------------------------------
(* Decimals: floats. *)

LEMMA TwoPowerSum ==
  ASSUME PowerLaws, NEW m \in Nat, NEW n \in Nat
  PROVE  2 ^ (m + n) = 2 ^ m * 2 ^ n
<1>1. PICK b \in Nat : b = 2
  OBVIOUS
<1>2. b ^ 0 = 1 /\ Powers(b)
  <2>1. 2 ^ 0 = 1
    OBVIOUS
  <2> QED BY <1>1, <2>1, Zenon DEF PowerLaws
<1>3. b ^ (m + n) = b ^ m * b ^ n
  BY <1>2, PowerSum
<1> QED BY <1>1, <1>3, Zenon

\* What is above 0, and below.
Above(n) == IF n > 0 THEN n ELSE 0

LEMMA PowersAbove ==
  ASSUME NEW n \in Int
  PROVE  /\ Above(n) \in Nat /\ Above(0 - n) \in Nat
         /\ (IF n > 0 THEN 10 ^ n ELSE 1) = 10 ^ Above(n)
         /\ (IF n > 0 THEN 5 ^ n ELSE 1) = 5 ^ Above(n)
         /\ (IF n > 0 THEN 2 ^ n ELSE 1) = 2 ^ Above(n)
         /\ (IF n < 0 THEN 10 ^ (-n) ELSE 1) = 10 ^ Above(0 - n)
         /\ (IF n < 0 THEN 5 ^ (-n) ELSE 1) = 5 ^ Above(0 - n)
         /\ (IF n < 0 THEN 2 ^ (-n) ELSE 1) = 2 ^ Above(0 - n)
<1>1. 10 ^ 0 = 1 /\ 5 ^ 0 = 1 /\ 2 ^ 0 = 1
  OBVIOUS
<1>2. Above(n) \in Nat /\ Above(0 - n) \in Nat
  BY DEF Above
<1>3. -n = 0 - n /\ (n < 0 <=> 0 - n > 0)
  OBVIOUS
<1> QED BY <1>1, <1>2, <1>3, Zenon DEF Above

\* What is rounded to the nearest is, in units that are finer, too.
LEMMA RoundedRatio ==
  ASSUME NEW a \in Nat, NEW t \in Nat \ {0}, NEW c \in Nat \ {0},
         NEW q, q = (a + t \div 2) \div t
  PROVE  q \in Nat /\ Numbers!Nearest(q * (c * t), c * a, c * t)
<1>1. PICK h \in Nat : h = t \div 2 /\ 2 * h <= t /\ t <= 2 * h + 1
  OBVIOUS
<1>2. PICK z \in Nat, r \in Nat : z = (a + h) \div t /\ a + h = t * z + r /\ r < t
  <2>1. a + h \in Nat
    OBVIOUS
  <2>2. PICK s \in Nat : s = a + h
    OBVIOUS
  <2>3. PICK z \in Nat, r \in Nat : z = s \div t /\ s = t * z + r /\ r < t
    OBVIOUS
  <2> QED BY <2>2, <2>3, Zenon
<1>3. z = q
  BY <1>1, <1>2, Zenon
<1>4. PICK w \in Nat : w = z * t /\ a + h = w + r
  BY <1>2
<1>5. 2 * Numbers!AbsInt(w - a) <= t
  BY <1>1, <1>2, <1>4 DEF Numbers!AbsInt
<1>6. PICK u \in Int : u = w - a /\ 2 * Numbers!AbsInt(u) <= t
  BY <1>5
<1>7. z * (c * t) - c * a = c * u
  <2>1. z * (c * t) = c * w
    BY <1>4
  <2>2. c * w - c * a = c * (w - a)
    OBVIOUS
  <2> QED BY <1>6, <2>1, <2>2
<1>8. 2 * Numbers!AbsInt(c * u) <= c * t
  <2>1. Numbers!AbsInt(u * c) = Numbers!AbsInt(u) * c
    BY SameSign
  <2>0. Numbers!AbsInt(u) \in Nat
    BY DEF Numbers!AbsInt
  <2>2. PICK m \in Nat : m = Numbers!AbsInt(u) /\ 2 * m <= t
    BY <1>6, <2>0, Zenon
  <2>3. 2 * (m * c) <= c * t
    BY <2>2
  <2>4. u * c = c * u
    OBVIOUS
  <2> QED BY <2>1, <2>2, <2>3, <2>4, Zenon
<1>9. (z * (c * t)) % (c * t) = 0
  <2>1. c * t \in Nat /\ c * t > 0 /\ z \in Int
    OBVIOUS
  <2> QED BY <2>1, Multiples, Zenon
<1> QED BY <1>3, <1>7, <1>8, <1>9, Zenon DEF Numbers!Nearest

\* Powers of two taken from a ratio.
LEMMA PowersOfTwoGone ==
  ASSUME PowerLaws, NEW e \in Int, NEW x \in Int
  PROVE  \E c \in Nat \ {0} :
           /\ 10 ^ Above(e) * 2 ^ Above(0 - x) = c * (5 ^ Above(e) * 2 ^ Above(0 - (x - e)))
           /\ 10 ^ Above(0 - e) * 2 ^ Above(x) = c * (5 ^ Above(0 - e) * 2 ^ Above(x - e))
<1>1. \A n \in Int : Above(n) \in Nat
  BY DEF Above
<1>5. PICK a \in Nat, b \in Nat, h \in Nat :
        a = Above(e) /\ b = Above(0 - x) /\ h = Above(0 - (x - e))
  <2>1. e \in Int /\ 0 - x \in Int /\ 0 - (x - e) \in Int
    OBVIOUS
  <2> QED BY <1>1, <2>1, Zenon
<1>6. PICK i \in Nat, j \in Nat, k \in Nat : i = Above(0 - e) /\ j = Above(x) /\ k = Above(x - e)
  <2>1. 0 - e \in Int /\ x \in Int /\ x - e \in Int
    OBVIOUS
  <2> QED BY <1>1, <2>1, Zenon
<1>7. PICK g \in Nat : a + b = g + h /\ i + j = g + k
  <2>1. a + b - h \in Nat /\ a + b - h = i + j - k
    BY <1>5, <1>6 DEF Above
  <2> QED BY <2>1
<1>2. PICK c \in Nat \ {0} : c = 2 ^ g
  BY Zenon DEF PowerLaws, Powers
<1>3. ASSUME NEW m \in Nat, NEW n \in Nat, NEW l \in Nat, m + n = g + l
      PROVE  10 ^ m * 2 ^ n = c * (5 ^ m * 2 ^ l)
  <2>1. PICK p \in Nat, q \in Nat, r \in Nat, s \in Nat : p = 5 ^ m /\ q = 2 ^ m /\ r = 2 ^ n /\ s = 2 ^ l
    BY Zenon DEF PowerLaws, Powers
  <2>2. 10 ^ m = p * q
    BY <2>1, TenIsTwoFives, Zenon
  <2>3. q * r = c * s
    <3>1. 2 ^ (m + n) = 2 ^ m * 2 ^ n /\ 2 ^ (g + l) = 2 ^ g * 2 ^ l
      BY TwoPowerSum
    <3> QED BY <1>2, <1>3, <2>1, <3>1, Zenon
  <2>4. (p * q) * r = p * (q * r) /\ p * (c * s) = c * (p * s)
    OBVIOUS
  <2> QED BY <2>1, <2>2, <2>3, <2>4, Zenon
<1>4. 10 ^ a * 2 ^ b = c * (5 ^ a * 2 ^ h) /\ 10 ^ i * 2 ^ j = c * (5 ^ i * 2 ^ k)
  <2>1. \A m, n, l \in Nat : m + n = g + l => 10 ^ m * 2 ^ n = c * (5 ^ m * 2 ^ l)
    BY <1>3
  <2>2. 10 ^ a * 2 ^ b = c * (5 ^ a * 2 ^ h)
    BY <1>7, <2>1
  <2>3. 10 ^ i * 2 ^ j = c * (5 ^ i * 2 ^ k)
    BY <1>7, <2>1
  <2> QED BY <2>2, <2>3
<1> QED BY <1>4, <1>5, <1>6, Zenon

\* A float becomes the nearest decimal with the exponent asked for, or the decimal that it
\* is: NewFromFloatWithExponent of pkg/util/decimal.go.
THEOREM FloatsAreNearest ==
  ASSUME PowerLaws, NEW f \in [neg : BOOLEAN, mant : Nat, exp2 : Int], NEW p \in Int
  PROVE  Numbers!FloatIsNearest(f, p)
<1>1. PICK M \in Nat, x \in Int : M = f.mant /\ x = f.exp2
  OBVIOUS
<1>2. PICK d : d = Numbers!NewFromFloatWithExponent(f, p)
  OBVIOUS
<1>3. PICK e \in Int : e = (IF p < 0 /\ p < x THEN (IF x < 0 THEN x ELSE 0) ELSE p)
  OBVIOUS
<1>4. PICK t \in Nat \ {0}, g \in Nat \ {0} :
        /\ t = 5 ^ Above(e) * 2 ^ Above(0 - (x - e))
        /\ g = 5 ^ Above(0 - e) * 2 ^ Above(x - e)
  <2>1. Above(e) \in Nat /\ Above(0 - e) \in Nat /\ Above(x - e) \in Nat /\ Above(0 - (x - e)) \in Nat
    BY DEF Above
  <2>2. PICK a \in Nat \ {0}, b \in Nat \ {0}, i \in Nat \ {0}, j \in Nat \ {0} :
          /\ a = 5 ^ Above(e) /\ b = 2 ^ Above(0 - (x - e))
          /\ i = 5 ^ Above(0 - e) /\ j = 2 ^ Above(x - e)
    BY <2>1, Zenon DEF PowerLaws, Powers
  <2>3. a * b \in Nat \ {0} /\ i * j \in Nat \ {0}
    OBVIOUS
  <2> QED BY <2>2, <2>3, Zenon
<1>5. PICK c \in Nat \ {0} :
        /\ 10 ^ Above(e) * 2 ^ Above(0 - x) = c * t
        /\ 10 ^ Above(0 - e) * 2 ^ Above(x) = c * g
  BY <1>4, PowersOfTwoGone, Zenon
<1>6. PICK q : q = (M * g + t \div 2) \div t
  OBVIOUS
<1>7. q \in Nat /\ Numbers!Nearest(q * (c * t), c * (M * g), c * t)
  <2>1. M * g \in Nat
    OBVIOUS
  <2> QED BY <1>6, <2>1, RoundedRatio
<1>8. M # 0 => d = Numbers!Dec(IF f.neg THEN -q ELSE q, e)
  <2> SUFFICES ASSUME M # 0 PROVE d = Numbers!Dec(IF f.neg THEN -q ELSE q, e)
    OBVIOUS
  <2> DEFINE y == x - e
             temp == (IF e > 0 THEN 5 ^ e ELSE 1) * (IF y < 0 THEN 2 ^ (-y) ELSE 1)
             dMant == M * (IF e < 0 THEN 5 ^ (-e) ELSE 1) * (IF y > 0 THEN 2 ^ y ELSE 1)
             r == IF e > 0 \/ y < 0 THEN (dMant + temp \div 2) \div temp ELSE dMant
             e0 == IF p < 0 /\ p < f.exp2 THEN (IF f.exp2 < 0 THEN f.exp2 ELSE 0) ELSE p
             y0 == f.exp2 - e0
             temp0 == (IF e0 > 0 THEN 5 ^ e0 ELSE 1) * (IF y0 < 0 THEN 2 ^ (-y0) ELSE 1)
             dMant0 == f.mant * (IF e0 < 0 THEN 5 ^ (-e0) ELSE 1) * (IF y0 > 0 THEN 2 ^ y0 ELSE 1)
             r0 == IF e0 > 0 \/ y0 < 0 THEN (dMant0 + temp0 \div 2) \div temp0 ELSE dMant0
  <2>1. d = Numbers!Dec(IF f.neg THEN -r ELSE r, e)
    <3>1. d = IF f.mant = 0 THEN Numbers!Dec(0, 0)
              ELSE Numbers!Dec(IF f.neg THEN -r0 ELSE r0, e0)
      BY <1>2, Zenon DEF Numbers!NewFromFloatWithExponent
    <3>2. e0 = e
      BY <1>1, <1>3, Zenon
    <3> HIDE DEF e0
    <3>3. y0 = y
      BY <1>1, <3>2, Zenon
    <3>4. dMant0 = dMant
      BY <1>1, <3>2, <3>3, Zenon
    <3>5. temp0 = temp
      BY <3>2, <3>3, Zenon
    <3>6. r0 = r
      BY <3>2, <3>3, <3>4, <3>5, Zenon
    <3> QED BY <1>1, <3>1, <3>2, <3>6, Zenon
  <2>2. y \in Int
    OBVIOUS
  <2>3. temp = t
    BY <1>4, <2>2, PowersAbove, Zenon
  <2>4. dMant = M * g
    <3>1. dMant = M * 5 ^ Above(0 - e) * 2 ^ Above(y)
      BY <2>2, PowersAbove, Zenon
    <3>2. PICK i \in Nat, j \in Nat : i = 5 ^ Above(0 - e) /\ j = 2 ^ Above(y)
      <4>1. Above(0 - e) \in Nat /\ Above(x - e) \in Nat
        BY DEF Above
      <4> QED BY <4>1, Zenon DEF PowerLaws, Powers
    <3>3. M * i * j = M * (i * j)
      OBVIOUS
    <3> QED BY <1>4, <3>1, <3>2, <3>3, Zenon
  <2>5. r = q
    <3>1. CASE e > 0 \/ y < 0
      BY <1>6, <2>3, <2>4, <3>1, Zenon
    <3>2. CASE ~(e > 0 \/ y < 0)
      <4>1. temp = 1
        <5>1. 1 * 1 = 1
          OBVIOUS
        <5> QED BY <3>2, <5>1, Zenon
      <4>2. (M * g + t \div 2) \div t = M * g
        BY <2>3, <4>1
      <4> QED BY <1>6, <2>4, <3>2, <4>2, Zenon
    <3> QED BY <3>1, <3>2, Zenon
  <2> QED BY <2>1, <2>5, Zenon
<1>9. M # 0 => d.exp = e /\ d.value \in Int /\ Numbers!AbsInt(d.value) = q /\ (d.value < 0 => f.neg)
  BY <1>7, <1>8 DEF Numbers!Dec, Numbers!AbsInt
<1>10. PICK z \in Int : z = d.exp /\ (M = 0 => z = 0 /\ d.value = 0) /\ (M # 0 => z = e)
  <2>1. M = 0 => d = Numbers!Dec(0, 0)
    BY <1>1, <1>2, Zenon DEF Numbers!NewFromFloatWithExponent
  <2>2. M = 0 => d.exp = 0 /\ d.value = 0
    BY <2>1 DEF Numbers!Dec
  <2> QED BY <1>9, <2>2
<1> DEFINE n == IF d.exp < 0 THEN f.mant * 10 ^ (-d.exp) ELSE f.mant
           unit == (IF d.exp > 0 THEN 10 ^ d.exp ELSE 1) * (IF f.exp2 < 0 THEN 2 ^ (-f.exp2) ELSE 1)
           scaled == n * (IF f.exp2 > 0 THEN 2 ^ f.exp2 ELSE 1)
<1>11. unit = 10 ^ Above(z) * 2 ^ Above(0 - x)
  BY <1>1, <1>10, PowersAbove, Zenon
<1>12. scaled = (M * 10 ^ Above(0 - z)) * 2 ^ Above(x)
  <2>1. n = M * 10 ^ Above(0 - z)
    <3>1. n = M * (IF z < 0 THEN 10 ^ (-z) ELSE 1)
      <4>1. M * 1 = M
        OBVIOUS
      <4> QED BY <1>1, <1>10, <4>1, Zenon
    <3> QED BY <3>1, PowersAbove, Zenon
  <2> QED BY <1>1, <2>1, PowersAbove, Zenon
<1> HIDE DEF n, unit, scaled
<1>13. PICK y \in Nat \ {0}, w \in Nat \ {0} : y = 10 ^ Above(0 - z) /\ w = 2 ^ Above(x)
  <2>1. Above(0 - z) \in Nat /\ Above(x) \in Nat
    BY DEF Above
  <2> QED BY <2>1, Zenon DEF PowerLaws, PowersOfTen, Powers
<1>14. Numbers!Nearest(Numbers!AbsInt(d.value) * unit, scaled, unit) /\ (d.value < 0 => f.neg)
  <2>1. CASE M # 0
    <3>1. unit = c * t
      BY <1>5, <1>10, <1>11, <2>1, Zenon
    <3>2. scaled = c * (M * g)
      <4>1. y * w = c * g
        BY <1>5, <1>10, <1>13, <2>1, Zenon
      <4>2. (M * y) * w = M * (y * w) /\ M * (c * g) = c * (M * g)
        OBVIOUS
      <4> QED BY <1>12, <1>13, <4>1, <4>2, Zenon
    <3> QED BY <1>7, <1>9, <2>1, <3>1, <3>2, Zenon
  <2>2. CASE M = 0
    <3>1. PICK u \in Nat \ {0} : u = unit
      <4>1. z \in Int /\ Above(z) \in Nat /\ Above(0 - x) \in Nat
        BY DEF Above
      <4>2. PICK a \in Nat \ {0}, b \in Nat \ {0} : a = 10 ^ Above(z) /\ b = 2 ^ Above(0 - x)
        BY <4>1, Zenon DEF PowerLaws, PowersOfTen, Powers
      <4>3. a * b \in Nat \ {0}
        OBVIOUS
      <4> QED BY <1>11, <4>2, <4>3, Zenon
    <3>2. scaled = 0
      <4>1. (0 * y) * w = 0
        OBVIOUS
      <4> QED BY <1>12, <1>13, <2>2, <4>1, Zenon
    <3>3. Numbers!AbsInt(d.value) = 0 /\ ~(d.value < 0)
      BY <1>10, <2>2 DEF Numbers!AbsInt
    <3>4. Numbers!Nearest(0, 0, u)
      <4>1. 0 % u = 0 /\ 0 - 0 = 0 /\ 2 * 0 <= u /\ ~(0 < 0)
        OBVIOUS
      <4> QED BY <4>1, Zenon DEF Numbers!Nearest, Numbers!AbsInt
    <3>5. 0 * u = 0
      OBVIOUS
    <3> QED BY <3>1, <3>2, <3>3, <3>4, <3>5, Zenon
  <2> QED BY <2>1, <2>2
<1> QED BY <1>2, <1>14, Zenon DEF Numbers!FloatIsNearest, n, unit, scaled

-----------------------------------------------------------------------------
(* Decimals: amounts of cents through the float of yuan. *)

\* Ties to even or not, the nearest is half a divisor away at most.
LEMMA NearestEvenFacts ==
  ASSUME NEW a \in Nat, NEW b \in Nat \ {0}
  PROVE  \E h \in Nat : /\ h = Numbers!NearestEven(a, b)
                        /\ -b <= 2 * (a - h * b) /\ 2 * (a - h * b) <= b
<1>1. PICK q \in Nat, r \in Nat : q = a \div b /\ r = a % b /\ a = b * q + r /\ r < b
  OBVIOUS
<1>2. Numbers!NearestEven(a, b) = IF 2 * r > b \/ (2 * r = b /\ q % 2 = 1) THEN q + 1 ELSE q
  BY <1>1, Zenon DEF Numbers!NearestEven
<1>3. CASE 2 * r > b \/ (2 * r = b /\ q % 2 = 1)
  <2>1. PICK h \in Nat : h = q + 1
    OBVIOUS
  <2>2. h = Numbers!NearestEven(a, b)
    BY <1>2, <1>3, <2>1, Zenon
  <2>3. a - h * b = r - b
    BY <1>1, <2>1
  <2>4. -b <= 2 * (r - b) /\ 2 * (r - b) <= b
    BY <1>1, <1>3
  <2> QED BY <2>2, <2>3, <2>4, Zenon
<1>4. CASE ~(2 * r > b \/ (2 * r = b /\ q % 2 = 1))
  <2>1. q = Numbers!NearestEven(a, b)
    BY <1>2, <1>4, Zenon
  <2>2. a - q * b = r
    BY <1>1
  <2>3. -b <= 2 * r /\ 2 * r <= b
    BY <1>1, <1>4
  <2> QED BY <2>1, <2>2, <2>3, Zenon
<1> QED BY <1>3, <1>4

\* What is closer than half a divisor is the nearest.
LEMMA NearestEvenIs ==
  ASSUME NEW a \in Nat, NEW b \in Nat \ {0}, NEW n \in Nat,
         -b < 2 * (a - n * b), 2 * (a - n * b) < b
  PROVE  Numbers!NearestEven(a, b) = n
<1>1. PICK h \in Nat : /\ h = Numbers!NearestEven(a, b)
                       /\ -b <= 2 * (a - h * b) /\ 2 * (a - h * b) <= b
  BY NearestEvenFacts
<1>2. CASE h > n
  <2>1. (h - n) * b >= b /\ (h - n) * b = h * b - n * b
    BY <1>2
  <2>2. PICK x \in Nat, y \in Nat : x = h * b /\ y = n * b
    OBVIOUS
  <2> QED BY <1>1, <2>1, <2>2
<1>3. CASE h < n
  <2>1. (n - h) * b >= b /\ (n - h) * b = n * b - h * b
    BY <1>3
  <2>2. PICK x \in Nat, y \in Nat : x = h * b /\ y = n * b
    OBVIOUS
  <2> QED BY <1>1, <2>1, <2>2
<1>4. CASE h = n
  BY <1>1, <1>4
<1> QED BY <1>2, <1>3, <1>4

\* The quotient of cents by 100, rounded to two places, is exact.
LEMMA CentsAreExact ==
  ASSUME ExponentBits, PowersOfTen, Quotient, NEW v \in Int
  PROVE  Numbers!Round(Numbers!Div(Numbers!Dec(v, 0), Numbers!Dec(100, 0)), 2) = Numbers!Dec(v, -2)
<1>1. PICK p \in Int, k \in Nat : p = DivisionPrecision /\ k = p - 2 /\ p = k + 1 + 1
  BY DEF Quotient
<1>2. PICK w \in Nat \ {0} : /\ w = 10 ^ k /\ 10 ^ (k + 1) = 10 * w
                             /\ 10 ^ (k + 1 + 1) = 10 * (10 * w)
  <2>1. PICK w \in Nat \ {0} : w = 10 ^ k /\ 10 ^ (k + 1) = 10 * w
    BY Zenon DEF PowersOfTen
  <2>2. k + 1 \in Nat
    OBVIOUS
  <2> QED BY <2>1, <2>2, Zenon DEF PowersOfTen
<1>3. Numbers!Div(Numbers!Dec(v, 0), Numbers!Dec(100, 0)) = Numbers!Dec(v * w, -p)
  <2>1. 0 + p = p /\ 100 \in Nat \ {0} /\ 0 \in {0, -p}
    OBVIOUS
  <2>2. v * (10 * (10 * w)) = 100 * (v * w)
    OBVIOUS
  <2>3. v * w \in Int
    OBVIOUS
  <2>4. Neighbour(100 * (v * w), 100) = v * w
    BY <2>1, <2>3, ExactQuotient
  <2>5. Numbers!Div(Numbers!Dec(v, 0), Numbers!Dec(100, 0))
          = Numbers!Dec(Neighbour(v * 10 ^ (0 + p), 100), -p)
    BY <1>1, <2>1, DividedByInteger
  <2> QED BY <1>1, <1>2, <2>1, <2>2, <2>4, <2>5, Zenon
<1>4. PICK f \in Int, u \in Int : f = -p /\ u = v * w
  OBVIOUS
<1>5. PICK d \in Numbers!Decimals : d = Numbers!Dec(u, f) /\ d.value = u /\ d.exp = f
  BY DecFacts
<1>6. PICK e \in Int : e = Numbers!Lower(f, -2) - 1 /\ f - e = 1 /\ -2 - e = k + 1
  BY <1>1, <1>4 DEF Numbers!Lower
<1>7. PICK R \in Int : /\ Numbers!Round(d, 2) = Numbers!Dec(R, -2)
                       /\ 2 * Numbers!AbsInt(R * 10 ^ (-2 - e) - Numbers!At(d, e)) <= 10 ^ (-2 - e)
  <2>1. Numbers!FitsInt32(-2) /\ Numbers!FitsInt32(-2 - 1) /\ 2 \in Int
    <3>1. -2 \in -3 .. 2 /\ -3 \in -3 .. 2 /\ -2 - 1 = -3
      OBVIOUS
    <3> QED BY <3>1, NearZeroFits
  <2>2. e = Numbers!Lower(d.exp, -2) - 1
    BY <1>5, <1>6, Zenon
  <2> QED BY <2>1, <2>2, RoundedTo
<1>8. Numbers!At(d, e) = v * (10 * w)
  <2>1. Numbers!At(d, e) = u * 10
    BY <1>5, <1>6, SmallPowers, Zenon DEF Numbers!At
  <2> QED BY <1>4, <2>1
<1>9. 2 * Numbers!AbsInt(R * (10 * w) - v * (10 * w)) <= 10 * w
  BY <1>2, <1>6, <1>7, <1>8, Zenon
<1>10. R = v
  <2>1. PICK z \in Nat \ {0}, m \in Int : z = 10 * w /\ m = R - v
    OBVIOUS
  <2>2. R * z - v * z = m * z
    BY <2>1
  <2>3. 2 * Numbers!AbsInt(m * z) <= z
    BY <1>9, <2>1, <2>2, Zenon
  <2>4. CASE m >= 1
    <3>1. m * z >= z
      BY <2>4
    <3> QED BY <2>3, <3>1 DEF Numbers!AbsInt
  <2>5. CASE m <= -1
    <3>1. m * z <= -z
      BY <2>5
    <3> QED BY <2>3, <3>1 DEF Numbers!AbsInt
  <2> QED BY <2>1, <2>4, <2>5
<1> QED BY <1>3, <1>4, <1>5, <1>7, <1>10, Zenon

\* A mantissa h of the bits that a float has, for n hundredths, scaled with 2^y.
Mantissa(n, y, h) ==
  /\ y \in Nat /\ h \in Nat /\ h = Numbers!NearestEven(n * 2 ^ y, 100)
  /\ 2 ^ (MantBits - 1) <= h /\ h < 2 ^ MantBits

\* There is such a mantissa: the first that is long enough is not too long.
LEMMA MantissaExists ==
  ASSUME PowerLaws, MantBits \in Nat \ {0}, NEW n \in Nat \ {0}, n < 2 ^ (MantBits - 1)
  PROVE  \E y, h : Mantissa(n, y, h) /\ y \in 1 .. MantBits + 8
<1>1. PICK c \in Nat \ {0} : c = 2 ^ (MantBits - 1) /\ 2 ^ MantBits = 2 * c /\ n < c
  <2>1. PICK k \in Nat : k = MantBits - 1 /\ MantBits = k + 1
    OBVIOUS
  <2>2. PICK c \in Nat \ {0} : c = 2 ^ k /\ 2 ^ (k + 1) = 2 * c
    BY Zenon DEF PowerLaws, Powers
  <2> QED BY <2>1, <2>2, Zenon
<1> DEFINE h(y) == Numbers!NearestEven(n * 2 ^ y, 100)
           T == {y \in Nat : c <= h(y)}
<1>2. ASSUME NEW y \in Nat
      PROVE  \E p \in Nat \ {0}, m \in Nat :
               /\ p = 2 ^ y /\ 2 ^ (y + 1) = 2 * p /\ m = h(y)
               /\ -50 <= n * p - m * 100 /\ n * p - m * 100 <= 50
  <2>1. PICK p \in Nat \ {0} : p = 2 ^ y /\ 2 ^ (y + 1) = 2 * p
    BY Zenon DEF PowerLaws, Powers
  <2>2. PICK a \in Nat : a = n * p
    OBVIOUS
  <2>3. 100 \in Nat \ {0}
    OBVIOUS
  <2>4. PICK m \in Nat : /\ m = Numbers!NearestEven(a, 100)
                         /\ -100 <= 2 * (a - m * 100) /\ 2 * (a - m * 100) <= 100
    BY <2>3, NearestEvenFacts
  <2>5. -50 <= a - m * 100 /\ a - m * 100 <= 50
    BY <2>4
  <2>6. m = h(y)
    BY <2>1, <2>2, <2>4, Zenon
  <2> QED BY <2>1, <2>2, <2>5, <2>6
<1> HIDE DEF h
<1>3. MantBits + 8 \in T
  <2>0. PICK K \in Nat : K = MantBits + 8
    OBVIOUS
  <2>1. PICK p \in Nat \ {0}, m \in Nat : p = 2 ^ K /\ m = h(K) /\ n * p - m * 100 <= 50
    BY <1>2
  <2>2. p = 512 * c
    <3>1. 2 ^ (MantBits + 8) = 2 ^ MantBits * 2 ^ 8
      BY TwoPowerSum
    <3>2. PICK d : d = 2 ^ 8 /\ d = 256
      OBVIOUS
    <3>3. p = (2 * c) * d
      BY <1>1, <2>0, <2>1, <3>1, <3>2, Zenon
    <3> QED BY <3>2, <3>3
  <2>3. n * p >= p
    OBVIOUS
  <2>4. c <= m
    BY <2>1, <2>2, <2>3
  <2>5. K \in T
    BY <2>1, <2>4
  <2> QED BY <2>0, <2>5, Zenon
<1>4. PICK y \in T : \A k \in T : y <= k
  <2>1. \A k \in T : k \in Nat
    OBVIOUS
  <2> HIDE DEF T
  <2>2. T \in SUBSET Nat /\ T # {}
    BY <1>3, <2>1
  <2> QED BY <2>2, LeastOf
<1>5. y \in Nat /\ c <= h(y) /\ y <= MantBits + 8
  BY <1>3, <1>4
<1>6. y # 0
  <2> SUFFICES ASSUME y = 0 PROVE FALSE
    OBVIOUS
  <2>1. PICK p \in Nat \ {0}, m \in Nat : /\ p = 2 ^ y /\ m = h(y)
                                          /\ -50 <= n * p - m * 100
    BY <1>2, <1>5
  <2>2. p = 1
    <3>1. 2 ^ 0 = 1
      OBVIOUS
    <3> QED BY <2>1, <3>1, Zenon
  <2> QED BY <1>1, <1>5, <2>1, <2>2
<1>7. PICK x \in Nat : y = x + 1 /\ ~(x \in T)
  <2>1. PICK x \in Nat : y = x + 1
    BY <1>5, <1>6
  <2> QED BY <1>4, <2>1
<1>8. PICK p \in Nat \ {0}, m \in Nat : /\ p = 2 ^ x /\ 2 ^ (x + 1) = 2 * p /\ m = h(x)
                                        /\ n * p - m * 100 <= 50
  BY <1>2
<1>9. m < c
  BY <1>7, <1>8
<1>10. PICK q \in Nat \ {0}, l \in Nat : /\ q = 2 ^ y /\ l = h(y) /\ -50 <= n * q - l * 100
  BY <1>2, <1>5
<1>11. q = 2 * p
  BY <1>7, <1>8, <1>10, Zenon
<1>12. n * q = 2 * (n * p)
  BY <1>11
<1>13. l < 2 * c
  BY <1>8, <1>9, <1>10, <1>12
<1>14. Mantissa(n, y, l)
  BY <1>1, <1>5, <1>10, <1>13, Zenon DEF Mantissa, h
<1> QED BY <1>5, <1>6, <1>14

\* The hundredths are read back from their mantissa.
LEMMA HundredthsAreRead ==
  ASSUME PowerLaws, MantBits \in Nat \ {0}, NEW n \in Nat \ {0}, n < 2 ^ (MantBits - 1),
         NEW y, NEW h, Mantissa(n, y, h)
  PROVE  Numbers!NearestEven(100 * h, 2 ^ y) = n
<1>1. /\ y \in Nat /\ h \in Nat /\ h = Numbers!NearestEven(n * 2 ^ y, 100)
      /\ 2 ^ (MantBits - 1) <= h
  BY Zenon DEF Mantissa
<1>2. PICK p \in Nat \ {0} : p = 2 ^ y
  BY <1>1, Zenon DEF PowerLaws, Powers
<1>3. PICK a \in Nat : a = n * p
  OBVIOUS
<1>4. -100 <= 2 * (a - h * 100) /\ 2 * (a - h * 100) <= 100
  <2>1. 100 \in Nat \ {0}
    OBVIOUS
  <2>2. PICK m \in Nat : /\ m = Numbers!NearestEven(a, 100)
                         /\ -100 <= 2 * (a - m * 100) /\ 2 * (a - m * 100) <= 100
    BY <2>1, NearestEvenFacts
  <2> QED BY <1>1, <1>2, <1>3, <2>2, Zenon
<1>5. n < h
  <2>1. PICK c \in Int : c = 2 ^ (MantBits - 1)
    <3>1. PICK k \in Nat : k = MantBits - 1
      OBVIOUS
    <3>2. PICK c \in Nat : c = 2 ^ k
      BY Zenon DEF PowerLaws, Powers
    <3>3. c \in Int
      OBVIOUS
    <3> QED BY <3>1, <3>2, <3>3, Zenon
  <2> QED BY <1>1, <2>1
<1>6. p > 100
  <2> SUFFICES ASSUME p <= 100 PROVE FALSE
    OBVIOUS
  <2>1. n * p <= n * 100
    OBVIOUS
  <2> QED BY <1>1, <1>3, <1>4, <1>5, <2>1
<1>7. PICK b \in Nat : b = 100 * h
  BY <1>1
<1>8. -p < 2 * (b - n * p) /\ 2 * (b - n * p) < p
  BY <1>1, <1>3, <1>4, <1>6, <1>7
<1>9. Numbers!NearestEven(b, p) = n
  BY <1>8, NearestEvenIs
<1> QED BY <1>2, <1>7, <1>9, Zenon

\* n/b scaled with an exponent, and the exponent that Float64 chooses.
ScaledTo(n, b, z) ==
  IF z < 0 THEN Numbers!NearestEven(n * 2 ^ (-z), b) ELSE Numbers!NearestEven(n, b * 2 ^ z)
ChosenExp(n, b) == CHOOSE z \in -(MantBits + 8) .. MantBits :
                     ScaledTo(n, b, z) \in 2 ^ (MantBits - 1) .. 2 ^ MantBits - 1

\* The mantissa that Float64 chooses for cents, and its exponent.
FloatOf(v, y, h) ==
  /\ Numbers!Float64(Numbers!Dec(v, -2)) = Numbers!Float(v < 0, h, -y)
  /\ Mantissa(Numbers!AbsInt(v), y, h) /\ y > 0

LEMMA FloatOfCents ==
  ASSUME PowerLaws, MantBits \in Nat \ {0}, NEW v \in Int, v # 0,
         Numbers!AbsInt(v) < 2 ^ (MantBits - 1)
  PROVE  \E y, h : FloatOf(v, y, h)
<1>1. PICK n \in Nat \ {0} : n = Numbers!AbsInt(v)
  BY DEF Numbers!AbsInt
<1>2. PICK c \in Nat \ {0}, b \in Nat : c = 2 ^ (MantBits - 1) /\ b = 2 ^ MantBits /\ n < c
  <2>1. PICK k \in Nat : k = MantBits - 1
    OBVIOUS
  <2>2. PICK c \in Nat \ {0}, b \in Nat : c = 2 ^ k /\ b = 2 ^ MantBits
    <3>1. MantBits \in Nat
      OBVIOUS
    <3> QED BY <3>1, Zenon DEF PowerLaws, Powers
  <2> QED BY <1>1, <2>1, <2>2, Zenon
<1>3. Numbers!Float64(Numbers!Dec(v, -2))
        = Numbers!Float(v < 0, ScaledTo(n, 100, ChosenExp(n, 100)), ChosenExp(n, 100))
  <2>1. PICK d : d = Numbers!Dec(v, -2)
    OBVIOUS
  <2>2. d.value = v /\ d.exp = -2 /\ ~(d.exp > 0) /\ d.exp < 0 /\ -d.exp = 2
    <3>1. d.value = v /\ d.exp = -2
      BY <2>1 DEF Numbers!Dec
    <3>2. PICK f \in Int : f = -2 /\ 0 - f = 2 /\ ~(f > 0) /\ f < 0
      OBVIOUS
    <3> QED BY <3>1, <3>2, Negated, Zenon
  <2> DEFINE num == Numbers!AbsInt(d.value) * (IF d.exp > 0 THEN 10 ^ d.exp ELSE 1)
             den == IF d.exp < 0 THEN 10 ^ (-d.exp) ELSE 1
  <2>4. Numbers!Float64(d) = IF num = 0 THEN Numbers!Float(FALSE, 0, 0)
                             ELSE Numbers!Float(d.value < 0, ScaledTo(num, den, ChosenExp(num, den)),
                                                ChosenExp(num, den))
    BY Zenon DEF Numbers!Float64, ScaledTo, ChosenExp
  <2>5. num = n /\ den = 100 /\ num # 0
    <3>1. n * 1 = n /\ n # 0
      OBVIOUS
    <3> QED BY <1>1, <2>2, <3>1, SmallPowers, Zenon
  <2> HIDE DEF num, den
  <2> QED BY <2>1, <2>2, <2>4, <2>5, Zenon
<1>4. \E z \in -(MantBits + 8) .. MantBits :
        ScaledTo(n, 100, z) \in 2 ^ (MantBits - 1) .. 2 ^ MantBits - 1
  <2>1. PICK y, h : Mantissa(n, y, h) /\ y \in 1 .. MantBits + 8
    BY <1>1, <1>2, MantissaExists
  <2>2. PICK z \in Int : z = -y /\ z < 0 /\ -z = y /\ z \in -(MantBits + 8) .. MantBits
    BY <2>1
  <2>3. h \in Nat /\ h = Numbers!NearestEven(n * 2 ^ y, 100) /\ c <= h /\ h < b
    BY <1>2, <2>1, Zenon DEF Mantissa
  <2>4. ScaledTo(n, 100, z) = h
    BY <2>2, <2>3, Zenon DEF ScaledTo
  <2>5. h \in c .. b - 1
    BY <2>3
  <2> QED BY <1>2, <2>2, <2>4, <2>5, Zenon
<1>5. PICK x : x = ChosenExp(n, 100) /\ x \in -(MantBits + 8) .. MantBits /\ ScaledTo(n, 100, x) \in c .. b - 1
  BY <1>2, <1>4, Zenon DEF ChosenExp
<1>6. PICK e \in Int, h \in Nat : e = x /\ h = ScaledTo(n, 100, x) /\ c <= h /\ h < b
  BY <1>5
<1>7. h = IF e < 0 THEN Numbers!NearestEven(n * 2 ^ (-e), 100) ELSE Numbers!NearestEven(n, 100 * 2 ^ e)
  BY <1>6, Zenon DEF ScaledTo
<1>8. e < 0
  <2> SUFFICES ASSUME e >= 0 PROVE FALSE
    OBVIOUS
  <2>1. PICK k \in Nat : k = e /\ ~(e < 0)
    OBVIOUS
  <2>2. PICK p \in Nat \ {0} : p = 2 ^ k
    BY Zenon DEF PowerLaws, Powers
  <2>3. PICK g \in Nat \ {0} : g = 100 * p
    OBVIOUS
  <2>4. PICK m \in Nat : m = Numbers!NearestEven(n, g) /\ -g <= 2 * (n - m * g)
    BY NearestEvenFacts
  <2>5. m = h
    BY <1>7, <2>1, <2>2, <2>3, <2>4, Zenon
  <2>6. h * g >= (n + 1) * g
    BY <1>2, <1>6
  <2>7. (n + 1) * g = n * g + g /\ n * g >= n
    OBVIOUS
  <2>8. PICK i \in Nat, j \in Nat : i = h * g /\ j = n * g
    OBVIOUS
  <2> QED BY <2>4, <2>5, <2>6, <2>7, <2>8
<1>9. PICK y \in Nat : y = -e /\ e = -y /\ y > 0
  BY <1>8
<1>10. Mantissa(n, y, h)
  BY <1>2, <1>6, <1>7, <1>8, <1>9, Zenon DEF Mantissa
<1>11. Numbers!Float64(Numbers!Dec(v, -2)) = Numbers!Float(v < 0, h, -y)
  BY <1>3, <1>5, <1>6, <1>9, Zenon
<1>12. FloatOf(v, y, h)
  BY <1>1, <1>9, <1>10, <1>11, Zenon DEF FloatOf
<1> QED BY <1>12

\* A text of cents is read as hundredths, and those are what it is times 100.
LEMMA CentsAreParsed ==
  ASSUME PowersOfTen, NEW n \in Nat, NEW neg \in BOOLEAN,
         NEW t, t = [neg |-> neg, whole |-> n \div 100, frac |-> n % 100, places |-> 2]
  PROVE  Numbers!IntPart(Numbers!Mul(Numbers!NewFromString(t, 0), Numbers!Dec(100, 0))) = Signed(neg, n)
<1>1. PICK b \in Nat, r \in Nat : b = n \div 100 /\ r = n % 100 /\ n = 100 * b + r
  OBVIOUS
<1>2. PICK f, k : Trimmed(r, 2, f, k)
  BY TrimFacts
<1>3. /\ f \in Nat /\ k \in 0 .. 2 /\ Numbers!TrimZeros(r, 2) = <<f, k>>
      /\ r = f * 10 ^ (2 - k)
  BY <1>2, Zenon DEF Trimmed
<1>4. PICK y \in {1, 10, 100}, D \in Nat :
        y = 10 ^ k /\ D = b * y + f /\ D * 100 = y * n /\ (k = 0 => y = 1)
  <2>1. k = 0 \/ k = 1 \/ k = 2
    BY <1>3
  <2>2. CASE k = 0
    <3>1. 2 - k = 2
      BY <2>2
    <3>2. r = f * 100
      BY <1>3, <3>1, SmallPowers, Zenon
    <3>3. PICK D \in Nat : D = b * 1 + f /\ D * 100 = 1 * n
      BY <1>1, <1>3, <3>2
    <3>4. 1 \in {1, 10, 100}
      OBVIOUS
    <3> QED BY <2>2, <3>3, <3>4, SmallPowers, Zenon
  <2>3. CASE k = 1
    <3>1. 2 - k = 1 /\ k # 0
      BY <2>3
    <3>2. r = f * 10
      BY <1>3, <3>1, SmallPowers, Zenon
    <3>3. PICK D \in Nat : D = b * 10 + f /\ D * 100 = 10 * n
      BY <1>1, <1>3, <3>2
    <3>4. 10 \in {1, 10, 100}
      OBVIOUS
    <3> QED BY <2>3, <3>1, <3>3, <3>4, SmallPowers, Zenon
  <2>4. CASE k = 2
    <3>1. 2 - k = 0 /\ k # 0
      BY <2>4
    <3>2. r = f * 1
      BY <1>3, <3>1, SmallPowers, Zenon
    <3>3. PICK D \in Nat : D = b * 100 + f /\ D * 100 = 100 * n
      BY <1>1, <1>3, <3>2
    <3>4. 100 \in {1, 10, 100}
      OBVIOUS
    <3> QED BY <2>4, <3>1, <3>3, <3>4, SmallPowers, Zenon
  <2> QED BY <2>1, <2>2, <2>3, <2>4
<1>5. PICK s \in Int, z \in Int : s = Signed(neg, D) /\ z = Signed(neg, n) /\ s * 100 = y * z
  <2>1. Signed(neg, D) \in Int /\ Signed(neg, n) \in Int
    BY DEF Signed
  <2>2. Signed(neg, D) * 100 = y * Signed(neg, n)
    BY <1>4 DEF Signed
  <2> QED BY <2>1, <2>2
<1>6. Numbers!NewFromString(t, 0) = Numbers!Dec(s, 0 - k)
  <2>1. t.neg = neg /\ t.whole = b /\ t.frac = r /\ t.places = 2
    BY <1>1
  <2>2. <<f, k>>[1] = f /\ <<f, k>>[2] = k
    OBVIOUS
  <2> QED BY <1>3, <1>4, <1>5, <2>1, <2>2, Zenon DEF Numbers!NewFromString, Numbers!ParsedExp, Signed
<1>7. PICK e \in Int, m \in Int : e = 0 - k /\ e + 0 = e /\ m = s * 100
  BY <1>3
<1>8. Numbers!Mul(Numbers!Dec(s, e), Numbers!Dec(100, 0)) = Numbers!Dec(m, e)
  <2>1. /\ Numbers!Dec(s, e).value = s /\ Numbers!Dec(s, e).exp = e
        /\ Numbers!Dec(100, 0).value = 100 /\ Numbers!Dec(100, 0).exp = 0
    BY DEF Numbers!Dec
  <2> QED BY <1>7, <2>1, Zenon DEF Numbers!Mul
<1>9. Numbers!IntPart(Numbers!Dec(m, e)) = z
  <2>1. PICK d : d = Numbers!Dec(m, e) /\ d.value = m /\ d.exp = e
    BY <1>7, DecFacts
  <2>2. \A u : Numbers!Dec(u, 0).value = u
    BY DEF Numbers!Dec
  <2>3. CASE k = 0
    <3>1. ~(0 > e) /\ e - 0 = 0 /\ m * 1 = z
      BY <1>4, <1>5, <1>7, <2>3
    <3>2. Numbers!Rescale(d, 0) = Numbers!Dec(m * 1, 0)
      BY <2>1, <3>1, SmallPowers, Zenon DEF Numbers!Rescale
    <3> QED BY <2>1, <2>2, <3>1, <3>2, Zenon DEF Numbers!IntPart
  <2>4. CASE k # 0
    <3>1. 0 > e /\ 0 - e = k
      BY <1>3, <1>7, <2>4
    <3>2. Numbers!Rescale(d, 0) = Numbers!Dec(Numbers!Quo(y * z, y), 0)
      BY <1>4, <1>5, <1>7, <2>1, <3>1, Zenon DEF Numbers!Rescale
    <3>3. Numbers!Quo(y * z, y) = z
      <4>1. y \in Nat \ {0}
        OBVIOUS
      <4> QED BY <4>1, ExactQuotient, Zenon
    <3> QED BY <2>1, <2>2, <3>2, <3>3, Zenon DEF Numbers!IntPart
  <2> QED BY <2>3, <2>4
<1> QED BY <1>5, <1>6, <1>7, <1>8, <1>9, Zenon

\* An amount of cents that has fewer bits than a mantissa comes back from the float of
\* yuan that stands for it: CentToYuan and YuanToCent of pkg/util/yuan_cent.go.
THEOREM CentsComeBack ==
  ASSUME ExponentBits, PowerLaws, Quotient, MantBits \in Nat \ {0},
         NEW v \in Int, Numbers!AbsInt(v) < 2 ^ (MantBits - 1)
  PROVE  Numbers!YuanToCent(Numbers!CentToYuan(v)) = v
<1>1. PICK f : f = Numbers!CentToYuan(v) /\ f = Numbers!Float64(Numbers!Dec(v, -2))
  BY CentsAreExact, Zenon DEF Numbers!CentToYuan, PowerLaws
<1>2. PICK n \in Nat : n = Numbers!AbsInt(v)
  BY DEF Numbers!AbsInt
<1>3. \E neg \in BOOLEAN :
        /\ Numbers!Printed2(f) = [neg |-> neg, whole |-> n \div 100, frac |-> n % 100, places |-> 2]
        /\ Signed(neg, n) = v
  <2>1. CASE v = 0
    <3>1. f = Numbers!Float(FALSE, 0, 0)
      <4>1. Numbers!AbsInt(Numbers!Dec(v, -2).value) = 0
        BY <2>1 DEF Numbers!Dec, Numbers!AbsInt
      <4>2. \A g \in Int : 0 * g = 0
        OBVIOUS
      <4>3. (IF Numbers!Dec(v, -2).exp > 0 THEN 10 ^ Numbers!Dec(v, -2).exp ELSE 1) \in Int
        <5>1. ~(Numbers!Dec(v, -2).exp > 0)
          BY DEF Numbers!Dec
        <5>2. 1 \in Int
          OBVIOUS
        <5> QED BY <5>1, <5>2, Zenon
      <4> QED BY <1>1, <4>1, <4>2, <4>3, Zenon DEF Numbers!Float64
    <3>2. f.neg = FALSE /\ f.mant = 0 /\ f.exp2 = 0 /\ ~(f.exp2 < 0)
      BY <3>1 DEF Numbers!Float
    <3>3. 100 * 0 * 2 ^ 0 = 0 /\ n = 0
      <4>1. 2 ^ 0 = 1 /\ 100 * 0 * 1 = 0
        OBVIOUS
      <4>2. n = 0
        BY <1>2, <2>1 DEF Numbers!AbsInt
      <4> QED BY <4>1, <4>2, Zenon
    <3>4. Numbers!Printed2(f) = [neg |-> FALSE, whole |-> n \div 100, frac |-> n % 100, places |-> 2]
      BY <3>2, <3>3, Zenon DEF Numbers!Printed2
    <3>5. Signed(FALSE, n) = v
      BY <2>1, <3>3 DEF Signed
    <3> QED BY <3>4, <3>5
  <2>2. CASE v # 0
    <3>1. PICK y, h : FloatOf(v, y, h)
      BY <2>2, FloatOfCents
    <3>2. f = Numbers!Float(v < 0, h, -y) /\ Mantissa(n, y, h) /\ y > 0
      BY <1>1, <1>2, <3>1, Zenon DEF FloatOf
    <3>3. y \in Nat
      BY <3>2, Zenon DEF Mantissa
    <3>4. PICK x \in Int : x = -y /\ x < 0 /\ -x = y
      BY <3>2, <3>3
    <3>5. f.neg = (v < 0) /\ f.mant = h /\ f.exp2 = x
      BY <3>2, <3>4 DEF Numbers!Float
    <3>6. Numbers!NearestEven(100 * h, 2 ^ y) = n
      <4>1. n \in Nat \ {0}
        BY <1>2, <2>2 DEF Numbers!AbsInt
      <4>2. n < 2 ^ (MantBits - 1)
        BY <1>2, Zenon
      <4> QED BY <3>2, <4>1, <4>2, HundredthsAreRead
    <3>7. Numbers!Printed2(f) = [neg |-> v < 0, whole |-> n \div 100, frac |-> n % 100, places |-> 2]
      BY <3>4, <3>5, <3>6, Zenon DEF Numbers!Printed2
    <3>8. Signed(v < 0, n) = v /\ (v < 0) \in BOOLEAN
      BY <1>2 DEF Signed, Numbers!AbsInt
    <3> QED BY <3>7, <3>8
  <2> QED BY <2>1, <2>2
<1>4. PICK neg \in BOOLEAN :
        /\ Numbers!Printed2(f) = [neg |-> neg, whole |-> n \div 100, frac |-> n % 100, places |-> 2]
        /\ Signed(neg, n) = v
  BY <1>3, Zenon
<1>5. PICK t : /\ t = Numbers!Printed2(f)
               /\ t = [neg |-> neg, whole |-> n \div 100, frac |-> n % 100, places |-> 2]
  BY <1>4, Zenon
<1>6. Numbers!IntPart(Numbers!Mul(Numbers!NewFromString(t, 0), Numbers!Dec(100, 0))) = Signed(neg, n)
  BY <1>5, CentsAreParsed DEF PowerLaws
<1> QED BY <1>1, <1>4, <1>5, <1>6, Zenon DEF Numbers!YuanToCent

-----------------------------------------------------------------------------
(* Decimals: the totals. *)

\* Every operation leaves a total within bounds.
LEMMA DecimalKept == Spec => [](part = "decimal" => Numbers!TypeOK)
<1>1. DecimalParameters
  BY PackagesAssumption
<1>2. Numbers!InBounds(Numbers!Dec(0, 0))
  BY <1>1 DEF DecimalParameters, Numbers!InBounds, Numbers!Dec
<1>3. \A d : Numbers!InBounds(d) => d \in Numbers!Decimals
  <2>1. -MaxValue .. MaxValue \subseteq Int /\ Exps \subseteq Int
    BY <1>1 DEF DecimalParameters
  <2>2. [value : -MaxValue .. MaxValue, exp : Exps] \subseteq [value : Int, exp : Int]
    BY <2>1
  <2> QED BY <2>2, Zenon DEF Numbers!InBounds, Numbers!Decimals
<1>4. Init => (part = "decimal" => Numbers!TypeOK)
  BY <1>2, <1>3, OtherParts, Zenon DEF Init, Numbers!Init, Numbers!TypeOK
<1>5. Numbers!Next => Numbers!InBounds(total')
  BY Zenon DEF Numbers!Next, Numbers!Become, Numbers!AddSome, Numbers!MulSome, Numbers!DivSome,
     Numbers!RaiseSome, Numbers!ShiftSome, Numbers!TurnSign, Numbers!AverageSome, Numbers!RoundSome,
     Numbers!RoundCashSome, Numbers!RoundWhole, Numbers!Store, Numbers!Read
<1>6. (part = "decimal" => Numbers!TypeOK) /\ [Next]_vars => (part = "decimal" => Numbers!TypeOK)'
  <2> SUFFICES ASSUME part = "decimal" => Numbers!TypeOK, [Next]_vars, part' = "decimal"
               PROVE  Numbers!TypeOK'
    OBVIOUS
  <2>1. part = "decimal" /\ (Numbers!Next \/ total' = total)
    BY OtherParts, Zenon DEF Next, vars
  <2>2. CASE total' = total
    BY <2>1, <2>2, Zenon DEF Numbers!TypeOK, Numbers!InBounds
  <2>3. CASE Numbers!Next
    BY <1>3, <1>5, <2>3, Zenon DEF Numbers!TypeOK, Numbers!InBounds
  <2> QED BY <2>1, <2>2, <2>3
<1> QED BY <1>4, <1>6, PTL DEF Spec

\* Whatever total operations reach, it is rounded to the nearest of the places asked
\* for, and divided by any operand to the nearest: Round, RoundBank, Floor, Ceil,
\* Truncate, QuoRem and DivRound of pkg/util/decimal.go.
THEOREM RoundsAndDivides ==
  ASSUME PowersOfTen PROVE Spec => []RoundedIsNearest
<1>1. DecimalParameters /\ ExponentBits
  BY PackagesAssumption DEF DecimalParameters, ExponentBits
<1>2. (part = "decimal" => Numbers!TypeOK) => RoundedIsNearest
  <2> SUFFICES ASSUME Numbers!TypeOK PROVE Numbers!RoundedIsNearest
    BY Zenon DEF RoundedIsNearest
  <2>1. total \in Numbers!Decimals /\ total.exp \in Exps
    <3>1. total \in Numbers!Decimals /\ total \in [value : -MaxValue .. MaxValue, exp : Exps]
      BY Zenon DEF Numbers!TypeOK, Numbers!InBounds
    <3> QED BY <3>1
  <2>2. \A p \in Places : Numbers!RoundingIsNearest(total, p)
    BY <1>1, <2>1, RoundsToNearest DEF DecimalParameters
  <2>3. Numbers!WholeIsNext(total)
    BY <2>1, WholesAreNext, Zenon
  <2>4. \A x \in Operands, p \in Places : x.value # 0 => Numbers!DivisionIsNearest(total, x, p)
    BY <1>1, <2>1, DividesToNearest DEF DecimalParameters
  <2> QED BY <2>2, <2>3, <2>4, Zenon DEF Numbers!RoundedIsNearest
<1> QED BY <1>2, DecimalKept, PTL

\* Whatever total operations reach, it is rounded to the nearest unit of cash, and its
\* third power is its product with itself: RoundCash and Pow of pkg/util/decimal.go.
THEOREM CashAndCubes ==
  ASSUME PowersOfTen PROVE Spec => []CashAndPowers
<1>1. DecimalParameters /\ ExponentBits /\ Quotient
  BY PackagesAssumption DEF DecimalParameters, ExponentBits, Quotient
<1>2. (part = "decimal" => Numbers!TypeOK) => CashAndPowers
  <2> SUFFICES ASSUME Numbers!TypeOK PROVE Numbers!CashAndPowers
    BY Zenon DEF CashAndPowers
  <2>1. total \in Numbers!Decimals
    BY Zenon DEF Numbers!TypeOK
  <2>2. Numbers!CashIsNearest(total)
    BY <1>1, <2>1, CashRounds, Zenon
  <2>3. PICK d : d = Numbers!Mul(Numbers!Mul(total, total), total)
    OBVIOUS
  <2>4. d \in Numbers!Decimals
    BY <2>1, <2>3 DEF Numbers!Mul, Numbers!Dec, Numbers!Decimals
  <2>5. Numbers!Pow(total, Numbers!Dec(3, 0)) = d
    BY <1>1, <2>1, <2>3, CubesMultiply, Zenon
  <2>6. Numbers!Equal(d, d)
    BY <2>4, EqualsItself, Zenon
  <2> QED BY <2>2, <2>3, <2>5, <2>6, Zenon DEF Numbers!CashAndPowers
<1> QED BY <1>2, DecimalKept, PTL

\* Whatever total the operations reach, it comes back as the same number from its text,
\* JSON, binary form or column, a float is read as the nearest decimal with its exponent,
\* and its cents come back from yuan: the conversions of pkg/util/decimal.go.
THEOREM WrittenAndRead ==
  ASSUME PowerLaws PROVE Spec => []WrittenIsRead
<1>1. DecimalParameters /\ ExponentBits /\ Quotient /\ PowersOfTen
  BY PackagesAssumption DEF DecimalParameters, ExponentBits, Quotient, PowerLaws
<1>2. (part = "decimal" => Numbers!TypeOK) => WrittenIsRead
  <2> SUFFICES ASSUME Numbers!TypeOK PROVE Numbers!WrittenIsRead
    BY Zenon DEF WrittenIsRead
  <2>1. /\ total \in Numbers!Decimals /\ total.exp \in Exps
        /\ total.value \in -MaxValue .. MaxValue
    <3>1. total \in Numbers!Decimals /\ total \in [value : -MaxValue .. MaxValue, exp : Exps]
      BY Zenon DEF Numbers!TypeOK, Numbers!InBounds
    <3> QED BY <3>1
  <2>2. Numbers!TextIsCanonical(total)
    <3>1. /\ Operands \subseteq Numbers!Decimals /\ Places \subseteq Int
          /\ \A p \in Places : Numbers!FitsInt32(-p) /\ Numbers!FitsInt32(-p - 1)
      BY <1>1 DEF DecimalParameters
    <3> QED BY <1>1, <2>1, <3>1, TextsAreCanonical, Zenon
  <2>3. Numbers!Survives(total)
    <3>1. Numbers!FitsInt32(total.exp)
      BY <1>1, <2>1, Zenon DEF DecimalParameters
    <3> QED BY <1>1, <2>1, <3>1, SurvivesWriting, Zenon
  <2>4. \A f \in Floats : Numbers!FloatIsNearest(f, total.exp)
    <3>1. total.exp \in Int /\ Floats \subseteq [neg : BOOLEAN, mant : Nat, exp2 : Int]
      BY <1>1, <2>1 DEF DecimalParameters
    <3> QED BY <3>1, FloatsAreNearest
  <2>5. Numbers!YuanToCent(Numbers!CentToYuan(total.value)) = total.value
    <3>1. MantBits \in Nat \ {0} /\ MaxValue \in Nat /\ MaxValue < 2 ^ (MantBits - 1)
      BY <1>1, Zenon DEF DecimalParameters
    <3>2. PICK v \in Int, c \in Nat : /\ v = total.value /\ c = 2 ^ (MantBits - 1)
                                      /\ Numbers!AbsInt(v) < c
      <4>1. PICK k \in Nat : k = MantBits - 1
        BY <3>1
      <4>2. PICK c \in Nat : c = 2 ^ k
        BY Zenon DEF PowerLaws, Powers
      <4>3. MaxValue < c
        BY <3>1, <4>1, <4>2, Zenon
      <4>4. PICK v \in Int : v = total.value /\ v \in -MaxValue .. MaxValue
        BY <2>1, <3>1
      <4>5. Numbers!AbsInt(v) < c
        BY <3>1, <4>3, <4>4 DEF Numbers!AbsInt
      <4> QED BY <4>1, <4>2, <4>4, <4>5, Zenon
    <3>3. Numbers!AbsInt(v) < 2 ^ (MantBits - 1)
      BY <3>2, Zenon
    <3> QED BY <1>1, <3>1, <3>2, <3>3, CentsComeBack
  <2> QED BY <2>2, <2>3, <2>4, <2>5, Zenon DEF Numbers!WrittenIsRead
<1> QED BY <1>2, DecimalKept, PTL

\* The type invariant of the part that runs, identifiers at the widths of the source.
THEOREM TypeCorrect ==
  ASSUME SourceWidths PROVE Spec => []TypeOK
<1>1. Init => part \in {"decimal", "uuid", "wait", "http"}
  BY DEF Init
<1>2. part \in {"decimal", "uuid", "wait", "http"} /\ [Next]_vars
        => (part \in {"decimal", "uuid", "wait", "http"})'
  BY DEF Next, vars
<1>3. /\ part \in {"decimal", "uuid", "wait", "http"}
      /\ part = "decimal" => Numbers!TypeOK
      /\ part = "uuid" => Uuids!TypeOK
      /\ part = "wait" => Waits!TypeOK
      /\ part = "http" => Http!TypeOK
      => TypeOK
  BY OtherParts DEF TypeOK
<1>4. Spec => [](part = "uuid" => Uuids!TypeOK)
  BY UuidTypeCorrect
<1> QED BY <1>1, <1>2, <1>3, <1>4, DecimalKept, WaitTypeCorrect, HttpTypeCorrect,
           PTL DEF Spec
=============================================================================
