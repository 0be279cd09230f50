--------------------------- MODULE MessageViewProofs ---------------------------
(***************************************************************************)
(* What is hidden stays hidden and is hidden for a cause, for any users,   *)
(* readers, messages, visibles, erased rows, expiry times and goroutines.  *)
(***************************************************************************)
EXTENDS MessageView, TLAPS

-----------------------------------------------------------------------------
(* The inductive invariant. *)

\* The states of a goroutine that builds a reply.
ViewStates ==
  [at : {"idle", "offset", "extra", "userExtra", "from"}, kind : Kinds, user : Readers,
   page : SUBSET Messages, off : 0 .. LastSeq, del : SUBSET Messages, rev : SUBSET Messages,
   gone : SUBSET Messages, broken : BOOLEAN, mustHide : SUBSET Messages, mustRevoke : SUBSET Messages]

\* The causes that are the message's own, and all the causes: neither ever ends.
Withheld(u, m) == \/ Visibles[m] # {} /\ u \notin Visibles[m]
                  \/ Visibles[m] = {} /\ m \in Erased
                  \/ ExpireAt[m] > 0 /\ ExpireAt[m] <= now
Gone(u, m) == <<u, m>> \in deleted \/ m <= offset[u] \/ Withheld(u, m)

\* The goroutine has read the rows of that table, or the error of reading them.
PastExtra(v) == v.at = "from" \/ (v.kind = "channel" /\ v.at = "userExtra")
PastUserExtra(v) == v.at = "from" \/ (v.kind = "conversation" /\ v.at = "extra")

\* What a reply must hide is gone when it is asked for.  Once the offset is read, it
\* is below the offset read, withheld, or has a row that is still to be read; once
\* those are read, it is among them.
Hides(v) ==
  /\ v.mustHide \subseteq v.page
  /\ \A m \in v.mustHide : Gone(v.user, m)
  /\ v.at \notin {"idle", "offset"} =>
       \A m \in v.mustHide : <<v.user, m>> \in deleted \/ m <= v.off \/ Withheld(v.user, m)
  /\ PastUserExtra(v) /\ ~v.broken =>
       \A m \in v.mustHide : m \in v.del \/ m <= v.off \/ Withheld(v.user, m)
  /\ v.mustRevoke \subseteq v.page \cap revoked
  /\ PastExtra(v) /\ ~v.broken => /\ v.mustRevoke \subseteq v.rev
                                  /\ Erased \cap v.page \subseteq v.gone

\* What a reply was built from is the user's own.
Owns(v) ==
  /\ v.del \subseteq v.page /\ v.rev \subseteq v.page /\ v.gone \subseteq v.page \cap Erased
  /\ \A m \in v.del : <<v.user, m>> \in deleted
  /\ v.off <= offset[v.user]

Tables ==
  /\ now \in 0 .. MaxTime
  /\ revoked \in SUBSET Messages
  /\ deleted \in SUBSET (Users \X Messages)
  /\ offset \in [Users -> 0 .. LastSeq]
Told == /\ hidden \in [Readers -> SUBSET Messages]
        /\ \A u \in Readers : \A m \in hidden[u] : Gone(u, m)
Viewing == /\ view \in [Viewers -> ViewStates]
           /\ \A g \in Viewers : Hides(view[g]) /\ Owns(view[g])

IInv == Tables /\ Told /\ Viewing

\* The inductive invariant gives the types.
LEMMA IInvTyped == IInv => TypeOK
<1> SUFFICES ASSUME IInv PROVE TypeOK
  OBVIOUS
<1>1. ASSUME NEW g \in Viewers
      PROVE  /\ view[g] \in ViewStates
             /\ view[g].del \subseteq view[g].page /\ view[g].rev \subseteq view[g].page
             /\ view[g].gone \subseteq view[g].page
  BY DEF IInv, Viewing, Owns
<1>2. \A v \in ViewStates : /\ v.at \in {"idle", "offset", "extra", "userExtra", "from"}
                            /\ v.user \in Readers /\ v.kind \in Kinds /\ v.off \in 0 .. LastSeq
                            /\ v.page \in SUBSET Messages
  BY DEF ViewStates
<1> QED BY <1>1, <1>2 DEF IInv, Tables, Told, TypeOK

\* What a goroutine does at the end keeps the two properties.
LEMMA IInvHides == IInv => HiddenStaysHidden
<1> SUFFICES ASSUME IInv, NEW g \in Viewers, view[g].at = "from", ~view[g].broken
             PROVE  /\ Shown(view[g]) \cap view[g].mustHide = {}
                    /\ view[g].mustRevoke \subseteq view[g].rev
                    /\ \A m \in Shown(view[g]) \cap Erased : view[g].user \in Visibles[m]
  BY DEF HiddenStaysHidden
<1>0. view[g] \in ViewStates /\ Hides(view[g])
  BY DEF IInv, Viewing
<1>1. view[g].mustRevoke \subseteq view[g].rev /\ Erased \cap view[g].page \subseteq view[g].gone
  BY <1>0 DEF Hides, PastExtra
<1>2. ASSUME NEW m \in view[g].mustHide PROVE IsDeleted(m, view[g])
  <2>1. m \in view[g].del \/ m <= view[g].off \/ Withheld(view[g].user, m)
    BY <1>0 DEF Hides, PastUserExtra
  <2>2. m \in Nat \ {0} /\ view[g].off \in Nat /\ now \in Nat /\ ExpireAt[m] \in Nat
    BY <1>0, ViewAssumption DEF ViewStates, Messages, IInv, Tables
  <2>3. m \in Erased => m \in view[g].gone
    BY <1>0, <1>1, <1>2 DEF Hides
  <2> QED BY <2>1, <2>2, <2>3 DEF IsDeleted, Withheld
<1>3. ASSUME NEW m \in Shown(view[g]) \cap Erased PROVE view[g].user \in Visibles[m]
  BY <1>1, <1>3 DEF Shown, IsDeleted
<1> QED BY <1>1, <1>2, <1>3 DEF Shown

\* What a reply shows as deleted is gone for its user.
LEMMA DeletedIsGone ==
  ASSUME IInv, NEW g \in Viewers, NEW m \in view[g].page \ Shown(view[g])
  PROVE  m \in Messages /\ Gone(view[g].user, m)
<1>0. view[g] \in ViewStates /\ Owns(view[g]) /\ view[g].user \in Users
  BY ViewAssumption DEF IInv, Viewing, ViewStates
<1>1. m \in Messages /\ IsDeleted(m, view[g])
  BY <1>0 DEF Shown, ViewStates
<1>2. /\ m \in Nat /\ view[g].off \in Nat /\ now \in Nat /\ ExpireAt[m] \in Nat
      /\ offset[view[g].user] \in Nat /\ view[g].off <= offset[view[g].user]
  BY <1>0, <1>1, ViewAssumption DEF ViewStates, Messages, IInv, Tables, Owns
<1>3. (m \in view[g].del => <<view[g].user, m>> \in deleted) /\ (m \in view[g].gone => m \in Erased)
  BY <1>0 DEF Owns
<1> QED BY <1>1, <1>2, <1>3 DEF IsDeleted, Gone, Withheld

\* What a reply hides is gone, or withheld from its user.
LEMMA IInvCause == IInv => HiddenForACause
BY DeletedIsGone DEF HiddenForACause, Gone, Withheld

-----------------------------------------------------------------------------
(* The writers: the tables only grow, and time passes. *)

TablesGrow == /\ now <= now' /\ revoked \subseteq revoked' /\ deleted \subseteq deleted'
              /\ \A u \in Users : offset[u] <= offset'[u]

\* What is gone, or withheld, stays so while the tables grow.
LEMMA GoneStays ==
  ASSUME Tables, Tables', TablesGrow, NEW u \in Users, NEW m \in Messages
  PROVE  /\ Withheld(u, m) => Withheld(u, m)'
         /\ Gone(u, m) => Gone(u, m)'
<1>1. /\ m \in Nat /\ now \in Nat /\ now' \in Nat /\ ExpireAt[m] \in Nat
      /\ offset[u] \in Nat /\ offset'[u] \in Nat /\ offset[u] <= offset'[u]
      /\ now <= now' /\ deleted \subseteq deleted'
  BY ViewAssumption DEF Tables, TablesGrow, Messages
<1> QED BY <1>1 DEF Gone, Withheld

\* What a goroutine holds stays right while the tables grow.
LEMMA ViewGrows ==
  ASSUME Tables, Tables', TablesGrow, NEW v \in ViewStates, Hides(v), Owns(v)
  PROVE  Hides(v)' /\ Owns(v)'
<1>1. v.user \in Users /\ v.off \in Nat /\ v.mustHide \subseteq Messages
  BY ViewAssumption DEF ViewStates
<1>2. \A m \in Messages : /\ Withheld(v.user, m) => Withheld(v.user, m)'
                          /\ Gone(v.user, m) => Gone(v.user, m)'
  BY <1>1, GoneStays
<1>3. deleted \subseteq deleted' /\ revoked \subseteq revoked'
  BY DEF TablesGrow
<1>4. v.off <= offset'[v.user]
  BY <1>1 DEF Owns, Tables, TablesGrow
<1>5. Owns(v)'
  BY <1>3, <1>4 DEF Owns
<1>6. Hides(v)'
  BY <1>1, <1>2, <1>3 DEF Hides, PastExtra, PastUserExtra
<1> QED BY <1>5, <1>6

\* What a goroutine has read stays true while the tables grow.
LEMMA ViewingGrows ==
  ASSUME IInv, Tables', TablesGrow, UNCHANGED view
  PROVE  Viewing'
<1>1. ASSUME NEW g \in Viewers
      PROVE  Hides(view[g])' /\ Owns(view[g])'
  <2>1. PICK v \in ViewStates : v = view[g] /\ Hides(v) /\ Owns(v)
    BY DEF IInv, Viewing
  <2>2. v = view'[g] /\ Hides(v)' /\ Owns(v)'
    BY <2>1, ViewGrows DEF IInv
  <2> QED BY <2>2 DEF Hides, Owns, Gone, Withheld, PastExtra, PastUserExtra
<1> QED BY <1>1 DEF IInv, Viewing

\* What a user was told stays true, and what it is told now is.
LEMMA ToldGrows ==
  ASSUME IInv, Tables', TablesGrow,
         \/ UNCHANGED hidden
         \/ \E u \in Readers, gone \in SUBSET Messages :
              Tell(u, gone) /\ \A m \in gone : Gone(u, m)'
  PROVE  Told'
<1>1. \A u \in Readers, m \in Messages : Gone(u, m) => Gone(u, m)'
  BY GoneStays, ViewAssumption DEF IInv
<1>2. hidden \in [Readers -> SUBSET Messages] /\ \A u \in Readers : \A m \in hidden[u] : Gone(u, m)
  BY DEF IInv, Told
<1>3. CASE UNCHANGED hidden
  BY <1>1, <1>2, <1>3 DEF Told
<1>4. ASSUME NEW u \in Readers, NEW gone \in SUBSET Messages, Tell(u, gone),
             \A m \in gone : Gone(u, m)'
      PROVE  Told'
  <2>1. hidden' \in [Readers -> SUBSET Messages]
        /\ \A r \in Readers : hidden'[r] \subseteq IF r = u THEN hidden[u] \cup gone ELSE hidden[r]
    BY <1>2, <1>4 DEF Tell
  <2>2. ASSUME NEW r \in Readers, NEW m \in hidden'[r] PROVE Gone(r, m)'
    BY <1>1, <1>2, <1>4, <2>1, <2>2
  <2> QED BY <2>1, <2>2 DEF Told
<1> QED BY <1>3, <1>4

\* The writers and the clock keep the inductive invariant.
LEMMA WriteStep ==
  ASSUME IInv,
         \/ Tick
         \/ \E m \in Messages : Revoke(m)
         \/ \E u \in Users, m \in Messages : Delete(u, m) \/ RaiseOffset(u, m) \/ GrantOffset(u, m)
  PROVE  IInv'
<1>0. /\ now \in 0 .. MaxTime /\ offset \in [Users -> 0 .. LastSeq]
      /\ \A u \in Users : offset[u] \in Nat
      /\ LastSeq \in Nat /\ MaxTime \in Nat /\ \A m \in Messages : m \in 0 .. LastSeq
  BY ViewAssumption DEF IInv, Tables, Messages
<1>1. CASE Tick
  <2>1. Tables' /\ TablesGrow /\ UNCHANGED <<view, hidden>>
    BY <1>0, <1>1 DEF Tick, IInv, Tables, TablesGrow
  <2> QED BY <2>1, ViewingGrows, ToldGrows DEF IInv
<1>2. ASSUME NEW m \in Messages, Revoke(m) PROVE IInv'
  <2>1. Tables' /\ TablesGrow /\ UNCHANGED <<view, hidden>>
    BY <1>0, <1>2 DEF Revoke, IInv, Tables, TablesGrow
  <2> QED BY <2>1, ViewingGrows, ToldGrows DEF IInv
<1>3. ASSUME NEW u \in Users, NEW m \in Messages, Delete(u, m) PROVE IInv'
  <2>1. Tables' /\ TablesGrow /\ UNCHANGED view
    BY <1>0, <1>3 DEF Delete, IInv, Tables, TablesGrow
  <2>2. Gone(u, m)' /\ {m} \in SUBSET Messages
    BY <1>3 DEF Delete, Gone
  <2>3. (u \in Readers /\ Tell(u, {m})) \/ UNCHANGED hidden
    BY <1>3 DEF Delete
  <2>4. Told'
    BY <2>1, <2>2, <2>3, ToldGrows
  <2> QED BY <2>1, <2>4, ViewingGrows DEF IInv
<1>4. ASSUME NEW u \in Users, NEW n \in Messages, RaiseOffset(u, n) PROVE IInv'
  <2>1. /\ n > offset[u] /\ offset' = [offset EXCEPT ![u] = n]
        /\ UNCHANGED <<now, revoked, deleted, hidden, view>>
    BY <1>4 DEF RaiseOffset
  <2>2. \A w \in Users : offset[w] <= offset'[w]
    BY <1>0, <2>1
  <2>3. Tables' /\ TablesGrow
    BY <1>0, <2>1, <2>2 DEF IInv, Tables, TablesGrow
  <2> QED BY <2>1, <2>3, ViewingGrows, ToldGrows DEF IInv
<1>5. ASSUME NEW u \in Users, NEW n \in Messages, GrantOffset(u, n) PROVE IInv'
  <2>1. /\ u \in Readers /\ n <= offset[u] /\ Tell(u, 1 .. n)
        /\ UNCHANGED <<now, revoked, deleted, offset, view>>
    BY <1>5 DEF GrantOffset, tables
  <2>2. Tables' /\ TablesGrow
    BY <1>0, <2>1 DEF IInv, Tables, TablesGrow
  <2>3. 1 .. n \in SUBSET Messages /\ \A m \in 1 .. n : m <= offset[u]
    BY <1>0, <2>1 DEF Messages
  <2>4. \A m \in 1 .. n : Gone(u, m)'
    BY <2>1, <2>3 DEF Gone
  <2>5. Told'
    BY <2>1, <2>2, <2>3, <2>4, ToldGrows
  <2> QED BY <2>1, <2>2, <2>5, ViewingGrows DEF IInv
<1> QED BY <1>1, <1>2, <1>3, <1>4, <1>5

-----------------------------------------------------------------------------
(* The readers. *)

\* One goroutine moves, and the tables rest.
LEMMA ViewerTo ==
  ASSUME IInv, NEW g \in Viewers, NEW v \in ViewStates, Hides(v), Owns(v),
         view' = [view EXCEPT ![g] = v], UNCHANGED tables
  PROVE  Viewing' /\ Tables' /\ TablesGrow
<1>1. view' \in [Viewers -> ViewStates]
      /\ \A h \in Viewers : view'[h] = IF h = g THEN v ELSE view[h]
  BY DEF IInv, Viewing
<1>2. ASSUME NEW h \in Viewers PROVE Hides(view'[h]) /\ Owns(view'[h])
  BY <1>1 DEF IInv, Viewing
<1>3. \A h \in Viewers : Hides(view[h])' /\ Owns(view[h])'
  BY <1>2 DEF tables, Hides, Owns, Gone, Withheld, PastExtra, PastUserExtra
<1>4. Tables' /\ TablesGrow
  <2>1. now \in Nat /\ \A u \in Users : offset[u] \in Nat
    BY ViewAssumption DEF IInv, Tables
  <2> QED BY <2>1 DEF IInv, Tables, TablesGrow, tables
<1> QED BY <1>1, <1>3, <1>4 DEF Viewing

\* A goroutine without a request promises nothing.
LEMMA NoViewFits == NoView \in ViewStates /\ (Tables => Hides(NoView) /\ Owns(NoView))
<1>1. (CHOOSE u \in Readers : TRUE) \in Readers
  BY ViewAssumption
<1>2. NoView \in ViewStates /\ NoView.off = 0 /\ NoView.at = "idle" /\ NoView.mustHide = {}
      /\ NoView.mustRevoke = {} /\ NoView.del = {} /\ NoView.rev = {} /\ NoView.gone = {}
  BY <1>1, ViewAssumption DEF NoView, ViewStates, Kinds
<1>3. NoView.user \in Users
  BY <1>2, ViewAssumption DEF ViewStates
<1>4. ASSUME Tables PROVE Hides(NoView) /\ Owns(NoView)
  <2>1. 0 <= offset[NoView.user]
    BY <1>3, <1>4, ViewAssumption DEF Tables
  <2> HIDE DEF NoView
  <2> QED BY <1>2, <2>1 DEF Hides, Owns, PastExtra, PastUserExtra
<1> QED BY <1>2, <1>4

\* A request has to hide what its user was told before it.
LEMMA AskStep ==
  ASSUME IInv, NEW g \in Viewers, NEW u \in Readers, NEW kind \in Kinds, NEW size \in Messages,
         Ask(g, u, kind, size)
  PROVE  IInv'
<1> DEFINE page == (LastSeq - size + 1) .. LastSeq
           v == [NoView EXCEPT !.at = "offset", !.user = u, !.kind = kind, !.page = page,
                               !.mustHide = hidden[u] \cap page, !.mustRevoke = revoked \cap page]
<1>1. page \in SUBSET Messages
  BY ViewAssumption DEF Messages
<1>2. view' = [view EXCEPT ![g] = v] /\ UNCHANGED <<tables, hidden>>
  BY DEF Ask
<1>3. /\ hidden[u] \cap page \in SUBSET Messages /\ revoked \cap page \in SUBSET Messages
      /\ \A m \in hidden[u] \cap page : Gone(u, m)
  BY <1>1 DEF IInv, Told
<1>4. 0 <= offset[u] /\ 0 \in 0 .. LastSeq
  BY ViewAssumption DEF IInv, Tables
<1> HIDE DEF page
<1>5. /\ v \in ViewStates /\ v.at = "offset" /\ v.user = u /\ v.page = page /\ v.off = 0
      /\ v.del = {} /\ v.rev = {} /\ v.gone = {}
      /\ v.mustHide = hidden[u] \cap page /\ v.mustRevoke = revoked \cap page
  BY <1>1, <1>3, <1>4, NoViewFits DEF ViewStates, NoView
<1> HIDE DEF v
<1>6. Hides(v) /\ Owns(v)
  BY <1>3, <1>4, <1>5 DEF Hides, Owns, PastExtra, PastUserExtra
<1> QED BY <1>2, <1>5, <1>6, ViewerTo, ToldGrows DEF IInv

\* A goroutine that has read one thing.
LEMMA ReadTo ==
  ASSUME IInv, NEW g \in Viewers, NEW at, NEW v \in ViewStates, Read(g, at, v), Hides(v), Owns(v)
  PROVE  IInv'
BY ViewerTo, ToldGrows DEF Read, IInv

\* What the invariant says of a goroutine, with the sets its fields are from.
LEMMA ViewFacts ==
  ASSUME IInv, NEW g \in Viewers
  PROVE  /\ view[g] \in ViewStates /\ Hides(view[g]) /\ Owns(view[g])
         /\ view[g].user \in Users /\ view[g].kind \in Kinds
         /\ offset[view[g].user] \in 0 .. LastSeq
BY ViewAssumption DEF IInv, Viewing, Tables, ViewStates

\* The offset read is at least what was granted before the request.
LEMMA ReadOffsetStep == ASSUME IInv, NEW g \in Viewers, ReadOffset(g) PROVE IInv'
<1> DEFINE next == First(view[g].kind)
           off == offset[view[g].user]
           v == [view[g] EXCEPT !.at = next, !.off = off]
<1>1. Read(g, "offset", v) \/ Read(g, "offset", NoView)
  BY DEF ReadOffset
<1>2. CASE Read(g, "offset", NoView)
  BY <1>2, NoViewFits, ReadTo DEF IInv
<1>3. CASE Read(g, "offset", v)
  <2>1. /\ next \in {"extra", "userExtra"} /\ view[g].at = "offset" /\ off \in 0 .. LastSeq
        /\ (view[g].kind = "channel" => next = "extra")
        /\ (view[g].kind = "conversation" => next = "userExtra")
    BY <1>3, ViewFacts DEF First, Kinds, Read
  <2> HIDE DEF next
  <2>2. /\ v \in ViewStates /\ v.at = next /\ v.off = off /\ v.user = view[g].user
        /\ v.kind = view[g].kind /\ v.page = view[g].page /\ v.del = view[g].del
        /\ v.rev = view[g].rev /\ v.gone = view[g].gone /\ v.mustHide = view[g].mustHide
        /\ v.mustRevoke = view[g].mustRevoke /\ v.broken = view[g].broken
    BY <2>1, ViewFacts DEF ViewStates
  <2> HIDE DEF v
  <2>3. off <= offset[v.user]
    BY <2>1, <2>2, ViewAssumption
  <2>4. Owns(v)
    BY <2>2, <2>3, ViewFacts DEF Owns
  <2>5. Hides(v)
    BY <2>1, <2>2, ViewFacts DEF Hides, PastExtra, PastUserExtra, Gone
  <2> QED BY <1>3, <2>2, <2>4, <2>5, ReadTo
<1> QED BY <1>1, <1>2, <1>3

\* Where a read of one of the two tables leads.
LEMMA AfterFacts ==
  ASSUME NEW v \in ViewStates, v.at \in {"extra", "userExtra"}
  PROVE  /\ After(v) \in {"extra", "userExtra", "from"}
         /\ v.at = "extra" => /\ After(v) \in {"userExtra", "from"}
                              /\ (After(v) = "from" <=> v.kind = "conversation")
         /\ v.at = "userExtra" => /\ After(v) \in {"extra", "from"}
                                  /\ (After(v) = "from" <=> v.kind = "channel")
<1>1. v.kind \in Kinds
  BY DEF ViewStates
<1>2. CASE v.kind = "channel"
  BY <1>2 DEF After, First, Second
<1>3. CASE v.kind = "conversation"
  BY <1>3 DEF After, First, Second
<1> QED BY <1>1, <1>2, <1>3 DEF Kinds

\* An error of a read is logged: nothing is promised of that reply.
LEMMA BrokenFits ==
  ASSUME IInv, NEW g \in Viewers, view[g].at \in {"extra", "userExtra"}
  PROVE  LET v == [view[g] EXCEPT !.at = After(view[g]), !.broken = TRUE]
         IN  v \in ViewStates /\ Hides(v) /\ Owns(v)
<1> DEFINE next == After(view[g])
           v == [view[g] EXCEPT !.at = next, !.broken = TRUE]
<1>1. next \in {"extra", "userExtra", "from"}
  BY ViewFacts, AfterFacts
<1> HIDE DEF next
<1>2. /\ v \in ViewStates /\ v.at = next /\ v.off = view[g].off /\ v.user = view[g].user
      /\ v.kind = view[g].kind /\ v.page = view[g].page /\ v.del = view[g].del
      /\ v.rev = view[g].rev /\ v.gone = view[g].gone /\ v.mustHide = view[g].mustHide
      /\ v.mustRevoke = view[g].mustRevoke /\ v.broken = TRUE
  BY <1>1, ViewFacts DEF ViewStates
<1> HIDE DEF v
<1>3. Hides(v) /\ Owns(v)
  BY <1>1, <1>2, ViewFacts DEF Hides, Owns
<1> QED BY <1>2, <1>3 DEF v, next

\* The extras read include every revoke from before the request.
LEMMA ReadExtraStep == ASSUME IInv, NEW g \in Viewers, ReadExtra(g) PROVE IInv'
<1> DEFINE next == After(view[g])
           rev == revoked \cap view[g].page
           gone == Erased \cap view[g].page
           v == [view[g] EXCEPT !.at = next, !.rev = rev, !.gone = gone]
           broken == [view[g] EXCEPT !.at = next, !.broken = TRUE]
<1>1. view[g].at = "extra" /\ (Read(g, "extra", v) \/ Read(g, "extra", broken))
  BY DEF ReadExtra, Read
<1>2. broken \in ViewStates /\ Hides(broken) /\ Owns(broken)
  BY <1>1, BrokenFits
<1>3. /\ next \in {"userExtra", "from"} /\ (next = "from" <=> view[g].kind = "conversation")
      /\ rev \in SUBSET Messages /\ gone \in SUBSET Messages
  BY <1>1, ViewFacts, AfterFacts, ViewAssumption DEF IInv, Tables
<1> HIDE DEF next, rev, gone
<1>4. /\ v \in ViewStates /\ v.at = next /\ v.off = view[g].off /\ v.user = view[g].user
      /\ v.kind = view[g].kind /\ v.page = view[g].page /\ v.del = view[g].del
      /\ v.rev = rev /\ v.gone = gone /\ v.mustHide = view[g].mustHide
      /\ v.mustRevoke = view[g].mustRevoke /\ v.broken = view[g].broken
  BY <1>3, ViewFacts DEF ViewStates
<1> HIDE DEF v, broken
<1>5. rev \subseteq v.page /\ v.mustRevoke \subseteq rev /\ gone = Erased \cap v.page
  BY <1>4, ViewFacts DEF rev, gone, Hides
<1>6. Owns(v)
  BY <1>4, <1>5, ViewFacts DEF Owns
<1>7. PastUserExtra(v) => PastUserExtra(view[g])
  BY <1>1, <1>3, <1>4 DEF PastUserExtra
<1>8. Hides(v)
  BY <1>1, <1>4, <1>5, <1>7, ViewFacts DEF Hides
<1> QED BY <1>1, <1>2, <1>4, <1>6, <1>8, ReadTo

\* The user's own extras are read for the page and the user of the request.
LEMMA ReadUserExtraStep == ASSUME IInv, NEW g \in Viewers, ReadUserExtra(g) PROVE IInv'
<1> DEFINE next == After(view[g])
           own == {m \in view[g].page : <<view[g].user, m>> \in deleted}
           v == [view[g] EXCEPT !.at = next, !.del = own]
           broken == [view[g] EXCEPT !.at = next, !.broken = TRUE]
<1>1. view[g].at = "userExtra" /\ (Read(g, "userExtra", v) \/ Read(g, "userExtra", broken))
  BY DEF ReadUserExtra, Read
<1>2. broken \in ViewStates /\ Hides(broken) /\ Owns(broken)
  BY <1>1, BrokenFits
<1>3. /\ next \in {"extra", "from"} /\ (next = "from" <=> view[g].kind = "channel")
      /\ own \in SUBSET Messages
  BY <1>1, ViewFacts, AfterFacts DEF ViewStates
<1>4. /\ own \subseteq view[g].page /\ \A m \in own : <<view[g].user, m>> \in deleted
      /\ \A m \in view[g].mustHide : m \in own \/ m <= view[g].off \/ Withheld(view[g].user, m)
  BY <1>1, ViewFacts DEF Hides
<1> HIDE DEF next, own
<1>5. /\ v \in ViewStates /\ v.at = next /\ v.off = view[g].off /\ v.user = view[g].user
      /\ v.kind = view[g].kind /\ v.page = view[g].page /\ v.del = own
      /\ v.rev = view[g].rev /\ v.gone = view[g].gone /\ v.mustHide = view[g].mustHide
      /\ v.mustRevoke = view[g].mustRevoke /\ v.broken = view[g].broken
  BY <1>3, ViewFacts DEF ViewStates
<1> HIDE DEF v, broken
<1>6. Owns(v)
  BY <1>4, <1>5, ViewFacts DEF Owns
<1>7. PastExtra(v) => PastExtra(view[g])
  BY <1>1, <1>3, <1>5 DEF PastExtra
<1>8. Hides(v)
  BY <1>1, <1>4, <1>5, <1>7, ViewFacts DEF Hides
<1> QED BY <1>1, <1>2, <1>5, <1>6, <1>8, ReadTo

\* What a reply leaves out is told to be gone.
LEMMA ReplyStep == ASSUME IInv, NEW g \in Viewers, Reply(g) PROVE IInv'
<1> DEFINE u == view[g].user
           gone == view[g].page \ Shown(view[g])
<1>1. view' = [view EXCEPT ![g] = NoView] /\ Tell(u, gone) /\ UNCHANGED tables
  BY DEF Reply
<1>2. Viewing' /\ Tables' /\ TablesGrow
  BY <1>1, NoViewFits, ViewerTo DEF IInv
<1>3. u \in Readers /\ gone \in SUBSET Messages /\ \A m \in gone : Gone(u, m)
  BY DeletedIsGone, ViewFacts DEF ViewStates
<1>4. PICK r \in Readers, told \in SUBSET Messages : r = u /\ told = gone
  BY <1>3
<1>5. \A m \in told : Gone(r, m)'
  BY <1>1, <1>3, <1>4 DEF Gone, Withheld, tables
<1> HIDE DEF u, gone
<1>6. Told'
  BY <1>1, <1>2, <1>4, <1>5, ToldGrows
<1> QED BY <1>2, <1>6 DEF IInv

-----------------------------------------------------------------------------
(* Theorems. *)

\* The tables start empty and no goroutine has a request.
LEMMA InitIInv == Init => IInv
<1> SUFFICES ASSUME Init PROVE IInv
  OBVIOUS
<1>1. Tables
  BY ViewAssumption DEF Init, Tables
<1>2. Told
  BY DEF Init, Told
<1>3. Viewing
  BY <1>1, NoViewFits DEF Init, Viewing
<1> QED BY <1>1, <1>2, <1>3 DEF IInv

\* Every step keeps the inductive invariant: the writers, then the reads in turn.
LEMMA IInvStep == IInv /\ [Next]_vars => IInv'
<1> SUFFICES ASSUME IInv, [Next]_vars PROVE IInv'
  OBVIOUS
<1>1. CASE UNCHANGED vars
  <2>1. Tables' /\ TablesGrow /\ UNCHANGED <<view, hidden>>
    <3>1. now \in Nat /\ \A u \in Users : offset[u] \in Nat
      BY ViewAssumption DEF IInv, Tables
    <3> QED BY <1>1, <3>1 DEF vars, IInv, Tables, TablesGrow
  <2> QED BY <2>1, ViewingGrows, ToldGrows DEF IInv
<1> QED BY <1>1, WriteStep, AskStep, ReadOffsetStep, ReadExtraStep, ReadUserExtraStep, ReplyStep
        DEF Next

\* The inductive invariant holds in every behaviour.
LEMMA Inductive == Spec => []IInv
<1> QED BY InitIInv, IInvStep, PTL DEF Spec

\* Tables and goroutines keep their types: what a goroutine read is part of its page.
THEOREM TypeCorrect == Spec => []TypeOK
<1> QED BY Inductive, IInvTyped, PTL

\* A reply whose reads succeeded hides what its user was told is gone before it was
\* asked for, in whichever order the handler reads the tables: the offset first, and
\* a row that is read too late to help is only ever added.
THEOREM StaysHidden == Spec => []HiddenStaysHidden
<1> QED BY Inductive, IInvHides, PTL

\* A message shown as deleted is so for a cause of the user's own.
THEOREM NothingElseHidden == Spec => []HiddenForACause
<1> QED BY Inductive, IInvCause, PTL

\* What a user was told is gone, by an OK or by a reply, is gone for ever: a cause
\* in the tables, the payload or the clock still holds.
THEOREM ToldIsTrue ==
  Spec => [](\A u \in Readers : \A m \in hidden[u] : Gone(u, m))
<1>1. IInv => \A u \in Readers : \A m \in hidden[u] : Gone(u, m)
  BY DEF IInv, Told
<1> QED BY <1>1, Inductive, PTL
=============================================================================
