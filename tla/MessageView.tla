----------------------------- MODULE MessageView -----------------------------
(***************************************************************************)
(* What a user is shown of a channel: POST /v1/message/channel/sync and    *)
(* the recent messages of POST /v1/conversation/sync take messages from    *)
(* the IM server and mark them deleted or revoked from three tables that   *)
(* /message/delete, /message/revoke and /message/offset write meanwhile.   *)
(* The messages of the channel are numbered by message_seq; the offset is  *)
(* the register that ChannelOffset implements.                             *)
(***************************************************************************)
EXTENDS Integers, FiniteSets

CONSTANTS Users,
          Readers,    \* the users whose replies are followed; a reply writes no
                      \* table, so those of the other users matter to nobody
          LastSeq,    \* the channel holds messages 1 .. LastSeq
          Visibles,   \* the "visibles" of every message's payload; {} for none, or
                      \* for a payload that is encrypted and not read
          Erased,     \* messages whose row of message_extra has is_deleted = 1;
                      \* nothing in the server writes that column but the default
          ExpireAt,   \* timestamp + expire of every message; 0 if it never expires
          Viewers,    \* goroutines serving the two sync routes
          MaxTime     \* a bound on the clock

Messages == 1 .. LastSeq

ASSUME ViewAssumption == /\ LastSeq \in Nat \ {0}
                         /\ MaxTime \in Nat
                         /\ Readers \subseteq Users /\ Readers # {}
                         /\ Visibles \in [Messages -> SUBSET Users]
                         /\ Erased \subseteq Messages
                         /\ ExpireAt \in [Messages -> Nat]

VARIABLES now,
          revoked,   \* messages whose row of message_extra has revoke = 1
          deleted,   \* <<user, message>> rows of message_user_extra
          offset,    \* every user's effective channel offset
          hidden,    \* what every reader was told is gone: by the OK to a delete or
                     \* an offset request, or by a reply that shows it as deleted
          view       \* the goroutines that build a reply

vars == <<now, revoked, deleted, offset, hidden, view>>
tables == <<now, revoked, deleted, offset>>

Kinds == {"channel", "conversation"}
NoView == [at |-> "idle", kind |-> "channel", user |-> CHOOSE u \in Readers : TRUE, page |-> {},
           off |-> 0, del |-> {}, rev |-> {}, gone |-> {}, broken |-> FALSE,
           mustHide |-> {}, mustRevoke |-> {}]

Init == /\ now = 0
        /\ revoked = {} /\ deleted = {}
        /\ offset = [u \in Users |-> 0]
        /\ hidden = [u \in Readers |-> {}]
        /\ view = [g \in Viewers |-> NoView]

Tick == /\ now < MaxTime
        /\ now' = now + 1
        /\ UNCHANGED <<revoked, deleted, offset, hidden, view>>

-----------------------------------------------------------------------------
(* The writers. *)

\* The UPDATE or INSERT of /message/revoke, which leaves is_deleted as it is or 0;
\* MessageExtra has its other steps.
Revoke(m) == /\ revoked' = revoked \cup {m}
             /\ UNCHANGED <<now, deleted, offset, hidden, view>>

Tell(u, gone) == hidden' = [hidden EXCEPT ![u] = @ \cup gone]

\* /message/delete: one upsert; a failed one may have been applied.
Delete(u, m) ==
  /\ deleted' = deleted \cup {<<u, m>>}
  /\ (u \in Readers /\ Tell(u, {m})) \/ UNCHANGED hidden
  /\ UNCHANGED <<now, revoked, offset, view>>

\* /message/offset, by what ChannelOffset shows of it: the offset rises, and OK
\* is answered when it covers what was asked for.
RaiseOffset(u, n) == /\ n > offset[u]
                     /\ offset' = [offset EXCEPT ![u] = n]
                     /\ UNCHANGED <<now, revoked, deleted, hidden, view>>
GrantOffset(u, n) == /\ u \in Readers /\ n <= offset[u]
                     /\ Tell(u, 1 .. n)
                     /\ UNCHANGED <<tables, view>>

-----------------------------------------------------------------------------
(* The readers. *)

\* Variant with a bug: a page starts one message early.
AskOneMore(g, u, kind, size) ==
  /\ view[g].at = "idle"
  /\ LET page == (LastSeq - size) .. LastSeq
     IN  view' = [view EXCEPT ![g] = [NoView EXCEPT
                    !.at = "offset", !.user = u, !.kind = kind, !.page = page,
                    !.mustHide = hidden[u] \cap page, !.mustRevoke = revoked \cap page]]
  /\ UNCHANGED <<tables, hidden>>

\* The request, and the IM server's answer: the newest messages of the channel.
Ask(g, u, kind, size) ==
  /\ view[g].at = "idle"
  /\ LET page == (LastSeq - size + 1) .. LastSeq
     IN  view' = [view EXCEPT ![g] = [NoView EXCEPT
                    !.at = "offset", !.user = u, !.kind = kind, !.page = page,
                    !.mustHide = hidden[u] \cap page, !.mustRevoke = revoked \cap page]]
  /\ UNCHANGED <<tables, hidden>>

First(kind)  == IF kind = "channel" THEN "extra" ELSE "userExtra"
Second(kind) == IF kind = "channel" THEN "userExtra" ELSE "extra"
After(v) == IF v.at = First(v.kind) THEN Second(v.kind) ELSE "from"

Read(g, at, v) == /\ view[g].at = at
                  /\ view' = [view EXCEPT ![g] = v]
                  /\ UNCHANGED <<tables, hidden>>

\* The user's offset; an error here is answered with an error.
ReadOffset(g) ==
  \/ Read(g, "offset", [view[g] EXCEPT !.at = First(view[g].kind), !.off = offset[view[g].user]])
  \/ Read(g, "offset", NoView)

\* The rows of message_extra for the page; an error is logged and the reply is
\* built without them.
ReadExtra(g) ==
  \/ Read(g, "extra", [view[g] EXCEPT !.at = After(view[g]), !.rev = revoked \cap view[g].page,
                                     !.gone = Erased \cap view[g].page])
  \/ Read(g, "extra", [view[g] EXCEPT !.at = After(view[g]), !.broken = TRUE])

\* Variant with a bug: the rows are not restricted to the user's.
ReadEveryUserExtra(g) ==
  LET rows == {m \in view[g].page : \E u \in Users : <<u, m>> \in deleted}
  IN  Read(g, "userExtra", [view[g] EXCEPT !.at = After(view[g]), !.del = rows])

\* The user's own rows of message_user_extra, likewise.
ReadUserExtra(g) ==
  LET own == {m \in view[g].page : <<view[g].user, m>> \in deleted}
  IN  \/ Read(g, "userExtra", [view[g] EXCEPT !.at = After(view[g]), !.del = own])
      \/ Read(g, "userExtra", [view[g] EXCEPT !.at = After(view[g]), !.broken = TRUE])

\* Variant with a bug: the list of visible users is looked at after the user's row.
IsDeletedVisibleWins(m, v) ==
  LET stored == m \in v.gone \/ m \in v.del
      listed == IF Visibles[m] = {} THEN stored ELSE v.user \notin Visibles[m]
  IN  listed \/ (ExpireAt[m] > 0 /\ now >= ExpireAt[m]) \/ (v.off # 0 /\ m <= v.off)

\* MsgSyncResp.from: is_deleted of the reply, assigned from one source after the
\* other.  A list of visible users overrides the row of message_extra, also to 0;
\* the others only set it.
IsDeleted(m, v) ==
  LET stored == m \in v.gone
      listed == IF Visibles[m] = {} THEN stored ELSE v.user \notin Visibles[m]
      own    == listed \/ m \in v.del
  IN  own \/ (ExpireAt[m] > 0 /\ now >= ExpireAt[m]) \/ (v.off # 0 /\ m <= v.off)

Shown(v) == {m \in v.page : ~IsDeleted(m, v)}

\* The reply tells the user which messages of the page are gone.
Reply(g) == /\ view[g].at = "from"
            /\ view' = [view EXCEPT ![g] = NoView]
            /\ Tell(view[g].user, view[g].page \ Shown(view[g]))
            /\ UNCHANGED tables

Next == \/ Tick
        \/ \E m \in Messages : Revoke(m)
        \/ \E u \in Users, m \in Messages : Delete(u, m) \/ RaiseOffset(u, m) \/ GrantOffset(u, m)
        \/ \E g \in Viewers, u \in Readers, kind \in Kinds, size \in Messages : Ask(g, u, kind, size)
        \/ \E g \in Viewers : ReadOffset(g) \/ ReadExtra(g) \/ ReadUserExtra(g) \/ Reply(g)

Spec == Init /\ [][Next]_vars

-----------------------------------------------------------------------------
(* Properties. *)

TypeOK ==
  /\ now \in 0 .. MaxTime
  /\ revoked \in SUBSET Messages
  /\ deleted \in SUBSET (Users \X Messages)
  /\ offset \in [Users -> 0 .. LastSeq]
  /\ hidden \in [Readers -> SUBSET Messages]
  /\ \A g \in Viewers :
       LET v == view[g]
       IN  /\ v.at \in {"idle", "offset", "extra", "userExtra", "from"}
           /\ v.user \in Readers /\ v.kind \in Kinds /\ v.off \in 0 .. LastSeq
           /\ v.page \in SUBSET Messages
           /\ v.del \subseteq v.page /\ v.rev \subseteq v.page /\ v.gone \subseteq v.page

\* What is hidden stays hidden: a reply whose reads succeeded shows no message
\* that, before it was asked for, its user had deleted or cleared with OK or had
\* already been shown as deleted; nor is a revoked message shown as it was; and an
\* erased one is shown only to a user whom the list of its payload names.
HiddenStaysHidden ==
  \A g \in Viewers : view[g].at = "from" /\ ~view[g].broken =>
    /\ Shown(view[g]) \cap view[g].mustHide = {}
    /\ view[g].mustRevoke \subseteq view[g].rev
    /\ \A m \in Shown(view[g]) \cap Erased : view[g].user \in Visibles[m]

\* A message is hidden from a user for a cause of that user's own or of the message,
\* never for what another user deleted or cleared, and never because its row is
\* erased when its list names the user.
HiddenForACause ==
  \A g \in Viewers : view[g].at = "from" =>
    \A m \in view[g].page \ Shown(view[g]) :
      \/ <<view[g].user, m>> \in deleted
      \/ m <= offset[view[g].user]
      \/ Visibles[m] # {} /\ view[g].user \notin Visibles[m]
      \/ Visibles[m] = {} /\ m \in Erased
      \/ ExpireAt[m] > 0 /\ ExpireAt[m] <= now
=============================================================================
