--------------------------- MODULE ChannelOffset ---------------------------
(***************************************************************************)
(* The handler of POST /v1/message/offset (modules/message/api.go), which  *)
(* hides a channel's messages up to a sequence number for one user, on top *)
(* of the channel_offset table (db_channel_offset.go).  Each request runs  *)
(* in a goroutine of its own; a step of the model is one call that leaves  *)
(* the process: a SELECT, an upsert, and two HTTP calls to the IM server.  *)
(***************************************************************************)
EXTENDS Integers

CONSTANTS Requests,     \* goroutines serving the route, each one request at a time
          Users, Channels,
          MaxSeq,       \* largest message_seq a request asks for (a bound)
          SharedOffset  \* message_seq of the rows with uid='', which the query
                        \* also reads and nothing in the server writes

Keys == Users \X Channels          \* the unique index of channel_offset
Seqs == 0 .. MaxSeq
NoRow == -1                        \* a nil row: below every sequence number

ASSUME OffsetAssumption == /\ MaxSeq \in Nat
                           /\ SharedOffset \in [Channels -> Seqs \cup {NoRow}]

VARIABLES row,    \* message_seq of every pair's row in channel_offset
          told,   \* message_seq of every setUnread call the IM server applied
          cmds,   \* the pairs whose "unreadClear" command the IM server sent out
          pc,     \* the call a goroutine is about to make
          req,    \* the request it serves, or served last
          resp    \* its answer to that request

vars == <<row, told, cmds, pc, req, resp>>

Labels == {"idle", "query", "insertOrUpdate", "setUnread", "SendCMD"}
Answers == {"none", "ok", "error", "lost"}

-----------------------------------------------------------------------------
(* The table. *)

Larger(a, b) == IF a < b THEN b ELSE a

\* The best of the user's row and the row shared by every user.
EffectiveOffset(k) == Larger(row[k], SharedOffset[k[2]])

\* Variants of the upsert with a bug: it stores the next number; it lets the
\* last writer win.
UpsertNext(k, n) == row' = [row EXCEPT ![k] = Larger(@, n) + 1]
UpsertLastWriterWins(k, n) == row' = [row EXCEPT ![k] = n]

\* INSERT ... ON DUPLICATE KEY UPDATE message_seq = the larger of the two.
Upsert(k, n) == row' = [row EXCEPT ![k] = Larger(@, n)]

-----------------------------------------------------------------------------
(* The handler. *)

Init == /\ row  = [k \in Keys |-> NoRow]
        /\ told = [k \in Keys |-> {}]
        /\ cmds = {}
        /\ pc   = [r \in Requests |-> "idle"]
        /\ req  \in [Requests -> [key : Keys, seq : Seqs]]
        /\ resp = [r \in Requests |-> "none"]

Goto(r, l)   == pc' = [pc EXCEPT ![r] = l] /\ UNCHANGED resp
Answer(r, a) == pc' = [pc EXCEPT ![r] = "idle"] /\ resp' = [resp EXCEPT ![r] = a]

\* A request arrives.  A body that does not parse, or has an empty channel_id
\* or login_uid, is answered at once and touches nothing.
Receive(r, k, n) ==
  /\ pc[r] = "idle"
  /\ req' = [req EXCEPT ![r] = [key |-> k, seq |-> n]]
  /\ \/ /\ pc' = [pc EXCEPT ![r] = "query"]
        /\ resp' = [resp EXCEPT ![r] = "none"]
     \/ Answer(r, "error")
  /\ UNCHANGED <<row, told, cmds>>

\* Variants with a bug: the early OK compares off by one; any row is enough.
QueryOffByOne(r) ==
  /\ pc[r] = "query"
  /\ IF EffectiveOffset(req[r].key) + 1 >= req[r].seq THEN Answer(r, "ok")
                                                      ELSE Goto(r, "insertOrUpdate")
  /\ UNCHANGED <<row, told, cmds, req>>
QueryAnyRow(r) ==
  /\ pc[r] = "query"
  /\ IF EffectiveOffset(req[r].key) # NoRow THEN Answer(r, "ok")
                                            ELSE Goto(r, "insertOrUpdate")
  /\ UNCHANGED <<row, told, cmds, req>>

\* queryWithUIDAndChannel, and the early OK when the offset is already there.
Query(r) ==
  /\ pc[r] = "query"
  /\ \/ /\ EffectiveOffset(req[r].key) >= req[r].seq
        /\ Answer(r, "ok")
     \/ /\ EffectiveOffset(req[r].key) < req[r].seq
        /\ Goto(r, "insertOrUpdate")
     \/ Answer(r, "error")                      \* the query failed
  /\ UNCHANGED <<row, told, cmds, req>>

\* Variant with a bug: an error of the upsert is only logged.
InsertOrUpdateUnchecked(r) ==
  /\ pc[r] = "insertOrUpdate"
  /\ Upsert(req[r].key, req[r].seq) \/ UNCHANGED row
  /\ Goto(r, "setUnread")
  /\ UNCHANGED <<told, cmds, req>>

\* A failed statement may have been applied: the connection broke after commit.
InsertOrUpdate(r) ==
  /\ pc[r] = "insertOrUpdate"
  /\ \/ Upsert(req[r].key, req[r].seq) /\ Goto(r, "setUnread")
     \/ Upsert(req[r].key, req[r].seq) /\ Answer(r, "error")
     \/ UNCHANGED row /\ Answer(r, "error")
  /\ UNCHANGED <<told, cmds, req>>

\* POST /conversations/setUnread with message_seq and unread = 0.
SetUnread(r) ==
  LET Apply == told' = [told EXCEPT ![req[r].key] = @ \cup {req[r].seq}]
  IN  /\ pc[r] = "setUnread"
      /\ \/ Apply /\ Goto(r, "SendCMD")
         \/ Apply /\ Answer(r, "error")         \* the reply was lost
         \/ UNCHANGED told /\ Answer(r, "error")
      /\ UNCHANGED <<row, cmds, req>>

\* base.SendCMD "unreadClear" to the user's own devices.
SendCMD(r) ==
  LET Send == cmds' = cmds \cup {req[r].key}
  IN  /\ pc[r] = "SendCMD"
      /\ \/ Send /\ Answer(r, "ok")
         \/ Send /\ Answer(r, "error")
         \/ UNCHANGED cmds /\ Answer(r, "error")
      /\ UNCHANGED <<row, told, req>>

\* The server process dies: requests in flight get no answer, MySQL and the
\* IM server keep what they were given.
Crash ==
  /\ \E r \in Requests : pc[r] # "idle"
  /\ resp' = [r \in Requests |-> IF pc[r] = "idle" THEN resp[r] ELSE "lost"]
  /\ pc' = [r \in Requests |-> "idle"]
  /\ UNCHANGED <<row, told, cmds, req>>

Serve(r) == Query(r) \/ InsertOrUpdate(r) \/ SetUnread(r) \/ SendCMD(r)

Next == \/ \E r \in Requests : Serve(r)
        \/ \E r \in Requests, k \in Keys, n \in Seqs : Receive(r, k, n)
        \/ Crash

Spec == Init /\ [][Next]_vars

-----------------------------------------------------------------------------
(* Properties. *)

TypeOK == /\ row  \in [Keys -> Seqs \cup {NoRow}]
          /\ told \in [Keys -> SUBSET Seqs]
          /\ cmds \in SUBSET Keys
          /\ pc   \in [Requests -> Labels]
          /\ req  \in [Requests -> [key : Keys, seq : Seqs]]
          /\ resp \in [Requests -> Answers]

\* An OK answer, by either way out of the handler, means that the messages the
\* request wanted hidden are hidden, whatever other requests did in between.
OkMeansHidden ==
  \A r \in Requests : resp[r] = "ok" => EffectiveOffset(req[r].key) >= req[r].seq

\* The order of the handler's effects, for all requests together: the IM server
\* is never told of a position the table does not hold, and devices never get
\* the "unreadClear" command before the IM server's own counter was cleared.
EffectsInOrder ==
  \A k \in Keys : /\ \A n \in told[k] : n <= row[k]
                  /\ k \in cmds => told[k] # {}

\* A goroutine past the upsert still finds its number covered by the row, however
\* late it runs and whatever smaller offsets other requests write meanwhile; one
\* past setUnread has its number at the IM server; none has been answered.
WrittenStaysWritten ==
  \A r \in Requests :
    /\ pc[r] # "idle" => resp[r] = "none"
    /\ pc[r] \in {"setUnread", "SendCMD"} => req[r].seq <= row[req[r].key]
    /\ pc[r] = "SendCMD" => req[r].seq \in told[req[r].key]

\* No step, concurrent, failed or cut short by a crash, brings back messages a
\* user has cleared.
OffsetNeverFalls == [][\A k \in Keys : row'[k] >= row[k]]_vars

\* "清除红点" (clear the red dot) is a step of the handler, without which there is
\* no OK but the early one; so OK should mean that the IM server has cleared the
\* counter at least up to the message asked for.  It does not: a request that ends
\* with an error once its row is written, because the answer of the upsert was lost
\* or a later call failed, leaves a row for which the retry is answered OK early.
OkMeansRedDotCleared ==
  \A r \in Requests : resp[r] = "ok" => \E n \in told[req[r].key] : n >= req[r].seq

\* The handler implements the register it stands for.
Register == INSTANCE OffsetRegister
              WITH value   <- [k \in Keys |-> EffectiveOffset(k)],
                   granted <- {<<req[r].key, req[r].seq>> : r \in {s \in Requests : resp[s] = "ok"}},
                   Asked   <- Seqs
ImplementsRegister == Register!Spec
=============================================================================
