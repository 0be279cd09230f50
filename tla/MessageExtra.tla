---------------------------- MODULE MessageExtra ----------------------------
(***************************************************************************)
(* Revoking messages of one channel and telling devices about it: POST     *)
(* /v1/message/revoke writes a row of message_extra and has the IM server  *)
(* send a command; POST /v1/message/extra/sync gives a device the rows     *)
(* whose version is above its cursor, with a copy of the cursor in redis.  *)
(* A version is the second at which a revoke was stamped.  Every request   *)
(* is a goroutine and every call to MySQL, redis or the IM server a step.  *)
(*                                                                         *)
(* Another channel shares nothing with this one: the SQL, the redis field  *)
(* and the command all name the channel.  A request with a blank channel   *)
(* is refused, after writing a redis field that no other request reads.    *)
(***************************************************************************)
EXTENDS Integers, FiniteSets, FiniteSetsExt

CONSTANTS Messages,
          Devices,     \* a device is a pair of user and "source": one redis field
          Revokers,    \* goroutines serving /revoke
          Syncers,     \* goroutines serving /extra/sync
          Limit,       \* rows in one reply
          MaxTime,     \* a bound on the clock
          MaxCrashes   \* a bound on the number of server crashes

ASSUME ExtraAssumption == /\ Limit \in Nat \ {0}
                          /\ MaxTime \in Nat \ {0}
                          /\ MaxCrashes \in Nat

VARIABLES now,      \* the clock, in seconds
          extra,    \* version of every message's row in message_extra, or NoRow
          cmds,     \* messages whose "messageRevoke" command the IM server sent
          rv,       \* the goroutines that revoke
          cache,    \* the cursor redis holds for every device
          sy,       \* the goroutines that sync
          cursor,   \* the version every device holds (a device is external)
          known,    \* the messages every device has learnt are revoked
          crashes

vars == <<now, extra, cmds, rv, cache, sy, cursor, known, crashes>>
revokeVars == <<extra, cmds, rv>>
syncVars == <<cache, sy>>
deviceVars == <<cursor, known>>

NoRow == 0                  \* also the version of a device that has none
Times == 1 .. MaxTime
Versions == 0 .. MaxTime
Revoked == {m \in Messages : extra[m] # NoRow}

Init == /\ now = 1
        /\ extra = [m \in Messages |-> NoRow]
        /\ cmds = {}
        /\ rv \in [Revokers -> [at : {"idle"}, msg : Messages, found : {FALSE}, ver : {0}, ans : {"none"}]]
        /\ cache = [d \in Devices |-> 0]
        /\ sy \in [Syncers -> [at : {"idle"}, dev : Devices, ver : {0}, rows : {{}}]]
        /\ cursor = [d \in Devices |-> 0]
        /\ known = [d \in Devices |-> {}]
        /\ crashes = 0

Tick == /\ now < MaxTime
        /\ now' = now + 1
        /\ UNCHANGED <<revokeVars, syncVars, deviceVars, crashes>>

-----------------------------------------------------------------------------
(* POST /v1/message/revoke *)

RevokeStep(g, at, next) == /\ rv[g].at = at
                           /\ rv' = [rv EXCEPT ![g].at = next]
RevokeEnd(g, at, ans) == /\ rv[g].at = at
                         /\ rv' = [rv EXCEPT ![g].at = "idle", ![g].ans = ans]
RevokeFrame == UNCHANGED <<now, syncVars, deviceVars, crashes>>

\* revokeReq.check refuses an incomplete request, which is then no step at all.
RevokeReceive(g, m) ==
  /\ rv[g].at = "idle"
  /\ rv' = [rv EXCEPT ![g].at = "query", ![g].msg = m, ![g].ans = "none"]
  /\ UNCHANGED <<extra, cmds>> /\ RevokeFrame

\* queryWithMessageID: is there a row already?
RevokeQuery(g) ==
  /\ \/ /\ rv[g].at = "query"
        /\ rv' = [rv EXCEPT ![g].at = "stamp", ![g].found = rv[g].msg \in Revoked]
     \/ RevokeEnd(g, "query", "error")
  /\ UNCHANGED <<extra, cmds>> /\ RevokeFrame

\* Variant with a bug: the second is rounded up.
RevokeStampRoundedUp(g) ==
  /\ rv[g].at = "stamp"
  /\ rv' = [rv EXCEPT ![g].at = "write", ![g].ver = now + 1]
  /\ UNCHANGED <<extra, cmds>> /\ RevokeFrame

\* version := time.Now().Unix()
RevokeStamp(g) ==
  /\ rv[g].at = "stamp"
  /\ rv' = [rv EXCEPT ![g].at = "write", ![g].ver = now]
  /\ UNCHANGED <<extra, cmds>> /\ RevokeFrame

\* Variant with a bug: an error of the statement is only logged.
RevokeWriteUnchecked(g) ==
  /\ extra' = [extra EXCEPT ![rv[g].msg] = rv[g].ver] \/ UNCHANGED extra
  /\ RevokeStep(g, "write", "SendCMD")
  /\ UNCHANGED cmds /\ RevokeFrame

\* The INSERT when the query found nothing, which the unique index on message_id
\* refuses if another request was first; otherwise the UPDATE.  On an error the
\* handler returns without writing a response: "silent", status 200 and no body.
RevokeWrite(g) ==
  LET m == rv[g].msg
      Put == extra' = [extra EXCEPT ![m] = rv[g].ver]
      Allowed == rv[g].found \/ m \notin Revoked
  IN  /\ \/ Allowed /\ Put /\ RevokeStep(g, "write", "SendCMD")
         \/ Allowed /\ Put /\ RevokeEnd(g, "write", "silent")
         \/ UNCHANGED extra /\ RevokeEnd(g, "write", "silent")
      /\ UNCHANGED cmds /\ RevokeFrame

\* base.SendCMD "messageRevoke" to the channel.
RevokeSendCMD(g) ==
  LET Send == cmds' = cmds \cup {rv[g].msg}
  IN  /\ \/ Send /\ RevokeEnd(g, "SendCMD", "ok")
         \/ Send /\ RevokeEnd(g, "SendCMD", "error")
         \/ UNCHANGED cmds /\ RevokeEnd(g, "SendCMD", "error")
      /\ UNCHANGED extra /\ RevokeFrame

Revoke(g) == RevokeQuery(g) \/ RevokeStamp(g) \/ RevokeWrite(g) \/ RevokeSendCMD(g)

-----------------------------------------------------------------------------
(* POST /v1/message/extra/sync *)

\* Variant with a bug: the first second after the cursor is skipped.
PagesOffByOne(v) ==
  LET eligible == {m \in Revoked : extra[m] > v + 1}
  IN  kSubset(IF Cardinality(eligible) < Limit THEN Cardinality(eligible) ELSE Limit, eligible)

\* messageExtraDB.sync with cursor v: version 0 asks for the newest rows, any
\* other version for the rows above it, oldest first; LIMIT cuts the list, at a
\* place MySQL chooses among rows of one version.
Pages(v) ==
  LET eligible == {m \in Revoked : extra[m] > v}
      size == IF Cardinality(eligible) < Limit THEN Cardinality(eligible) ELSE Limit
      Before(m, n) == IF v = 0 THEN extra[m] > extra[n] ELSE extra[m] < extra[n]
  IN  {p \in kSubset(size, eligible) :
         \A m \in eligible \ p, n \in p : ~Before(m, n)}

SyncStep(g, at, next) == /\ sy[g].at = at
                         /\ sy' = [sy EXCEPT ![g].at = next]
SyncFrame == UNCHANGED <<now, revokeVars, crashes>>

\* A device asks, with the version it holds.
SyncReceive(g, d) ==
  /\ sy[g].at = "idle"
  /\ sy' = [sy EXCEPT ![g] = [at |-> "get", dev |-> d, ver |-> cursor[d], rows |-> {}]]
  /\ UNCHANGED <<cache, deviceVars>> /\ SyncFrame

\* getMessageExtraVersion: the larger of the cached and the given version is
\* used, and a given version above the cached one is to be cached.
SyncGetVersion(g) ==
  LET cached == cache[sy[g].dev]
  IN  /\ sy[g].at = "get"
      /\ sy' = IF cached >= sy[g].ver
                 THEN [sy EXCEPT ![g].at = "query", ![g].ver = cached]
                 ELSE [sy EXCEPT ![g].at = "set"]
      /\ UNCHANGED <<cache, deviceVars>> /\ SyncFrame

\* setMessageExtraVersion: a plain HSET of what was compared earlier.
SyncSetVersion(g) ==
  /\ SyncStep(g, "set", "query")
  /\ cache' = [cache EXCEPT ![sy[g].dev] = sy[g].ver]
  /\ UNCHANGED deviceVars /\ SyncFrame

\* Variant with a bug: the version of the rows sent is cached at once.
SyncQueryCaching(g) ==
  /\ sy[g].at = "query"
  /\ \E p \in Pages(sy[g].ver) :
       /\ sy' = [sy EXCEPT ![g].at = "reply", ![g].rows = {<<m, extra[m]>> : m \in p}]
       /\ cache' = [cache EXCEPT ![sy[g].dev] = Max({@} \cup {extra[m] : m \in p})]
  /\ UNCHANGED deviceVars /\ SyncFrame

SyncQuery(g) ==
  /\ sy[g].at = "query"
  /\ \E p \in Pages(sy[g].ver) :
       sy' = [sy EXCEPT ![g].at = "reply", ![g].rows = {<<m, extra[m]>> : m \in p}]
  /\ UNCHANGED <<cache, deviceVars>> /\ SyncFrame

\* Redis or MySQL fails: an error to the device, and perhaps a cached version.
SyncFail(g) ==
  /\ sy[g].at \in {"get", "set", "query"}
  /\ sy' = [sy EXCEPT ![g].at = "idle"]
  /\ \/ UNCHANGED cache
     \/ sy[g].at = "set" /\ cache' = [cache EXCEPT ![sy[g].dev] = sy[g].ver]
  /\ UNCHANGED deviceVars /\ SyncFrame

\* The device takes the rows and moves its cursor to the newest version it saw.
Deliver(g) ==
  LET d == sy[g].dev
  IN  /\ SyncStep(g, "reply", "idle")
      /\ known' = [known EXCEPT ![d] = @ \cup {row[1] : row \in sy[g].rows}]
      /\ cursor' = [cursor EXCEPT ![d] = Max({@} \cup {row[2] : row \in sy[g].rows})]
      /\ UNCHANGED cache /\ SyncFrame

LoseReply(g) == /\ SyncStep(g, "reply", "idle")
                /\ UNCHANGED <<cache, deviceVars>> /\ SyncFrame

-----------------------------------------------------------------------------

\* The server dies with the requests it was serving.
Crash ==
  /\ crashes < MaxCrashes
  /\ crashes' = crashes + 1
  /\ rv' = [g \in Revokers |-> IF rv[g].at = "idle" THEN rv[g]
                               ELSE [rv[g] EXCEPT !.at = "idle", !.ans = "lost"]]
  /\ sy' = [g \in Syncers |-> [sy[g] EXCEPT !.at = "idle"]]
  /\ UNCHANGED <<now, extra, cmds, cache, deviceVars>>

Next == \/ Tick
        \/ Crash
        \/ \E g \in Revokers : Revoke(g)
        \/ \E g \in Revokers, m \in Messages : RevokeReceive(g, m)
        \/ \E g \in Syncers : \/ SyncGetVersion(g) \/ SyncSetVersion(g) \/ SyncQuery(g)
                              \/ SyncFail(g) \/ Deliver(g) \/ LoseReply(g)
        \/ \E g \in Syncers, d \in Devices : SyncReceive(g, d)

Spec == Init /\ [][Next]_vars

\* Every device keeps asking; a call that is made again and again succeeds at
\* last, and a reply sent again and again arrives at last.
FairSpec ==
  /\ Spec
  /\ \A d \in Devices : SF_vars(\E g \in Syncers : SyncReceive(g, d))
  /\ \A g \in Syncers : /\ SF_vars(SyncGetVersion(g)) /\ SF_vars(SyncSetVersion(g))
                        /\ SF_vars(SyncQuery(g)) /\ SF_vars(Deliver(g))

-----------------------------------------------------------------------------
(* Properties. *)

TypeOK ==
  /\ now \in Times
  /\ extra \in [Messages -> Versions]
  /\ cmds \in SUBSET Messages
  /\ rv \in [Revokers -> [at : {"idle", "query", "stamp", "write", "SendCMD"},
                          msg : Messages, found : BOOLEAN, ver : Versions,
                          ans : {"none", "ok", "error", "silent", "lost"}]]
  /\ cache \in [Devices -> Versions]
  /\ sy \in [Syncers -> [at : {"idle", "get", "set", "query", "reply"}, dev : Devices,
                         ver : Versions, rows : SUBSET (Messages \X Times)]]
  /\ cursor \in [Devices -> Versions]
  /\ known \in [Devices -> SUBSET Messages]
  /\ crashes \in 0 .. MaxCrashes

\* What a revoke has announced is stored: the command is sent, and OK answered,
\* only for a message whose row is in the table, however many requests race for
\* the row and whichever of their statements fail.
AnnouncedIsStored ==
  /\ cmds \subseteq Revoked
  /\ \A g \in Revokers : rv[g].ans = "ok" => rv[g].msg \in Revoked \cap cmds

\* The cached cursor is never ahead of the device's own, so a reply that was lost
\* is sent again: redis learns that rows arrived only from the next request.
CacheBehindDevice == \A d \in Devices : cache[d] <= cursor[d]

\* A row above a device's cursor is delivered or passed by a newer one, whatever
\* calls fail and replies are lost on the way.
NewRowsArrive ==
  \A d \in Devices, m \in Messages :
    extra[m] > cursor[d] ~> m \in known[d] \/ extra[m] <= cursor[d]

\* "同步扩展消息数据" (sync message extras): the rows at or below the cursor a device
\* moved to by syncing are rows the device was given.
CursorCoversRows ==
  \A d \in Devices, m \in Revoked : extra[m] <= cursor[d] => m \in known[d]
=============================================================================
