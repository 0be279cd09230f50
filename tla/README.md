# Verification of the WuKongChat business server

This directory holds TLA+ models of the server in `src/` (Go), TLC
configurations that check them on small instances, and proofs, checked by
TLAPS, that the main results hold for every size. `PROJECT.json` lists the
components, the runs, the theorems, the hazards and, for every definition, the
lines of code it models.

    tlc -workers 2 -config MCChannelOffset.cfg MCChannelOffset
    tlapm ChannelOffsetProofs.tla

The module `MCX` and `MCX.cfg` give module `X` its small instance; `XProofs` holds the
theorems about `X`, for every instance.

## The system

The server stands beside WuKongIM (the *IM server*, which stores and delivers
messages) and adds what a chat application needs: revoking and deleting
messages, per-user offsets, extras of messages, syncing of conversations, users
and groups. It keeps its data in MySQL and cursors in Redis, and calls the IM
server by HTTP. Every HTTP request runs in a goroutine of its own; requests
share nothing but the database, Redis, the IM server and a few maps in memory.
Below the handlers are packages of their own (pool, locks, waiting, identifiers,
decimals, the HTTP wrapper); the server uses some of them only in part.

### Inventory

| Component | State | Operations | Interacts with | Hard behaviour | Correct when |
|---|---|---|---|---|---|
| Channel offset, `modules/message/api.go` 55-135 | table `channel_offset` | `/message/offset` | MySQL; IM `setUnread`, `message/send` | requests overlap; a call fails after earlier ones took effect; retries; crashes | an offset never falls; OK means hidden; effects in order |
| Revoke and extra sync, `api.go` 137-194, 268-365 | table `message_extra`, Redis hash `messageExtraVersion` | `/message/revoke`, `/message/extra/sync` | MySQL, Redis, IM command, devices | two revokes race for one row; versions are seconds; check-then-set of a cursor; lost replies | only stored revokes are announced; no row is passed over |
| What a user is shown, `api.go` 196-266, 377-569, `api_conversation.go` 360-422 | tables `message_extra`, `message_user_extra`, `channel_offset` | `/message/channel/sync`, `/message/delete`, recents of `/conversation/sync` | IM `messagesync`, MySQL | writers run between the reads of one reply; five sources of `is_deleted`; a failed read is only logged | hidden stays hidden, and only for the user concerned |
| Conversation sync, `api_conversation.go` 105-326 | Redis `deviceMaxVersion`, `userMaxVersion`; maps `syncConversationVersionMap`, `syncConversationResultCacheMap` | `/conversation/sync`, `/syncack` | IM `conversation/sync`, Redis, devices | acks name a device but use the user's version; maps are lost at a restart; read lock, then write lock | no conversation is skipped that was not sent, unless it had no recents |
| clearUnread, `api_conversation.go` 56-103 | none | `/conversation/clearUnread` | IM `setUnread`, command | second call fails after the first | each count is announced as it was set, or the client knows |
| Users, `modules/user` | table `user` | `login`, `get`, `route`, `avatar` | MySQL, IM `user/token` | query, then insert; failure after the insert | one row and one name per uid |
| Groups, `modules/group` | table `group` | `create`, `get`, `updateName`, avatar | MySQL, IM `subscriber_add`, command | query, then insert; `get` inserts without a creator; an update of no row | a created group has its creator subscribed |
| Webhook, `modules/webhook` | gRPC server | `Start`, `Stop`, HTTP events, datasource | IM server | Stop before Serve | stops cleanly |
| Worker pool, `pkg/pool` | queue, counters, channels | `Work`, `End`, statistics | clients, jobs | unbuffered channels, one of them global; End | every job runs once, in order |
| Key lock, `pkg/keylock` | table of counted mutexes | `Lock`, `Unlock`, `Clean`, loop | any goroutine | lookup and creation under two locks; the mutex itself outside of both | exclusion per key, no leak |
| Wait, `pkg/wait` | sharded map of channels | `Register`, `Trigger` | any goroutine | trigger before, twice, or duplicate identifier | one answer per registration |
| IM helpers, `modules/base`; HTTP client, `pkg/network` | none | `SendCMD`, `HandlerIMError`, `Post` | IM server | no timeout; error status with any body | an error is reported |
| HTTP framework, `pkg/wkhttp` | pool of contexts | routes, token check | every handler | reuse of contexts | no data of another request |
| Decimals, `pkg/util/decimal.go`, `yuan_cent.go` | none; a value is an integer and an exponent | arithmetic, division, six ways of rounding, texts, JSON, binary, floats | clients | 32-bit exponents, signs, ties, trailing zeros, binary fractions | rounding gives the nearest number; what is written is read back |
| Identifiers, `pkg/util/uuid.go` | clock sequence and last time, under a mutex | `NewV1` to `NewV5`, texts | any goroutine, the clock | the clock stands still or is set back | no identifier twice |
| Redis wrapper, `pkg/redis`; migrations, `pkg/db` | none | one call each; `findMigrations` | Redis, MySQL | conversions, order of files | as documented |

`PROJECT.json` also names what will not be modelled: logging, generated gRPC
code, thin wrappers of cryptographic libraries, registries filled before `main`.

## What is modelled

A step of a model is one call that leaves the goroutine: a statement, a Redis
command, an HTTP call, a channel operation or a section under a lock. What a
goroutine does between two such calls touches only its own variables and is
part of the step. Message contents, names and wording are left out; users,
channels, messages and devices are model values.

A statement or call that fails may have been applied or not: the connection can
break before the request arrives or before the answer does. Both are steps.

### `ChannelOffset` and `OffsetRegister`

`ChannelOffset` is the handler of `/v1/message/offset`. `row` is the table (one
number per user and channel, by the unique index), `told` and `cmds` what the IM
server applied, `pc`, `req` and `resp` the goroutines. The actions are the
handler's own steps: `Receive` (65-74 of `api.go`), `Query` with the early OK,
`InsertOrUpdate`, `SetUnread`, `SendCMD`, and `Crash`, in which requests in
flight are lost and the outside world keeps what it has. Rows with an empty uid
apply to every user; nothing in the server writes them, so they are the constant
`SharedOffset`.

`OffsetRegister` says what the route promises: a number per user and channel
that only rises, and a grant only of what it has reached. `ImplementsRegister`
maps the register's value to the best of the two rows, and the grants to the
requests answered OK.

### `MessageExtra`

Revokes and extra syncs of one channel. `extra` is the version of every
message's row, `now` the clock whose second becomes a version, `cache` the Redis
cursor of every user and source, `cursor` and `known` what a device holds.
`RevokeReceive`, `RevokeQuery`, `RevokeStamp`, `RevokeWrite`, `RevokeSendCMD` are
the calls of `revoke` in their order; the clock can tick between stamp and
write. `RevokeWrite` is an INSERT if the query found nothing, which the unique
index refuses when another request was first; on an error the code returns
without a response, which a client sees as status 200 (`"silent"`).
`SyncGetVersion`, `SyncSetVersion`, `SyncQuery` are the calls of
`syncMessageExtra`; `Pages` is the SELECT, with any choice MySQL may make among
rows of equal version at the LIMIT. Devices are external: they ask with the
newest version they received (`SyncReceive`) and keep what arrives (`Deliver`).

### `MessageView`

What one reply shows. The writers of the three tables (`Delete`, `Revoke`,
`RaiseOffset` and `GrantOffset`) run between the reads of a reply: `Ask`,
`ReadOffset`, then `ReadExtra` and `ReadUserExtra` in the order of the route
(`/channel/sync` reads the extras first, `/conversation/sync` the user's own),
then `Reply`. `IsDeleted` is the computation in `MsgSyncResp.from`. The offset is
used as the register of `OffsetRegister`, which `ChannelOffset` is shown to
implement: it rises, and is granted when reached. `hidden` is a history
variable: what a user was told is gone.

`IsDeleted` keeps the order of the assignments: the value of the row of
`message_extra`, then a list of visible users, which overrides it either way, then the
user's own row, the expiry and the offset, which only set it. Nothing in the server
writes `is_deleted` of `message_extra` but the default 0, so which rows have 1 is the
constant `Erased`.

### `ConversationSync`

One user's devices and the four copies of a version: `devVer` and `userVer` in
Redis, `verMap` in memory, `cursor` at the device. `SyncReceive` to
`StoreVersion` are the calls of `syncUserConversation` in order; `CopyResults` and
`StoreResults` are the two lock sections around the result cache, once per
conversation; `AckReceive`, `AckRead`, `AckSet` are the ack. `Crash` empties what is
in memory and drops the requests. `AskIM` splits the IM server's answer into
the conversations that come with recents (`got`), which alone are replied, cached and
looked at for the version, and those without (`bare`), which are left out. `served`
and `leftOut` are history of the two, with their versions. External: the IM server
(`Message`, the order of its replies and which conversations come without recents),
the devices (`Deliver`, `LoseReply`). The error of the IM
server at line 168 is answered without a return; the body of an error is an
object and does not parse as a list, so the request ends at line 174 with a
second answer, and the model has one step, `SyncFail`, for both.

### `KeyLock` and `KeyedMutex`

`Lookup`, `Create`, `Done`, `Sweep` are the sections under the table's read-write
mutex, `Acquire` and `Release` the operations of the key's own mutex outside of
them. Read-locked sections may overlap in the program; they read the table and
add to a counter atomically, so one step each is enough. Memory of an entry that
nothing refers to is reused (`Unreferenced`), as the garbage collector does.
Goroutines call `Lock(k)` and then `Unlock(k)`. `loop` is the cleaning loop: loops
started again tick like the first, one started after the stop ends at once, and a
second stop, which closes a closed channel and panics, is left out.

`KeyedMutex` says what that promises: a goroutine asks for a key, is let in when nobody
is inside with that key, and leaves. There are no entries, counters or cleaning in it.
`ImplementsMutexes` maps a goroutine to where it stands (`Place`): it waits from the
call of `Lock` until it has the mutex, is inside until `Unlock` has counted the entry
down, and is outside while it still has to release the mutex. An implementation that
lets two goroutines in by way of two mutexes of one key takes a step that `Enter` does
not allow.

### `Accounts`

Users, groups and `clearUnread`: `users` and `groups` are the tables, `tokens` and
`members` what the IM server was told, `req` the goroutines. `QueryUser` and
`InsertUser` stand for the same statements of `login` and `get`, which go separate
ways in `WithName`; `QueryGroup` and `InsertGroup` for those of `create` and
`groupGet`, which part in `WithGroup`. `PostToken`, `AddSubscriber`, `SetUnread` and
`SendCMD` are the calls to the IM server, all of them with the three outcomes of
`PostIM`. `UpdateName` succeeds without a row, as the UPDATE does. `Notice` is what the
command of a change says: the group to read again, or the user, the channel and the
count. `stale` holds the notices owed since their change was applied, and a command
settles its own and no other; `told`, `done` and `failed` are history of the answers.
External: the answers to the client, which `wkhttp` of the framework library writes
(not `pkg/wkhttp`), and what the IM server keeps.

### `Packages`

The four packages below share nothing and are checked side by side: `part` is the one
that runs, the variables of the others hold `Resting`. The composition leaves the
constants open; its assumption `PackagesAssumption` says of them what the source
fixes: exponents have a sign bit and those that rounding and division compute fit, a quotient
has at least the two places of money (`DivisionPrecision` is 16), a mantissa (53 bits)
has one bit more than the largest amount (2^52 cents, some 45 million million yuan),
the clock sequence is drawn with all its bits, the times fit theirs, and a goroutine
either registers or triggers.

### `Decimal`

The package as operators, one for each function, with the integers unbounded as
`math/big` has them and exponents of `ExpBits` bits. A text is its sign and the
numbers before and after the point, with the count of places. A client keeps a
total and takes it through every operation, so that the laws are checked of all
totals within bounds that operations reach, in every representation.
`RoundedIsNearest` states rounding and dividing against the integers: the result is
on the grid asked for, no further than half a step, ties as the comments say, and
the remainder of a division as the comment of `QuoRem` has it. `CashAndPowers` says the
same of cash units, which go through a product, `Round` and a quotient, and of powers.
`WrittenIsRead` is about texts, JSON, binary, columns, floats and amounts of cents.

### `Uuid`

`getStorage` statement by statement under its mutex, and `NewV1` outside of it.
`SetClock` is the operating system's and moves the clock either way. `bumps` counts
the moves of the clock sequence; `NoEarlyRepeat` says that two equal identifiers are
a multiple of the values that the variant leaves room for apart, 2^14 in the source.

### `Wait` and `OneShot`

`Register`, and `Trigger` in three steps, since the answer is sent and the channel
closed after the lock is released. A second registration of an identifier panics
under the lock, which the deferred unlock releases, and leaves the table alone.

`OneShot` says what the package promises: an identifier has one open registration at a
time, a trigger answers the open one, which is open no more, and that trigger's answer
is received once. `ImplementsOneShot` takes a channel for a registration: new until
`Register` made it, open while it is in the table, answered from the moment a trigger
took it out until the answer is received. Who answered it is the set of all triggers
that took it or sent to it (`AnsweredBy`), so that two of them are not a state of `OneShot`.

### `HttpContext`

A chain of handlers as `handlersToGinHandleFuncs` builds it: each runs in a wrapper
of its own (`Enter`, `Leave`) with a context out of one pool. A handler reads and
writes the request its context wraps, whichever that is, which is what the property
is about. The server has no token check on its routes; the middleware is the
package's.

### `Pool`

Several pools of workers. All channels are unbuffered, so a send and a receive
are one step of two goroutines: `Submit` (client and collector), `Take` (a worker
and whichever pool's loop receives its offer, since `WorkerChannel` belongs to
the package), `Give`, `Finish` (a worker and the goroutine that counts for its own
pool), `StopWorker`. The counters are updated in steps of their own: `CountTotal` and
`CountExecuting` by the loop, `CountFinished` by the counting goroutine, which until then
is in `counting` and receives no other report. `accepted`, `started` and `ran` are
history.

## What the runs check

| Run | Shows | Bounds and why they are enough |
|---|---|---|
| `offset` | `OkMeansHidden`, `EffectsInOrder`, `OffsetNeverFalls`, `ImplementsRegister` | two goroutines, two users, one channel, numbers 0 to 2, a shared row of 0: both orders of a smaller and a larger number, both early OKs, any number of requests and crashes. The theorems cover every size. |
| `offset_reddot` | violated: `OkMeansRedDotCleared` | one goroutine, one retry, no shared row |
| `extra` | `AnnouncedIsStored`, `CacheBehindDevice` | two revokes and two syncs at once, one message, two seconds, one crash: the race for one row and the race for one cursor; rows and cursors of other messages and devices are independent |
| `extra_live` | `NewRowsArrive` | two messages and replies of one row, so that LIMIT splits |
| `extra_cursor` | violated: `CursorCoversRows` | two messages revoked in one second |
| `view` | `HiddenStaysHidden`, `HiddenForACause` | two users who write and one whose replies are followed (a reply writes no table), two messages with erased rows, the newer with a list that names the reader, the older expiring at the only tick: the list overrides one row and not the other |
| `conv` | `SkipsOnlyServed` | two devices, two goroutines, two conversations, two messages, one restart: overlapping syncs and acks on both sides of the restart, replies in which either conversation is left out or is last |
| `conv_skipped` | violated: `SkippedWasReceived` | one device, one conversation of two versions, no restart needed |
| `keylock` | `EntryStays`, `CountsUsers`, `UnlocksOwn`, `ImplementsMutexes`, `EveryLockReturns`, `UnusedEntriesGo` | three goroutines (one holds, one waits, one creates or cleans), two keys |
| `pool` | `JobsKeepOrder`, `TakenByOne`, `ExecutingBalanced`, `EveryJobRuns` | two pools, one with two workers and one with one, three jobs, one of them nil: a worker can be at its next job while its report and that of another are counted |
| `accounts` | `OneNamePerUser`, `OkMeansDone`, `ChangesAnnounced` | two goroutines, one user, one group, two names for each, two channels with two counts: the second request runs between any two steps of the first; users and groups are independent of others of their kind; crashes at any time |
| `packages` | `RoundedIsNearest`, `CashAndPowers`, `WrittenIsRead`, `NoEarlyRepeat`, `AnsweredOnce`, `ImplementsOneShot`, `RequestsApart` | the four packages one at a time (`part`), each small. Decimals: values to 150, exponents -3 to 1 of 5 bits, two places of quotients, floats of 10 bits: signs, ties, zeros and carries on either side of the point. Identifiers: two goroutines, a sequence of 4 bits of which the variant leaves 2, moved until it has gone round. Wait: two identifiers, two goroutines on either side, three channels. Contexts: two requests of three frames, six contexts |

Each run also has the module's type invariant where one is listed. Every
property of a passing run is paired in `PROJECT.json` with a variant of the code
that breaks it; the variants stand in the modules, marked as such.

The numbers that only a bound stops: `MaxSeq` (largest offset asked for),
`MaxTime` (clock), `MaxVersion` (messages at the IM server), `MaxCrashes`, `Limit`
(rows of a reply), `LastSeq` (messages of a channel), `MaxValue` and `Exps` (totals),
`MaxBumps` (moves of the clock sequence). Requests are not bounded: goroutines serve
one after the other for ever, and `Accounts` has any number of crashes. `Pool`
submits each job once and then rests, `Uuid` stops at its bound and `Wait` when the
channels are used up, which is why their configurations do not check for deadlock.

### What the violated runs say

* `offset_reddot`: the upsert is applied and its answer lost, so the client sees an
  error and tries again; the retry finds the offset in place and answers OK at once,
  and setUnread is called by neither. The same follows when the upsert succeeds and
  setUnread fails without effect.
* `extra_cursor`: rows are selected with `version > cursor`, a version is a whole
  second, and it is taken before the row is written. A row written with a second
  that a device has reached already is never sent to it.
* `conv_skipped`: an ack acknowledges whatever was served last for the user. A device
  receives a first reply, the second one is lost, and the ack of the first stores the
  version of the second, from which the next sync starts.

### Seen while modelling, and left without a run

* Messages: `more` of a channel sync is never set (`api.go` 419 against 373);
  `last_client_msg_no` names a deleted message when all recents are deleted
  (`api_conversation.go` 407 against 362); a failed read of the extras shows deleted
  messages (`api.go` 387 and 400); a failed statement of revoke ends without a
  response, status 200 (`api.go` 314), which is `"silent"` in `MessageExtra`; two
  acks, or two extra syncs, can leave the smaller version in Redis; overlapping
  syncs drop each other's entries of the result cache, which nothing reads.
* Users and groups: a group that `groupGet` inserts has no creator, and `create` does
  not set one later; renaming a group without a row answers OK and sends the
  command; a new group's name is longer than its number, which may fill the column
  already; the last of `Names` is never drawn (`user/api.go` 152); a clearUnread whose
  setUnread is overtaken by another's sends its own count to the devices last.
* Messages again: a list of visible users that names the reader undoes the
  `is_deleted` of the message's row (`api.go` 517 after 488); a conversation without
  recents is in no reply (`api_conversation.go` 218), and a later version skips it.
* `Pool`: an idle worker waits where it offers itself and hears no End, and the
  collector waits for it (`dispatcher.go` 63); a worker stopped by its own pool after
  another's loop took its offer leaves that loop waiting for ever (81).
* `Decimal`: the source's `10^n` is an exclusive or, so `RoundCash` of 3.5 with
  interval 15 is 2.4; `Mod` is wrong by a divisor when the division rounds up to an
  integer; the overflow check of `QuoRem` looks at a sum that has wrapped already.
* `Uuid`: version 2 puts no low bits of the time into the identifier, so two within
  about seven minutes are equal unless the sequence moved in between.
* Elsewhere: `base62.go` drops the digits 0 to 8, whose empty cases do not fall
  through; `pkg/redis` hands on only the first pair of `ZAdd`; the webhook's `Stop` may
  come before its `Start`.

## Fairness

* `ChannelOffset`, `Accounts`, `MessageView` and `ConversationSync`: none. A call to the
  IM server has no timeout and may never end, so the code does not promise an answer.
* `MessageExtra`: a device keeps asking, and what is tried again and again
  succeeds at last: strong fairness of receiving, of the two Redis calls and the
  query, and of delivery. Failures and lost replies stay possible for ever.
* `KeyLock`: weak fairness of the sections, of leaving the critical section and of
  the ticker of a running loop; strong fairness of `Acquire`, since Go's mutex
  hands itself to a starving waiter.
* `Pool`: weak fairness of goroutines, jobs included; strong fairness of `Take` and
  `Finish`, since a channel serves those who wait at it in the order they came.

## What is proved

`ChannelOffsetProofs`, for every set of requests, users and channels, every
`MaxSeq` and every `SharedOffset` (assumption `OffsetAssumption`: the first is a
natural number, the second gives a sequence number or none for each channel):

* `OffsetInvariant`: `IInv`, the conjunction of `TypeOK`, `OkMeansHidden`,
  `EffectsInOrder` and `WrittenStaysWritten`, is invariant. None of the three is
  inductive alone. OK is answered at the last step because the row covered the
  number since the upsert (`WrittenStaysWritten`), and the IM server is behind the
  table for the same reason. Everything rests on the lemma that no step lowers a
  row, whoever takes it.
* `TypeCorrect`, `OkHides`, `EffectsOrdered`, `WrittenKept`: its parts.
* `OffsetMonotone`: no step lowers an offset.
* `HandlerImplementsRegister`: the handler implements `OffsetRegister`. An upsert
  that raises the effective offset is `Raise`, an answer OK is `Grant` if the
  request was not granted yet, a new request may be `Forget`, and everything else
  stutters.

`KeyLockProofs`, for every finite set of goroutines and every set of keys and
memory (assumption `KeyLockAssumption`):

* `KeyLockInvariant`: an invariant that ties the table, the counters, the locked
  mutexes and the goroutines' variables together. Exclusion is not inductive by
  itself: it holds because a goroutine that needs a key holds the entry that is in
  the table, because the counter of that entry counts exactly those goroutines, so
  that Clean leaves it there, and because a mutex that is unlocked after the
  counter went down is still locked and referred to by one key only.
* `TypeCorrect`, `LocksExclude`, `CleanKeepsUsed`, `CountersCount`, `UnlockIsOwn`.
* `TableImplementsMutexes`: the key lock implements `KeyedMutex`. `Acquire` is `Enter`,
  which asks that nobody is inside: the mutex it takes is free, every goroutine inside
  with that key holds the mutex of the entry in the table, and so does the one that
  acquires it, by the invariant. `Lookup` is `Ask`, `Done` is `Leave`, and
  creating, releasing and cleaning are stutters.

`AccountsProofs`, for every set of users, groups, names and requests (assumption
`AccountsAssumption`: the default name is a group name, and the absent creator is
not a user), with every failure and any number of crashes:

* `TypeCorrect`: the types, by one lemma for each way a request goes on or ends.
* `OneName`: `OneNamePerUser`. Inductive is `NameInv`: a uid has one row (the INSERT
  is refused when there is one), the name a login carries to the IM server is that
  of a row, and so is every name told. The check-then-insert race ends well because
  the loser's INSERT fails and its request is refused, not answered.
* `OkIsDone`: `OkMeansDone`. Inductive with `NameInv` and `Placed` (a creation that
  adds its subscriber has a row), since rows, tokens and subscribers never go away
  and renaming keeps the numbers of groups.
* `ChangesAreAnnounced`: `ChangesAnnounced`, inductive together with the types: a notice
  enters `stale` with a request at its command or a refusal, and a request leaves its
  command only by sending it, by a refusal or in a crash.

`MessageExtraProofs`, for all messages, devices and goroutines, any `Limit` and any
bounds (assumption `ExtraAssumption`), with every failure and crash:

* `TypeCorrect`: the types. A cursor is the largest version of what a device
  received; that it is a version again needs the lemma that a bounded set of numbers
  has a largest one, by well-founded induction.
* `AnnouncedOnlyStored`: `AnnouncedIsStored`, inductive with `WorkIsStored`: a revoke
  that is about to send its command has a row already, whether its own INSERT made it
  or that of a revoke that was faster.
* `CacheNeverAhead`: `CacheBehindDevice`, inductive with `AskedBehindDevice`: what a sync
  in flight carries to Redis is not above the device's cursor, which only rises
  (`DevicesMoveForward`). Requests that overlap, are lost or end late carry less.

`ConversationSyncProofs`, for all devices, conversations and goroutines, with and
without `SaveAcrossDevice` (assumption `ConversationAssumption`: `NoDevice` is none):

* `NothingUnservedIsSkipped`: `SkipsOnlyServed`. `IInv` says of every copy of a version,
  the two keys of Redis, the map in memory and the devices' cursors (`Copies`, in
  `Kept`) and the variables of every goroutine between a read and a write (`Work`, by
  `Carries` for each label), that it is `Known`: it is 0 or has come, and every
  conversation up to it was in a reply or left out of one (`Done`). A step copies a
  version from one place to another, so none of these holds without the others. That
  it has come is what keeps the rest: a new message gets a version above it
  (`KnownStays`).
* `TypeCorrect`: the types.

`MessageViewProofs`, for all users, readers, messages, visibles, erased rows and times (assumption
`ViewAssumption`), with the handlers' reads in either order:

* `StaysHidden`, `NothingElseHidden`: `HiddenStaysHidden` and `HiddenForACause`. `IInv` is
  `Tables`, `Told` and `Viewing`. A cause to hide never ends (`Gone`: rows are not
  removed, offsets and the clock rise), so what a user was told is gone is still
  gone (`ToldIsTrue`). For a reply in the making, `Hides` says where the cause is for
  what it must hide: in a table not read yet, among the rows read, or at or below the
  offset read. `Owns` says that what was read was the user's own. Both go through the order of
  assignments in `IsDeleted`: what a list undoes is the erased row and nothing else.
* `TypeCorrect`: the types.

`PoolProofs`, for every finite set of jobs, pools and workers and every roster in which
a worker has one pool (assumption `PoolAssumption`):

* `OrderKept`: `JobsKeepOrder`, which is inductive with the types.
* `TypeCorrect`: the types. That `Total` stays within the number of jobs needs that no
  job is accepted twice (`AcceptedOnce`) and that `Total` counts what left the queue
  (`TotalCounts`).
* `OneLoopPerWorker`: `TakenByOne`, the offers of workers going over one channel.
* `HandedOverOnce`: no job is handed to two workers.
* `ExecutingCounts`: `ExecutingBalanced`. The channel belongs to the package, so a job of
  one pool may be given to another's worker and a single counter may go below 0. The
  sum over the pools is the jobs that a loop counted and those a worker runs or has to
  report, plus the reports received and not counted (`Balanced`), plus the nil jobs,
  which nobody counts down. The lemmas on sums over a finite set that this takes are
  proved from the definition of the fold.

`PackagesProofs`, under `PackagesAssumption`:

* `Answered`: `AnsweredOnce`, for any goroutines, identifiers and channels. `WaitInv`: a
  channel in the table is open (`Entered`); the channel that a trigger took out of it is
  open until that trigger has sent, and no other has it (`Taken`); whoever receives has
  a channel of its own where an answer can still arrive (`Waiting`); what a channel
  holds was sent to it, once (`Channels`).
* `WaitImplementsOneShot`: `Wait` implements `OneShot`, for the same. Every step opens,
  answers or ends one registration or stutters; `WaitInv` says that no other is moved,
  because a channel is in one place only.
* `Apart`: `RequestsApart`, for any requests and contexts. `HttpInv`: the contexts of the
  frames of a request are out of the pool, wrap that request and differ (`Stacked`,
  `Distinct`), and which frames a request can be in tells what its chain decided so far
  (`Fits`).
* `NoEarlyRepeats`: `NoEarlyRepeat`, under `SourceWidths`, since the layout is 60 bits
  of time and 14 of sequence. `UuidInv`: the storage is read and written under the mutex
  (`Locked`); with the sequence where it is, times go up (`Ordered`), hence no two
  results of `getStorage` agree in both (`Different`); and the sequence in an
  identifier is its start plus the moves, modulo 2^14 (`Counted`).
* `RoundsAndDivides`: `RoundedIsNearest`, for any bounds of totals, operands and places.
  It follows from three theorems about any decimal at all: `RoundsToNearest` (what
  `Round` cuts off and adds is less than half a step, and at half a step `RoundBank`
  sees the tie and goes back by one exactly if it is odd), `WholesAreNext` (`Floor`,
  `Ceil`, `Truncate`) and `DividesToNearest` (`QuoRem` divides integers, `a = b q + r`, and
  `DivRound` moves on if twice the remainder reaches `b`).
* `CashAndCubes`: `CashAndPowers`, from two theorems about any decimal.
  `CashRounds`: `RoundCash` divides by the units of an interval, which is exact, rounds,
  and multiplies; the nearest integer to the quotient is the nearest number of units.
  `CubesMultiply`: `Pow` is a recursion on an exponent that is itself a decimal and is
  halved by a division. A solution of its equation for exponents of a bounded size
  exists for each bound, two of them agree where both are defined, and together they
  are the recursive function. Instead of an induction over the bound there is a least
  bound without a solution, which one step from the bound below refutes.
* `WrittenAndRead`: `WrittenIsRead`, from four theorems about any decimal, float or amount.
  `TextsAreCanonical`: the text of a decimal has no zeros to trim, so a number has one
  text (`CanonicalUnique`), whatever the exponent it is held with, and a fixed text has
  the places asked for. `SurvivesWriting`: what is read of a text, JSON, binary or column
  equals what was written. `FloatsAreNearest`: the product and quotient of powers of 5 and
  2 in `NewFromFloatWithExponent` is the mantissa at that exponent rounded to the nearest.
  `CentsComeBack`: the float nearest to an amount of yuan is within half a unit of its
  last bit, less than half a cent as long as the cents have fewer bits than the mantissa,
  so that its text of two places is that of the cents.
* These theorems have the laws of powers as a hypothesis, `b^n` is a natural number, not
  0, and `b^(n+1) = b * b^n`: `PowersOfTen` for b = 10, `PowerLaws` for 10, 2 and 5. They
  hold of the integers, but the prover computes `^` of literal exponents only and has no
  definition of it to derive them from. What else is used of powers (sums of exponents,
  10^n = 5^n 2^n, which of two is larger) is derived from them.
* `BinaryIsRead`: a decimal comes back from its binary form, whatever the exponent.
* `TypeCorrect`, and `WaitTypeCorrect`, `HttpTypeCorrect`, `UuidTypeCorrect` for one part
  each: the types. A total is bounded by the guard of its client; that an identifier
  has version 1 and the variant of RFC 4122 is about the layout.

### Only model-checked

Every safety property that a passing run checks, invariant, action property or
refinement, is stated by a theorem. What is left to TLC:

* Liveness: `NewRowsArrive`, `EveryLockReturns`, `UnusedEntriesGo` and `EveryJobRuns`. Fairness and ENABLED are out of the prover's reach.
* The runs that expect a violation: each shows one behaviour.

## What is not modelled

Formatting and parsing of requests, payloads, streams and configuration;
refused requests where they touch nothing; the IM server beyond its answers;
replication and isolation levels of MySQL (statements are atomic, one by one, as
each handler runs them without a transaction). In extra sync a blank channel
writes a Redis field of its own before it is refused; no other request reads it.
`Queue.Close`, `TryPop` and `Wait` of the pool are called by nobody.

The wrappers of Redis, MySQL, cryptography and logging are one call to a library
each and keep no state. The webhook server decodes what it is sent and logs it;
generated code, registries filled before `main` and the start of the program have
no behaviour of their own. Avatars are files, and the user's route is an answer of
the IM server passed on. Malformed texts of decimals are an error at once and
malformed identifiers are not read by the server.

## How the project may grow

The models cover the handlers of messages, conversations, users and groups and the
packages that have state. When the code changes, these come first:

1. The handlers of `offset`, `revoke` and the two syncs, whose findings above say what a
   repair changes: `offset_reddot`, `extra_cursor` and `conv_skipped` then have to pass.
2. A timeout of the HTTP client, with which every request can be shown to end.
3. `End` of the pool once an idle worker can hear it, and the webhook's `Start` and `Stop`
   in one model with it.
