------------------------------ MODULE Accounts ------------------------------
(***************************************************************************)
(* Users and groups: the tables user and group, the IM server that knows   *)
(* the tokens and unread counts of users and the subscribers of groups,    *)
(* and the handlers that bring these into being or change them and tell    *)
(* the devices by a command.  Every request is a goroutine; a statement    *)
(* and a call to the IM server are steps, and one that fails may have been *)
(* applied or not.  Handlers query first and insert later, without a       *)
(* transaction.                                                            *)
(*                                                                         *)
(* External: how wkhttp answers a client; what the IM server keeps.        *)
(***************************************************************************)
EXTENDS Naturals

CONSTANTS Users, Groups,
          UserNames,     \* the names drawn for new users
          GroupNames,    \* the names given to groups
          DefaultName,   \* the name a new group gets
          Nobody,        \* the creator of a group that get has inserted
          Channels,      \* where users have messages to read
          Counts,        \* unread counts
          Requests       \* goroutines

ASSUME AccountsAssumption == /\ DefaultName \in GroupNames
                             /\ Nobody \notin Users

VARIABLES users,     \* rows of the table user
          groups,    \* rows of the table group
          tokens,    \* the users whose token the IM server has
          members,   \* the subscribers the IM server has of every group
          stale,     \* the notices owed to devices: of each change since the last
                     \*   command that said just that
          req,       \* the goroutines
          told,      \* history: the names answered for every user
          done,      \* history: the logins and the creations answered OK
          failed     \* history: of the notices owed, those whose request ended otherwise

vars == <<users, groups, tokens, members, stale, req, told, done, failed>>
tables == <<users, groups>>
im == <<tokens, members, stale>>
history == <<told, done, failed>>

UserOps == [op : {"login", "get"}, uid : Users]
           \cup [op : {"clearUnread"}, uid : Users, channel : Channels, unread : Counts]
GroupOps == [op : {"create"}, uid : Users, no : Groups]
            \cup [op : {"groupGet"}, no : Groups]
            \cup [op : {"updateName"}, no : Groups, name : GroupNames]
Ops == UserOps \cup GroupOps
Changes == {o \in Ops : o.op \in {"updateName", "clearUnread"}}
Granting == {o \in Ops : o.op \in {"login", "create"}}

\* What the command of a change says: which group to read again, or to which count
\* the user has set a channel.
Notice(do) == IF do.op = "updateName" THEN [no |-> do.no]
              ELSE [uid |-> do.uid, channel |-> do.channel, unread |-> do.unread]
Notices == {Notice(o) : o \in Changes}

UserRow(u) == {row \in users : row.uid = u}
GroupRow(g) == {row \in groups : row.no = g}

Idle == [at |-> "idle"]

Init == /\ users = {} /\ groups = {}
        /\ tokens = {} /\ members = [g \in Groups |-> {}] /\ stale = {}
        /\ req = [r \in Requests |-> Idle]
        /\ told = [u \in Users |-> {}] /\ done = {} /\ failed = {}

-----------------------------------------------------------------------------
(* Requests.  A request that ends leaves its goroutine; what its answer    *)
(* said is kept as history.                                                *)

At(r, at) == req[r].at = at
Goto(r, at) == req' = [req EXCEPT ![r].at = at]

\* ResponseError: the client learns that the request failed.
Refuse(r) ==
  /\ req' = [req EXCEPT ![r] = Idle]
  /\ failed' = IF req[r].do \in Changes THEN (failed \cup {Notice(req[r].do)}) \cap stale' ELSE failed
  /\ UNCHANGED <<told, done>>

\* ResponseOK; a request about a user answers with its name.
Answer(r) ==
  /\ req' = [req EXCEPT ![r] = Idle]
  /\ done' = done \cup ({req[r].do} \cap Granting)
  /\ failed' = IF req[r].do \in Changes THEN failed \cap stale' ELSE failed
  /\ UNCHANGED told

AnswerName(r, name) ==
  /\ req' = [req EXCEPT ![r] = Idle]
  /\ done' = done \cup ({req[r].do} \cap Granting)
  /\ told' = [told EXCEPT ![req[r].do.uid] = @ \cup {name}]
  /\ UNCHANGED failed

\* A change that was applied goes on to its command, and answers for it from now on.
Announce(r) ==
  /\ Goto(r, "sendCMD")
  /\ failed' = failed \ {Notice(req[r].do)}
  /\ UNCHANGED <<told, done>>

\* A request whose fields are complete; others are refused before any step.
Receive(r, do) ==
  /\ At(r, "idle")
  /\ req' = [req EXCEPT ![r] =
               [at |-> CASE do.op \in {"login", "get"} -> "queryUser"
                         [] do.op = "clearUnread" -> "setUnread"
                         [] do.op = "updateName" -> "updateName"
                         [] OTHER -> "queryGroup",
                do |-> do]]
  /\ UNCHANGED <<tables, im, history>>

\* network.Post and HandlerIMError: the IM server applied the call and the request
\* goes on, or applied it and the answer was lost, or did not apply it.
PostIM(r, Applied, Unapplied, GoOn) ==
  \/ Applied /\ (GoOn \/ Refuse(r))
  \/ Unapplied /\ Refuse(r)

-----------------------------------------------------------------------------
(* POST /v1/user/login and GET /v1/users/:uid *)

\* The user has a row with this name: login goes on to the IM server.
WithName(r, name) ==
  \/ /\ req[r].do.op = "login"
     /\ req' = [req EXCEPT ![r] = [at |-> "postToken", do |-> @.do, name |-> name]]
     /\ UNCHANGED history
  \/ req[r].do.op = "get" /\ AnswerName(r, name)

QueryUser(r) ==
  /\ At(r, "queryUser")
  /\ \/ UserRow(req[r].do.uid) = {} /\ Goto(r, "insertUser") /\ UNCHANGED history
     \/ \E row \in UserRow(req[r].do.uid) : WithName(r, row.name)
     \/ Refuse(r)
  /\ UNCHANGED <<tables, im>>

\* Variant with a bug: the table has no unique index.
InsertUserTwice(r) ==
  /\ At(r, "insertUser")
  /\ \E name \in UserNames :
       \/ /\ users' = users \cup {[uid |-> req[r].do.uid, name |-> name]}
          /\ WithName(r, name) \/ Refuse(r)
       \/ UNCHANGED users /\ Refuse(r)
  /\ UNCHANGED <<groups, im>>

\* The INSERT of a row with a name drawn at random, which the unique index on uid
\* refuses when another request was first.
InsertUser(r) ==
  /\ At(r, "insertUser")
  /\ \E name \in UserNames :
       \/ /\ UserRow(req[r].do.uid) = {}
          /\ users' = users \cup {[uid |-> req[r].do.uid, name |-> name]}
          /\ WithName(r, name) \/ Refuse(r)
       \/ UNCHANGED users /\ Refuse(r)
  /\ UNCHANGED <<groups, im>>

\* Variant with a bug: the answer of the IM server is not looked at.
PostTokenUnchecked(r) ==
  /\ At(r, "postToken")
  /\ tokens' = tokens \cup {req[r].do.uid} \/ UNCHANGED tokens
  /\ AnswerName(r, req[r].name)
  /\ UNCHANGED <<tables, members, stale>>

\* POST /user/token at the IM server, and its answer read and parsed.
PostToken(r) ==
  /\ At(r, "postToken")
  /\ PostIM(r, tokens' = tokens \cup {req[r].do.uid}, UNCHANGED tokens, AnswerName(r, req[r].name))
  /\ UNCHANGED <<tables, members, stale>>

-----------------------------------------------------------------------------
(* POST /v1/group/create, GET and PUT /v1/groups/:group_no *)

\* The group has a row: create goes on to the IM server.
WithGroup(r) ==
  \/ req[r].do.op = "create" /\ Goto(r, "addSubscriber") /\ UNCHANGED history
  \/ req[r].do.op = "groupGet" /\ Answer(r)

QueryGroup(r) ==
  /\ At(r, "queryGroup")
  /\ \/ GroupRow(req[r].do.no) = {} /\ Goto(r, "insertGroup") /\ UNCHANGED history
     \/ GroupRow(req[r].do.no) # {} /\ WithGroup(r)
     \/ Refuse(r)
  /\ UNCHANGED <<tables, im>>

\* The INSERT, with the user who asks as creator, or nobody if it is a get.
InsertGroup(r) ==
  LET do == req[r].do
      creator == IF do.op = "create" THEN do.uid ELSE Nobody
  IN  /\ At(r, "insertGroup")
      /\ \/ /\ GroupRow(do.no) = {}
            /\ groups' = groups \cup {[no |-> do.no, name |-> DefaultName, creator |-> creator]}
            /\ WithGroup(r) \/ Refuse(r)
         \/ UNCHANGED groups /\ Refuse(r)
      /\ UNCHANGED <<users, im>>

\* POST /channel/subscriber_add, without a reset: subscribers are added.
AddSubscriber(r) ==
  /\ At(r, "addSubscriber")
  /\ PostIM(r, members' = [members EXCEPT ![req[r].do.no] = @ \cup {req[r].do.uid}],
            UNCHANGED members, Answer(r))
  /\ UNCHANGED <<tables, tokens, stale>>

\* Variant with a bug: the parameters of the UPDATE are swapped.
RenamedSwapped(g, name) == {IF row.no = g THEN [row EXCEPT !.name = g] ELSE row : row \in groups}
Renamed(g, name) == {IF row.no = g THEN [row EXCEPT !.name = name] ELSE row : row \in groups}

\* The UPDATE, which succeeds also when there is no such row.
UpdateName(r) ==
  LET do == req[r].do
      Apply == /\ groups' = Renamed(do.no, do.name)
               /\ stale' = IF groups' # groups THEN stale \cup {Notice(do)} ELSE stale
  IN  /\ At(r, "updateName")
      /\ \/ Apply /\ (Announce(r) \/ Refuse(r))
         \/ UNCHANGED <<groups, stale>> /\ Refuse(r)
      /\ UNCHANGED <<users, tokens, members>>

-----------------------------------------------------------------------------
(* PUT /v1/conversation/clearUnread, and the commands                      *)

\* The count of one channel of the user is set at the IM server.
SetUnread(r) ==
  /\ At(r, "setUnread")
  /\ PostIM(r, stale' = stale \cup {Notice(req[r].do)}, UNCHANGED stale, Announce(r))
  /\ UNCHANGED <<tables, tokens, members>>

\* Variant with a bug: the error of base.SendCMD is not looked at.
SendCMDUnchecked(r) ==
  /\ At(r, "sendCMD")
  /\ stale' = stale \ {Notice(req[r].do)} \/ UNCHANGED stale
  /\ Answer(r)
  /\ UNCHANGED <<tables, tokens, members>>

\* base.SendCMD: the devices of the group or of the user learn what the command
\* says, and nothing else.
SendCMD(r) ==
  /\ At(r, "sendCMD")
  /\ PostIM(r, stale' = stale \ {Notice(req[r].do)}, UNCHANGED stale, Answer(r))
  /\ UNCHANGED <<tables, tokens, members>>

-----------------------------------------------------------------------------

Serve(r) == \/ QueryUser(r) \/ InsertUser(r) \/ PostToken(r)
            \/ QueryGroup(r) \/ InsertGroup(r) \/ AddSubscriber(r)
            \/ UpdateName(r) \/ SetUnread(r) \/ SendCMD(r)

\* The server dies with its requests; the tables and the IM server keep theirs.
Crash ==
  /\ req' = [r \in Requests |-> Idle]
  /\ failed' = failed \cup (stale \cap {Notice(req[r].do) : r \in {q \in Requests : At(q, "sendCMD")}})
  /\ UNCHANGED <<tables, im, told, done>>

Next == \/ Crash
        \/ \E r \in Requests : Serve(r)
        \/ \E r \in Requests, do \in Ops : Receive(r, do)

Spec == Init /\ [][Next]_vars

-----------------------------------------------------------------------------
(* Properties. *)

ReqStates ==
  {Idle} \cup [at : {"queryUser", "insertUser"}, do : {o \in UserOps : o.op # "clearUnread"}]
         \cup [at : {"postToken"}, do : {o \in UserOps : o.op = "login"}, name : UserNames]
         \cup [at : {"queryGroup", "insertGroup"}, do : {o \in GroupOps : o.op # "updateName"}]
         \cup [at : {"addSubscriber"}, do : {o \in GroupOps : o.op = "create"}]
         \cup [at : {"updateName"}, do : {o \in Changes : o.op = "updateName"}]
         \cup [at : {"setUnread"}, do : {o \in Changes : o.op = "clearUnread"}]
         \cup [at : {"sendCMD"}, do : Changes]

TypeOK ==
  /\ users \in SUBSET [uid : Users, name : UserNames]
  /\ groups \in SUBSET [no : Groups, name : GroupNames, creator : Users \cup {Nobody}]
  /\ tokens \in SUBSET Users
  /\ members \in [Groups -> SUBSET Users]
  /\ stale \in SUBSET Notices
  /\ req \in [Requests -> ReqStates]
  /\ told \in [Users -> SUBSET UserNames]
  /\ done \in SUBSET Granting
  /\ failed \in SUBSET stale

\* Every answer about a user gives the name of its one row, however many requests
\* found no row and drew a name of their own.
OneNamePerUser ==
  \A u \in Users : \A name \in told[u] : UserRow(u) = {[uid |-> u, name |-> name]}

\* OK means done: who logged in has a row, and a token at the IM server; the group
\* that was created has a row and the user who asked among its subscribers,
\* whichever request inserted the row.  And the IM server is told of nobody and
\* nothing without a row, so that what it delivers can be shown.
OkMeansDone ==
  /\ \A u \in Users : [op |-> "login", uid |-> u] \in done => u \in tokens
  /\ \A u \in tokens : UserRow(u) # {}
  /\ \A u \in Users, g \in Groups :
       [op |-> "create", uid |-> u, no |-> g] \in done => u \in members[g]
  /\ \A g \in Groups : members[g] # {} => GroupRow(g) # {}

\* Each rename and each count set is announced by a command that says just that,
\* or is about to be, or its client was told of a failure or lost in a crash; the
\* command of another channel or of another count does not stand for it.
ChangesAnnounced ==
  \A x \in stale : x \in failed \/ \E r \in Requests : At(r, "sendCMD") /\ Notice(req[r].do) = x
=============================================================================
