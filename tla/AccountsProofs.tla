--------------------------- MODULE AccountsProofs ---------------------------
(***************************************************************************)
(* The safety of logins, groups and changes for any sets of users, groups, *)
(* names and requests, with every failure and crash of the model.          *)
(***************************************************************************)
EXTENDS Accounts, TLAPS

\* What a request carries, by what it asks for.
LEMMA OpShape ==
  ASSUME NEW do \in Ops
  PROVE  /\ do.op \in {"login", "get", "clearUnread", "create", "groupGet", "updateName"}
         /\ do.op \in {"login", "get", "clearUnread"} <=> do \in UserOps
         /\ do.op \in {"create", "groupGet", "updateName"} <=> do \in GroupOps
         /\ do \in UserOps => do.uid \in Users
         /\ do \in GroupOps => do.no \in Groups
         /\ do.op = "create" => do.uid \in Users /\ do.no \in Groups
         /\ do.op = "updateName" => do.name \in GroupNames
         /\ do.op = "clearUnread" => do.channel \in Channels /\ do.unread \in Counts
  BY DEF Ops, UserOps, GroupOps

\* What a goroutine carries, by where it is.
LEMMA StateShape ==
  ASSUME NEW s \in ReqStates
  PROVE  /\ s.at \in {"idle", "queryUser", "insertUser", "postToken", "queryGroup", "insertGroup",
                      "addSubscriber", "updateName", "setUnread", "sendCMD"}
         /\ s.at # "idle" => s.do \in Ops
         /\ s.at \in {"queryUser", "insertUser"} =>
              s \in [at : {"queryUser", "insertUser"}, do : {o \in UserOps : o.op # "clearUnread"}]
         /\ s.at = "postToken" =>
              s \in [at : {"postToken"}, do : {o \in UserOps : o.op = "login"}, name : UserNames]
         /\ s.at \in {"queryGroup", "insertGroup"} =>
              s \in [at : {"queryGroup", "insertGroup"}, do : {o \in GroupOps : o.op # "updateName"}]
         /\ s.at = "addSubscriber" =>
              s \in [at : {"addSubscriber"}, do : {o \in GroupOps : o.op = "create"}]
         /\ s.at \in {"updateName", "setUnread", "sendCMD"} =>
              s \in [at : {"updateName", "setUnread", "sendCMD"}, do : Changes]
         /\ s.at = "updateName" => s.do.op = "updateName"
         /\ s.at = "setUnread" => s.do.op = "clearUnread"
  BY DEF ReqStates, Idle, Ops, Changes

-----------------------------------------------------------------------------
(* Types.  The three ways to end a request, and the step from one label to *)
(* the next, keep the types of what they write.                            *)

ReqTyped == /\ req \in [Requests -> ReqStates]
            /\ told \in [Users -> SUBSET UserNames]
            /\ done \in SUBSET Granting
            /\ failed \in SUBSET stale

\* A request that is refused leaves what requests write well typed.
LEMMA RefuseTyped ==
  ASSUME TypeOK, NEW r \in Requests, Refuse(r), stale' = stale \/ req[r].do \in Changes
  PROVE  ReqTyped'
  BY DEF TypeOK, ReqTyped, Refuse, ReqStates

\* So does one that is answered OK,
LEMMA AnswerTyped ==
  ASSUME TypeOK, NEW r \in Requests, Answer(r), stale' = stale \/ req[r].do \in Changes
  PROVE  ReqTyped'
  BY DEF TypeOK, ReqTyped, Answer, ReqStates

\* and one that is answered with a name.
LEMMA AnswerNameTyped ==
  ASSUME TypeOK, NEW r \in Requests, NEW name \in UserNames, AnswerName(r, name),
         req[r].do \in UserOps, stale' = stale
  PROVE  ReqTyped'
  <1>1. req[r].do.uid \in Users
    BY DEF UserOps
  <1> QED
    BY <1>1 DEF TypeOK, ReqTyped, AnswerName, ReqStates

\* A request about a user that has no row goes on to the INSERT,
LEMMA ToInsertUserTyped ==
  ASSUME TypeOK, NEW r \in Requests, At(r, "queryUser"), Goto(r, "insertUser"),
         UNCHANGED <<history, stale>>
  PROVE  ReqTyped'
  <1>1. [req[r] EXCEPT !.at = "insertUser"] \in ReqStates
    <2>1. req[r] \in [at : {"queryUser", "insertUser"}, do : {o \in UserOps : o.op # "clearUnread"}]
      BY StateShape DEF TypeOK, At
    <2> QED
      BY <2>1 DEF ReqStates
  <1> QED
    BY <1>1 DEF TypeOK, ReqTyped, Goto, history

\* and so does a request about a group.
LEMMA GroupGotoTyped ==
  ASSUME TypeOK, NEW r \in Requests, At(r, "queryGroup"), Goto(r, "insertGroup"),
         UNCHANGED <<history, stale>>
  PROVE  ReqTyped'
  <1>1. [req[r] EXCEPT !.at = "insertGroup"] \in ReqStates
    <2>1. req[r] \in [at : {"queryGroup", "insertGroup"}, do : {o \in GroupOps : o.op # "updateName"}]
      BY StateShape DEF TypeOK, At
    <2> QED
      BY <2>1 DEF ReqStates
  <1> QED
    BY <1>1 DEF TypeOK, ReqTyped, Goto, history

\* With a row, a login carries the name of it to the IM server.
LEMMA WithNameTyped ==
  ASSUME TypeOK, NEW r \in Requests, NEW name \in UserNames, WithName(r, name),
         At(r, "queryUser") \/ At(r, "insertUser"), stale' = stale
  PROVE  ReqTyped'
  <1>1. req[r].do \in {o \in UserOps : o.op # "clearUnread"}
    BY StateShape DEF TypeOK, At
  <1>2. CASE req[r].do.op = "get"
    BY <1>1, <1>2, AnswerNameTyped DEF WithName
  <1>3. CASE req[r].do.op = "login"
    <2>1. [at |-> "postToken", do |-> req[r].do, name |-> name] \in ReqStates
      BY <1>1, <1>3 DEF ReqStates
    <2> QED
      BY <2>1, <1>3 DEF WithName, TypeOK, ReqTyped, history
  <1> QED
    BY <1>1, <1>2, <1>3 DEF UserOps

\* With a row, a creation goes on to the IM server.
LEMMA WithGroupTyped ==
  ASSUME TypeOK, NEW r \in Requests, WithGroup(r),
         At(r, "queryGroup") \/ At(r, "insertGroup"), stale' = stale
  PROVE  ReqTyped'
  <1>1. req[r] \in [at : {"queryGroup", "insertGroup"}, do : {o \in GroupOps : o.op # "updateName"}]
    BY StateShape DEF TypeOK, At
  <1>2. CASE req[r].do.op = "groupGet"
    BY <1>2, AnswerTyped DEF WithGroup
  <1>3. CASE req[r].do.op = "create"
    <2>1. [req[r] EXCEPT !.at = "addSubscriber"] \in ReqStates
      BY <1>1, <1>3 DEF ReqStates
    <2> QED
      BY <2>1, <1>3 DEF WithGroup, Goto, TypeOK, ReqTyped, history
  <1> QED
    BY <1>2, <1>3 DEF WithGroup

\* A change that was applied goes on to the command.
LEMMA ToSendCMDTyped ==
  ASSUME TypeOK, NEW r \in Requests, At(r, "updateName") \/ At(r, "setUnread"), Announce(r),
         stale \subseteq stale'
  PROVE  ReqTyped'
  <1>1. [req[r] EXCEPT !.at = "sendCMD"] \in ReqStates
    <2>1. req[r] \in [at : {"updateName", "setUnread", "sendCMD"}, do : Changes]
      BY StateShape DEF TypeOK, At
    <2> QED
      BY <2>1 DEF ReqStates
  <1> QED
    BY <1>1 DEF TypeOK, ReqTyped, Announce, Goto

\* A change has its notice.
LEMMA ChangeShape ==
  ASSUME NEW do \in Changes
  PROVE  /\ do.op \in {"updateName", "clearUnread"}
         /\ Notice(do) \in Notices
         /\ do.op = "updateName" => do.no \in Groups /\ do.name \in GroupNames
  BY DEF Changes, Ops, UserOps, GroupOps, Notices

\* Every step keeps the types, so that they hold whatever requests do.
LEMMA TypeStep ==
  TypeOK /\ [Next]_vars => TypeOK'
  <1> SUFFICES ASSUME TypeOK, [Next]_vars PROVE TypeOK'
    OBVIOUS
  <1> USE AccountsAssumption
  <1>1. ASSUME ReqTyped', users' \in SUBSET [uid : Users, name : UserNames],
               groups' \in SUBSET [no : Groups, name : GroupNames, creator : Users \cup {Nobody}],
               tokens' \in SUBSET Users, members' \in [Groups -> SUBSET Users],
               stale' \in SUBSET Notices
        PROVE  TypeOK'
    BY <1>1 DEF ReqTyped, TypeOK
  <1>2. CASE Crash
    BY <1>2 DEF Crash, TypeOK, ReqStates, tables, im
  <1>3. ASSUME NEW r \in Requests, NEW do \in Ops, Receive(r, do) PROVE TypeOK'
    <2> DEFINE at == CASE do.op \in {"login", "get"} -> "queryUser"
                       [] do.op = "clearUnread" -> "setUnread"
                       [] do.op = "updateName" -> "updateName"
                       [] OTHER -> "queryGroup"
    <2>1. [at |-> at, do |-> do] \in ReqStates
      <3>1. CASE do.op \in {"login", "get"}
        BY <3>1, OpShape DEF ReqStates
      <3>2. CASE do.op = "clearUnread"
        BY <3>2, OpShape DEF ReqStates, Changes
      <3>3. CASE do.op = "updateName"
        BY <3>3, OpShape DEF ReqStates, Changes
      <3>4. CASE do.op \in {"create", "groupGet"}
        BY <3>4, OpShape DEF ReqStates
      <3> QED
        BY <3>1, <3>2, <3>3, <3>4, OpShape
    <2> QED
      BY <2>1, <1>3 DEF Receive, TypeOK, tables, im, history
  <1>4. ASSUME NEW r \in Requests, QueryUser(r) PROVE TypeOK'
    <2>1. ReqTyped'
      <3>1. CASE Goto(r, "insertUser") /\ UNCHANGED history
        BY <1>4, <3>1, ToInsertUserTyped DEF QueryUser, im
      <3>2. ASSUME NEW row \in UserRow(req[r].do.uid), WithName(r, row.name) PROVE ReqTyped'
        <4>1. row.name \in UserNames
          BY DEF TypeOK, UserRow
        <4> QED
          BY <1>4, <3>2, <4>1, WithNameTyped DEF QueryUser, im
      <3>3. CASE Refuse(r)
        BY <1>4, <3>3, RefuseTyped DEF QueryUser, im
      <3> QED
        BY <1>4, <3>1, <3>2, <3>3 DEF QueryUser
    <2> QED
      BY <1>1, <1>4, <2>1 DEF QueryUser, tables, im, TypeOK
  <1>5. ASSUME NEW r \in Requests, InsertUser(r) PROVE TypeOK'
    <2>1. PICK name \in UserNames :
            \/ /\ users' = users \cup {[uid |-> req[r].do.uid, name |-> name]}
               /\ WithName(r, name) \/ Refuse(r)
            \/ UNCHANGED users /\ Refuse(r)
      BY <1>5 DEF InsertUser
    <2>2. req[r].do.uid \in Users
      BY <1>5, StateShape DEF InsertUser, At, TypeOK, UserOps
    <2>3. ReqTyped'
      BY <1>5, <2>1, WithNameTyped, RefuseTyped DEF InsertUser, im
    <2> QED
      BY <1>1, <1>5, <2>1, <2>2, <2>3 DEF InsertUser, im, TypeOK
  <1>6. ASSUME NEW r \in Requests, PostToken(r) PROVE TypeOK'
    <2>1. req[r].do \in UserOps /\ req[r].do.uid \in Users /\ req[r].name \in UserNames
      BY <1>6, StateShape DEF PostToken, At, TypeOK, UserOps
    <2>2. ReqTyped'
      BY <1>6, <2>1, AnswerNameTyped, RefuseTyped DEF PostToken, PostIM
    <2> QED
      BY <1>1, <1>6, <2>1, <2>2 DEF PostToken, PostIM, tables, TypeOK
  <1>7. ASSUME NEW r \in Requests, QueryGroup(r) PROVE TypeOK'
    <2>1. ReqTyped'
      BY <1>7, GroupGotoTyped, WithGroupTyped, RefuseTyped DEF QueryGroup, im
    <2> QED
      BY <1>1, <1>7, <2>1 DEF QueryGroup, tables, im, TypeOK
  <1>8. ASSUME NEW r \in Requests, InsertGroup(r) PROVE TypeOK'
    <2>1. /\ req[r].do.no \in Groups
          /\ req[r].do.op = "create" => req[r].do.uid \in Users
      BY <1>8, StateShape DEF InsertGroup, At, TypeOK, GroupOps
    <2>2. groups' \in SUBSET [no : Groups, name : GroupNames, creator : Users \cup {Nobody}]
      BY <1>8, <2>1 DEF InsertGroup, TypeOK
    <2>3. ReqTyped'
      BY <1>8, WithGroupTyped, RefuseTyped DEF InsertGroup, im
    <2> QED
      BY <1>1, <1>8, <2>2, <2>3 DEF InsertGroup, im, TypeOK
  <1>9. ASSUME NEW r \in Requests, AddSubscriber(r) PROVE TypeOK'
    <2>1. req[r].do.no \in Groups /\ req[r].do.uid \in Users
      BY <1>9, StateShape DEF AddSubscriber, At, TypeOK, GroupOps
    <2>2. ReqTyped'
      BY <1>9, AnswerTyped, RefuseTyped DEF AddSubscriber, PostIM
    <2> QED
      BY <1>1, <1>9, <2>1, <2>2 DEF AddSubscriber, PostIM, tables, TypeOK
  <1>10. ASSUME NEW r \in Requests, UpdateName(r) PROVE TypeOK'
    <2>1. /\ req[r].do \in Changes /\ req[r].do.op = "updateName"
          /\ req[r].do.no \in Groups /\ req[r].do.name \in GroupNames
          /\ Notice(req[r].do) \in Notices
      BY <1>10, StateShape, ChangeShape DEF UpdateName, At, TypeOK
    <2>2. groups' \in SUBSET [no : Groups, name : GroupNames, creator : Users \cup {Nobody}]
      BY <1>10, <2>1 DEF UpdateName, Renamed, TypeOK
    <2>3. stale' \in SUBSET Notices /\ stale \subseteq stale'
      BY <1>10, <2>1 DEF UpdateName, TypeOK
    <2>4. ReqTyped'
      BY <1>10, <2>1, <2>3, ToSendCMDTyped, RefuseTyped DEF UpdateName
    <2> QED
      BY <1>1, <1>10, <2>2, <2>3, <2>4 DEF UpdateName, TypeOK
  <1>11. ASSUME NEW r \in Requests, SetUnread(r) PROVE TypeOK'
    <2>1. req[r].do \in Changes /\ Notice(req[r].do) \in Notices
      BY <1>11, StateShape, ChangeShape DEF SetUnread, At, TypeOK
    <2>2. stale' \in SUBSET Notices /\ stale \subseteq stale'
      BY <1>11, <2>1 DEF SetUnread, PostIM, TypeOK
    <2>3. ReqTyped'
      BY <1>11, <2>1, <2>2, ToSendCMDTyped, RefuseTyped DEF SetUnread, PostIM
    <2> QED
      BY <1>1, <1>11, <2>2, <2>3 DEF SetUnread, PostIM, tables, TypeOK
  <1>12. ASSUME NEW r \in Requests, SendCMD(r) PROVE TypeOK'
    <2>1. req[r].do \in Changes /\ Notice(req[r].do) \in Notices
      BY <1>12, StateShape, ChangeShape DEF SendCMD, At, TypeOK
    <2>2. ReqTyped'
      BY <1>12, <2>1, AnswerTyped, RefuseTyped DEF SendCMD, PostIM
    <2> QED
      BY <1>1, <1>12, <2>1, <2>2 DEF SendCMD, PostIM, tables, TypeOK
  <1>13. CASE UNCHANGED vars
    BY <1>13 DEF vars, TypeOK
  <1> QED
    BY <1>2, <1>3, <1>4, <1>5, <1>6, <1>7, <1>8, <1>9, <1>10, <1>11, <1>12, <1>13 DEF Next, Serve

\* Everywhere the type invariant of Accounts holds: a request carries at every
\* label what the rest of its handler reads, and only an unannounced change is
\* known as failed.
THEOREM TypeCorrect == Spec => []TypeOK
  <1>1. Init => TypeOK
    BY AccountsAssumption DEF Init, TypeOK, ReqStates, Idle
  <1> QED
    BY <1>1, TypeStep, PTL DEF Spec

-----------------------------------------------------------------------------
(* One name.  Rows are only added, one for every uid, and the name a login *)
(* carries past its query or INSERT is the one in the row.                 *)

OneRow == \A a, b \in users : a.uid = b.uid => a = b

RowOf(u, name) == [uid |-> u, name |-> name]

Carried == \A r \in Requests : At(r, "postToken") => RowOf(req[r].do.uid, req[r].name) \in users

Told == \A u \in Users : \A name \in told[u] : RowOf(u, name) \in users

NameInv == OneRow /\ Carried /\ Told

\* Only one goroutine steps.
Others(r) == \A q \in Requests \ {r} : req'[q] = req[q]

\* The two facts give what the run checks.
LEMMA NameGives ==
  ASSUME TypeOK, NameInv PROVE OneNamePerUser
  <1> SUFFICES ASSUME NEW u \in Users, NEW name \in told[u] PROVE UserRow(u) = {RowOf(u, name)}
    BY DEF OneNamePerUser, RowOf
  <1>1. RowOf(u, name) \in users /\ RowOf(u, name).uid = u
    BY DEF NameInv, Told, RowOf
  <1> QED
    BY <1>1 DEF UserRow, NameInv, OneRow

\* What keeps NameInv: rows stay, and what r carries or is told has a row.
LEMMA NameKept ==
  ASSUME TypeOK, NameInv, NEW r \in Requests, Others(r), users \subseteq users', OneRow',
         At(r, "postToken")' => RowOf(req'[r].do.uid, req'[r].name) \in users',
         Told'
  PROVE  NameInv'
  BY DEF NameInv, Carried, At, Others

\* A step that neither carries a name nor tells one.
LEMMA NameQuiet ==
  ASSUME TypeOK, NameInv, NEW r \in Requests, Others(r), users' = users, told' = told,
         ~At(r, "postToken")'
  PROVE  NameInv'
  BY NameKept DEF NameInv, OneRow, Told

\* Each way to end a request touches that request only.
LEMMA RefuseEnds ==
  ASSUME TypeOK, NEW r \in Requests, Refuse(r)
  PROVE  Others(r) /\ At(r, "idle")' /\ done' = done /\ told' = told
  BY DEF TypeOK, Refuse, Others, At, Idle

\* An OK is recorded for a login or a creation.
LEMMA AnswerEnds ==
  ASSUME TypeOK, NEW r \in Requests, Answer(r)
  PROVE  Others(r) /\ At(r, "idle")' /\ told' = told /\ done' = done \cup ({req[r].do} \cap Granting)
  BY DEF TypeOK, Answer, Others, At, Idle

\* A name is the answer of a login or of a get.
LEMMA AnswerNameEnds ==
  ASSUME TypeOK, NEW r \in Requests, NEW name, AnswerName(r, name)
  PROVE  Others(r) /\ At(r, "idle")' /\ failed' = failed /\ done' = done \cup ({req[r].do} \cap Granting)
  BY DEF TypeOK, AnswerName, Others, At, Idle

\* A request that goes on keeps what it was asked.
LEMMA GotoGoes ==
  ASSUME TypeOK, NEW r \in Requests, NEW at, Goto(r, at), ~At(r, "idle")
  PROVE  Others(r) /\ At(r, at)' /\ req'[r].do = req[r].do
  <1>1. req[r] \in ReqStates /\ req' = [req EXCEPT ![r] = [req[r] EXCEPT !.at = at]]
    BY DEF TypeOK, Goto
  <1>2. [req[r] EXCEPT !.at = at].at = at /\ [req[r] EXCEPT !.at = at].do = req[r].do
    BY <1>1 DEF ReqStates, Idle, At
  <1> QED
    BY <1>1, <1>2 DEF TypeOK, Others, At

\* A name that has a row may be told.
LEMMA NameTold ==
  ASSUME TypeOK, NameInv, NEW r \in Requests, NEW name, AnswerName(r, name), req[r].do.uid \in Users,
         users \subseteq users', RowOf(req[r].do.uid, name) \in users'
  PROVE  Told'
  <1> SUFFICES ASSUME NEW u \in Users, NEW n \in told'[u] PROVE RowOf(u, n) \in users'
    BY DEF Told, RowOf
  <1>1. n \in told[u] \/ (u = req[r].do.uid /\ n = name)
    BY DEF AnswerName, TypeOK
  <1>2. n \in told[u] => RowOf(u, n) \in users
    BY DEF NameInv, Told
  <1> QED
    BY <1>1, <1>2

\* A request that has found or inserted the row of its user goes on.
LEMMA NameWithName ==
  ASSUME TypeOK, NameInv, NEW r \in Requests, NEW name \in UserNames, WithName(r, name),
         req[r].do.uid \in Users, users \subseteq users', OneRow', RowOf(req[r].do.uid, name) \in users'
  PROVE  NameInv'
  <1>1. CASE req[r].do.op = "login" /\ UNCHANGED history
                /\ req' = [req EXCEPT ![r] = [at |-> "postToken", do |-> @.do, name |-> name]]
    <2>1. Others(r) /\ req'[r] = [at |-> "postToken", do |-> req[r].do, name |-> name]
      BY <1>1 DEF TypeOK, Others
    <2>2. Told'
      BY <1>1 DEF NameInv, Told, history
    <2> QED
      BY <2>1, <2>2, NameKept
  <1>2. CASE AnswerName(r, name)
    <2>1. Told'
      BY <1>2, NameTold
    <2> QED
      BY <1>2, <2>1, AnswerNameEnds, NameKept DEF At
  <1> QED
    BY <1>1, <1>2 DEF WithName

\* No step gives a user a second row or tells a name without one.
LEMMA NameStep ==
  TypeOK /\ NameInv /\ [Next]_vars => NameInv'
  <1> SUFFICES ASSUME TypeOK, NameInv, [Next]_vars PROVE NameInv'
    OBVIOUS
  <1>1. CASE Crash
    BY <1>1 DEF Crash, NameInv, OneRow, Carried, Told, At, Idle, tables
  <1>2. ASSUME NEW r \in Requests, NEW do \in Ops, Receive(r, do) PROVE NameInv'
    <2>1. Others(r) /\ users' = users /\ told' = told
      BY <1>2 DEF Receive, TypeOK, Others, tables, history
    <2>2. req'[r].at \in {"queryUser", "setUnread", "updateName", "queryGroup"}
      <3> DEFINE at == CASE do.op \in {"login", "get"} -> "queryUser"
                         [] do.op = "clearUnread" -> "setUnread"
                         [] do.op = "updateName" -> "updateName"
                         [] OTHER -> "queryGroup"
      <3>1. req'[r] = [at |-> at, do |-> do]
        BY <1>2 DEF Receive, TypeOK
      <3>2. at \in {"queryUser", "setUnread", "updateName", "queryGroup"}
        OBVIOUS
      <3> QED
        BY <3>1, <3>2
    <2> QED
      BY <2>1, <2>2, NameQuiet DEF At
  <1>3. ASSUME NEW r \in Requests, QueryUser(r) PROVE NameInv'
    <2>1. users' = users /\ OneRow' /\ ~At(r, "idle")
      BY <1>3 DEF QueryUser, tables, NameInv, OneRow, At
    <2>2. CASE Goto(r, "insertUser") /\ UNCHANGED history
      BY <2>1, <2>2, GotoGoes, NameQuiet DEF At, history
    <2>3. ASSUME NEW row \in UserRow(req[r].do.uid), WithName(r, row.name) PROVE NameInv'
      <3>1. row.name \in UserNames /\ req[r].do.uid \in Users /\ row = RowOf(req[r].do.uid, row.name)
        BY DEF TypeOK, UserRow, RowOf
      <3> QED
        BY <2>1, <2>3, <3>1, NameWithName DEF UserRow
    <2>4. CASE Refuse(r)
      BY <2>1, <2>4, RefuseEnds, NameQuiet DEF At
    <2> QED
      BY <1>3, <2>2, <2>3, <2>4 DEF QueryUser
  <1>4. ASSUME NEW r \in Requests, InsertUser(r) PROVE NameInv'
    <2>1. req[r].do.uid \in Users
      BY <1>4, StateShape DEF InsertUser, At, TypeOK, UserOps
    <2>2. PICK name \in UserNames :
            \/ /\ UserRow(req[r].do.uid) = {}
               /\ users' = users \cup {RowOf(req[r].do.uid, name)}
               /\ WithName(r, name) \/ Refuse(r)
            \/ UNCHANGED users /\ Refuse(r)
      BY <1>4 DEF InsertUser, RowOf
    <2>3. users \subseteq users' /\ OneRow'
      BY <2>2 DEF NameInv, OneRow, UserRow, RowOf
    <2>4. CASE WithName(r, name) /\ RowOf(req[r].do.uid, name) \in users'
      BY <2>1, <2>3, <2>4, NameWithName
    <2>5. CASE Refuse(r)
      <3>1. Told'
        BY <2>3, <2>5, RefuseEnds DEF NameInv, Told
      <3> QED
        BY <2>3, <2>5, <3>1, RefuseEnds, NameKept DEF At
    <2> QED
      BY <2>2, <2>4, <2>5
  <1>5. ASSUME NEW r \in Requests, PostToken(r) PROVE NameInv'
    <2>1. /\ users' = users /\ OneRow' /\ req[r].do.uid \in Users
          /\ RowOf(req[r].do.uid, req[r].name) \in users
      BY <1>5, StateShape DEF PostToken, At, TypeOK, UserOps, tables, NameInv, OneRow, Carried
    <2>2. CASE AnswerName(r, req[r].name)
      <3>1. Told'
        BY <2>1, <2>2, NameTold
      <3> QED
        BY <2>1, <2>2, <3>1, AnswerNameEnds, NameKept DEF At
    <2>3. CASE Refuse(r)
      BY <2>1, <2>3, RefuseEnds, NameQuiet DEF At
    <2> QED
      BY <1>5, <2>2, <2>3 DEF PostToken, PostIM
  <1>6. ASSUME NEW r \in Requests, NEW at \in {"insertGroup", "addSubscriber"},
               ~At(r, "idle"), users' = users,
               (Goto(r, at) /\ UNCHANGED history) \/ Answer(r) \/ Refuse(r)
        PROVE  NameInv'
    BY <1>6, GotoGoes, AnswerEnds, RefuseEnds, NameQuiet DEF At, history
  <1>9. ASSUME NEW r \in Requests, ~At(r, "idle"), users' = users, Announce(r)
        PROVE  NameInv'
    BY <1>9, GotoGoes, NameQuiet DEF At, Announce
  <1>7. ASSUME NEW r \in Requests,
               QueryGroup(r) \/ InsertGroup(r) \/ AddSubscriber(r) \/ UpdateName(r) \/ SetUnread(r)
                 \/ SendCMD(r)
        PROVE  NameInv'
    <2>1. ~At(r, "idle") /\ users' = users
      BY <1>7 DEF QueryGroup, InsertGroup, AddSubscriber, UpdateName, SetUnread, SendCMD, tables, At
    <2>2. \/ \E at \in {"insertGroup", "addSubscriber"} :
                (Goto(r, at) /\ UNCHANGED history) \/ Answer(r) \/ Refuse(r)
          \/ Announce(r)
      BY <1>7 DEF QueryGroup, InsertGroup, AddSubscriber, UpdateName, SetUnread, SendCMD, WithGroup, PostIM
    <2> QED
      BY <1>6, <1>9, <2>1, <2>2
  <1>8. CASE UNCHANGED vars
    BY <1>8 DEF vars, NameInv, OneRow, Carried, Told, At
  <1> QED
    BY <1>1, <1>2, <1>3, <1>4, <1>5, <1>7, <1>8 DEF Next, Serve

\* Everyone who asks for a user is told the name of its one row, although the
\* query and the INSERT are not in one transaction and the first of several
\* requests wins.
THEOREM OneName == Spec => []OneNamePerUser
  <1>1. Init => NameInv
    BY DEF Init, NameInv, OneRow, Carried, Told, At, Idle
  <1>2. TypeOK /\ NameInv => OneNamePerUser
    BY NameGives
  <1> QED
    BY <1>1, <1>2, NameStep, TypeCorrect, PTL DEF Spec

-----------------------------------------------------------------------------
(* OK means done.  A creation reaches the IM server only with a row, a     *)
(* login only with a name, and no row, token or subscriber goes away.      *)

Placed == \A r \in Requests : At(r, "addSubscriber") => GroupRow(req[r].do.no) # {}

OkInv == OkMeansDone /\ Placed

\* An action: every group keeps its row, renamed or not.
GroupRowsStay == \A g \in Groups : GroupRow(g) # {} => GroupRow(g)' # {}

\* What keeps OkInv: the IM server learns of those with a row, and what is
\* newly answered OK is at the IM server.
LEMMA OkKept ==
  ASSUME TypeOK, TypeOK', OkInv, NEW r \in Requests, Others(r), GroupRowsStay, users \subseteq users',
         tokens \subseteq tokens', \A u \in tokens' : u \in tokens \/ UserRow(u) # {},
         \A g \in Groups : members[g] \subseteq members'[g],
         \A g \in Groups : members'[g] = members[g] \/ GroupRow(g) # {},
         \A u \in Users : [op |-> "login", uid |-> u] \in done' \ done => u \in tokens',
         \A u \in Users, g \in Groups :
            [op |-> "create", uid |-> u, no |-> g] \in done' \ done => u \in members'[g],
         (At(r, "addSubscriber") => GroupRow(req[r].do.no) # {})'
  PROVE  OkInv'
  <1>1. \A u \in Users : UserRow(u) # {} => UserRow(u)' # {}
    BY DEF UserRow
  <1>2. OkMeansDone'
    <2>1. \A u \in Users : [op |-> "login", uid |-> u] \in done' => u \in tokens'
      BY DEF OkInv, OkMeansDone
    <2>2. \A u \in tokens' : UserRow(u)' # {}
      BY <1>1 DEF OkInv, OkMeansDone, TypeOK
    <2>3. \A u \in Users, g \in Groups :
            [op |-> "create", uid |-> u, no |-> g] \in done' => u \in members'[g]
      BY DEF OkInv, OkMeansDone
    <2>4. \A g \in Groups : members'[g] # {} => GroupRow(g)' # {}
      BY DEF OkInv, OkMeansDone, GroupRowsStay
    <2> QED
      BY <2>1, <2>2, <2>3, <2>4 DEF OkMeansDone
  <1>3. Placed'
    <2> SUFFICES ASSUME NEW q \in Requests, At(q, "addSubscriber")'
                 PROVE  (GroupRow(req[q].do.no) # {})'
      BY DEF Placed, GroupRow
    <2>1. CASE q = r
      BY <2>1 DEF GroupRow
    <2>2. CASE q # r
      <3>1. At(q, "addSubscriber") /\ req'[q] = req[q]
        BY <2>2 DEF Others, At
      <3>2. req[q].do.no \in Groups
        BY <3>1, StateShape DEF TypeOK, At, GroupOps
      <3>3. GroupRow(req[q].do.no) # {}
        BY <3>1 DEF OkInv, Placed
      <3> QED
        BY <3>1, <3>2, <3>3 DEF GroupRowsStay, GroupRow
    <2> QED
      BY <2>1, <2>2
  <1> QED
    BY <1>2, <1>3 DEF OkInv

\* A step that answers no login and no creation and calls no IM server.
LEMMA OkQuiet ==
  ASSUME TypeOK, TypeOK', OkInv, NEW r \in Requests, Others(r), GroupRowsStay, users \subseteq users',
         UNCHANGED <<tokens, members, done>>,
         (At(r, "addSubscriber") => GroupRow(req[r].do.no) # {})'
  PROVE  OkInv'
  BY OkKept

\* Rows that are only added keep every group.
LEMMA GroupsKept == ASSUME groups \subseteq groups' PROVE GroupRowsStay
  BY DEF GroupRowsStay, GroupRow

\* Renaming keeps the numbers of the rows.
LEMMA RenamedKept ==
  ASSUME TypeOK, NEW g \in Groups, NEW name \in GroupNames, groups' = Renamed(g, name)
  PROVE  GroupRowsStay
  <1> SUFFICES ASSUME NEW h \in Groups, GroupRow(h) # {} PROVE GroupRow(h)' # {}
    BY DEF GroupRowsStay
  <1>1. PICK row \in groups : row.no = h
    BY DEF GroupRow
  <1> DEFINE renamed == IF row.no = g THEN [row EXCEPT !.name = name] ELSE row
  <1>2. row \in [no : Groups, name : GroupNames, creator : Users \cup {Nobody}]
    BY DEF TypeOK
  <1>3. renamed \in groups' /\ renamed.no = h
    BY <1>1, <1>2 DEF Renamed
  <1> QED
    BY <1>3 DEF GroupRow

\* The two steps that go on with a row answer no login and no creation.
LEMMA WithNameGoesOn ==
  ASSUME TypeOK, NEW r \in Requests, NEW name, WithName(r, name)
  PROVE  Others(r) /\ done' = done /\ failed' = failed /\ At(r, "addSubscriber")' = FALSE
  <1>1. CASE /\ req' = [req EXCEPT ![r] = [at |-> "postToken", do |-> @.do, name |-> name]]
             /\ UNCHANGED history
    BY <1>1 DEF TypeOK, Others, At, history
  <1>2. CASE req[r].do.op = "get" /\ AnswerName(r, name)
    BY <1>2, AnswerNameEnds DEF At, Granting
  <1> QED
    BY <1>1, <1>2 DEF WithName

\* With a row of the group: a creation keeps its group in hand.
LEMMA WithGroupGoesOn ==
  ASSUME TypeOK, NEW r \in Requests, WithGroup(r), ~At(r, "idle")
  PROVE  /\ Others(r) /\ done' = done
         /\ At(r, "addSubscriber")' => req'[r].do = req[r].do
  <1>1. CASE Goto(r, "addSubscriber") /\ UNCHANGED history
    BY <1>1, GotoGoes DEF history
  <1>2. CASE req[r].do.op = "groupGet" /\ Answer(r)
    BY <1>2, AnswerEnds DEF At, Granting
  <1> QED
    BY <1>1, <1>2 DEF WithGroup

\* No step answers OK for what is not done.
LEMMA OkStep ==
  TypeOK /\ NameInv /\ OkInv /\ [Next]_vars => OkInv'
  <1> SUFFICES ASSUME TypeOK, NameInv, OkInv, [Next]_vars PROVE OkInv'
    OBVIOUS
  <1>0. TypeOK'
    BY TypeStep
  <1>1. CASE Crash
    BY <1>1 DEF Crash, OkInv, OkMeansDone, Placed, UserRow, GroupRow, At, Idle, tables, im
  <1>2. ASSUME NEW r \in Requests, NEW do \in Ops, Receive(r, do) PROVE OkInv'
    <2> DEFINE at == CASE do.op \in {"login", "get"} -> "queryUser"
                       [] do.op = "clearUnread" -> "setUnread"
                       [] do.op = "updateName" -> "updateName"
                       [] OTHER -> "queryGroup"
    <2>1. Others(r) /\ UNCHANGED <<users, groups, tokens, members, done>>
      BY <1>2 DEF Receive, TypeOK, Others, tables, im, history
    <2>2. req'[r] = [at |-> at, do |-> do]
      BY <1>2 DEF Receive, TypeOK
    <2>3. at # "addSubscriber"
      OBVIOUS
    <2>4. ~At(r, "addSubscriber")'
      BY <2>2, <2>3 DEF At
    <2> QED
      BY <1>0, <2>1, <2>4, GroupsKept, OkQuiet
  <1>3. ASSUME NEW r \in Requests, QueryUser(r) \/ InsertUser(r) PROVE OkInv'
    <2>1. ~At(r, "idle") /\ users \subseteq users' /\ UNCHANGED <<groups, tokens, members>>
      BY <1>3 DEF QueryUser, InsertUser, At, tables, im
    <2>2. Others(r) /\ done' = done /\ ~At(r, "addSubscriber")'
      <3>1. CASE Goto(r, "insertUser") /\ UNCHANGED history
        BY <2>1, <3>1, GotoGoes DEF At, history
      <3>2. CASE Refuse(r)
        BY <3>2, RefuseEnds DEF At
      <3>3. CASE \E name : WithName(r, name)
        BY <3>3, WithNameGoesOn
      <3> QED
        BY <1>3, <3>1, <3>2, <3>3 DEF QueryUser, InsertUser
    <2> QED
      BY <1>0, <2>1, <2>2, GroupsKept, OkQuiet
  <1>4. ASSUME NEW r \in Requests, PostToken(r) PROVE OkInv'
    <2>1. /\ UNCHANGED <<users, groups, members>> /\ UserRow(req[r].do.uid) # {}
          /\ req[r].do \in UserOps /\ req[r].do.op = "login"
      <3>1. RowOf(req[r].do.uid, req[r].name) \in users
        BY <1>4 DEF PostToken, NameInv, Carried
      <3>2. UserRow(req[r].do.uid) # {}
        BY <3>1 DEF UserRow, RowOf
      <3> QED
        BY <1>4, <3>2, StateShape DEF PostToken, At, TypeOK, tables
    <2>2. CASE tokens' = tokens \cup {req[r].do.uid} /\ AnswerName(r, req[r].name)
      <3>1. Others(r) /\ At(r, "idle")' /\ done' = done \cup ({req[r].do} \cap Granting)
        BY <2>2, AnswerNameEnds
      <3>2. \A u \in Users : [op |-> "login", uid |-> u] \in done' \ done => u \in tokens'
        BY <2>2, <3>1
      <3>3. \A u \in Users, g \in Groups : [op |-> "create", uid |-> u, no |-> g] \notin done' \ done
        BY <2>1, <3>1 DEF UserOps
      <3> QED
        BY <1>0, <2>1, <2>2, <3>1, <3>2, <3>3, GroupsKept, OkKept DEF At
    <2>3. CASE (tokens' = tokens \/ tokens' = tokens \cup {req[r].do.uid}) /\ Refuse(r)
      BY <1>0, <2>1, <2>3, RefuseEnds, GroupsKept, OkKept DEF At
    <2> QED
      BY <1>4, <2>2, <2>3 DEF PostToken, PostIM
  <1>5. ASSUME NEW r \in Requests, QueryGroup(r) \/ InsertGroup(r) PROVE OkInv'
    <2>1. ~At(r, "idle") /\ groups \subseteq groups' /\ UNCHANGED <<users, tokens, members>>
      BY <1>5 DEF QueryGroup, InsertGroup, At, tables, im
    <2>2. /\ Others(r) /\ done' = done
          /\ (At(r, "addSubscriber") => GroupRow(req[r].do.no) # {})'
      <3>1. CASE Goto(r, "insertGroup") /\ UNCHANGED history
        BY <2>1, <3>1, GotoGoes DEF At, history
      <3>2. CASE Refuse(r)
        BY <3>2, RefuseEnds DEF At
      <3>3. CASE WithGroup(r) /\ \E row \in groups' : row.no = req[r].do.no
        BY <2>1, <3>3, WithGroupGoesOn DEF GroupRow
      <3>4. CASE QueryGroup(r)
        BY <3>1, <3>2, <3>3, <3>4 DEF QueryGroup, GroupRow, tables
      <3>5. CASE InsertGroup(r)
        <4>1. \/ /\ [no |-> req[r].do.no, name |-> DefaultName,
                   creator |-> IF req[r].do.op = "create" THEN req[r].do.uid ELSE Nobody] \in groups'
                /\ WithGroup(r)
              \/ Refuse(r)
          BY <3>5 DEF InsertGroup
        <4> QED
          BY <3>2, <3>3, <4>1
      <3> QED
        BY <1>5, <3>4, <3>5
    <2> QED
      BY <1>0, <2>1, <2>2, GroupsKept, OkQuiet
  <1>6. ASSUME NEW r \in Requests, AddSubscriber(r) PROVE OkInv'
    <2>1. /\ UNCHANGED <<users, groups, tokens>> /\ GroupRow(req[r].do.no) # {}
          /\ req[r].do \in GroupOps /\ req[r].do.op = "create"
          /\ req[r].do.no \in Groups /\ req[r].do.uid \in Users
      BY <1>6, StateShape, OpShape DEF AddSubscriber, At, TypeOK, tables, OkInv, Placed, Ops
    <2> DEFINE added == [members EXCEPT ![req[r].do.no] = @ \cup {req[r].do.uid}]
    <2>2. CASE members' = added /\ Answer(r)
      <3>1. Others(r) /\ At(r, "idle")' /\ done' = done \cup ({req[r].do} \cap Granting)
        BY <2>2, AnswerEnds
      <3>2. \A u \in Users, g \in Groups :
              [op |-> "create", uid |-> u, no |-> g] \in done' \ done => u \in members'[g]
        BY <2>1, <2>2, <3>1 DEF TypeOK
      <3>3. \A u \in Users : [op |-> "login", uid |-> u] \notin done' \ done
        BY <2>1, <3>1
      <3> QED
        BY <1>0, <2>1, <2>2, <3>1, <3>2, <3>3, GroupsKept, OkKept DEF At, TypeOK
    <2>3. CASE (members' = members \/ members' = added) /\ Refuse(r)
      BY <1>0, <2>1, <2>3, RefuseEnds, GroupsKept, OkKept DEF At, TypeOK
    <2> QED
      BY <1>6, <2>2, <2>3 DEF AddSubscriber, PostIM
  <1>7. ASSUME NEW r \in Requests, UpdateName(r) \/ SetUnread(r) \/ SendCMD(r) PROVE OkInv'
    <2>1. /\ ~At(r, "idle") /\ UNCHANGED <<users, tokens, members>> /\ req[r].do \in Changes
      BY <1>7, StateShape DEF UpdateName, SetUnread, SendCMD, At, TypeOK, tables
    <2>2. Others(r) /\ done' = done /\ ~At(r, "addSubscriber")'
      <3>1. CASE Announce(r)
        BY <2>1, <3>1, GotoGoes DEF At, Announce
      <3>2. CASE Refuse(r)
        BY <3>2, RefuseEnds DEF At
      <3>3. CASE Answer(r)
        BY <2>1, <3>3, AnswerEnds DEF At, Granting, Changes
      <3> QED
        BY <1>7, <3>1, <3>2, <3>3 DEF UpdateName, SetUnread, SendCMD, PostIM
    <2>3. GroupRowsStay
      <3>1. CASE groups' = groups
        BY <3>1, GroupsKept
      <3>2. CASE At(r, "updateName") /\ groups' = Renamed(req[r].do.no, req[r].do.name)
        BY <2>1, <3>2, StateShape, ChangeShape, RenamedKept DEF At, TypeOK
      <3> QED
        BY <1>7, <3>1, <3>2 DEF UpdateName, SetUnread, SendCMD, tables
    <2> QED
      BY <1>0, <2>1, <2>2, <2>3, OkQuiet
  <1>8. CASE UNCHANGED vars
    BY <1>8 DEF vars, OkInv, OkMeansDone, Placed, UserRow, GroupRow, At
  <1> QED
    BY <1>1, <1>2, <1>3, <1>4, <1>5, <1>6, <1>7, <1>8 DEF Next, Serve

\* A login or a creation that was answered OK is done, at the tables and at the
\* IM server, although the two are not in one transaction and either may fail.
THEOREM OkIsDone == Spec => []OkMeansDone
  <1>1. Init => NameInv /\ OkInv
    BY DEF Init, NameInv, OneRow, Carried, Told, OkInv, OkMeansDone, Placed, At, Idle
  <1>2. OkInv => OkMeansDone
    BY DEF OkInv
  <1> QED
    BY <1>1, <1>2, NameStep, OkStep, TypeCorrect, PTL DEF Spec

-----------------------------------------------------------------------------
(* Changes.  A change not yet announced stays in the hands of its request, *)
(* until the command is sent or the client is told of the failure.         *)

\* A step of a request that makes nothing stale and announces nothing.
LEMMA ChangesQuiet ==
  ASSUME TypeOK, ChangesAnnounced, NEW r \in Requests, Others(r), ~At(r, "sendCMD"),
         UNCHANGED <<stale, failed>>
  PROVE  ChangesAnnounced'
  BY DEF ChangesAnnounced, Others, At, Notice

\* A request that fails says so, also of the change it made in this step.
LEMMA ChangesRefused ==
  ASSUME TypeOK, ChangesAnnounced, NEW r \in Requests, Refuse(r), ~At(r, "idle"),
         \/ stale' = stale
         \/ req[r].do \in Changes /\ stale' = stale \cup {Notice(req[r].do)}
  PROVE  ChangesAnnounced'
  <1>1. At(r, "sendCMD") => req[r].do \in Changes
    BY StateShape DEF TypeOK, At
  <1>2. Others(r)
    BY RefuseEnds
  <1>3. CASE req[r].do \in Changes
    <2>1. failed' = (failed \cup {Notice(req[r].do)}) \cap stale'
      BY <1>3 DEF Refuse
    <2> SUFFICES ASSUME NEW x \in stale', x \notin failed'
                 PROVE  \E q \in Requests : At(q, "sendCMD")' /\ Notice(req'[q].do) = x
      BY DEF ChangesAnnounced, Notice
    <2>2. x \in stale /\ x \notin failed /\ x # Notice(req[r].do)
      BY <2>1
    <2>3. PICK q \in Requests : At(q, "sendCMD") /\ Notice(req[q].do) = x
      BY <2>2 DEF ChangesAnnounced
    <2> QED
      BY <1>2, <2>2, <2>3 DEF Others, At
  <1>4. CASE req[r].do \notin Changes
    <2>1. UNCHANGED <<stale, failed>>
      BY <1>4 DEF Refuse
    <2> QED
      BY <1>1, <1>2, <1>4, <2>1, ChangesQuiet
  <1> QED
    BY <1>3, <1>4

\* A change that was applied takes its request to the command.
LEMMA ChangesToSend ==
  ASSUME TypeOK, ChangesAnnounced, NEW r \in Requests, Announce(r), ~At(r, "idle"),
         ~At(r, "sendCMD"), stale' = stale \/ stale' = stale \cup {Notice(req[r].do)}
  PROVE  ChangesAnnounced'
  <1>1. Others(r) /\ At(r, "sendCMD")' /\ req'[r].do = req[r].do
    BY GotoGoes DEF Announce
  <1>2. SUFFICES ASSUME NEW x \in stale', x \notin failed'
                 PROVE  \E q \in Requests : At(q, "sendCMD")' /\ Notice(req'[q].do) = x
    BY DEF ChangesAnnounced, Notice
  <1>3. CASE x = Notice(req[r].do)
    BY <1>1, <1>3
  <1>4. CASE x # Notice(req[r].do)
    <2>1. x \in stale /\ x \notin failed
      BY <1>2, <1>4 DEF Announce
    <2>2. PICK q \in Requests : At(q, "sendCMD") /\ Notice(req[q].do) = x
      BY <2>1 DEF ChangesAnnounced
    <2> QED
      BY <1>1, <1>4, <2>2 DEF Others, At
  <1> QED
    BY <1>3, <1>4

\* No step loses a change.
LEMMA ChangesStep ==
  TypeOK /\ ChangesAnnounced /\ [Next]_vars => ChangesAnnounced'
  <1> SUFFICES ASSUME TypeOK, ChangesAnnounced, [Next]_vars PROVE ChangesAnnounced'
    OBVIOUS
  <1>1. CASE Crash
    <2> SUFFICES ASSUME NEW x \in stale PROVE x \in failed'
      BY <1>1 DEF Crash, ChangesAnnounced, im
    <2>1. CASE x \in failed
      BY <1>1, <2>1 DEF Crash
    <2>2. CASE \E r \in Requests : At(r, "sendCMD") /\ Notice(req[r].do) = x
      BY <1>1, <2>2 DEF Crash
    <2> QED
      BY <2>1, <2>2 DEF ChangesAnnounced
  <1>2. ASSUME NEW r \in Requests, NEW do \in Ops, Receive(r, do) PROVE ChangesAnnounced'
    <2>1. Others(r) /\ ~At(r, "sendCMD") /\ UNCHANGED <<stale, failed>>
      BY <1>2 DEF Receive, TypeOK, Others, At, im, history
    <2> QED
      BY <2>1, ChangesQuiet
  <1>3. ASSUME NEW r \in Requests, QueryUser(r) \/ InsertUser(r) \/ PostToken(r) PROVE ChangesAnnounced'
    <2>1. ~At(r, "idle") /\ ~At(r, "sendCMD") /\ stale' = stale
      BY <1>3 DEF QueryUser, InsertUser, PostToken, At, im
    <2>2. CASE Goto(r, "insertUser") /\ UNCHANGED history
      BY <2>1, <2>2, GotoGoes, ChangesQuiet DEF history
    <2>3. CASE \E name : WithName(r, name)
      BY <2>1, <2>3, WithNameGoesOn, ChangesQuiet
    <2>4. CASE AnswerName(r, req[r].name)
      BY <2>1, <2>4, AnswerNameEnds, ChangesQuiet
    <2>5. CASE Refuse(r)
      BY <2>1, <2>5, ChangesRefused
    <2> QED
      BY <1>3, <2>2, <2>3, <2>4, <2>5 DEF QueryUser, InsertUser, PostToken, PostIM
  <1>4. ASSUME NEW r \in Requests, QueryGroup(r) \/ InsertGroup(r) \/ AddSubscriber(r)
        PROVE  ChangesAnnounced'
    <2>1. ~At(r, "idle") /\ ~At(r, "sendCMD") /\ stale' = stale /\ req[r].do \notin Changes
      <3>1. req[r].do \in GroupOps /\ req[r].do.op # "updateName"
        BY <1>4, StateShape DEF QueryGroup, InsertGroup, AddSubscriber, At, TypeOK
      <3>2. req[r].do \notin Changes
        BY <3>1 DEF Changes, GroupOps
      <3> QED
        BY <1>4, <3>2 DEF QueryGroup, InsertGroup, AddSubscriber, At, im
    <2>2. ASSUME NEW at, Goto(r, at), UNCHANGED history PROVE ChangesAnnounced'
      BY <2>1, <2>2, GotoGoes, ChangesQuiet DEF history
    <2>3. CASE Answer(r)
      <3>1. failed' = failed
        BY <2>1, <2>3 DEF Answer
      <3> QED
        BY <2>1, <2>3, <3>1, AnswerEnds, ChangesQuiet
    <2>4. CASE Refuse(r)
      BY <2>1, <2>4, ChangesRefused
    <2> QED
      BY <1>4, <2>2, <2>3, <2>4 DEF QueryGroup, InsertGroup, AddSubscriber, WithGroup, PostIM
  <1>5. ASSUME NEW r \in Requests, UpdateName(r) \/ SetUnread(r) PROVE ChangesAnnounced'
    <2>1. ~At(r, "idle") /\ ~At(r, "sendCMD") /\ req[r].do \in Changes
      BY <1>5, StateShape DEF UpdateName, SetUnread, At, TypeOK
    <2>2. stale' = stale \/ stale' = stale \cup {Notice(req[r].do)}
      BY <1>5 DEF UpdateName, SetUnread, PostIM
    <2>3. Announce(r) \/ Refuse(r)
      BY <1>5 DEF UpdateName, SetUnread, PostIM
    <2> QED
      BY <2>1, <2>2, <2>3, ChangesToSend, ChangesRefused
  <1>6. ASSUME NEW r \in Requests, SendCMD(r) PROVE ChangesAnnounced'
    <2>1. ~At(r, "idle") /\ req[r].do \in Changes
      BY <1>6, StateShape DEF SendCMD, At, TypeOK
    <2>2. CASE stale' = stale /\ Refuse(r)
      BY <2>1, <2>2, ChangesRefused
    <2>3. CASE stale' = stale \ {Notice(req[r].do)} /\ (Answer(r) \/ Refuse(r))
      <3>1. Others(r) /\ failed \cap stale' \subseteq failed'
        BY <2>1, <2>3, AnswerEnds, RefuseEnds DEF Answer, Refuse
      <3> SUFFICES ASSUME NEW x \in stale', x \notin failed'
                   PROVE  \E q \in Requests : At(q, "sendCMD")' /\ Notice(req'[q].do) = x
        BY DEF ChangesAnnounced, Notice
      <3>2. x \in stale /\ x \notin failed /\ x # Notice(req[r].do)
        BY <2>3, <3>1
      <3>3. PICK q \in Requests : At(q, "sendCMD") /\ Notice(req[q].do) = x
        BY <3>2 DEF ChangesAnnounced
      <3> QED
        BY <3>1, <3>2, <3>3 DEF Others, At
    <2> QED
      BY <1>6, <2>2, <2>3 DEF SendCMD, PostIM
  <1>7. CASE UNCHANGED vars
    BY <1>7 DEF vars, ChangesAnnounced, At, Notice
  <1> QED
    BY <1>1, <1>2, <1>3, <1>4, <1>5, <1>6, <1>7 DEF Next, Serve

\* Every rename, and every count that was set for a channel of a user, is announced
\* by a command of the same content, or about to be, or its client knows that the
\* request failed or died, whatever other changes and commands come between.
THEOREM ChangesAreAnnounced == Spec => []ChangesAnnounced
  <1>1. Init => ChangesAnnounced
    BY DEF Init, ChangesAnnounced
  <1> QED
    BY <1>1, ChangesStep, TypeCorrect, PTL DEF Spec
=============================================================================
