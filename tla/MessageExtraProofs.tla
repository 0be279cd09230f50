------------------------ MODULE MessageExtraProofs ------------------------
(***************************************************************************)
(* The safety of revoking and of syncing extras for any sets of messages,  *)
(* devices and goroutines and any bounds, with every failure and crash.    *)
(***************************************************************************)
EXTENDS MessageExtra, WellFoundedInduction, TLAPS

\* A bounded set of numbers has a largest one, and Max is it.
LEMMA MaxIsLargest ==
  ASSUME NEW n \in Nat, NEW S \in SUBSET (0 .. n), S # {}
  PROVE  Max(S) \in S /\ \A y \in S : Max(S) >= y
<1> DEFINE R == {ss \in Nat \X Nat : ss[1] < ss[2]}
           T == {k \in Nat : \E x \in S : k = n - x}
<1>1. IsWellFoundedOn(R, Nat)
  BY NatLessThanWellFounded, Zenon DEF OpToRel
<1>2. T \subseteq Nat /\ T # {}
  <2>1. PICK x \in S : TRUE
    OBVIOUS
  <2>2. n - x \in Nat
    BY <2>1
  <2> QED BY <2>1, <2>2
<1>3. PICK m \in T : \A k \in T : ~ (<<k, m>> \in R)
  <2> HIDE DEF R, T
  <2> QED BY <1>1, <1>2, WFMin
<1>4. ASSUME NEW k \in T PROVE m <= k
  <2>1. <<k, m>> \in Nat \X Nat /\ <<k, m>>[1] = k /\ <<k, m>>[2] = m
    OBVIOUS
  <2>2. ~(k < m)
    BY <1>3, <2>1
  <2> QED BY <2>2
<1>5. PICK x \in S : m = n - x
  BY <1>3
<1>6. \A y \in S : x >= y
  BY <1>4, <1>5
<1> QED BY <1>6 DEF Max

-----------------------------------------------------------------------------
(* Types. *)

\* What TypeOK says of one goroutine.
RevokerStates ==
  [at : {"idle", "query", "stamp", "write", "SendCMD"}, msg : Messages, found : BOOLEAN,
   ver : Versions, ans : {"none", "ok", "error", "silent", "lost"}]
SyncerStates ==
  [at : {"idle", "get", "set", "query", "reply"}, dev : Devices, ver : Versions,
   rows : SUBSET (Messages \X Times)]

\* Rows, cursors and goroutines start with their types.
LEMMA InitTyped == ASSUME Init PROVE TypeOK
<1>1. now \in Times /\ crashes \in 0 .. MaxCrashes /\ 0 \in Versions
  BY ExtraAssumption DEF Init, Times, Versions
<1>2. rv \in [Revokers -> RevokerStates] /\ sy \in [Syncers -> SyncerStates]
  <2>1. [at : {"idle"}, msg : Messages, found : {FALSE}, ver : {0}, ans : {"none"}]
          \subseteq RevokerStates
    BY <1>1 DEF RevokerStates
  <2>2. [at : {"idle"}, dev : Devices, ver : {0}, rows : {{}}] \subseteq SyncerStates
    BY <1>1 DEF SyncerStates
  <2> QED BY <2>1, <2>2, Zenon DEF Init
<1> QED BY <1>1, <1>2 DEF Init, TypeOK, NoRow, RevokerStates, SyncerStates

\* A step of one goroutine that revokes: what it may touch.
LEMMA RevokerTo ==
  ASSUME TypeOK, NEW g \in Revokers, NEW s \in RevokerStates, rv' = [rv EXCEPT ![g] = s],
         extra' \in [Messages -> Versions], cmds' \in SUBSET Messages, RevokeFrame
  PROVE  TypeOK'
BY DEF TypeOK, RevokerStates, RevokeFrame, syncVars, deviceVars

\* The steps of a revoke keep the types.
LEMMA RevokeTyped ==
  ASSUME TypeOK, NEW g \in Revokers, Revoke(g) \/ \E m \in Messages : RevokeReceive(g, m)
  PROVE  TypeOK'
<1>1. now \in Versions /\ rv[g] \in RevokerStates
  BY ExtraAssumption DEF TypeOK, Times, Versions, RevokerStates
<1> DEFINE To(s) == rv' = [rv EXCEPT ![g] = s]
<1>2. ASSUME NEW m \in Messages, RevokeReceive(g, m) PROVE TypeOK'
  <2> DEFINE s == [rv[g] EXCEPT !.at = "query", !.msg = m, !.ans = "none"]
  <2>1. s \in RevokerStates
    BY <1>1 DEF RevokerStates
  <2>2. To(s)
    BY <1>2 DEF RevokeReceive, TypeOK
  <2> HIDE DEF s
  <2> QED BY <1>2, <2>1, <2>2, RevokerTo DEF RevokeReceive, TypeOK
<1>3. CASE RevokeQuery(g)
  <2>0. PICK found \in BOOLEAN : found = (rv[g].msg \in Revoked)
    <3>1. CASE rv[g].msg \in Revoked
      <4>1. TRUE = (rv[g].msg \in Revoked)
        BY <3>1
      <4> QED BY <4>1
    <3>2. CASE rv[g].msg \notin Revoked
      <4>1. FALSE = (rv[g].msg \in Revoked)
        BY <3>2
      <4> QED BY <4>1
    <3> QED BY <3>1, <3>2
  <2> DEFINE s == [rv[g] EXCEPT !.at = "stamp", !.found = found]
             e == [rv[g] EXCEPT !.at = "idle", !.ans = "error"]
  <2>1. e \in RevokerStates /\ s \in RevokerStates
    BY <1>1 DEF RevokerStates
  <2>2. To(s) \/ To(e)
    <3>1. \/ rv' = [rv EXCEPT ![g].at = "stamp", ![g].found = found]
          \/ RevokeEnd(g, "query", "error")
      BY <1>3, <2>0 DEF RevokeQuery
    <3> QED BY <3>1 DEF RevokeEnd, TypeOK
  <2> HIDE DEF s, e
  <2> QED BY <1>3, <2>1, <2>2, RevokerTo DEF RevokeQuery, TypeOK
<1>4. CASE RevokeStamp(g)
  <2> DEFINE s == [rv[g] EXCEPT !.at = "write", !.ver = now]
  <2>1. s \in RevokerStates
    BY <1>1 DEF RevokerStates
  <2>2. To(s)
    BY <1>4 DEF RevokeStamp, TypeOK
  <2> HIDE DEF s
  <2> QED BY <1>4, <2>1, <2>2, RevokerTo DEF RevokeStamp, TypeOK
<1>5. CASE RevokeWrite(g)
  <2> DEFINE s == [rv[g] EXCEPT !.at = "SendCMD"]
             e == [rv[g] EXCEPT !.at = "idle", !.ans = "silent"]
  <2>1. s \in RevokerStates /\ e \in RevokerStates
    BY <1>1 DEF RevokerStates
  <2>2. To(s) \/ To(e)
    BY <1>5 DEF RevokeWrite, RevokeStep, RevokeEnd, TypeOK
  <2>3. extra' \in [Messages -> Versions]
    BY <1>1, <1>5 DEF RevokeWrite, TypeOK, RevokerStates
  <2> HIDE DEF s, e
  <2> QED BY <1>5, <2>1, <2>2, <2>3, RevokerTo DEF RevokeWrite, TypeOK
<1>6. CASE RevokeSendCMD(g)
  <2> DEFINE s(ans) == [rv[g] EXCEPT !.at = "idle", !.ans = ans]
  <2>1. s("ok") \in RevokerStates /\ s("error") \in RevokerStates
    BY <1>1 DEF RevokerStates
  <2>2. To(s("ok")) \/ To(s("error"))
    BY <1>6 DEF RevokeSendCMD, RevokeEnd, TypeOK
  <2>3. cmds' \in SUBSET Messages
    BY <1>1, <1>6 DEF RevokeSendCMD, TypeOK, RevokerStates
  <2> HIDE DEF s
  <2> QED BY <1>6, <2>1, <2>2, <2>3, RevokerTo DEF RevokeSendCMD, TypeOK
<1> QED BY <1>2, <1>3, <1>4, <1>5, <1>6 DEF Revoke

\* What a page holds are rows of the table.
LEMMA PagesTyped ==
  ASSUME TypeOK, NEW v, NEW p \in Pages(v)
  PROVE  p \subseteq Revoked /\ {<<m, extra[m]>> : m \in p} \in SUBSET (Messages \X Times)
<1>1. p \subseteq Revoked
  BY DEF Pages, kSubset
<1>2. \A m \in Revoked : m \in Messages /\ extra[m] \in Times
  BY ExtraAssumption DEF TypeOK, Revoked, NoRow, Versions, Times
<1> QED BY <1>1, <1>2

\* The cursor that a device moves to.
LEMMA CursorRises ==
  ASSUME TypeOK, NEW g \in Syncers, NEW d \in Devices
  PROVE  LET next == Max({cursor[d]} \cup {row[2] : row \in sy[g].rows})
         IN  next \in Versions /\ next >= cursor[d]
<1> DEFINE S == {cursor[d]} \cup {row[2] : row \in sy[g].rows}
<1>1. MaxTime \in Nat /\ S \in SUBSET (0 .. MaxTime) /\ cursor[d] \in S
  <2>1. sy[g].rows \in SUBSET (Messages \X Times) /\ cursor[d] \in 0 .. MaxTime
    BY DEF TypeOK, Versions
  <2>2. \A row \in sy[g].rows : row[2] \in 0 .. MaxTime
    BY <2>1, ExtraAssumption DEF Times
  <2> QED BY <2>1, <2>2, ExtraAssumption
<1>2. Max(S) \in S /\ Max(S) >= cursor[d]
  BY <1>1, MaxIsLargest
<1> QED BY <1>1, <1>2 DEF Versions

\* A step of one goroutine that syncs: what it may touch.
LEMMA SyncerTo ==
  ASSUME TypeOK, NEW g \in Syncers, NEW s \in SyncerStates, sy' = [sy EXCEPT ![g] = s],
         cache' \in [Devices -> Versions], cursor' \in [Devices -> Versions],
         known' \in [Devices -> SUBSET Messages], SyncFrame
  PROVE  TypeOK'
BY DEF TypeOK, SyncerStates, SyncFrame, revokeVars

\* The steps of an extra sync keep the types.
LEMMA SyncTyped ==
  ASSUME TypeOK, NEW g \in Syncers,
         \/ SyncGetVersion(g) \/ SyncSetVersion(g) \/ SyncQuery(g) \/ SyncFail(g)
         \/ Deliver(g) \/ LoseReply(g) \/ \E d \in Devices : SyncReceive(g, d)
  PROVE  TypeOK'
<1>1. sy[g] \in SyncerStates /\ sy[g].dev \in Devices /\ sy[g].ver \in Versions
  BY DEF TypeOK, SyncerStates
<1> DEFINE To(s) == sy' = [sy EXCEPT ![g] = s]
           goto(at) == [sy[g] EXCEPT !.at = at]
<1>2. \A at \in {"idle", "query", "set"} : goto(at) \in SyncerStates
  BY <1>1 DEF SyncerStates
<1>3. cursor \in [Devices -> Versions] /\ cache \in [Devices -> Versions]
      /\ known \in [Devices -> SUBSET Messages]
  BY DEF TypeOK
<1>4. ASSUME NEW d \in Devices, SyncReceive(g, d) PROVE TypeOK'
  <2>1. [at |-> "get", dev |-> d, ver |-> cursor[d], rows |-> {}] \in SyncerStates
    BY <1>3 DEF SyncerStates
  <2> QED BY <1>3, <1>4, <2>1, SyncerTo DEF SyncReceive, deviceVars
<1>5. CASE SyncGetVersion(g)
  <2> DEFINE s == [sy[g] EXCEPT !.at = "query", !.ver = cache[sy[g].dev]]
  <2>1. s \in SyncerStates
    BY <1>1, <1>3 DEF SyncerStates
  <2>2. To(s) \/ To(goto("set"))
    BY <1>5 DEF SyncGetVersion, TypeOK
  <2> HIDE DEF s, goto
  <2> QED BY <1>2, <1>3, <1>5, <2>1, <2>2, SyncerTo DEF SyncGetVersion, deviceVars
<1>6. CASE SyncSetVersion(g)
  <2>1. To(goto("query")) /\ cache' \in [Devices -> Versions]
    BY <1>1, <1>6 DEF SyncSetVersion, SyncStep, TypeOK
  <2> HIDE DEF goto
  <2> QED BY <1>2, <1>3, <1>6, <2>1, SyncerTo DEF SyncSetVersion, deviceVars
<1>7. CASE SyncQuery(g)
  <2>1. PICK p \in Pages(sy[g].ver) :
          sy' = [sy EXCEPT ![g].at = "reply", ![g].rows = {<<m, extra[m]>> : m \in p}]
    BY <1>7 DEF SyncQuery
  <2> DEFINE rows == {<<m, extra[m]>> : m \in p}
             s == [sy[g] EXCEPT !.at = "reply", !.rows = rows]
  <2>2. rows \in SUBSET (Messages \X Times)
    BY PagesTyped
  <2>3. To(s)
    <3> HIDE DEF rows
    <3> QED BY <2>1 DEF TypeOK, rows
  <2>4. s \in SyncerStates
    <3> HIDE DEF rows
    <3> QED BY <1>1, <2>2 DEF SyncerStates
  <2> HIDE DEF s
  <2> QED BY <1>3, <1>7, <2>3, <2>4, SyncerTo DEF SyncQuery, deviceVars
<1>8. CASE SyncFail(g)
  <2>1. To(goto("idle")) /\ cache' \in [Devices -> Versions]
    BY <1>1, <1>8 DEF SyncFail, TypeOK
  <2> HIDE DEF goto
  <2> QED BY <1>2, <1>3, <1>8, <2>1, SyncerTo DEF SyncFail, deviceVars
<1>9. CASE Deliver(g)
  <2>1. {row[1] : row \in sy[g].rows} \subseteq Messages
    <3>1. sy[g].rows \in SUBSET (Messages \X Times)
      BY DEF TypeOK
    <3> QED BY <3>1
  <2>2. cursor' \in [Devices -> Versions]
    BY <1>1, <1>9, CursorRises DEF Deliver, TypeOK
  <2>3. known' \in [Devices -> SUBSET Messages]
    BY <1>1, <1>9, <2>1 DEF Deliver, TypeOK
  <2>4. To(goto("idle"))
    BY <1>9 DEF Deliver, SyncStep, TypeOK
  <2> HIDE DEF goto
  <2> QED BY <1>2, <1>3, <1>9, <2>2, <2>3, <2>4, SyncerTo DEF Deliver
<1>10. CASE LoseReply(g)
  <2>1. To(goto("idle"))
    BY <1>10 DEF LoseReply, SyncStep, TypeOK
  <2> HIDE DEF goto
  <2> QED BY <1>2, <1>3, <1>10, <2>1, SyncerTo DEF LoseReply, deviceVars
<1> QED BY <1>4, <1>5, <1>6, <1>7, <1>8, <1>9, <1>10

\* Every step keeps the types.
LEMMA TypeStep == TypeOK /\ [Next]_vars => TypeOK'
<1> SUFFICES ASSUME TypeOK, [Next]_vars PROVE TypeOK'
  OBVIOUS
<1>1. CASE Tick
  BY <1>1, ExtraAssumption DEF Tick, TypeOK, Times, revokeVars, syncVars, deviceVars
<1>2. CASE Crash
  <2>1. rv' \in [Revokers -> RevokerStates]
    <3>1. \A g \in Revokers : rv[g] \in RevokerStates
      BY DEF TypeOK, RevokerStates
    <3>2. \A s \in RevokerStates : [s EXCEPT !.at = "idle", !.ans = "lost"] \in RevokerStates
      BY DEF RevokerStates
    <3> QED BY <1>2, <3>1, <3>2 DEF Crash
  <2>2. sy' \in [Syncers -> SyncerStates]
    <3>1. \A g \in Syncers : sy[g] \in SyncerStates
      BY DEF TypeOK, SyncerStates
    <3>2. \A s \in SyncerStates : [s EXCEPT !.at = "idle"] \in SyncerStates
      BY DEF SyncerStates
    <3> QED BY <1>2, <3>1, <3>2 DEF Crash
  <2>3. crashes' \in 0 .. MaxCrashes
    <3>1. crashes \in 0 .. MaxCrashes /\ crashes < MaxCrashes /\ crashes' = crashes + 1
      BY <1>2 DEF Crash, TypeOK
    <3> QED BY <3>1, ExtraAssumption
  <2> QED BY <1>2, <2>1, <2>2, <2>3 DEF Crash, TypeOK, RevokerStates, SyncerStates, deviceVars
<1>3. CASE UNCHANGED vars
  BY <1>3 DEF vars, TypeOK
<1> QED BY <1>1, <1>2, <1>3, RevokeTyped, SyncTyped DEF Next

\* The variables of revoking and syncing keep their types: a version is a second
\* of the clock that has come, and a page holds rows with such a version.
THEOREM TypeCorrect == Spec => []TypeOK
<1> QED BY InitTyped, TypeStep, PTL DEF Spec

-----------------------------------------------------------------------------
(* What a revoke has announced is stored. *)

\* The rest of the invariant: a request holds a second of the clock when it
\* writes its row, and it gets to the command only with the row in the table.
WorkIsStored ==
  \A g \in Revokers : /\ rv[g].at = "write" => rv[g].ver \in Times
                      /\ rv[g].at = "SendCMD" => rv[g].msg \in Revoked
StoredInv == AnnouncedIsStored /\ WorkIsStored

\* One goroutine moves; rows and commands are only added, as its own state says.
LEMMA StoredTo ==
  ASSUME TypeOK, StoredInv, NEW g \in Revokers, NEW s \in RevokerStates,
         rv' = [rv EXCEPT ![g] = s], Revoked \subseteq Revoked', cmds \subseteq cmds',
         cmds' \subseteq Revoked',
         s.at = "write" => s.ver \in Times, s.at = "SendCMD" => s.msg \in Revoked',
         s.ans = "ok" => s.msg \in Revoked' \cap cmds'
  PROVE  StoredInv'
<1>1. \A h \in Revokers : rv'[h] = IF h = g THEN s ELSE rv[h]
  BY DEF TypeOK
<1>2. ASSUME NEW h \in Revokers
      PROVE  /\ rv'[h].at = "write" => rv'[h].ver \in Times
             /\ rv'[h].at = "SendCMD" => rv'[h].msg \in Revoked'
             /\ rv'[h].ans = "ok" => rv'[h].msg \in Revoked' \cap cmds'
  <2>1. CASE h = g
    BY <1>1, <2>1
  <2>2. CASE h # g
    <3>1. rv'[h] = rv[h]
      BY <1>1, <2>2
    <3> QED BY <3>1 DEF StoredInv, AnnouncedIsStored, WorkIsStored
  <2> QED BY <2>1, <2>2
<1> QED BY <1>2 DEF StoredInv, AnnouncedIsStored, WorkIsStored

\* A step that leaves the table alone leaves its set of revoked messages.
LEMMA SameRows == ASSUME UNCHANGED extra PROVE Revoked' = Revoked
BY DEF Revoked

\* A revoke announces, and answers OK, after its row was written.
LEMMA StoredRevoke ==
  ASSUME TypeOK, StoredInv, NEW g \in Revokers,
         Revoke(g) \/ \E m \in Messages : RevokeReceive(g, m)
  PROVE  StoredInv'
<1>0. /\ now \in Versions /\ now \in Times /\ rv[g] \in RevokerStates
      /\ cmds \subseteq Revoked /\ (rv[g].ans = "ok" => rv[g].msg \in Revoked \cap cmds)
      /\ (rv[g].at = "write" => rv[g].ver \in Times)
      /\ (rv[g].at = "SendCMD" => rv[g].msg \in Revoked)
  BY ExtraAssumption
  DEF TypeOK, Times, Versions, RevokerStates, StoredInv, AnnouncedIsStored, WorkIsStored
<1> DEFINE To(s) == rv' = [rv EXCEPT ![g] = s]
           ended(ans) == [rv[g] EXCEPT !.at = "idle", !.ans = ans]
<1>1. \A ans \in {"ok", "error", "silent"} :
        ended(ans) \in RevokerStates /\ ended(ans).ans = ans /\ ended(ans).at = "idle"
        /\ ended(ans).msg = rv[g].msg
  BY <1>0 DEF RevokerStates
<1>2. ASSUME NEW m \in Messages, RevokeReceive(g, m) PROVE StoredInv'
  <2> DEFINE s == [rv[g] EXCEPT !.at = "query", !.msg = m, !.ans = "none"]
  <2>1. s \in RevokerStates /\ s.at = "query" /\ s.ans = "none"
    BY <1>0 DEF RevokerStates
  <2>2. To(s) /\ cmds' = cmds /\ Revoked' = Revoked
    BY <1>2, SameRows DEF RevokeReceive, TypeOK
  <2> HIDE DEF s
  <2> QED BY <1>0, <2>1, <2>2, StoredTo
<1>3. CASE RevokeQuery(g)
  <2>0. cmds' = cmds /\ Revoked' = Revoked
    BY <1>3, SameRows DEF RevokeQuery
  <2>1. CASE RevokeEnd(g, "query", "error")
    <3>1. To(ended("error"))
      BY <2>1 DEF RevokeEnd, TypeOK
    <3> HIDE DEF ended
    <3> QED BY <1>0, <1>1, <2>0, <3>1, StoredTo
  <2>2. CASE ~RevokeEnd(g, "query", "error")
    <3>0. PICK found \in BOOLEAN : rv' = [rv EXCEPT ![g].at = "stamp", ![g].found = found]
      <4>1. rv' = [rv EXCEPT ![g].at = "stamp", ![g].found = rv[g].msg \in Revoked]
        BY <1>3, <2>2 DEF RevokeQuery
      <4>2. PICK found \in BOOLEAN : found = (rv[g].msg \in Revoked)
        <5>1. CASE rv[g].msg \in Revoked
          <6>1. TRUE = (rv[g].msg \in Revoked)
            BY <5>1
          <6> QED BY <6>1
        <5>2. CASE rv[g].msg \notin Revoked
          <6>1. FALSE = (rv[g].msg \in Revoked)
            BY <5>2
          <6> QED BY <6>1
        <5> QED BY <5>1, <5>2
      <4> QED BY <4>1, <4>2
    <3> DEFINE s == [rv[g] EXCEPT !.at = "stamp", !.found = found]
    <3>1. s \in RevokerStates /\ s.at = "stamp" /\ s.ans = rv[g].ans /\ s.msg = rv[g].msg
      BY <1>0 DEF RevokerStates
    <3>2. To(s)
      BY <3>0 DEF TypeOK
    <3> HIDE DEF s
    <3> QED BY <1>0, <2>0, <3>1, <3>2, StoredTo
  <2> QED BY <2>1, <2>2
<1>4. CASE RevokeStamp(g)
  <2> DEFINE s == [rv[g] EXCEPT !.at = "write", !.ver = now]
  <2>1. /\ s \in RevokerStates /\ s.at = "write" /\ s.ver = now
        /\ s.ans = rv[g].ans /\ s.msg = rv[g].msg
    BY <1>0 DEF RevokerStates
  <2>2. To(s) /\ cmds' = cmds /\ Revoked' = Revoked
    BY <1>4, SameRows DEF RevokeStamp, TypeOK
  <2> HIDE DEF s
  <2> QED BY <1>0, <2>1, <2>2, StoredTo
<1>5. CASE RevokeWrite(g)
  <2> DEFINE s == [rv[g] EXCEPT !.at = "SendCMD"]
             m == rv[g].msg
             Put == extra' = [extra EXCEPT ![m] = rv[g].ver]
  <2>0. rv[g].at = "write" /\ cmds' = cmds /\ (Put \/ UNCHANGED extra)
    BY <1>5 DEF RevokeWrite, RevokeStep, RevokeEnd
  <2>1. s \in RevokerStates /\ s.at = "SendCMD" /\ s.ans = rv[g].ans /\ s.msg = m
    BY <1>0 DEF RevokerStates
  <2>2. (To(s) /\ Put) \/ To(ended("silent"))
    BY <1>5 DEF RevokeWrite, RevokeStep, RevokeEnd, TypeOK
  <2>3. ASSUME Put PROVE Revoked \subseteq Revoked' /\ m \in Revoked'
    <3>1. m \in Messages /\ rv[g].ver # NoRow
      BY <1>0, <2>0, ExtraAssumption DEF RevokerStates, Times, NoRow
    <3>2. \A n \in Messages : extra'[n] = IF n = m THEN rv[g].ver ELSE extra[n]
      BY <2>3 DEF TypeOK
    <3> QED BY <3>1, <3>2 DEF Revoked
  <2>4. Revoked \subseteq Revoked'
    BY <2>0, <2>3, SameRows
  <2> HIDE DEF s, Put, ended
  <2>5. CASE To(s) /\ Put
    BY <1>0, <2>0, <2>1, <2>3, <2>5, StoredTo
  <2>6. CASE To(ended("silent"))
    BY <1>0, <1>1, <2>0, <2>4, <2>6, StoredTo
  <2> QED BY <2>2, <2>5, <2>6
<1>6. CASE RevokeSendCMD(g)
  <2>0. /\ rv[g].at = "SendCMD" /\ Revoked' = Revoked
        /\ cmds' \in {cmds, cmds \cup {rv[g].msg}}
    BY <1>6, SameRows DEF RevokeSendCMD, RevokeEnd
  <2>1. (To(ended("ok")) /\ cmds' = cmds \cup {rv[g].msg}) \/ To(ended("error"))
    BY <1>6 DEF RevokeSendCMD, RevokeEnd, TypeOK
  <2> HIDE DEF ended
  <2> QED BY <1>0, <1>1, <2>0, <2>1, StoredTo
<1> QED BY <1>2, <1>3, <1>4, <1>5, <1>6 DEF Revoke

\* No step takes a row away, so what is announced stays stored.
LEMMA StoredStep == TypeOK /\ StoredInv /\ [Next]_vars => StoredInv'
<1> SUFFICES ASSUME TypeOK, StoredInv, [Next]_vars PROVE StoredInv'
  OBVIOUS
<1>1. CASE UNCHANGED <<extra, cmds, rv>>
  BY <1>1, SameRows DEF StoredInv, AnnouncedIsStored, WorkIsStored
<1>2. CASE Crash
  <2>1. Revoked' = Revoked /\ cmds' = cmds
    BY <1>2, SameRows DEF Crash
  <2>2. ASSUME NEW g \in Revokers
        PROVE  rv'[g] = rv[g] \/ (rv'[g].at = "idle" /\ rv'[g].ans = "lost")
    <3>1. rv[g] \in RevokerStates
      BY DEF TypeOK, RevokerStates
    <3>2. rv'[g] = IF rv[g].at = "idle" THEN rv[g]
                   ELSE [rv[g] EXCEPT !.at = "idle", !.ans = "lost"]
      BY <1>2 DEF Crash
    <3> QED BY <3>1, <3>2 DEF RevokerStates
  <2> QED BY <2>1, <2>2 DEF StoredInv, AnnouncedIsStored, WorkIsStored
<1>3. CASE \E g \in Revokers : Revoke(g) \/ \E m \in Messages : RevokeReceive(g, m)
  BY <1>3, StoredRevoke
<1>4. CASE Tick \/ \E g \in Syncers :
             \/ SyncGetVersion(g) \/ SyncSetVersion(g) \/ SyncQuery(g) \/ SyncFail(g)
             \/ Deliver(g) \/ LoseReply(g) \/ \E d \in Devices : SyncReceive(g, d)
  BY <1>1, <1>4 DEF Tick, SyncFrame, revokeVars, SyncGetVersion, SyncSetVersion, SyncQuery,
                    SyncFail, Deliver, LoseReply, SyncReceive
<1> QED BY <1>1, <1>2, <1>3, <1>4 DEF Next, vars

\* The command goes out, and OK is answered, only for a message whose row is in
\* the table: revokes race for the row, their statements fail, the server dies
\* between them, but none gets to the command without a row and none removes one.
THEOREM AnnouncedOnlyStored == Spec => []AnnouncedIsStored
<1>1. Init => StoredInv
  <2> SUFFICES ASSUME Init PROVE StoredInv
    OBVIOUS
  <2>1. \A g \in Revokers : rv[g].at = "idle" /\ rv[g].ans = "none"
    BY DEF Init
  <2> QED BY <2>1 DEF Init, StoredInv, AnnouncedIsStored, WorkIsStored
<1>2. StoredInv => AnnouncedIsStored
  BY DEF StoredInv
<1> QED BY <1>1, <1>2, TypeCorrect, StoredStep, PTL DEF Spec

-----------------------------------------------------------------------------
(* The cached cursor stays behind the device's own. *)

\* The rest of the invariant: the version a request is about to compare, or has
\* compared and is about to cache, is one its device has or had.
AskedBehindDevice ==
  \A g \in Syncers : sy[g].at \in {"get", "set"} => sy[g].ver <= cursor[sy[g].dev]
BehindInv == CacheBehindDevice /\ AskedBehindDevice

\* No step takes a device back to an older version.
LEMMA CursorNeverFalls ==
  ASSUME TypeOK, [Next]_vars, NEW d \in Devices
  PROVE  cursor'[d] \in Versions /\ cursor'[d] >= cursor[d]
<1>1. cursor[d] \in Versions /\ cursor[d] >= cursor[d]
  BY ExtraAssumption DEF TypeOK, Versions
<1>2. ASSUME NEW g \in Syncers, Deliver(g) PROVE cursor'[d] \in Versions /\ cursor'[d] >= cursor[d]
  <2>1. cursor'[d] = cursor[d] \/ cursor'[d] = Max({cursor[d]} \cup {row[2] : row \in sy[g].rows})
    BY <1>2 DEF Deliver, TypeOK
  <2> QED BY <1>1, <2>1, CursorRises
<1>3. UNCHANGED cursor \/ \E g \in Syncers : Deliver(g)
  BY DEF Next, vars, Tick, Crash, Revoke, RevokeReceive, RevokeQuery, RevokeStamp, RevokeWrite,
         RevokeSendCMD, RevokeFrame, SyncReceive, SyncGetVersion, SyncSetVersion, SyncQuery,
         SyncFail, LoseReply, deviceVars
<1> QED BY <1>1, <1>2, <1>3

\* Where a request that syncs goes: its device stays, and what it holds at the
\* comparison is the version it came with.
LEMMA AskedFrom ==
  ASSUME TypeOK, [Next]_vars, NEW g \in Syncers, sy'[g].at \in {"get", "set"}
  PROVE  \/ sy'[g].ver = cursor[sy'[g].dev]
         \/ /\ sy[g].at \in {"get", "set"}
            /\ sy'[g].ver = sy[g].ver /\ sy'[g].dev = sy[g].dev
<1>0. sy \in [Syncers -> SyncerStates] /\ sy[g] \in SyncerStates
  BY DEF TypeOK, SyncerStates
<1>1. CASE sy'[g] = sy[g]
  BY <1>1
<1>2. CASE Crash
  BY <1>0, <1>2 DEF Crash, SyncerStates
<1>3. ASSUME NEW d \in Devices, SyncReceive(g, d)
      PROVE sy'[g].ver = cursor[sy'[g].dev]
  BY <1>0, <1>3 DEF SyncReceive
<1>4. CASE SyncGetVersion(g)
  BY <1>0, <1>4 DEF SyncGetVersion, SyncerStates
<1>5. CASE SyncSetVersion(g) \/ SyncFail(g) \/ Deliver(g) \/ LoseReply(g)
  <2>1. sy'[g].at \in {"query", "idle"}
    BY <1>0, <1>5 DEF SyncSetVersion, SyncFail, Deliver, LoseReply, SyncStep, SyncerStates
  <2> QED BY <2>1
<1>6. CASE SyncQuery(g)
  <2>1. PICK rows : sy' = [sy EXCEPT ![g].at = "reply", ![g].rows = rows]
    BY <1>6 DEF SyncQuery
  <2>2. sy'[g].at = "reply"
    BY <1>0, <2>1 DEF SyncerStates
  <2> QED BY <2>2
<1>7. CASE \E h \in Syncers : h # g /\
             (\/ SyncGetVersion(h) \/ SyncSetVersion(h) \/ SyncQuery(h) \/ SyncFail(h)
              \/ Deliver(h) \/ LoseReply(h) \/ \E d \in Devices : SyncReceive(h, d))
  <2>1. sy'[g] = sy[g]
    BY <1>0, <1>7 DEF SyncGetVersion, SyncSetVersion, SyncQuery, SyncFail, Deliver, LoseReply,
                      SyncReceive, SyncStep
  <2> QED BY <1>1, <2>1
<1>8. CASE UNCHANGED vars \/ Tick \/ \E h \in Revokers : Revoke(h) \/ \E m \in Messages : RevokeReceive(h, m)
  <2>1. sy' = sy
    BY <1>8 DEF vars, Tick, Revoke, RevokeReceive, RevokeQuery, RevokeStamp, RevokeWrite,
                RevokeSendCMD, RevokeFrame, syncVars
  <2> QED BY <1>1, <2>1
<1> QED BY <1>2, <1>3, <1>4, <1>5, <1>6, <1>7, <1>8 DEF Next

\* What is cached is what a request held after the comparison.
LEMMA CachedFrom ==
  ASSUME TypeOK, [Next]_vars, NEW d \in Devices
  PROVE  \/ cache'[d] = cache[d]
         \/ \E g \in Syncers : sy[g].at = "set" /\ sy[g].dev = d /\ cache'[d] = sy[g].ver
<1>1. UNCHANGED cache \/ \E g \in Syncers : SyncSetVersion(g) \/ SyncFail(g)
  BY DEF Next, vars, Tick, Crash, Revoke, RevokeReceive, RevokeQuery, RevokeStamp, RevokeWrite,
         RevokeSendCMD, RevokeFrame, SyncReceive, SyncGetVersion, SyncQuery,
         Deliver, LoseReply, syncVars
<1> QED BY <1>1 DEF SyncSetVersion, SyncFail, SyncStep, TypeOK

\* The cursor of Redis is set to what a device asked with, and a device never goes back.
LEMMA BehindStep == TypeOK /\ BehindInv /\ [Next]_vars => BehindInv'
<1> SUFFICES ASSUME TypeOK, BehindInv, [Next]_vars PROVE BehindInv'
  OBVIOUS
<1>0. TypeOK'
  BY TypeStep
<1>1. \A d \in Devices : /\ cursor[d] \in Nat /\ cursor'[d] \in Nat /\ cursor'[d] >= cursor[d]
                         /\ cache[d] \in Nat
  BY CursorNeverFalls, ExtraAssumption DEF TypeOK, Versions
<1>2. \A g \in Syncers : /\ sy[g].ver \in Nat /\ sy'[g].ver \in Nat
                         /\ sy[g].dev \in Devices /\ sy'[g].dev \in Devices
  BY <1>0, ExtraAssumption DEF TypeOK, Versions
<1>3. ASSUME NEW d \in Devices PROVE cache'[d] <= cursor'[d]
  <2>1. cache[d] <= cursor[d]
    BY DEF BehindInv, CacheBehindDevice
  <2>2. \A g \in Syncers : sy[g].at = "set" /\ sy[g].dev = d => sy[g].ver <= cursor[d]
    BY DEF BehindInv, AskedBehindDevice
  <2> QED BY <1>1, <1>2, <2>1, <2>2, CachedFrom
<1>4. ASSUME NEW g \in Syncers, sy'[g].at \in {"get", "set"}
      PROVE  sy'[g].ver <= cursor'[sy'[g].dev]
  <2>1. sy'[g].ver <= cursor[sy'[g].dev]
    BY <1>1, <1>2, <1>4, AskedFrom DEF BehindInv, AskedBehindDevice
  <2> QED BY <1>1, <1>2, <2>1
<1> QED BY <1>3, <1>4 DEF BehindInv, CacheBehindDevice, AskedBehindDevice

\* redis never holds a version its device has not reached: whatever requests of
\* one device overlap, overwrite each other's field, fail or are lost, what is
\* cached was a device's own version, and a device never goes back.
THEOREM CacheNeverAhead == Spec => []CacheBehindDevice
<1>1. Init => BehindInv
  <2> SUFFICES ASSUME Init PROVE BehindInv
    OBVIOUS
  <2>1. \A g \in Syncers : sy[g].at = "idle"
    BY DEF Init
  <2> QED BY <2>1 DEF Init, BehindInv, CacheBehindDevice, AskedBehindDevice
<1>2. BehindInv => CacheBehindDevice
  BY DEF BehindInv
<1> QED BY <1>1, <1>2, TypeCorrect, BehindStep, PTL DEF Spec

\* A device's version never goes back, whichever replies arrive in which order.
THEOREM DevicesMoveForward ==
  Spec => [][\A d \in Devices : cursor'[d] >= cursor[d]]_vars
<1>1. TypeOK /\ [Next]_vars => [\A d \in Devices : cursor'[d] >= cursor[d]]_vars
  BY CursorNeverFalls
<1> QED BY <1>1, TypeCorrect, PTL DEF Spec
=============================================================================
