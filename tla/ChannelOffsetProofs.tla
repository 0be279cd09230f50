------------------------ MODULE ChannelOffsetProofs ------------------------
(***************************************************************************)
(* The safety of the offset handler for any number of requests, users,     *)
(* channels and sequence numbers.                                          *)
(***************************************************************************)
EXTENDS ChannelOffset, TLAPS

\* What one step relies on: the types, and that the effects of a request that
\* is under way are where its program counter says they are.
IInv == TypeOK /\ OkMeansHidden /\ EffectsInOrder /\ WrittenStaysWritten

-----------------------------------------------------------------------------

\* The larger of two integers is one of them and not below either.
LEMMA LargerIsUpperBound ==
  ASSUME NEW a \in Int, NEW b \in Int
  PROVE  /\ Larger(a, b) \in {a, b}
         /\ Larger(a, b) >= a
         /\ Larger(a, b) >= b
  BY DEF Larger

\* The upsert of one request keeps the table's type and lowers no row; the row
\* it writes covers the number written.
LEMMA UpsertRaises ==
  ASSUME TypeOK, NEW k \in Keys, NEW n \in Seqs, Upsert(k, n)
  PROVE  /\ row' \in [Keys -> Seqs \cup {NoRow}]
         /\ \A j \in Keys : row'[j] >= row[j]
         /\ n <= row'[k]
  BY OffsetAssumption DEF TypeOK, Upsert, Larger, Seqs, NoRow

\* Higher rows mean higher effective offsets, so a number once covered for a
\* pair stays covered.
LEMMA CoveredStaysCovered ==
  ASSUME TypeOK, NEW k \in Keys, NEW n \in Seqs,
         row' \in [Keys -> Seqs \cup {NoRow}],
         row'[k] >= row[k],
         EffectiveOffset(k) >= n
  PROVE  Larger(row'[k], SharedOffset[k[2]]) >= n
<1>1. /\ row[k] \in Int /\ row'[k] \in Int /\ n \in Int
      /\ SharedOffset[k[2]] \in Int
  BY OffsetAssumption DEF TypeOK, Seqs, NoRow, Keys
<1>2. Larger(row[k], SharedOffset[k[2]]) >= n
  BY DEF EffectiveOffset
<1>3. Larger(row'[k], SharedOffset[k[2]]) >= n
  BY <1>1, <1>2 DEF Larger
<1> QED BY <1>3

\* No action lowers a row; this is what every other fact rests on.
LEMMA StepRaisesRows ==
  ASSUME TypeOK, [Next]_vars
  PROVE  /\ row' \in [Keys -> Seqs \cup {NoRow}]
         /\ \A k \in Keys : row'[k] >= row[k]
<1>1. CASE UNCHANGED row
  BY <1>1, OffsetAssumption DEF TypeOK, Seqs, NoRow
<1>2. ASSUME NEW r \in Requests, Upsert(req[r].key, req[r].seq)
      PROVE  /\ row' \in [Keys -> Seqs \cup {NoRow}]
             /\ \A k \in Keys : row'[k] >= row[k]
  <2>1. req[r].key \in Keys /\ req[r].seq \in Seqs
    BY DEF TypeOK
  <2> QED BY <1>2, <2>1, UpsertRaises
<1>3. UNCHANGED row \/ \E r \in Requests : Upsert(req[r].key, req[r].seq)
  BY DEF Next, Serve, Receive, Query, InsertOrUpdate, SetUnread, SendCMD, Crash, vars
<1> QED BY <1>1, <1>2, <1>3

\* Every variable keeps its type.
LEMMA TypeStep == ASSUME TypeOK, [Next]_vars PROVE TypeOK'
<1>1. row' \in [Keys -> Seqs \cup {NoRow}]
  BY StepRaisesRows
<1>2. ASSUME NEW r \in Requests, NEW k \in Keys, NEW n \in Seqs, Receive(r, k, n)
      PROVE  TypeOK'
  BY <1>1, <1>2 DEF TypeOK, Receive, Answer, Labels, Answers
<1>3. ASSUME NEW r \in Requests, Query(r) PROVE TypeOK'
  BY <1>1, <1>3 DEF TypeOK, Query, Goto, Answer, Labels, Answers
<1>4. ASSUME NEW r \in Requests, InsertOrUpdate(r) PROVE TypeOK'
  BY <1>1, <1>4 DEF TypeOK, InsertOrUpdate, Goto, Answer, Labels, Answers
<1>5. ASSUME NEW r \in Requests, SetUnread(r) PROVE TypeOK'
  <2>1. /\ req[r].key \in Keys
        /\ told[req[r].key] \cup {req[r].seq} \in SUBSET Seqs
    BY DEF TypeOK
  <2>2. told' \in [Keys -> SUBSET Seqs]
    BY <1>5, <2>1 DEF TypeOK, SetUnread
  <2>3. UNCHANGED <<row, cmds, req>> /\ pc' \in [Requests -> Labels]
        /\ resp' \in [Requests -> Answers]
    BY <1>5 DEF TypeOK, SetUnread, Goto, Answer, Labels, Answers
  <2> QED BY <1>1, <2>2, <2>3 DEF TypeOK
<1>6. ASSUME NEW r \in Requests, SendCMD(r) PROVE TypeOK'
  BY <1>1, <1>6 DEF TypeOK, SendCMD, Goto, Answer, Labels, Answers
<1>7. CASE Crash
  BY <1>1, <1>7 DEF TypeOK, Crash, Labels, Answers
<1>8. CASE UNCHANGED vars
  BY <1>8 DEF TypeOK, vars
<1> QED BY <1>2, <1>3, <1>4, <1>5, <1>6, <1>7, <1>8 DEF Next, Serve

\* A request about to send its command has its number covered.
LEMMA WrittenCovers ==
  ASSUME IInv, NEW r \in Requests, pc[r] = "SendCMD"
  PROVE  EffectiveOffset(req[r].key) >= req[r].seq
<1>1. /\ req[r].key \in Keys /\ req[r].seq \in Int
      /\ row[req[r].key] \in Int /\ SharedOffset[req[r].key[2]] \in Int
  BY OffsetAssumption DEF IInv, TypeOK, Seqs, NoRow, Keys
<1>2. row[req[r].key] >= req[r].seq
  BY <1>1 DEF IInv, WrittenStaysWritten
<1> QED BY <1>1, <1>2 DEF EffectiveOffset, Larger

\* An OK is given only when the offset covers the request, and the offset
\* never falls below it afterwards.
LEMMA HiddenStep == ASSUME IInv, [Next]_vars PROVE OkMeansHidden'
<1> SUFFICES ASSUME NEW s \in Requests, resp'[s] = "ok"
             PROVE  Larger(row'[req'[s].key], SharedOffset[req'[s].key[2]]) >= req'[s].seq
  BY DEF OkMeansHidden, EffectiveOffset
<1> DEFINE Covered == Larger(row'[req'[s].key], SharedOffset[req'[s].key[2]]) >= req'[s].seq
<1> USE DEF IInv
<1>t. req[s].key \in Keys /\ req[s].seq \in Seqs
  BY DEF TypeOK
<1>1. /\ row' \in [Keys -> Seqs \cup {NoRow}]
      /\ \A k \in Keys : row'[k] >= row[k]
  BY StepRaisesRows
<1>2. CASE req'[s] = req[s] /\ EffectiveOffset(req[s].key) >= req[s].seq
  BY <1>1, <1>2, <1>t, CoveredStaysCovered
<1>3. CASE UNCHANGED <<req, resp>>
  BY <1>2, <1>3 DEF OkMeansHidden
<1>4. ASSUME NEW r \in Requests, NEW k \in Keys, NEW n \in Seqs, Receive(r, k, n)
      PROVE  Covered
  <2>1. s # r
    BY <1>4 DEF Receive, Answer, TypeOK
  <2>2. req'[s] = req[s] /\ resp[s] = "ok"
    BY <1>4, <2>1 DEF Receive, Answer, TypeOK
  <2> QED BY <1>2, <2>2 DEF OkMeansHidden
<1>5. ASSUME NEW r \in Requests, Query(r)
      PROVE  Covered
  <2>1. req' = req
    BY <1>5 DEF Query
  <2>2. EffectiveOffset(req[s].key) >= req[s].seq
    BY <1>5 DEF Query, Goto, Answer, OkMeansHidden, TypeOK
  <2> QED BY <1>2, <2>1, <2>2
<1>6. ASSUME NEW r \in Requests, InsertOrUpdate(r) \/ SetUnread(r)
      PROVE  Covered
  <2>1. req' = req
    BY <1>6 DEF InsertOrUpdate, SetUnread
  <2>2. resp[s] = "ok"
    BY <1>6 DEF InsertOrUpdate, SetUnread, Goto, Answer, TypeOK
  <2> QED BY <1>2, <2>1, <2>2 DEF OkMeansHidden
<1>7. ASSUME NEW r \in Requests, SendCMD(r)
      PROVE  Covered
  <2>1. req' = req /\ pc[r] = "SendCMD" /\ (resp[s] = "ok" \/ s = r)
    BY <1>7 DEF SendCMD, Answer, TypeOK
  <2>2. EffectiveOffset(req[r].key) >= req[r].seq
    BY <2>1, WrittenCovers
  <2> QED BY <1>2, <2>1, <2>2 DEF OkMeansHidden
<1>8. CASE Crash
  BY <1>2, <1>8 DEF Crash, OkMeansHidden, TypeOK
<1> QED BY <1>3, <1>4, <1>5, <1>6, <1>7, <1>8 DEF Next, Serve, vars

\* The IM server hears of a position after the table, and devices after the IM
\* server.
LEMMA OrderStep == ASSUME IInv, [Next]_vars PROVE EffectsInOrder'
<1> SUFFICES ASSUME NEW k \in Keys
             PROVE  /\ \A n \in told'[k] : n <= row'[k]
                    /\ k \in cmds' => told'[k] # {}
  BY DEF EffectsInOrder
<1> USE DEF IInv
<1>1. row'[k] \in Int /\ row[k] \in Int /\ row'[k] >= row[k] /\ told[k] \in SUBSET Int
  BY StepRaisesRows, OffsetAssumption DEF TypeOK, Seqs, NoRow
<1>2. /\ \A n \in told[k] : n <= row'[k]
      /\ k \in cmds => told[k] # {}
  BY <1>1 DEF EffectsInOrder
<1>3. CASE UNCHANGED <<told, cmds>>
  BY <1>2, <1>3
<1>4. ASSUME NEW r \in Requests, SetUnread(r)
      PROVE  /\ \A n \in told'[k] : n <= row'[k]
             /\ k \in cmds' => told'[k] # {}
  <2>1. pc[r] = "setUnread" /\ UNCHANGED <<row, cmds>>
    BY <1>4 DEF SetUnread
  <2>2. /\ told[k] \subseteq told'[k]
        /\ \A n \in told'[k] : n \in told[k] \/ (k = req[r].key /\ n = req[r].seq)
    BY <1>4 DEF SetUnread, TypeOK
  <2>3. req[r].seq <= row[req[r].key]
    BY <2>1 DEF WrittenStaysWritten
  <2> QED BY <1>2, <2>1, <2>2, <2>3
<1>5. ASSUME NEW r \in Requests, SendCMD(r)
      PROVE  /\ \A n \in told'[k] : n <= row'[k]
             /\ k \in cmds' => told'[k] # {}
  <2>1. pc[r] = "SendCMD" /\ UNCHANGED <<row, told>> /\ cmds' \subseteq cmds \cup {req[r].key}
    BY <1>5 DEF SendCMD
  <2>2. told[req[r].key] # {}
    BY <2>1 DEF WrittenStaysWritten
  <2> QED BY <1>2, <2>1, <2>2
<1> QED BY <1>3, <1>4, <1>5 DEF Next, Serve, Receive, Query, InsertOrUpdate, Crash, vars

\* A request under way has no answer yet.
LEMMA AnswerStep ==
  ASSUME IInv, [Next]_vars
  PROVE  \A s \in Requests : pc'[s] # "idle" => resp'[s] = "none"
<1> SUFFICES ASSUME NEW s \in Requests PROVE pc'[s] # "idle" => resp'[s] = "none"
  OBVIOUS
<1>1. pc[s] # "idle" => resp[s] = "none"
  BY DEF IInv, WrittenStaysWritten
<1>2. ASSUME NEW r \in Requests, NEW k \in Keys, NEW n \in Seqs, Receive(r, k, n)
      PROVE  pc'[s] # "idle" => resp'[s] = "none"
  BY <1>1, <1>2 DEF IInv, TypeOK, Receive, Answer
<1>3. ASSUME NEW r \in Requests, Serve(r)
      PROVE  pc'[s] # "idle" => resp'[s] = "none"
  <2>1. /\ pc[r] # "idle"
        /\ \/ \E l \in Labels : Goto(r, l)
           \/ \E a \in Answers : Answer(r, a)
    BY <1>3 DEF Serve, Query, InsertOrUpdate, SetUnread, SendCMD, Labels, Answers
  <2>2. CASE \E l \in Labels : Goto(r, l)
    BY <1>1, <2>1, <2>2 DEF IInv, TypeOK, WrittenStaysWritten, Goto
  <2>3. CASE \E a \in Answers : Answer(r, a)
    BY <1>1, <2>3 DEF IInv, TypeOK, Answer
  <2> QED BY <2>1, <2>2, <2>3
<1>4. CASE Crash
  BY <1>4 DEF Crash
<1>5. CASE UNCHANGED vars
  BY <1>1, <1>5 DEF vars
<1> QED BY <1>2, <1>3, <1>4, <1>5 DEF Next

\* A request under way loses nothing it has done to the steps of others.
LEMMA WrittenStep == ASSUME IInv, [Next]_vars PROVE WrittenStaysWritten'
<1>0. \A r \in Requests : pc'[r] # "idle" => resp'[r] = "none"
  BY AnswerStep DEF IInv
<1> SUFFICES ASSUME NEW s \in Requests
             PROVE  /\ pc'[s] \in {"setUnread", "SendCMD"} => req'[s].seq <= row'[req'[s].key]
                    /\ pc'[s] = "SendCMD" => req'[s].seq \in told'[req'[s].key]
  BY <1>0 DEF WrittenStaysWritten
<1> USE DEF IInv
<1>t. req[s].key \in Keys /\ req[s].seq \in Seqs
  BY DEF TypeOK
<1>1. /\ \A k \in Keys : row'[k] >= row[k] /\ row[k] \in Int /\ row'[k] \in Int
      /\ req[s].seq \in Int
  BY <1>t, StepRaisesRows, OffsetAssumption DEF TypeOK, Seqs, NoRow
<1>2. CASE pc'[s] = pc[s] /\ req'[s] = req[s] /\ told[req[s].key] \subseteq told'[req[s].key]
  BY <1>1, <1>2, <1>t DEF WrittenStaysWritten
<1>3. CASE UNCHANGED vars
  BY <1>2, <1>3 DEF vars
<1>4. CASE pc'[s] \notin {"setUnread", "SendCMD"}
  BY <1>4
<1>5. ASSUME NEW r \in Requests, NEW k \in Keys, NEW n \in Seqs, Receive(r, k, n)
      PROVE  \/ pc'[s] \notin {"setUnread", "SendCMD"}
             \/ pc'[s] = pc[s] /\ UNCHANGED <<req[s], told>>
  <2>1. CASE s = r
    <3>1. pc' = [pc EXCEPT ![r] = "query"] \/ pc' = [pc EXCEPT ![r] = "idle"]
      BY <1>5 DEF Receive, Answer
    <3>2. pc'[s] \in {"query", "idle"}
      BY <2>1, <3>1 DEF TypeOK
    <3> QED BY <3>2
  <2>2. CASE s # r
    BY <1>5, <2>2 DEF Receive, Answer, TypeOK
  <2> QED BY <2>1, <2>2
<1>6. ASSUME NEW r \in Requests, Query(r)
      PROVE  \/ pc'[s] \notin {"setUnread", "SendCMD"}
             \/ pc'[s] = pc[s] /\ UNCHANGED <<req[s], told>>
  BY <1>6 DEF Query, Goto, Answer, TypeOK
<1>7. ASSUME NEW r \in Requests, InsertOrUpdate(r)
      PROVE  \/ \/ pc'[s] \notin {"setUnread", "SendCMD"}
             \/ pc'[s] = pc[s] /\ UNCHANGED <<req[s], told>>
             \/ pc'[s] = "setUnread" /\ req'[s] = req[s] /\ req[s].seq <= row'[req[s].key]
  <2>1. CASE s # r
    BY <1>7, <2>1 DEF InsertOrUpdate, Goto, Answer, TypeOK
  <2>2. CASE s = r /\ Upsert(req[s].key, req[s].seq)
    BY <1>7, <1>t, <2>2, UpsertRaises DEF InsertOrUpdate, Goto, Answer, TypeOK
  <2>3. CASE s = r /\ UNCHANGED row /\ Answer(r, "error")
    BY <1>7, <2>3 DEF InsertOrUpdate, Answer, TypeOK
  <2> QED BY <1>7, <2>1, <2>2, <2>3 DEF InsertOrUpdate
<1>8. ASSUME NEW r \in Requests, SetUnread(r)
      PROVE  /\ req' = req /\ told[req[s].key] \subseteq told'[req[s].key]
             /\ \/ pc'[s] \notin {"setUnread", "SendCMD"}
                \/ pc'[s] = pc[s]
                \/ /\ pc[s] = "setUnread" /\ pc'[s] = "SendCMD"
                   /\ req[s].seq \in told'[req[s].key]
  BY <1>8, <1>t DEF SetUnread, Goto, Answer, TypeOK
<1>9. ASSUME NEW r \in Requests, SendCMD(r)
      PROVE  \/ pc'[s] \notin {"setUnread", "SendCMD"}
             \/ pc'[s] = pc[s] /\ UNCHANGED <<req[s], told>>
  BY <1>9 DEF SendCMD, Answer, TypeOK
<1>10. CASE Crash
  BY <1>4, <1>10 DEF Crash
<1>11. CASE \E r \in Requests : SetUnread(r)
  <2>1. PICK r \in Requests : SetUnread(r)
    BY <1>11
  <2>2. CASE pc'[s] = "SendCMD" /\ pc[s] = "setUnread"
    BY <1>1, <1>8, <1>t, <2>1, <2>2 DEF WrittenStaysWritten
  <2> QED BY <1>2, <1>4, <1>8, <2>1, <2>2
<1>12. CASE \E r \in Requests : InsertOrUpdate(r)
  BY <1>2, <1>4, <1>7, <1>12
<1> QED BY <1>2, <1>3, <1>4, <1>5, <1>6, <1>9, <1>10, <1>11, <1>12 DEF Next, Serve

-----------------------------------------------------------------------------

\* The tables start empty and every goroutine idle.
LEMMA InitIInv == ASSUME Init PROVE IInv
  BY OffsetAssumption DEF Init, IInv, TypeOK, OkMeansHidden, EffectsInOrder,
     WrittenStaysWritten, Labels, Answers

\* Every step keeps all four parts; each needs the types and the one before it.
LEMMA StepIInv == ASSUME IInv, [Next]_vars PROVE IInv'
  BY TypeStep, HiddenStep, OrderStep, WrittenStep DEF IInv

\* The inductive invariant holds in every behaviour.
THEOREM OffsetInvariant == Spec => []IInv
  BY InitIInv, StepIInv, PTL DEF Spec

\* Every variable of the handler model keeps its type.
THEOREM TypeCorrect == Spec => []TypeOK
  BY OffsetInvariant, PTL DEF IInv

\* An OK answer means that the messages the request wanted hidden are hidden.
THEOREM OkHides == Spec => []OkMeansHidden
  BY OffsetInvariant, PTL DEF IInv

\* Table, IM server and devices learn of a cleared channel in that order.
THEOREM EffectsOrdered == Spec => []EffectsInOrder
  BY OffsetInvariant, PTL DEF IInv

\* What a request under way has written stays in place until it ends.
THEOREM WrittenKept == Spec => []WrittenStaysWritten
  BY OffsetInvariant, PTL DEF IInv

\* No step of the server ever lowers a user's offset.
THEOREM OffsetMonotone == Spec => OffsetNeverFalls
<1>1. ASSUME TypeOK, [Next]_vars
      PROVE  [\A k \in Keys : row'[k] >= row[k]]_vars
  BY <1>1, StepRaisesRows
<1> QED BY <1>1, TypeCorrect, PTL DEF Spec, OffsetNeverFalls
-----------------------------------------------------------------------------
(* The handler implements the register. *)

\* The register's two variables, as the handler holds them.
Values == [k \in Keys |-> EffectiveOffset(k)]
Granted == {<<req[r].key, req[r].seq>> : r \in {s \in Requests : resp[s] = "ok"}}

\* The numbers the register sees are integers.
LEMMA ValuesTyped == ASSUME TypeOK PROVE Values \in [Keys -> Int]
  BY OffsetAssumption DEF TypeOK, Values, EffectiveOffset, Larger, Seqs, NoRow, Keys

\* A step that neither gives nor withdraws an OK leaves the grants alone.
LEMMA SameGrants ==
  ASSUME \A r \in Requests : resp'[r] = "ok" <=> resp[r] = "ok",
         \A r \in Requests : resp[r] = "ok" => req'[r] = req[r]
  PROVE  Granted' = Granted
  BY DEF Granted

\* The upsert is a Raise of the register, or nothing when the row was higher.
LEMMA UpsertRefines ==
  ASSUME TypeOK, NEW r \in Requests, Upsert(req[r].key, req[r].seq), Granted' = Granted
  PROVE  [Register!Next]_(Register!vars)
<1> DEFINE k == req[r].key
           n == req[r].seq
<1>1. k \in Keys /\ n \in Seqs /\ n \in Int /\ row \in [Keys -> Int] /\ SharedOffset[k[2]] \in Int
  BY OffsetAssumption DEF TypeOK, Keys, Seqs, NoRow
<1>2. row' = [row EXCEPT ![k] = Larger(row[k], n)]
  BY DEF Upsert
<1>3. CASE n <= EffectiveOffset(k)
  <2>1. Larger(row'[k], SharedOffset[k[2]]) = Larger(row[k], SharedOffset[k[2]])
    BY <1>1, <1>2, <1>3 DEF EffectiveOffset, Larger
  <2>2. \A j \in Keys : Larger(row'[j], SharedOffset[j[2]]) = Larger(row[j], SharedOffset[j[2]])
    BY <1>1, <1>2, <2>1
  <2>3. Values' = Values
    BY <2>2 DEF Values, EffectiveOffset
  <2> QED BY <2>3 DEF Register!vars, Values, Granted
<1>4. CASE n > EffectiveOffset(k)
  <2>1. Larger(row'[k], SharedOffset[k[2]]) = n
    BY <1>1, <1>2, <1>4 DEF EffectiveOffset, Larger
  <2>2. \A j \in Keys : j # k => row'[j] = row[j]
    BY <1>1, <1>2
  <2>3. Values' = [Values EXCEPT ![k] = n]
    BY <1>1, <2>1, <2>2 DEF Values, EffectiveOffset
  <2>4. Values[k] < n
    BY <1>1, <1>4 DEF Values
  <2>5. Register!Raise(k, n)
    BY <2>3, <2>4 DEF Register!Raise, Values, Granted
  <2> QED BY <1>1, <2>5 DEF Register!Next
<1>5. EffectiveOffset(k) \in Int
  BY <1>1 DEF EffectiveOffset, Larger
<1> QED BY <1>1, <1>3, <1>4, <1>5
\* An OK to a covered request is a Grant of the register.
LEMMA OkRefines ==
  ASSUME TypeOK, NEW r \in Requests, Answer(r, "ok"), UNCHANGED <<row, req>>,
         EffectiveOffset(req[r].key) >= req[r].seq
  PROVE  [Register!Next]_(Register!vars)
<1> DEFINE k == req[r].key
           n == req[r].seq
<1>1. k \in Keys /\ n \in Seqs /\ n \in Int /\ Values \in [Keys -> Int]
  BY OffsetAssumption, ValuesTyped DEF TypeOK, Seqs
<1>2. n <= Values[k]
  BY <1>1 DEF Values
<1>3. \A s \in Requests : resp'[s] = "ok" <=> resp[s] = "ok" \/ s = r
  BY DEF Answer, TypeOK
<1>4. Granted' = Granted \cup {<<k, n>>}
  BY <1>3 DEF Granted
<1>5. Values' = Values
  BY DEF Values, EffectiveOffset
<1>6. PICK a \in Keys, b \in Seqs : a = k /\ b = n
  BY <1>1
<1>7. Register!Grant(a, b)
  BY <1>2, <1>4, <1>5, <1>6, Zenon DEF Register!Grant, Values, Granted
<1> QED BY <1>7 DEF Register!Next

\* A goroutine that takes its next request forgets the OK it gave last.
LEMMA ReceiveRefines ==
  ASSUME TypeOK, NEW r \in Requests, NEW k \in Keys, NEW n \in Seqs, Receive(r, k, n)
  PROVE  [Register!Next]_(Register!vars)
<1> DEFINE old == <<req[r].key, req[r].seq>>
           others == {<<req[s].key, req[s].seq>> : s \in {q \in Requests : q # r /\ resp[q] = "ok"}}
<1>1. /\ \A s \in Requests : resp'[s] = "ok" <=> s # r /\ resp[s] = "ok"
      /\ \A s \in Requests : s # r => req'[s] = req[s]
      /\ row' = row
  BY DEF Receive, Answer, TypeOK
<1>2. Granted' = others
  BY <1>1 DEF Granted
<1>3. Values' = Values
  BY <1>1 DEF Values, EffectiveOffset
<1>4. CASE Granted' = Granted
  BY <1>3, <1>4 DEF Register!vars, Values, Granted
<1>5. CASE Granted' # Granted
  <2>1. Granted = others \cup {old} \/ Granted = others
    BY DEF Granted
  <2>2. Granted' = Granted \ {old}
    BY <1>2, <1>5, <2>1
  <2>3. PICK a \in Keys, b \in Seqs : old = <<a, b>>
    BY DEF TypeOK
  <2>4. Register!Forget(a, b)
    BY <1>3, <2>2, <2>3, Zenon DEF Register!Forget, Values, Granted
  <2> QED BY <2>4 DEF Register!Next
<1> QED BY <1>4, <1>5

\* Every step of the handler is a step of the register or changes nothing there.
LEMMA RefinesStep ==
  ASSUME IInv, [Next]_vars
  PROVE  [Register!Next]_(Register!vars)
<1> USE DEF IInv
<1> DEFINE Goal == [Register!Next]_(Register!vars)
<1>0. ASSUME UNCHANGED row, Granted' = Granted PROVE Goal
  BY <1>0 DEF Register!vars, EffectiveOffset, Granted
<1>1. CASE UNCHANGED vars
  BY <1>0, <1>1, SameGrants DEF vars
<1>2. CASE Crash
  <2>1. Granted' = Granted
    <3>1. \A r \in Requests : resp'[r] = "ok" <=> resp[r] = "ok"
      BY <1>2 DEF Crash, WrittenStaysWritten
    <3>2. req' = req
      BY <1>2 DEF Crash
    <3> QED BY <3>1, <3>2, SameGrants
  <2> QED BY <1>0, <1>2, <2>1 DEF Crash
<1>3. ASSUME NEW r \in Requests, NEW k \in Keys, NEW n \in Seqs, Receive(r, k, n)
      PROVE  Goal
  BY <1>3, ReceiveRefines
<1>4. ASSUME NEW r \in Requests, Query(r) PROVE Goal
  <2>1. CASE Answer(r, "ok") /\ EffectiveOffset(req[r].key) >= req[r].seq
    BY <1>4, <2>1, OkRefines DEF Query
  <2>2. CASE Goto(r, "insertOrUpdate") \/ Answer(r, "error")
    <3>1. Granted' = Granted
      BY <1>4, <2>2, SameGrants DEF Query, Goto, Answer, TypeOK, WrittenStaysWritten
    <3> QED BY <1>0, <1>4, <3>1 DEF Query
  <2> QED BY <1>4, <2>1, <2>2 DEF Query
<1>5. ASSUME NEW r \in Requests, InsertOrUpdate(r) PROVE Goal
  <2>1. Granted' = Granted
    BY <1>5, SameGrants DEF InsertOrUpdate, Goto, Answer, TypeOK, WrittenStaysWritten
  <2> QED BY <1>0, <1>5, <2>1, UpsertRefines DEF InsertOrUpdate
<1>6. ASSUME NEW r \in Requests, SetUnread(r) PROVE Goal
  <2>1. Granted' = Granted
    BY <1>6, SameGrants DEF SetUnread, Goto, Answer, TypeOK, WrittenStaysWritten
  <2> QED BY <1>0, <1>6, <2>1 DEF SetUnread
<1>7. ASSUME NEW r \in Requests, SendCMD(r) PROVE Goal
  <2>1. CASE Answer(r, "ok")
    <3>1. EffectiveOffset(req[r].key) >= req[r].seq
      BY <1>7, WrittenCovers DEF SendCMD
    <3> QED BY <1>7, <2>1, <3>1, OkRefines DEF SendCMD
  <2>2. CASE Answer(r, "error")
    <3>1. Granted' = Granted
      BY <1>7, <2>2, SameGrants DEF SendCMD, Answer, TypeOK, WrittenStaysWritten
    <3> QED BY <1>0, <1>7, <3>1 DEF SendCMD
  <2> QED BY <1>7, <2>1, <2>2 DEF SendCMD
<1> QED BY <1>1, <1>2, <1>3, <1>4, <1>5, <1>6, <1>7 DEF Next, Serve
\* The offset handler implements the register: what the table, the IM server
\* and the goroutines do together is, seen from outside, raising a number and
\* granting only what it covers.
THEOREM HandlerImplementsRegister == Spec => ImplementsRegister
<1>1. ASSUME Init PROVE Register!Init
  <2>1. IInv /\ Granted = {}
    BY <1>1, InitIInv DEF Init, Granted
  <2> QED BY <2>1, ValuesTyped DEF IInv, Register!Init, Values, Granted
<1>2. ASSUME IInv, [Next]_vars PROVE [Register!Next]_(Register!vars)
  BY <1>2, RefinesStep
<1> QED BY <1>1, <1>2, OffsetInvariant, PTL DEF Spec, ImplementsRegister, Register!Spec
=============================================================================
