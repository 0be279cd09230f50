------------------------------ MODULE PoolProofs ------------------------------
(***************************************************************************)
(* The safety of the pools for any jobs, pools, workers and rosters.       *)
(***************************************************************************)
EXTENDS Pool, SequenceTheorems, FiniteSetTheorems, TLAPS

-----------------------------------------------------------------------------
(* Sequences. *)

\* The head of the queue goes before the rest of it.
LEMMA HeadBetween ==
  ASSUME NEW S, NEW s \in Seq(S), NEW q \in Seq(S), q # <<>>
  PROVE  (s \o <<>>) \o q = (s \o <<Head(q)>>) \o Tail(q)
<1>1. Head(q) \in S /\ Tail(q) \in Seq(S) /\ <<Head(q)>> \in Seq(S)
  BY HeadTailProperties
<1>2. q = <<Head(q)>> \o Tail(q)
  BY <1>1, HeadTailAppend, HeadTailProperties, ConcatProperties, SeqEqual, EmptySeq
<1> QED BY <1>1, <1>2, ConcatAssociative, ConcatEmptySeq

\* What appending adds to the range of a sequence.
LEMMA AppendedRange ==
  ASSUME NEW S, NEW s \in Seq(S), NEW j \in S
  PROVE  Range(Append(s, j)) = Range(s) \cup {j}
<1>1. /\ Append(s, j) \in Seq(S) /\ Len(Append(s, j)) = Len(s) + 1
      /\ Append(s, j)[Len(s) + 1] = j /\ \A k \in 1 .. Len(s) : Append(s, j)[k] = s[k]
  BY AppendProperties
<1>2. Len(s) \in Nat /\ DOMAIN s = 1 .. Len(s) /\ DOMAIN Append(s, j) = 1 .. Len(s) + 1
  BY <1>1, LenProperties
<1>3. \A k \in 1 .. Len(s) + 1 : k \in 1 .. Len(s) \/ k = Len(s) + 1
  BY <1>2
<1>4. \A k \in 1 .. Len(s) : k \in 1 .. Len(s) + 1
  BY <1>2
<1>5. Len(s) + 1 \in 1 .. Len(s) + 1
  BY <1>2
<1>6. ASSUME NEW x PROVE x \in Range(Append(s, j)) <=> x \in Range(s) \/ x = j
  BY <1>1, <1>2, <1>3, <1>4, <1>5 DEF Range
<1> QED BY <1>6

-----------------------------------------------------------------------------
(* Types, but for the bound of Total. *)

Types ==
  /\ queue \in [Pools -> Seq(Jobs)]
  /\ pop \in [Pools -> PopStates]
  /\ worker \in [Workers -> WorkerStates]
  /\ counting \in SUBSET Pools
  /\ toStop \in [Pools -> Seq(Workers)]
  /\ ended \in SUBSET Pools
  /\ total \in [Pools -> Nat]
  /\ executing \in [Pools -> Int]
  /\ accepted \in [Pools -> Seq(Jobs)] /\ started \in [Pools -> Seq(Jobs)]
  /\ ran \in SUBSET Jobs

\* Where a goroutine of either kind blocks says which fields it has.
LEMMA PopFacts ==
  ASSUME NEW s \in PopStates
  PROVE  /\ s.at \in {"pop", "popped", "take", "taken", "give"}
         /\ s.at # "pop" => s.job \in Jobs
         /\ s.at \in {"taken", "give"} => s.to \in Workers
BY DEF PopStates, Popping

\* A loop that counts a job keeps the job, and the worker it took.
LEMMA CountTotalMoves ==
  ASSUME Types, NEW p \in Pools, CountTotal(p)
  PROVE  /\ pop' \in [Pools -> PopStates] /\ \A q \in Pools \ {p} : pop'[q] = pop[q]
         /\ pop[p].at = "popped" /\ pop'[p].at = "take" /\ pop'[p].job = pop[p].job
<1>1. PICK s \in PopStates : s = pop[p]
  BY DEF Types
<1>2. s.at = "popped" /\ pop' = [pop EXCEPT ![p] = [s EXCEPT !.at = "take"]]
  BY <1>1 DEF CountTotal, Types
<1>3. PICK j \in Jobs : s = [at |-> "popped", job |-> j]
  BY <1>2 DEF PopStates, Popping
<1>4. [s EXCEPT !.at = "take"] = [at |-> "take", job |-> j]
  BY <1>3
<1>5. [at |-> "take", job |-> j] \in PopStates
  BY DEF PopStates
<1>6. \A q \in Pools : pop'[q] = IF q = p THEN [at |-> "take", job |-> j] ELSE pop[q]
  BY <1>2, <1>4 DEF Types
<1>7. pop' \in [Pools -> PopStates]
  BY <1>2, <1>4, <1>5 DEF Types
<1>8. pop'[p] = [at |-> "take", job |-> j] /\ \A q \in Pools \ {p} : pop'[q] = pop[q]
  BY <1>6
<1> QED BY <1>1, <1>3, <1>7, <1>8
LEMMA CountExecutingMoves ==
  ASSUME Types, NEW p \in Pools, CountExecuting(p)
  PROVE  /\ pop' \in [Pools -> PopStates] /\ \A q \in Pools \ {p} : pop'[q] = pop[q]
         /\ pop[p].at = "taken" /\ pop'[p].at = "give" /\ pop'[p].job = pop[p].job
         /\ pop'[p].to = pop[p].to
<1>1. PICK s \in PopStates : s = pop[p]
  BY DEF Types
<1>2. s.at = "taken" /\ pop' = [pop EXCEPT ![p] = [s EXCEPT !.at = "give"]]
  BY <1>1 DEF CountExecuting, Types
<1>3. PICK j \in Jobs, w \in Workers : s = [at |-> "taken", job |-> j, to |-> w]
  BY <1>2 DEF PopStates, Popping
<1>4. [s EXCEPT !.at = "give"] = [at |-> "give", job |-> j, to |-> w]
  BY <1>3
<1>5. [at |-> "give", job |-> j, to |-> w] \in PopStates
  BY DEF PopStates
<1>6. \A q \in Pools : pop'[q] = IF q = p THEN [at |-> "give", job |-> j, to |-> w] ELSE pop[q]
  BY <1>2, <1>4 DEF Types
<1>7. pop' \in [Pools -> PopStates]
  BY <1>2, <1>4, <1>5 DEF Types
<1>8. pop'[p] = [at |-> "give", job |-> j, to |-> w] /\ \A q \in Pools \ {p} : pop'[q] = pop[q]
  BY <1>6
<1> QED BY <1>1, <1>3, <1>7, <1>8

\* Where a worker is tells whether it has a job.
LEMMA WorkerFacts ==
  ASSUME NEW s \in WorkerStates
  PROVE  /\ s.at \in {"offer", "wait", "report", "stopped", "run"}
         /\ s.at = "run" => s.job \in Jobs
BY DEF WorkerStates

\* The states that loops and workers go through.
LEMMA StatesExist ==
  /\ Popping \in PopStates
  /\ \A j \in Jobs : [at |-> "popped", job |-> j] \in PopStates
  /\ \A j \in Jobs, w \in Workers : [at |-> "taken", job |-> j, to |-> w] \in PopStates
  /\ Offering \in WorkerStates /\ Offering.at = "offer"
  /\ \A at \in {"wait", "report", "stopped"} : [at |-> at] \in WorkerStates
  /\ \A j \in Jobs : [at |-> "run", job |-> j] \in WorkerStates
BY DEF PopStates, Popping, WorkerStates, Offering

\* The assumption on rosters: every worker has one pool.
LEMMA HomeIsOne == ASSUME NEW w \in Workers PROVE Home(w) \in Pools
<1>1. {p \in Pools : w \in Range(Roster[p])} # {}
  <2>1. Cardinality({p \in Pools : w \in Range(Roster[p])}) = 1
    BY PoolAssumption
  <2> QED BY <2>1, FS_EmptySet
<1> QED BY <1>1 DEF Home

\* Every step keeps the types.
LEMMA TypesStep == Types /\ [Next]_vars => Types'
<1> SUFFICES ASSUME Types, [Next]_vars PROVE Types'
  OBVIOUS
<1> USE StatesExist
<1>1. ASSUME NEW p \in Pools, NEW j \in Jobs, Submit(p, j) PROVE Types'
  <2>1. Append(queue[p], j) \in Seq(Jobs) /\ Append(accepted[p], j) \in Seq(Jobs)
    BY AppendProperties DEF Types
  <2> QED BY <1>1, <2>1 DEF Submit, Types, statistics
<1>2. ASSUME NEW p \in Pools, End(p) PROVE Types'
  <2>1. Roster[p] \in Seq(Workers)
    BY PoolAssumption
  <2> QED BY <1>2, <2>1 DEF End, Types, statistics, history
<1>3. ASSUME NEW p \in Pools, StopWorker(p) PROVE Types'
  <2>1. Tail(toStop[p]) \in Seq(Workers)
    BY <1>3, HeadTailProperties DEF StopWorker, Types
  <2> QED BY <1>3, <2>1 DEF StopWorker, Types, statistics, history
<1>4. ASSUME NEW p \in Pools, Pop(p) PROVE Types'
  <2>1. Tail(queue[p]) \in Seq(Jobs) /\ Head(queue[p]) \in Jobs
    BY <1>4, HeadTailProperties DEF Pop, Types
  <2> QED BY <1>4, <2>1 DEF Pop, Types, statistics, history
<1>5. ASSUME NEW p \in Pools, NEW w \in Workers, Take(p, w) PROVE Types'
  <2>1. pop[p].job \in Jobs
    BY <1>5, PopFacts DEF Take, Types
  <2>2. pop' = [pop EXCEPT ![p] = [at |-> "taken", job |-> pop[p].job, to |-> w]]
    BY <1>5 DEF Take, Types
  <2> QED BY <1>5, <2>1, <2>2 DEF Take, Types, statistics, history
<1>10. ASSUME NEW p \in Pools, CountTotal(p) PROVE Types'
  <2>1. total[p] + 1 \in Nat /\ total' = [total EXCEPT ![p] = total[p] + 1]
    BY <1>10 DEF CountTotal, Types
  <2>2. pop' \in [Pools -> PopStates]
    BY <1>10, CountTotalMoves
  <2> QED BY <1>10, <2>1, <2>2 DEF CountTotal, Types, history
<1>11. ASSUME NEW p \in Pools, CountExecuting(p) PROVE Types'
  <2>1. executing[p] + 1 \in Int /\ executing' = [executing EXCEPT ![p] = executing[p] + 1]
    BY <1>11 DEF CountExecuting, Types
  <2>2. pop' \in [Pools -> PopStates]
    BY <1>11, CountExecutingMoves
  <2> QED BY <1>11, <2>1, <2>2 DEF CountExecuting, Types, history
<1>6. ASSUME NEW p \in Pools, Give(p) PROVE Types'
  <2>1. pop[p].job \in Jobs /\ pop[p].to \in Workers
    BY <1>6, PopFacts DEF Give, Types
  <2>2. Append(started[p], pop[p].job) \in Seq(Jobs)
    BY <2>1, AppendProperties DEF Types
  <2> QED BY <1>6, <2>1, <2>2 DEF Give, Types, statistics
<1>7. ASSUME NEW w \in Workers, Run(w) PROVE Types'
  <2>1. worker[w].job \in Jobs
    BY <1>7, WorkerFacts DEF Run, Types
  <2> QED BY <1>7, <2>1 DEF Run, Types, statistics
<1>8. ASSUME NEW w \in Workers, Finish(w) PROVE Types'
  BY <1>8, HomeIsOne DEF Finish, Types, statistics, history
<1>12. ASSUME NEW p \in Pools, CountFinished(p) PROVE Types'
  <2>1. executing[p] - 1 \in Int
    BY DEF Types
  <2> QED BY <1>12, <2>1 DEF CountFinished, Types, history
<1>9. CASE UNCHANGED vars
  BY <1>9 DEF vars, Types, statistics, history
<1> QED BY <1>1, <1>2, <1>3, <1>4, <1>5, <1>6, <1>7, <1>8, <1>9, <1>10, <1>11, <1>12 DEF Next

\* The types hold in every behaviour.
LEMMA Typed == Spec => []Types
<1>1. Init => Types
  BY StatesExist, EmptySeq DEF Init, Types
<1> QED BY <1>1, TypesStep, PTL DEF Spec

-----------------------------------------------------------------------------
(* No job is lost, doubled or overtaken. *)

\* A job moves from the queue to the loop's hand and on to a worker, in order.
LEMMA OrderStep == Types /\ JobsKeepOrder /\ [Next]_vars => JobsKeepOrder'
<1> SUFFICES ASSUME Types, JobsKeepOrder, [Next]_vars, NEW q \in Pools
             PROVE  accepted'[q] = started'[q] \o InHand(q)' \o queue'[q]
  BY DEF JobsKeepOrder
<1>0. /\ accepted[q] = started[q] \o InHand(q) \o queue[q]
      /\ queue[q] \in Seq(Jobs) /\ started[q] \in Seq(Jobs) /\ accepted[q] \in Seq(Jobs)
      /\ InHand(q) \in Seq(Jobs) /\ started[q] \o InHand(q) \in Seq(Jobs)
  <2>1. InHand(q) \in Seq(Jobs)
    BY PopFacts, EmptySeq DEF InHand, Types
  <2> QED BY <2>1, ConcatProperties DEF Types, JobsKeepOrder
<1>1. CASE UNCHANGED <<accepted[q], started[q], queue[q], InHand(q)>>
  BY <1>0, <1>1
<1>2. ASSUME NEW p \in Pools, NEW j \in Jobs, Submit(p, j)
      PROVE  accepted'[q] = started'[q] \o InHand(q)' \o queue'[q]
  <2>1. InHand(q)' = InHand(q) /\ started'[q] = started[q]
    BY <1>2 DEF Submit, InHand
  <2>2. CASE p = q
    <3>1. accepted'[q] = Append(accepted[q], j) /\ queue'[q] = Append(queue[q], j)
      BY <1>2, <2>2 DEF Submit, Types
    <3>2. accepted'[q] = accepted[q] \o <<j>> /\ queue'[q] = queue[q] \o <<j>>
      BY <1>0, <3>1, AppendIsConcat
    <3>3. <<j>> \in Seq(Jobs)
      OBVIOUS
    <3>4. PICK b \in Seq(Jobs), t \in Seq(Jobs) : b = started[q] \o InHand(q) /\ t = queue[q]
      BY <1>0
    <3>5. (b \o t) \o <<j>> = b \o (t \o <<j>>)
      BY <3>3, ConcatAssociative
    <3> QED BY <1>0, <2>1, <3>2, <3>4, <3>5
  <2>3. CASE p # q
    BY <1>1, <1>2, <2>1, <2>3 DEF Submit, Types
  <2> QED BY <2>2, <2>3
<1>3. ASSUME NEW p \in Pools, Pop(p)
      PROVE  accepted'[q] = started'[q] \o InHand(q)' \o queue'[q]
  <2>1. accepted'[q] = accepted[q] /\ started'[q] = started[q]
    BY <1>3 DEF Pop, history
  <2>2. CASE p = q
    <3>1. InHand(q) = <<>> /\ queue[q] # <<>>
      BY <1>3, <2>2 DEF Pop, InHand
    <3>2. pop'[q] = [at |-> "popped", job |-> Head(queue[q])] /\ queue'[q] = Tail(queue[q])
      BY <1>3, <2>2 DEF Pop, Types
    <3>3. InHand(q)' = <<Head(queue[q])>>
      BY <3>2 DEF InHand
    <3> QED BY <1>0, <2>1, <3>1, <3>2, <3>3, HeadBetween
  <2>3. CASE p # q
    BY <1>1, <1>3, <2>1, <2>3 DEF Pop, Types, InHand
  <2> QED BY <2>2, <2>3
<1>4. ASSUME NEW p \in Pools, NEW w \in Workers, Take(p, w)
      PROVE  accepted'[q] = started'[q] \o InHand(q)' \o queue'[q]
  <2>1. InHand(q)' = InHand(q)
    <3>1. CASE p = q
      <4>1. pop'[q].job = pop[q].job /\ pop'[q].at = "taken" /\ pop[q].at = "take"
        BY <1>4, <3>1 DEF Take, Types
      <4> QED BY <4>1 DEF InHand
    <3>2. CASE p # q
      BY <1>4, <3>2 DEF Take, Types, InHand
    <3> QED BY <3>1, <3>2
  <2> QED BY <1>1, <1>4, <2>1 DEF Take, history
<1>5. ASSUME NEW p \in Pools, Give(p)
      PROVE  accepted'[q] = started'[q] \o InHand(q)' \o queue'[q]
  <2>1. accepted'[q] = accepted[q] /\ queue'[q] = queue[q]
    BY <1>5 DEF Give
  <2>2. CASE p = q
    <3>1. InHand(q) = <<pop[q].job>> /\ pop[q].job \in Jobs
      BY <1>5, <2>2, PopFacts DEF Give, InHand, Types
    <3>2. pop'[q] = Popping /\ started'[q] = Append(started[q], pop[q].job)
      BY <1>5, <2>2 DEF Give, Types
    <3>3. InHand(q)' = <<>>
      BY <3>2 DEF InHand, Popping
    <3>4. started'[q] = started[q] \o InHand(q)
      BY <1>0, <3>1, <3>2, AppendIsConcat
    <3> QED BY <1>0, <2>1, <3>3, <3>4, ConcatEmptySeq
  <2>3. CASE p # q
    BY <1>1, <1>5, <2>1, <2>3 DEF Give, Types, InHand
  <2> QED BY <2>2, <2>3
<1>6. CASE UNCHANGED <<accepted, started, queue, pop>>
  BY <1>1, <1>6 DEF InHand
<1>7. ASSUME NEW p \in Pools, CountTotal(p) \/ CountExecuting(p)
      PROVE  accepted'[q] = started'[q] \o InHand(q)' \o queue'[q]
  <2>1. InHand(q)' = InHand(q)
    <3>1. CASE p = q
      <4>1. pop'[q].job = pop[q].job /\ pop'[q].at # "pop" /\ pop[q].at # "pop"
        BY <1>7, <3>1, CountTotalMoves, CountExecutingMoves
      <4> QED BY <4>1 DEF InHand
    <3>2. CASE p # q
      BY <1>7, <3>2, CountTotalMoves, CountExecutingMoves DEF InHand
    <3> QED BY <3>1, <3>2
  <2> QED BY <1>1, <1>7, <2>1 DEF CountTotal, CountExecuting, history
<1> QED BY <1>2, <1>3, <1>4, <1>5, <1>6, <1>7
        DEF Next, vars, End, StopWorker, Run, Finish, CountFinished, history

\* What a pool accepted is what workers received, what loopPop holds and what is
\* queued, in this order: through the shared channel, nil jobs and Ends, for ever.
THEOREM OrderKept == Spec => []JobsKeepOrder
<1>1. Init => JobsKeepOrder
  <2> SUFFICES ASSUME Init, NEW p \in Pools
               PROVE  accepted[p] = started[p] \o InHand(p) \o queue[p]
    BY DEF JobsKeepOrder
  <2>1. InHand(p) = <<>> /\ accepted[p] = <<>> /\ started[p] = <<>> /\ queue[p] = <<>>
    BY DEF Init, InHand, Popping
  <2> QED BY <2>1, ConcatEmptySeq, EmptySeq
<1> QED BY <1>1, Typed, OrderStep, PTL DEF Spec

-----------------------------------------------------------------------------
(* A job is accepted once, and Total counts those that left the queue and were counted. *)

AcceptedOnce ==
  \A p, q \in Pools : \A i \in 1 .. Len(accepted[p]), k \in 1 .. Len(accepted[q]) :
    accepted[p][i] = accepted[q][k] => p = q /\ i = k
Counted(p) == Len(started[p]) + (IF pop[p].at \in {"pop", "popped"} THEN 0 ELSE 1)
TotalCounts == \A p \in Pools : total[p] = Counted(p)

\* A job is accepted only when no pool has accepted it.
LEMMA AcceptedOnceStep == Types /\ AcceptedOnce /\ [Next]_vars => AcceptedOnce'
<1> SUFFICES ASSUME Types, AcceptedOnce, [Next]_vars PROVE AcceptedOnce'
  OBVIOUS
<1>1. CASE UNCHANGED accepted
  BY <1>1 DEF AcceptedOnce
<1>2. ASSUME NEW r \in Pools, NEW j \in Jobs, Submit(r, j) PROVE AcceptedOnce'
  <2>1. /\ \A p \in Pools : accepted[p] \in Seq(Jobs) /\ Len(accepted[p]) \in Nat
        /\ \A p \in Pools : accepted'[p] = IF p = r THEN Append(accepted[r], j) ELSE accepted[p]
    BY <1>2, LenProperties DEF Submit, Types
  <2>2. ASSUME NEW p \in Pools, NEW i \in 1 .. Len(accepted[p]) PROVE accepted[p][i] # j
    <3>1. accepted[p][i] \in Range(accepted[p])
      BY <2>1, LenProperties DEF Range
    <3> QED BY <1>2, <3>1 DEF Submit, Submitted
  <2>3. ASSUME NEW p \in Pools, NEW i \in 1 .. Len(accepted'[p])
        PROVE  \/ i \in 1 .. Len(accepted[p]) /\ accepted'[p][i] = accepted[p][i]
               \/ p = r /\ i = Len(accepted[r]) + 1 /\ accepted'[p][i] = j
    <3>1. CASE p # r
      BY <2>1, <3>1
    <3>2. CASE p = r
      <4>1. /\ Len(accepted'[p]) = Len(accepted[r]) + 1
            /\ \A k \in 1 .. Len(accepted[r]) : accepted'[p][k] = accepted[r][k]
            /\ accepted'[p][Len(accepted[r]) + 1] = j
        <5>1. PICK s \in Seq(Jobs) : s = accepted[r]
          BY <2>1
        <5>2. /\ Len(Append(s, j)) = Len(s) + 1 /\ Append(s, j)[Len(s) + 1] = j
              /\ \A k \in 1 .. Len(s) : Append(s, j)[k] = s[k]
          BY AppendProperties
        <5> QED BY <2>1, <3>2, <5>1, <5>2
      <4>2. i \in 1 .. Len(accepted[r]) + 1
        BY <4>1
      <4>3. i \in 1 .. Len(accepted[r]) \/ i = Len(accepted[r]) + 1
        BY <2>1, <4>2
      <4> QED BY <3>2, <4>1, <4>3
    <3> QED BY <3>1, <3>2
  <2>4. ASSUME NEW p \in Pools, NEW q \in Pools,
               NEW i \in 1 .. Len(accepted'[p]), NEW k \in 1 .. Len(accepted'[q]),
               accepted'[p][i] = accepted'[q][k]
        PROVE  p = q /\ i = k
    <3>1. CASE p = r /\ i = Len(accepted[r]) + 1 /\ accepted'[p][i] = j
      BY <2>2, <2>3, <2>4, <3>1
    <3>2. CASE q = r /\ k = Len(accepted[r]) + 1 /\ accepted'[q][k] = j
      BY <2>2, <2>3, <2>4, <3>2
    <3>3. CASE /\ i \in 1 .. Len(accepted[p]) /\ accepted'[p][i] = accepted[p][i]
               /\ k \in 1 .. Len(accepted[q]) /\ accepted'[q][k] = accepted[q][k]
      <4>1. accepted[p][i] = accepted[q][k]
        BY <2>4, <3>3
      <4>2. \A x \in 1 .. Len(accepted[p]), y \in 1 .. Len(accepted[q]) :
              accepted[p][x] = accepted[q][y] => p = q /\ x = y
        BY Zenon DEF AcceptedOnce
      <4>3. i \in 1 .. Len(accepted[p]) /\ k \in 1 .. Len(accepted[q])
        BY <3>3
      <4> QED BY <4>1, <4>2, <4>3, Zenon
    <3> QED BY <2>3, <3>1, <3>2, <3>3
  <2> QED BY <2>4 DEF AcceptedOnce
<1> QED BY <1>1, <1>2
        DEF Next, vars, End, StopWorker, Pop, CountTotal, Take, CountExecuting, Give, Run, Finish,
            CountFinished, history

\* The counter goes up after a job was popped, before a worker is taken for it.
LEMMA TotalStep == Types /\ TotalCounts /\ [Next]_vars => TotalCounts'
<1> SUFFICES ASSUME Types, TotalCounts, [Next]_vars, NEW q \in Pools
             PROVE  total'[q] = Counted(q)'
  BY DEF TotalCounts
<1>0. total[q] = Counted(q) /\ Len(started[q]) \in Nat
  BY LenProperties DEF TotalCounts, Types
<1>1. CASE UNCHANGED <<total[q], started[q], pop[q]>>
  BY <1>0, <1>1 DEF Counted
<1>2. ASSUME NEW p \in Pools,
             Pop(p) \/ (\E w \in Workers : Take(p, w)) \/ CountExecuting(p)
      PROVE  total'[q] = Counted(q)'
  <2>1. total' = total /\ started' = started
    BY <1>2 DEF Pop, Take, CountExecuting, statistics, history
  <2>2. CASE p = q
    <3>1. pop'[q].at \in {"pop", "popped"} <=> pop[q].at \in {"pop", "popped"}
      BY <1>2, <2>2, CountExecutingMoves DEF Pop, Take, Types
    <3> QED BY <1>0, <2>1, <3>1 DEF Counted
  <2>3. CASE p # q
    BY <1>1, <1>2, <2>1, <2>3 DEF Pop, Take, CountExecuting, Types
  <2> QED BY <2>2, <2>3
<1>3. ASSUME NEW p \in Pools, CountTotal(p) PROVE total'[q] = Counted(q)'
  <2>1. started' = started
    BY <1>3 DEF CountTotal, history
  <2>2. CASE p = q
    <3>1. pop[q].at = "popped" /\ total'[q] = total[q] + 1 /\ pop'[q].at = "take"
      BY <1>3, <2>2, CountTotalMoves DEF CountTotal, Types
    <3>2. Counted(q) = Len(started[q]) + 0 /\ Counted(q)' = Len(started[q]) + 1
      BY <2>1, <3>1 DEF Counted
    <3> HIDE DEF Counted
    <3> QED BY <1>0, <3>1, <3>2
  <2>3. CASE p # q
    BY <1>1, <1>3, <2>1, <2>3 DEF CountTotal, Types
  <2> QED BY <2>2, <2>3
<1>4. ASSUME NEW p \in Pools, Give(p) PROVE total'[q] = Counted(q)'
  <2>1. total' = total
    BY <1>4 DEF Give, statistics
  <2>2. CASE p = q
    <3>1. pop[q].at = "give" /\ pop'[q] = Popping /\ pop[q].job \in Jobs
          /\ started'[q] = Append(started[q], pop[q].job) /\ started[q] \in Seq(Jobs)
      BY <1>4, <2>2, PopFacts DEF Give, Types
    <3>2. Len(started'[q]) = Len(started[q]) + 1
      BY <3>1, AppendProperties
    <3>3. pop'[q].at = "pop"
      BY <3>1 DEF Popping
    <3> QED BY <1>0, <2>1, <3>1, <3>2, <3>3 DEF Counted
  <2>3. CASE p # q
    BY <1>1, <1>4, <2>1, <2>3 DEF Give, Types
  <2> QED BY <2>2, <2>3
<1>5. CASE UNCHANGED <<total, started, pop>>
  BY <1>1, <1>5
<1> QED BY <1>2, <1>3, <1>4, <1>5
        DEF Next, vars, Submit, End, StopWorker, Run, Finish, CountFinished, statistics, history

\* Both hold in every behaviour.
LEMMA OnceAndCounted == Spec => [](AcceptedOnce /\ TotalCounts)
<1>1. Init => AcceptedOnce /\ TotalCounts
  <2> SUFFICES ASSUME Init PROVE AcceptedOnce /\ TotalCounts
    OBVIOUS
  <2>1. \A p \in Pools : /\ accepted[p] = <<>> /\ started[p] = <<>> /\ total[p] = 0
                         /\ pop[p].at = "pop"
    BY DEF Init, Popping
  <2>2. AcceptedOnce
    BY <2>1 DEF AcceptedOnce
  <2>3. TotalCounts
    <3>1. ASSUME NEW p \in Pools PROVE Len(started[p]) = 0
      BY <2>1, EmptySeq
    <3>2. \A p \in Pools : Counted(p) = Len(started[p]) + 0
      BY <2>1 DEF Counted
    <3> QED BY <2>1, <3>1, <3>2 DEF TotalCounts
  <2> QED BY <2>2, <2>3
<1> QED BY <1>1, Typed, AcceptedOnceStep, TotalStep, PTL DEF Spec

\* As jobs are accepted once, no sequence of them is longer than there are jobs.
LEMMA NoMoreThanJobs ==
  ASSUME Types, AcceptedOnce, NEW p \in Pools
  PROVE  Len(accepted[p]) <= Cardinality(Jobs)
<1> DEFINE n == Len(accepted[p])
<1>1. n \in Nat /\ accepted[p] \in [1 .. n -> Jobs]
  BY LenProperties DEF Types
<1>2. accepted[p] \in Injection(1 .. n, Jobs)
  BY <1>1 DEF Injection, IsInjective, AcceptedOnce
<1>3. Cardinality(1 .. n) <= Cardinality(Jobs)
  BY <1>2, FS_Injection, PoolAssumption
<1>4. Cardinality(1 .. n) = n
  BY <1>1, FS_Interval
<1> QED BY <1>3, <1>4

\* Every variable keeps its type; Total never counts more jobs than were submitted.
THEOREM TypeCorrect == Spec => []TypeOK
<1>1. Types /\ AcceptedOnce /\ TotalCounts /\ JobsKeepOrder => TypeOK
  <2> SUFFICES ASSUME Types, AcceptedOnce, TotalCounts, JobsKeepOrder, NEW p \in Pools
               PROVE  total[p] \in 0 .. Cardinality(Jobs)
    BY DEF Types, TypeOK
  <2>1. InHand(p) \in Seq(Jobs) /\ started[p] \in Seq(Jobs) /\ queue[p] \in Seq(Jobs)
        /\ Len(InHand(p)) = IF pop[p].at = "pop" THEN 0 ELSE 1
    BY PopFacts, EmptySeq DEF InHand, Types
  <2>2. Len(accepted[p]) = Len(started[p]) + Len(InHand(p)) + Len(queue[p])
    <3>1. PICK a \in Seq(Jobs), h \in Seq(Jobs), q \in Seq(Jobs) :
            a = started[p] /\ h = InHand(p) /\ q = queue[p]
      BY <2>1
    <3>2. a \o h \in Seq(Jobs) /\ Len(a \o h) = Len(a) + Len(h)
      BY ConcatProperties
    <3>3. Len((a \o h) \o q) = Len(a \o h) + Len(q)
      BY <3>2, ConcatProperties
    <3>4. accepted[p] = (a \o h) \o q
      BY <3>1 DEF JobsKeepOrder
    <3> QED BY <3>1, <3>2, <3>3, <3>4
  <2>3. Len(started[p]) \in Nat /\ Len(queue[p]) \in Nat /\ Len(accepted[p]) \in Nat
    BY LenProperties DEF Types
  <2>4. total[p] \in Nat /\ total[p] <= Len(accepted[p])
    <3> DEFINE n == Len(InHand(p))
               m == Len(started[p])
               k == Len(queue[p])
    <3>1. n \in {0, 1} /\ (n = 0 => pop[p].at = "pop") /\ k \in Nat
      BY <2>1, <2>3
    <3>2. m \in Nat /\ Len(accepted[p]) = m + n + k
      BY <2>2, <2>3
    <3>3. /\ pop[p].at \in {"pop", "popped"} => total[p] = m + 0
          /\ pop[p].at \notin {"pop", "popped"} => total[p] = m + 1
      BY DEF TotalCounts, Counted
    <3> HIDE DEF n, m, k
    <3>4. CASE pop[p].at \in {"pop", "popped"}
      <4>1. total[p] = m + 0 /\ n \in Nat
        BY <3>1, <3>3, <3>4
      <4> QED BY <3>1, <3>2, <4>1
    <3>5. CASE pop[p].at \notin {"pop", "popped"}
      <4>1. total[p] = m + 1 /\ n = 1
        BY <3>1, <3>3, <3>5
      <4> QED BY <3>1, <3>2, <4>1
    <3> QED BY <3>4, <3>5
  <2>5. Cardinality(Jobs) \in Nat
    BY PoolAssumption, FS_CardinalityType
  <2> QED BY <2>3, <2>4, <2>5, NoMoreThanJobs
<1> QED BY <1>1, Typed, OnceAndCounted, OrderKept, PTL

-----------------------------------------------------------------------------
(* A worker's offer is taken by one loop. *)

\* What a loop that holds a worker says of it.
LEMMA HoldsFacts ==
  ASSUME Types, NEW p \in Pools, NEW w \in Workers
  PROVE  /\ Holds(p, w) => pop[p].at \in {"taken", "give"} /\ pop[p].to = w
         /\ pop[p].at = "give" => pop[p].to \in Workers /\ Holds(p, pop[p].to)
BY PopFacts DEF Holds, Types

\* Nobody is held that was not, and those that are stay where they are, or are stopped.
LEMMA TakenSame ==
  ASSUME Types, TakenByOne,
         \A p \in Pools, w \in Workers : Holds(p, w)' <=> Holds(p, w),
         \A w \in Workers : \/ worker'[w].at = worker[w].at
                            \/ worker[w].at = "wait" /\ worker'[w].at = "stopped"
                            \/ worker[w].at \notin {"wait", "stopped"} /\ worker'[w].at # "wait"
  PROVE  TakenByOne'
BY DEF TakenByOne

\* A worker that was taken waits until it is given its job, and is taken by no other loop.
LEMMA TakenStep == Types /\ TakenByOne /\ [Next]_vars => TakenByOne'
<1> SUFFICES ASSUME Types, TakenByOne, [Next]_vars PROVE TakenByOne'
  OBVIOUS
<1>0. pop \in [Pools -> PopStates] /\ worker \in [Workers -> WorkerStates]
  BY DEF Types
<1>1. CASE UNCHANGED <<pop, worker>>
  BY <1>1 DEF TakenByOne, Holds
<1>2. ASSUME NEW p \in Pools, StopWorker(p) PROVE TakenByOne'
  <2>1. PICK v : worker[v].at = "wait" /\ worker' = [worker EXCEPT ![v] = [at |-> "stopped"]]
    BY <1>2 DEF StopWorker
  <2>2. \A w \in Workers : worker'[w] = IF w = v THEN [at |-> "stopped"] ELSE worker[w]
    BY <1>0, <2>1
  <2>3. \A w \in Workers : \/ worker'[w].at = worker[w].at
                           \/ worker[w].at = "wait" /\ worker'[w].at = "stopped"
    BY <2>1, <2>2
  <2>4. \A q \in Pools, w \in Workers : Holds(q, w)' <=> Holds(q, w)
    BY <1>2 DEF StopWorker, Holds
  <2> QED BY <2>3, <2>4, TakenSame
<1>3. ASSUME NEW p \in Pools, Pop(p) \/ CountTotal(p) \/ CountExecuting(p) PROVE TakenByOne'
  <2>1. worker' = worker /\ \A q \in Pools \ {p} : pop'[q] = pop[q]
    BY <1>0, <1>3, CountTotalMoves, CountExecutingMoves DEF Pop, CountTotal, CountExecuting
  <2>2. \/ /\ pop[p].at \notin {"taken", "give"} /\ pop'[p].at \notin {"taken", "give"}
        \/ /\ pop[p].at \in {"taken", "give"} /\ pop'[p].at \in {"taken", "give"}
           /\ pop'[p].to = pop[p].to
    BY <1>0, <1>3, CountTotalMoves, CountExecutingMoves DEF Pop
  <2>3. \A q \in Pools, w \in Workers : Holds(q, w)' <=> Holds(q, w)
    BY <2>1, <2>2 DEF Holds
  <2> QED BY <2>1, <2>3, TakenSame
<1>4. ASSUME NEW p \in Pools, NEW v \in Workers, Take(p, v) PROVE TakenByOne'
  <2>1. /\ pop[p].at = "take" /\ worker[v].at = "offer"
        /\ \A q \in Pools : pop'[q] = IF q = p THEN [at |-> "taken", job |-> pop[p].job, to |-> v]
                                               ELSE pop[q]
        /\ \A w \in Workers : worker'[w] = IF w = v THEN [at |-> "wait"] ELSE worker[w]
    BY <1>0, <1>4 DEF Take
  <2>2. \A q \in Pools : ~Holds(q, v)
    BY <2>1 DEF TakenByOne
  <2>3. pop'[p].at = "taken" /\ pop'[p].to = v /\ worker'[v].at = "wait"
    BY <2>1
  <2>4. \A q \in Pools, w \in Workers : Holds(q, w)' <=> Holds(q, w) \/ (q = p /\ w = v)
    BY <2>1, <2>3 DEF Holds
  <2>5. \A w \in Workers \ {v} : worker'[w] = worker[w]
    BY <2>1
  <2> QED BY <2>2, <2>3, <2>4, <2>5 DEF TakenByOne
<1>5. ASSUME NEW p \in Pools, Give(p) PROVE TakenByOne'
  <2>1. PICK v \in Workers : v = pop[p].to
    BY <1>0, <1>5, PopFacts DEF Give
  <2>2. /\ pop[p].at = "give" /\ worker[v].at = "wait"
        /\ \A q \in Pools : pop'[q] = IF q = p THEN Popping ELSE pop[q]
        /\ \A w \in Workers \ {v} : worker'[w] = worker[w]
        /\ worker'[v] = Offering \/ worker'[v] = [at |-> "run", job |-> pop[p].job]
    BY <1>0, <1>5, <2>1 DEF Give
  <2>3. worker'[v].at \notin {"wait", "stopped"} /\ Holds(p, v)
    BY <2>1, <2>2 DEF Offering, Holds
  <2>4. \A q \in Pools, w \in Workers : Holds(q, w)' <=> Holds(q, w) /\ q # p
    BY <2>2 DEF Holds, Popping
  <2>5. \A q \in Pools : Holds(q, v) => q = p
    BY <2>3 DEF TakenByOne
  <2>6. \A w \in Workers \ {v} : ~Holds(p, w)
    BY <2>1 DEF Holds
  <2> QED BY <2>2, <2>3, <2>4, <2>5, <2>6 DEF TakenByOne
<1>6. ASSUME NEW v \in Workers, Run(v) \/ Finish(v) PROVE TakenByOne'
  <2>1. /\ pop' = pop /\ worker[v].at \in {"run", "report"}
        /\ \A w \in Workers \ {v} : worker'[w] = worker[w]
        /\ worker'[v] = Offering \/ worker'[v] = [at |-> "report"]
    BY <1>0, <1>6 DEF Run, Finish
  <2>2. worker'[v].at # "wait"
    BY <2>1 DEF Offering
  <2>3. \A q \in Pools, w \in Workers : Holds(q, w)' <=> Holds(q, w)
    BY <2>1 DEF Holds
  <2> QED BY <2>1, <2>2, <2>3, TakenSame
<1> QED BY <1>1, <1>2, <1>3, <1>4, <1>5, <1>6 DEF Next, vars, Submit, End, CountFinished

\* The workers of all pools offer themselves on one channel, and yet an offer is
\* taken by one loop, which is the one that the worker waits for.
THEOREM OneLoopPerWorker == Spec => []TakenByOne
<1>1. Init => TakenByOne
  <2> SUFFICES ASSUME Init PROVE TakenByOne
    OBVIOUS
  <2>1. (\A p \in Pools : pop[p].at = "pop") /\ (\A w \in Workers : worker[w].at = "offer")
    BY DEF Init, Popping, Offering
  <2> QED BY <2>1 DEF TakenByOne, Holds
<1> QED BY <1>1, Typed, TakenStep, PTL DEF Spec

-----------------------------------------------------------------------------
(* Sums over the pools. *)

\* A set of numbers that is not empty has a least one.
LEMMA LeastOf ==
  ASSUME NEW T \in SUBSET Nat, T # {}
  PROVE  \E m \in T : \A k \in T : m <= k
<1> DEFINE R == {ss \in Nat \X Nat : ss[1] < ss[2]}
<1>1. IsWellFoundedOn(R, Nat)
  BY NatLessThanWellFounded, Zenon DEF OpToRel
<1>2. PICK m \in T : \A k \in T : ~ (<<k, m>> \in R)
  <2> HIDE DEF R
  <2> QED BY <1>1, WFMin
<1>3. ASSUME NEW k \in T PROVE m <= k
  <2>1. <<k, m>> \in Nat \X Nat /\ <<k, m>>[1] = k /\ <<k, m>>[2] = m
    OBVIOUS
  <2>2. ~(k < m)
    BY <1>2, <2>1
  <2> QED BY <2>2
<1> QED BY <1>3

\* The sum over the pools, and the recursive function the fold defines it by.
Sum(e) == MapThenSumSet(LAMBDA p : e[p], Pools)
Pick(s) == CHOOSE x \in s : TRUE
Body(e, f, s) == IF s = {} THEN 0 ELSE e[Pick(s)] + f[s \ {Pick(s)}]
Fold(e) == CHOOSE f : f = [s \in SUBSET Pools |-> Body(e, f, s)]

\* The library's sum is that function at the set of all pools.
LEMMA SumIsFold == ASSUME NEW e PROVE Sum(e) = Fold(e)[Pools]
BY DEF Sum, Fold, MapThenSumSet, MapThenFoldSet, Body, Pick

\* The sets of at most n pools.
Small(n) == {s \in SUBSET Pools : Cardinality(s) <= n}

\* Taking the chosen element out of a set makes it smaller.
LEMMA PickFacts ==
  ASSUME NEW s \in SUBSET Pools, s # {}
  PROVE  /\ Pick(s) \in s /\ s \ {Pick(s)} \in SUBSET Pools
         /\ Cardinality(s) \in Nat /\ Cardinality(s \ {Pick(s)}) = Cardinality(s) - 1
         /\ Cardinality(s \ {Pick(s)}) \in Nat
<1>1. Pick(s) \in s
  BY DEF Pick
<1>2. IsFiniteSet(s)
  BY PoolAssumption, FS_Subset
<1>3. IsFiniteSet(s \ {Pick(s)}) /\ Cardinality(s \ {Pick(s)}) = Cardinality(s) - 1
  BY <1>1, <1>2, FS_RemoveElement
<1> QED BY <1>1, <1>2, <1>3, FS_CardinalityType

\* For sets of bounded size the function exists: from one size to the next it is
\* given by the body, and the least size where it would not exist is impossible.
LEMMA FoldLevels ==
  ASSUME NEW e, NEW n \in Nat
  PROVE  \E f : f = [s \in Small(n) |-> Body(e, f, s)]
<1> DEFINE Level(k) == \E f : f = [s \in Small(k) |-> Body(e, f, s)]
           T == {k \in Nat : ~Level(k)}
<1>1. SUFFICES ASSUME T # {} PROVE FALSE
  OBVIOUS
<1>2. PICK m \in T : \A k \in T : m <= k
  <2>1. T \in SUBSET Nat
    OBVIOUS
  <2> HIDE DEF T
  <2> QED BY <1>1, <2>1, LeastOf
<1>3. CASE m = 0
  <2> DEFINE f == [s \in Small(0) |-> 0]
  <2>1. \A s \in Small(0) : s = {}
    <3> SUFFICES ASSUME NEW s \in Small(0), s # {} PROVE FALSE
      OBVIOUS
    <3>1. s \in SUBSET Pools /\ Cardinality(s) <= 0
      BY DEF Small
    <3>2. Cardinality(s) \in Nat /\ Cardinality(s) - 1 \in Nat
      BY <3>1, PickFacts
    <3> QED BY <3>1, <3>2
  <2>2. f = [s \in Small(0) |-> Body(e, f, s)]
    BY <2>1 DEF Body
  <2> QED BY <1>3, <2>2
<1>4. CASE m # 0
  <2>1. m - 1 \in Nat /\ m - 1 \notin T
    BY <1>2, <1>4
  <2>2. PICK f : f = [s \in Small(m - 1) |-> Body(e, f, s)]
    BY <2>1
  <2> DEFINE g == [s \in Small(m) |-> Body(e, f, s)]
  <2>3. ASSUME NEW s \in Small(m) PROVE Body(e, f, s) = Body(e, g, s)
    <3>1. CASE s = {}
      BY <3>1 DEF Body
    <3>2. CASE s # {}
      <4> DEFINE t == s \ {Pick(s)}
      <4>1. t \in Small(m - 1) /\ t \in Small(m)
        BY <3>2, PickFacts DEF Small
      <4>2. f[t] = Body(e, f, t) /\ g[t] = Body(e, f, t)
        BY <2>2, <4>1, Zenon
      <4> QED BY <3>2, <4>2 DEF Body
    <3> QED BY <3>1, <3>2
  <2>4. g = [s \in Small(m) |-> Body(e, g, s)]
    <3> HIDE DEF g
    <3>1. g = [s \in Small(m) |-> Body(e, f, s)]
      BY DEF g
    <3> QED BY <2>3, <3>1, Zenon
  <2>5. Level(m)
    <3> HIDE DEF g
    <3> QED BY <2>4, Zenon
  <2> QED BY <2>5
<1> QED BY <1>3, <1>4

\* Hence the fold is a function that satisfies its own definition.
LEMMA FoldDefined == ASSUME NEW e PROVE Fold(e) = [s \in SUBSET Pools |-> Body(e, Fold(e), s)]
<1> DEFINE n == Cardinality(Pools)
<1>1. n \in Nat /\ Small(n) = SUBSET Pools
  <2>1. \A s \in SUBSET Pools : Cardinality(s) <= n
    BY PoolAssumption, FS_Subset
  <2> QED BY <2>1, PoolAssumption, FS_CardinalityType DEF Small
<1>2. \E f : f = [s \in SUBSET Pools |-> Body(e, f, s)]
  <2>1. \E f : f = [s \in Small(n) |-> Body(e, f, s)]
    BY <1>1, FoldLevels
  <2> QED BY <1>1, <2>1
<1> QED BY <1>2, Zenon DEF Fold

\* A sum changes by what one summand changes by.
LEMMA SumChanges ==
  ASSUME NEW e \in [Pools -> Int], NEW d \in [Pools -> Int], NEW p \in Pools, NEW k \in Int,
         d[p] = e[p] + k, \A q \in Pools \ {p} : d[q] = e[q]
  PROVE  Sum(e) \in Int /\ Sum(d) = Sum(e) + k
<1> DEFINE E == Fold(e)
           D == Fold(d)
           Right(s) == E[s] \in Int /\ D[s] = E[s] + (IF p \in s THEN k ELSE 0)
           T == {n \in Nat : \E s \in SUBSET Pools : Cardinality(s) = n /\ ~Right(s)}
<1>0. \A s \in SUBSET Pools : E[s] = Body(e, E, s) /\ D[s] = Body(d, D, s)
  <2> HIDE DEF E, D
  <2>1. E = [s \in SUBSET Pools |-> Body(e, E, s)] /\ D = [s \in SUBSET Pools |-> Body(d, D, s)]
    BY FoldDefined, Zenon DEF E, D
  <2> QED BY <2>1, Zenon
<1> HIDE DEF E, D
<1>1. ASSUME T # {} PROVE FALSE
  <2>1. PICK n \in T : \A m \in T : n <= m
    <3>1. T \in SUBSET Nat
      OBVIOUS
    <3> HIDE DEF T
    <3> QED BY <1>1, <3>1, LeastOf
  <2>2. PICK s \in SUBSET Pools : Cardinality(s) = n /\ ~Right(s)
    OBVIOUS
  <2>3. CASE s = {}
    <3>1. E[s] = 0 /\ D[s] = 0
      BY <1>0, <2>3 DEF Body
    <3> QED BY <2>2, <2>3, <3>1
  <2>4. CASE s # {}
    <3> DEFINE x == Pick(s)
               t == s \ {x}
    <3>1. x \in s /\ t \in SUBSET Pools /\ Cardinality(t) \in Nat /\ Cardinality(t) = n - 1
      BY <2>2, <2>4, PickFacts
    <3>2. Right(t)
      BY <2>1, <3>1
    <3>3. E[s] = e[x] + E[t] /\ D[s] = d[x] + D[t]
      BY <1>0, <2>4 DEF Body
    <3>4. e[x] \in Int /\ x \in Pools
      BY <3>1
    <3> HIDE DEF x
    <3>5. CASE x = p
      BY <2>2, <3>1, <3>2, <3>3, <3>4, <3>5
    <3>6. CASE x # p
      <4>1. d[x] = e[x] /\ (p \in s <=> p \in t)
        BY <3>4, <3>6
      <4> QED BY <2>2, <3>1, <3>2, <3>3, <3>4, <4>1
    <3> QED BY <3>5, <3>6
  <2> QED BY <2>3, <2>4
<1>2. Right(Pools)
  <2>1. Cardinality(Pools) \in Nat
    BY PoolAssumption, FS_CardinalityType
  <2> QED BY <1>1, <2>1
<1>3. E[Pools] \in Int /\ D[Pools] = E[Pools] + k
  BY <1>2
<1> QED BY <1>3, SumIsFold DEF E, D

\* The sum at the start.
LEMMA SumOfZeros == Sum([p \in Pools |-> 0]) = 0
<1> DEFINE e == [p \in Pools |-> 0]
           E == Fold(e)
           T == {n \in Nat : \E s \in SUBSET Pools : Cardinality(s) = n /\ E[s] # 0}
<1>0. \A s \in SUBSET Pools : E[s] = Body(e, E, s)
  <2>1. E = [s \in SUBSET Pools |-> Body(e, E, s)]
    BY FoldDefined, Zenon
  <2> HIDE DEF E, e
  <2> QED BY <2>1, Zenon
<1> HIDE DEF E
<1>1. ASSUME T # {} PROVE FALSE
  <2>1. PICK n \in T : \A m \in T : n <= m
    <3>1. T \in SUBSET Nat
      OBVIOUS
    <3> HIDE DEF T
    <3> QED BY <1>1, <3>1, LeastOf
  <2>2. PICK s \in SUBSET Pools : Cardinality(s) = n /\ E[s] # 0
    OBVIOUS
  <2>3. s # {}
    BY <1>0, <2>2 DEF Body
  <2>4. /\ Pick(s) \in s /\ s \ {Pick(s)} \in SUBSET Pools
        /\ Cardinality(s \ {Pick(s)}) \in Nat /\ Cardinality(s \ {Pick(s)}) = n - 1
    BY <2>2, <2>3, PickFacts
  <2>5. E[s \ {Pick(s)}] = 0
    BY <2>1, <2>4
  <2>6. E[s] = e[Pick(s)] + E[s \ {Pick(s)}]
    BY <1>0, <2>3 DEF Body
  <2> QED BY <2>2, <2>4, <2>5, <2>6
<1>2. E[Pools] = 0
  <2>1. Cardinality(Pools) \in Nat
    BY PoolAssumption, FS_CardinalityType
  <2> QED BY <1>1, <2>1
<1> QED BY <1>2, SumIsFold DEF E

-----------------------------------------------------------------------------
(* Executing, over all pools. *)

Giving == {p \in Pools : pop[p].at = "give"}
Busy == {w \in Workers : worker[w].at \in {"run", "report"}}
Given == UNION {Range(started[p]) : p \in Pools}
Balanced == Sum(executing) = Cardinality(Giving) + Cardinality(Busy) + Cardinality(counting)
                               + Cardinality(NilJobs \cap Given)

\* What started, and the job in loopPop's hands, are where accepted has them.
LEMMA WhereAccepted ==
  ASSUME Types, JobsKeepOrder, NEW p \in Pools
  PROVE  /\ Len(started[p]) \in Nat
         /\ \A i \in 1 .. Len(started[p]) :
              i \in 1 .. Len(accepted[p]) /\ accepted[p][i] = started[p][i]
         /\ pop[p].at # "pop" =>
              /\ Len(started[p]) + 1 \in 1 .. Len(accepted[p])
              /\ accepted[p][Len(started[p]) + 1] = pop[p].job
<1>1. PICK a \in Seq(Jobs), h \in Seq(Jobs), q \in Seq(Jobs) :
        a = started[p] /\ h = InHand(p) /\ q = queue[p]
  <2>1. InHand(p) \in Seq(Jobs)
    BY PopFacts, EmptySeq DEF InHand, Types
  <2> QED BY <2>1 DEF Types
<1>2. /\ a \o h \in Seq(Jobs) /\ Len(a \o h) = Len(a) + Len(h)
      /\ Len(a) \in Nat /\ Len(h) \in Nat /\ Len(q) \in Nat
      /\ \A i \in 1 .. Len(a) + Len(h) :
           (a \o h)[i] = IF i <= Len(a) THEN a[i] ELSE h[i - Len(a)]
  BY ConcatProperties, LenProperties
<1>3. /\ Len((a \o h) \o q) = Len(a) + Len(h) + Len(q)
      /\ \A i \in 1 .. Len(a) + Len(h) : ((a \o h) \o q)[i] = (a \o h)[i]
  <2>1. PICK b \in Seq(Jobs) : b = a \o h
    BY <1>2
  <2>2. /\ Len(b \o q) = Len(b) + Len(q)
        /\ \A i \in 1 .. Len(b) + Len(q) : (b \o q)[i] = IF i <= Len(b) THEN b[i] ELSE q[i - Len(b)]
    BY ConcatProperties
  <2>3. Len(b) = Len(a) + Len(h) /\ Len(b) \in Nat
    BY <1>2, <2>1
  <2>4. \A i \in 1 .. Len(b) : (b \o q)[i] = b[i]
    BY <1>2, <2>2, <2>3
  <2> QED BY <2>1, <2>2, <2>3, <2>4
<1>4. accepted[p] = (a \o h) \o q
  BY <1>1 DEF JobsKeepOrder
<1>5. ASSUME NEW i \in 1 .. Len(a)
      PROVE  i \in 1 .. Len(accepted[p]) /\ accepted[p][i] = a[i]
  BY <1>2, <1>3, <1>4
<1>6. ASSUME pop[p].at # "pop"
      PROVE  /\ Len(a) + 1 \in 1 .. Len(accepted[p])
             /\ accepted[p][Len(a) + 1] = pop[p].job
  <2>1. h = <<pop[p].job>>
    BY <1>1, <1>6 DEF InHand
  <2>2. Len(h) = 1 /\ h[1] = pop[p].job
    BY <2>1
  <2>3. Len(a) + 1 \in 1 .. Len(a) + Len(h) /\ (Len(a) + 1) - Len(a) = 1
        /\ ~(Len(a) + 1 <= Len(a)) /\ Len(a) + 1 \in 1 .. Len(accepted[p])
    BY <1>2, <1>3, <1>4, <2>2
  <2>4. (a \o h)[Len(a) + 1] = h[1]
    BY <1>2, <2>3
  <2> QED BY <1>3, <1>4, <2>2, <2>3, <2>4
<1> QED BY <1>1, <1>2, <1>5, <1>6

\* The job that a worker is about to receive was received by nobody.
LEMMA NotGivenBefore ==
  ASSUME Types, JobsKeepOrder, AcceptedOnce, NEW p \in Pools, pop[p].at = "give"
  PROVE  pop[p].job \notin Given
<1> SUFFICES ASSUME NEW q \in Pools, pop[p].job \in Range(started[q]) PROVE FALSE
  BY DEF Given
<1>1. PICK i \in 1 .. Len(started[q]) : started[q][i] = pop[p].job
  BY LenProperties DEF Range, Types
<1>2. /\ i \in 1 .. Len(accepted[q]) /\ accepted[q][i] = pop[p].job
      /\ Len(started[p]) + 1 \in 1 .. Len(accepted[p])
      /\ accepted[p][Len(started[p]) + 1] = pop[p].job
  BY <1>1, WhereAccepted
<1>3. \A x \in 1 .. Len(accepted[q]), y \in 1 .. Len(accepted[p]) :
        accepted[q][x] = accepted[p][y] => q = p /\ x = y
  BY Zenon DEF AcceptedOnce
<1>4. q = p /\ i = Len(started[p]) + 1
  BY <1>2, <1>3, Zenon
<1> QED BY <1>1, <1>4, WhereAccepted
\* A subset of a finite set has a size, which an element outside adds one to.
LEMMA OneMore ==
  ASSUME NEW U, IsFiniteSet(U), NEW S \in SUBSET U, NEW x \in U, x \notin S
  PROVE  Cardinality(S) \in Nat /\ Cardinality(S \cup {x}) = Cardinality(S) + 1
<1>1. IsFiniteSet(S)
  BY FS_Subset
<1> QED BY <1>1, FS_AddElement, FS_CardinalityType

\* The four sizes are numbers.
LEMMA Sizes ==
  ASSUME Types
  PROVE  /\ Cardinality(Giving) \in Nat /\ Cardinality(Busy) \in Nat
         /\ Cardinality(counting) \in Nat /\ Cardinality(NilJobs \cap Given) \in Nat
<1>1. Giving \in SUBSET Pools /\ Busy \in SUBSET Workers /\ NilJobs \cap Given \in SUBSET Jobs
      /\ counting \in SUBSET Pools
  BY PoolAssumption DEF Giving, Busy, Types
<1>2. IsFiniteSet(Giving) /\ IsFiniteSet(Busy) /\ IsFiniteSet(NilJobs \cap Given)
      /\ IsFiniteSet(counting)
  BY <1>1, PoolAssumption, FS_Subset
<1> QED BY <1>2, FS_CardinalityType

\* CountExecuting moves a loop into the first set; Give moves it out, and either its
\* worker into the second or its nil job into the fourth; Finish moves the worker out
\* and its pool into the third, and CountFinished moves the pool out.
LEMMA BalancedStep ==
  Types /\ JobsKeepOrder /\ TakenByOne /\ AcceptedOnce /\ Balanced /\ [Next]_vars => Balanced'
<1> SUFFICES ASSUME Types, JobsKeepOrder, TakenByOne, AcceptedOnce, Balanced, [Next]_vars
             PROVE  Balanced'
  OBVIOUS
<1>0. Types'
  BY TypesStep
<1>1. ASSUME NEW p \in Pools, CountExecuting(p) PROVE Balanced'
  <2>1. executing \in [Pools -> Int] /\ executing' \in [Pools -> Int]
    BY <1>0 DEF Types
  <2>2. executing'[p] = executing[p] + 1 /\ \A q \in Pools \ {p} : executing'[q] = executing[q]
    BY <1>1, <2>1 DEF CountExecuting
  <2>3. Sum(executing) \in Int /\ Sum(executing') = Sum(executing) + 1
    BY <2>1, <2>2, SumChanges
  <2>4. Giving' = Giving \cup {p} /\ p \notin Giving /\ Giving \in SUBSET Pools
    <3>1. pop'[p].at = "give" /\ pop[p].at # "give" /\ \A q \in Pools \ {p} : pop'[q] = pop[q]
      BY <1>1, CountExecutingMoves
    <3> QED BY <3>1 DEF Giving
  <2>5. Cardinality(Giving') = Cardinality(Giving) + 1
    BY <2>4, OneMore, PoolAssumption
  <2>6. Busy' = Busy /\ Given' = Given /\ counting' = counting
    BY <1>1 DEF CountExecuting, Busy, Given, history
  <2> QED BY <2>3, <2>5, <2>6, Sizes DEF Balanced
<1>2. ASSUME NEW p \in Pools, Give(p) PROVE Balanced'
  <2>1. Sum(executing') = Sum(executing) /\ counting' = counting
    BY <1>2 DEF Give, statistics
  <2>2. Giving = Giving' \cup {p} /\ p \notin Giving' /\ Giving' \in SUBSET Pools
    BY <1>2 DEF Give, Giving, Types, Popping
  <2>3. Cardinality(Giving') \in Nat /\ Cardinality(Giving) = Cardinality(Giving') + 1
    BY <2>2, OneMore, PoolAssumption
  <2>4. /\ pop[p].at = "give" /\ pop[p].job \in Jobs /\ pop[p].to \in Workers
        /\ worker[pop[p].to].at = "wait"
    BY <1>2, PopFacts DEF Give, Types
  <2>5. Given' = Given \cup {pop[p].job} /\ pop[p].job \notin Given
    <3>1. Range(started'[p]) = Range(started[p]) \cup {pop[p].job}
      <4>1. PICK s \in Seq(Jobs) : s = started[p]
        BY DEF Types
      <4>2. PICK j \in Jobs : j = pop[p].job
        BY <2>4
      <4>3. Range(Append(s, j)) = Range(s) \cup {j}
        BY AppendedRange
      <4> QED BY <1>2, <4>1, <4>2, <4>3 DEF Give, Types
    <3>2. \A q \in Pools \ {p} : started'[q] = started[q]
      BY <1>2 DEF Give, Types
    <3>3. Given' = Given \cup {pop[p].job}
      BY <3>1, <3>2, Zenon DEF Given
    <3> QED BY <2>4, <3>3, NotGivenBefore
  <2>6. CASE pop[p].job \in NilJobs
    <3>1. Busy' = Busy
      BY <1>2, <2>4, <2>6 DEF Give, Busy, Types, Offering
    <3>2. /\ NilJobs \cap Given' = (NilJobs \cap Given) \cup {pop[p].job}
          /\ NilJobs \cap Given \in SUBSET Jobs /\ pop[p].job \notin NilJobs \cap Given
      BY <2>5, <2>6, PoolAssumption
    <3>3. Cardinality(NilJobs \cap Given') = Cardinality(NilJobs \cap Given) + 1
      <4>1. PICK S \in SUBSET Jobs, x \in Jobs : S = NilJobs \cap Given /\ x = pop[p].job
        BY <2>4, <3>2
      <4>2. Cardinality(S \cup {x}) = Cardinality(S) + 1
        BY <3>2, <4>1, OneMore, PoolAssumption
      <4> QED BY <3>2, <4>1, <4>2
    <3> QED BY <2>1, <2>3, <3>1, <3>3, Sizes DEF Balanced
  <2>7. CASE pop[p].job \notin NilJobs
    <3>1. Busy' = Busy \cup {pop[p].to} /\ pop[p].to \notin Busy /\ Busy \in SUBSET Workers
      BY <1>2, <2>4, <2>7 DEF Give, Busy, Types
    <3>2. Cardinality(Busy') = Cardinality(Busy) + 1
      BY <2>4, <3>1, OneMore, PoolAssumption
    <3>3. Cardinality(NilJobs \cap Given') = Cardinality(NilJobs \cap Given)
      <4>1. NilJobs \cap Given' = NilJobs \cap Given
        BY <2>5, <2>7
      <4> QED BY <4>1
    <3> QED BY <2>1, <2>3, <3>2, <3>3, Sizes DEF Balanced
  <2> QED BY <2>6, <2>7
<1>3. ASSUME NEW w \in Workers, Finish(w) PROVE Balanced'
  <2>1. PICK p \in Pools : p = Home(w)
    BY HomeIsOne
  <2>2. counting' = counting \cup {p} /\ p \notin counting /\ counting \in SUBSET Pools
    BY <1>3, <2>1 DEF Finish, Types
  <2>3. Cardinality(counting') = Cardinality(counting) + 1
    BY <2>2, OneMore, PoolAssumption
  <2>4. Sum(executing') = Sum(executing) /\ Giving' = Giving /\ Given' = Given
    BY <1>3 DEF Finish, Giving, Given, statistics, history
  <2>5. Busy = Busy' \cup {w} /\ w \notin Busy' /\ Busy' \in SUBSET Workers
    BY <1>3 DEF Finish, Busy, Types, Offering
  <2>6. Cardinality(Busy') \in Nat /\ Cardinality(Busy) = Cardinality(Busy') + 1
    BY <2>5, OneMore, PoolAssumption
  <2> QED BY <2>3, <2>4, <2>6, Sizes DEF Balanced
<1>10. ASSUME NEW p \in Pools, CountFinished(p) PROVE Balanced'
  <2>1. executing \in [Pools -> Int] /\ executing' \in [Pools -> Int]
    BY <1>0 DEF Types
  <2>2. executing'[p] = executing[p] + (-1) /\ \A q \in Pools \ {p} : executing'[q] = executing[q]
    BY <1>10, <2>1 DEF CountFinished
  <2>3. Sum(executing) \in Int /\ Sum(executing') = Sum(executing) + (-1)
    BY <2>1, <2>2, SumChanges
  <2>4. counting = counting' \cup {p} /\ p \notin counting' /\ counting' \in SUBSET Pools
    BY <1>10 DEF CountFinished, Types
  <2>5. Cardinality(counting') \in Nat /\ Cardinality(counting) = Cardinality(counting') + 1
    BY <2>4, OneMore, PoolAssumption
  <2>6. Giving' = Giving /\ Given' = Given /\ Busy' = Busy
    BY <1>10 DEF CountFinished, Giving, Given, Busy, history
  <2> QED BY <2>3, <2>5, <2>6, Sizes DEF Balanced
<1>4. CASE /\ UNCHANGED <<executing, counting, started>>
           /\ Giving' = Giving /\ Busy' = Busy
  <2>1. Given' = Given
    BY <1>4 DEF Given
  <2> QED BY <1>4, <2>1 DEF Balanced
<1>5. ASSUME NEW p \in Pools, StopWorker(p) \/ Pop(p) \/ CountTotal(p) PROVE Balanced'
  <2>1. CASE StopWorker(p)
    <3>1. toStop[p] \in Seq(Workers) /\ Head(toStop[p]) \in Workers
      BY <2>1, HeadTailProperties DEF StopWorker, Types
    <3>2. Busy' = Busy
      BY <2>1, <3>1 DEF StopWorker, Busy, Types
    <3> QED BY <1>4, <2>1, <3>2 DEF StopWorker, Giving, statistics, history
  <2>2. CASE Pop(p)
    BY <1>4, <2>2 DEF Pop, Giving, Busy, Types, statistics, history
  <2>3. CASE CountTotal(p)
    <3>1. Giving' = Giving
      <4>1. pop'[p].at # "give" /\ pop[p].at # "give" /\ \A q \in Pools \ {p} : pop'[q] = pop[q]
        BY <2>3, CountTotalMoves
      <4> QED BY <4>1 DEF Giving
    <3> QED BY <1>4, <2>3, <3>1 DEF CountTotal, Busy, history
  <2> QED BY <1>5, <2>1, <2>2, <2>3
<1>11. ASSUME NEW p \in Pools, NEW w \in Workers, Take(p, w) PROVE Balanced'
  BY <1>4, <1>11 DEF Take, Giving, Busy, Types, statistics, history
<1>6. ASSUME NEW w \in Workers, Run(w) PROVE Balanced'
  <2>1. Busy' = Busy
    BY <1>6 DEF Run, Busy, Types
  <2> QED BY <1>4, <1>6, <2>1 DEF Run, Giving, statistics
<1>7. ASSUME NEW p \in Pools, NEW j \in Jobs, Submit(p, j) PROVE Balanced'
  BY <1>4, <1>7 DEF Submit, Giving, Busy, statistics
<1>8. CASE UNCHANGED vars
  BY <1>4, <1>8 DEF vars, Giving, Busy, statistics, history
<1>9. ASSUME NEW p \in Pools, End(p) PROVE Balanced'
  BY <1>4, <1>9 DEF End, Giving, Busy, statistics, history
<1> QED BY <1>1, <1>2, <1>3, <1>5, <1>6, <1>7, <1>8, <1>9, <1>10, <1>11 DEF Next

\* Executing counts, over all pools together, the jobs that a loop has counted and no
\* pool's goroutine has taken off yet, and every nil job that was ever dispatched.
THEOREM ExecutingCounts == Spec => []ExecutingBalanced
<1>1. Init => Balanced
  <2> SUFFICES ASSUME Init PROVE Balanced
    OBVIOUS
  <2>1. Giving = {} /\ Busy = {} /\ counting = {}
    BY DEF Init, Giving, Busy, Popping, Offering
  <2>2. Given = {}
    <3>1. \A p \in Pools : Range(started[p]) = {}
      BY EmptySeq DEF Init, Range
    <3> QED BY <3>1 DEF Given
  <2>3. Sum(executing) = 0
    BY SumOfZeros DEF Init
  <2>4. Cardinality({}) = 0 /\ NilJobs \cap Given = {}
    BY <2>2, FS_EmptySet
  <2>5. Cardinality(Giving) + Cardinality(Busy) + Cardinality(counting)
          + Cardinality(NilJobs \cap Given) = 0
    BY <2>1, <2>4
  <2> QED BY <2>3, <2>5 DEF Balanced
<1>2. Balanced => ExecutingBalanced
  BY DEF Balanced, ExecutingBalanced, Sum, Giving, Busy, Given
<1>3. Spec => []AcceptedOnce
  BY OnceAndCounted, PTL
<1> QED BY <1>1, <1>2, <1>3, Typed, OrderKept, OneLoopPerWorker, BalancedStep, PTL DEF Spec

\* No job is received by two workers, nor twice by one, in one pool or in several.
StartedOnce ==
  \A p, q \in Pools : \A i \in 1 .. Len(started[p]), k \in 1 .. Len(started[q]) :
    started[p][i] = started[q][k] => p = q /\ i = k

\* A job that was handed over is never handed over again, whichever pools share the
\* channel of workers.
THEOREM HandedOverOnce == Spec => []StartedOnce
<1>1. Types /\ JobsKeepOrder /\ AcceptedOnce => StartedOnce
  <2> SUFFICES ASSUME Types, JobsKeepOrder, AcceptedOnce, NEW p \in Pools, NEW q \in Pools,
                      NEW i \in 1 .. Len(started[p]), NEW k \in 1 .. Len(started[q]),
                      started[p][i] = started[q][k]
               PROVE  p = q /\ i = k
    BY DEF StartedOnce
  <2>1. /\ i \in 1 .. Len(accepted[p]) /\ accepted[p][i] = started[p][i]
        /\ k \in 1 .. Len(accepted[q]) /\ accepted[q][k] = started[q][k]
    BY WhereAccepted
  <2>2. \A x \in 1 .. Len(accepted[p]), y \in 1 .. Len(accepted[q]) :
          accepted[p][x] = accepted[q][y] => p = q /\ x = y
    BY Zenon DEF AcceptedOnce
  <2>3. accepted[p][i] = accepted[q][k]
    BY <2>1
  <2> QED BY <2>1, <2>2, <2>3, Zenon
<1>2. Spec => []AcceptedOnce
  BY OnceAndCounted, PTL
<1> QED BY <1>1, <1>2, Typed, OrderKept, PTL
=============================================================================
