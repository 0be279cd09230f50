-------------------------------- MODULE Pool --------------------------------
(***************************************************************************)
(* pkg/pool: a collector that queues jobs without bound, a loop that hands *)
(* them to workers, and a channel of End that spins the workers down.  All *)
(* channels are unbuffered: a send and its receive are one step, in which  *)
(* both goroutines move.  WorkerChannel is a variable of the package, so   *)
(* the workers of every pool of the process offer themselves on the same   *)
(* channel, and every pool takes from it.                                  *)
(***************************************************************************)
EXTENDS Integers, Sequences, FiniteSets, FiniteSetsExt, Functions

CONSTANTS Jobs,      \* the jobs clients submit, each once
          NilJobs,   \* those of them that are nil pointers
          Pools,
          Workers,
          Roster     \* the workers of every pool, in the order they were started

ASSUME PoolAssumption ==
  /\ IsFiniteSet(Jobs) /\ IsFiniteSet(Pools) /\ IsFiniteSet(Workers)
  /\ NilJobs \subseteq Jobs
  /\ Roster \in [Pools -> Seq(Workers)]
  /\ \A w \in Workers : Cardinality({p \in Pools : w \in Range(Roster[p])}) = 1

VARIABLES queue,      \* the jobs every pool has queued
          pop,        \* the goroutine loopPop of every pool
          worker,     \* the goroutine of every worker
          counting,   \* the pools whose goroutine received a jobFinished and still has to
                      \* take it from Executing
          toStop,     \* the workers a pool's collector still has to stop
          ended,      \* the pools that were sent an End
          total, executing,   \* JobStatistics
          accepted,   \* history: the jobs every pool was given, in order
          started,    \* history: those a worker received, in order
          ran         \* history: the jobs whose JobFunc was called

vars == <<queue, pop, worker, counting, toStop, ended, total, executing, accepted, started, ran>>
statistics == <<total, executing>>
history == <<accepted, started, ran>>

\* The pool whose jobFinished channel a worker reports to.
Home(w) == CHOOSE p \in Pools : w \in Range(Roster[p])

\* Goroutines: where they block, and the job and worker in their variables.
Popping == [at |-> "pop"]
Offering == [at |-> "offer"]

Init == /\ queue = [p \in Pools |-> <<>>]
        /\ pop = [p \in Pools |-> Popping]
        /\ worker = [w \in Workers |-> Offering]
        /\ counting = {}
        /\ toStop = [p \in Pools |-> <<>>]
        /\ ended = {}
        /\ total = [p \in Pools |-> 0]
        /\ executing = [p \in Pools |-> 0]
        /\ accepted = [p \in Pools |-> <<>>]
        /\ started = [p \in Pools |-> <<>>]
        /\ ran = {}

-----------------------------------------------------------------------------
(* The collector. *)

Submitted == UNION {Range(accepted[p]) : p \in Pools}

\* A client sends on Work, and the collector pushes the job.  After End nobody
\* receives, and the client waits for ever.
Submit(p, j) ==
  /\ p \notin ended /\ j \notin Submitted
  /\ queue' = [queue EXCEPT ![p] = Append(@, j)]
  /\ accepted' = [accepted EXCEPT ![p] = Append(@, j)]
  /\ UNCHANGED <<pop, worker, counting, toStop, ended, statistics, started, ran>>

\* A client sends on End: the collector goes on to stop its workers in turn.
End(p) ==
  /\ p \notin ended
  /\ ended' = ended \cup {p}
  /\ toStop' = [toStop EXCEPT ![p] = Roster[p]]
  /\ UNCHANGED <<queue, pop, worker, counting, statistics, history>>

\* Worker.Stop, which only a worker that waits in its select receives.
StopWorker(p) ==
  /\ toStop[p] # <<>>
  /\ LET w == Head(toStop[p])
     IN  /\ worker[w].at = "wait"
         /\ worker' = [worker EXCEPT ![w] = [at |-> "stopped"]]
  /\ toStop' = [toStop EXCEPT ![p] = Tail(@)]
  /\ UNCHANGED <<queue, pop, counting, ended, statistics, history>>

-----------------------------------------------------------------------------
(* loopPop. *)

\* Variants with a bug: the job is read and not removed; a single job is left waiting.
PopPeeks(p) ==
  /\ pop[p].at = "pop" /\ queue[p] # <<>>
  /\ pop' = [pop EXCEPT ![p] = [at |-> "popped", job |-> Head(queue[p])]]
  /\ UNCHANGED <<queue, worker, counting, toStop, ended, statistics, history>>
PopLeavesLast(p) ==
  /\ pop[p].at = "pop" /\ Len(queue[p]) > 1
  /\ pop' = [pop EXCEPT ![p] = [at |-> "popped", job |-> Head(queue[p])]]
  /\ queue' = [queue EXCEPT ![p] = Tail(@)]
  /\ UNCHANGED <<worker, counting, toStop, ended, statistics, history>>

\* Queue.Pop waits until there is a job.
Pop(p) ==
  /\ pop[p].at = "pop" /\ queue[p] # <<>>
  /\ pop' = [pop EXCEPT ![p] = [at |-> "popped", job |-> Head(queue[p])]]
  /\ queue' = [queue EXCEPT ![p] = Tail(@)]
  /\ UNCHANGED <<worker, counting, toStop, ended, statistics, history>>

\* Total counts it.
CountTotal(p) ==
  /\ pop[p].at = "popped"
  /\ pop' = [pop EXCEPT ![p].at = "take"]
  /\ total' = [total EXCEPT ![p] = @ + 1]
  /\ UNCHANGED <<queue, worker, counting, toStop, ended, executing, history>>

\* Variant with a bug: the offer stays in the channel.
TakeLeavesOffer(p, w) ==
  /\ pop[p].at = "take" /\ worker[w].at = "offer"
  /\ pop' = [pop EXCEPT ![p] = [at |-> "taken", job |-> @.job, to |-> w]]
  /\ UNCHANGED <<queue, worker, counting, toStop, ended, statistics, history>>

\* It receives the channel of a worker that offers it, of whichever pool.
Take(p, w) ==
  /\ pop[p].at = "take" /\ worker[w].at = "offer"
  /\ pop' = [pop EXCEPT ![p] = [at |-> "taken", job |-> @.job, to |-> w]]
  /\ worker' = [worker EXCEPT ![w] = [at |-> "wait"]]
  /\ UNCHANGED <<queue, counting, toStop, ended, statistics, history>>

\* Executing counts the job.
CountExecuting(p) ==
  /\ pop[p].at = "taken"
  /\ pop' = [pop EXCEPT ![p].at = "give"]
  /\ executing' = [executing EXCEPT ![p] = @ + 1]
  /\ UNCHANGED <<queue, worker, counting, toStop, ended, total, history>>

\* It sends the job to that worker, which must be waiting in its select.  A nil
\* job sends the worker back to its offer.
Give(p) ==
  LET job == pop[p].job
      w == pop[p].to
  IN  /\ pop[p].at = "give" /\ worker[w].at = "wait"
      /\ pop' = [pop EXCEPT ![p] = Popping]
      /\ worker' = [worker EXCEPT ![w] = IF job \in NilJobs THEN Offering
                                                            ELSE [at |-> "run", job |-> job]]
      /\ started' = [started EXCEPT ![p] = Append(@, job)]
      /\ UNCHANGED <<queue, counting, toStop, ended, statistics, accepted, ran>>

-----------------------------------------------------------------------------
(* The workers. *)

\* JobFunc is called and returns.
Run(w) ==
  /\ worker[w].at = "run"
  /\ worker' = [worker EXCEPT ![w] = [at |-> "report"]]
  /\ ran' = ran \cup {worker[w].job}
  /\ UNCHANGED <<queue, pop, counting, toStop, ended, statistics, accepted, started>>

\* The worker sends on the jobFinished channel of its own pool, whose goroutine
\* receives when it has counted the report before, and offers itself again.
Finish(w) ==
  /\ worker[w].at = "report" /\ Home(w) \notin counting
  /\ worker' = [worker EXCEPT ![w] = Offering]
  /\ counting' = counting \cup {Home(w)}
  /\ UNCHANGED <<queue, pop, toStop, ended, statistics, history>>

\* Variant with a bug: a report is not counted.
CountFinishedNot(p) ==
  /\ p \in counting
  /\ counting' = counting \ {p}
  /\ UNCHANGED <<queue, pop, worker, toStop, ended, statistics, history>>

\* That goroutine takes one from Executing, whatever the worker does by now.
CountFinished(p) ==
  /\ p \in counting
  /\ counting' = counting \ {p}
  /\ executing' = [executing EXCEPT ![p] = @ - 1]
  /\ UNCHANGED <<queue, pop, worker, toStop, ended, total, history>>

Next == \/ \E p \in Pools, j \in Jobs : Submit(p, j)
        \/ \E p \in Pools : \/ End(p) \/ StopWorker(p)
                            \/ Pop(p) \/ CountTotal(p) \/ CountExecuting(p) \/ Give(p)
                            \/ CountFinished(p)
        \/ \E p \in Pools, w \in Workers : Take(p, w)
        \/ \E w \in Workers : Run(w) \/ Finish(w)

Spec == Init /\ [][Next]_vars

\* Goroutines run; a channel serves its senders and receivers in the order they
\* came, hence strong fairness of Take and Finish; jobs return.  Clients owe nothing.
FairSpec ==
  /\ Spec
  /\ \A p \in Pools : /\ WF_vars(Pop(p)) /\ WF_vars(CountTotal(p)) /\ WF_vars(CountExecuting(p))
                      /\ WF_vars(Give(p)) /\ WF_vars(StopWorker(p)) /\ WF_vars(CountFinished(p))
                      /\ SF_vars(\E w \in Workers : Take(p, w))
  /\ \A w \in Workers : WF_vars(Run(w)) /\ SF_vars(Finish(w))

-----------------------------------------------------------------------------
(* Properties. *)

PopStates == {Popping} \cup [at : {"popped", "take"}, job : Jobs]
                       \cup [at : {"taken", "give"}, job : Jobs, to : Workers]
WorkerStates == [at : {"offer", "wait", "report", "stopped"}] \cup [at : {"run"}, job : Jobs]

TypeOK ==
  /\ queue \in [Pools -> Seq(Jobs)]
  /\ pop \in [Pools -> PopStates]
  /\ worker \in [Workers -> WorkerStates]
  /\ counting \in SUBSET Pools
  /\ toStop \in [Pools -> Seq(Workers)]
  /\ ended \in SUBSET Pools
  /\ total \in [Pools -> 0 .. Cardinality(Jobs)]
  /\ executing \in [Pools -> Int]
  /\ accepted \in [Pools -> Seq(Jobs)] /\ started \in [Pools -> Seq(Jobs)]
  /\ ran \in SUBSET Jobs

InHand(p) == IF pop[p].at = "pop" THEN <<>> ELSE <<pop[p].job>>

\* No job is lost, doubled or overtaken: what a pool accepted is what workers
\* received, then what loopPop holds, then what is queued, in this order.  An End
\* may leave a job in loopPop's hands for ever, but there it stays.
JobsKeepOrder == \A p \in Pools : accepted[p] = started[p] \o InHand(p) \o queue[p]

\* The loop of pool p holds worker w: it took w's offer and did not give it its job.
Holds(p, w) == pop[p].at \in {"taken", "give"} /\ pop[p].to = w

\* A worker whose offer was taken belongs to the one loop that took it, among all
\* the pools that share the channel, until it gets that loop's job or is stopped;
\* and it waits only when such a loop exists.
TakenByOne ==
  \A w \in Workers :
    /\ \A p, q \in Pools : Holds(p, w) /\ Holds(q, w) => p = q
    /\ (\E p \in Pools : Holds(p, w)) => worker[w].at \in {"wait", "stopped"}
    /\ worker[w].at = "wait" => \E p \in Pools : Holds(p, w)

\* Executing, over all pools, counts the jobs from the moment a loop has counted
\* them until a pool's goroutine has taken them off, and besides every nil job, which
\* no worker reports.  A worker may be at its next job, counted as well, before the
\* one it reported is taken off; and for one pool of several the counter says
\* nothing: a job of one is taken from the counter of another.
ExecutingBalanced ==
  MapThenSumSet(LAMBDA p : executing[p], Pools) =
      Cardinality({p \in Pools : pop[p].at = "give"})
    + Cardinality({w \in Workers : worker[w].at \in {"run", "report"}})
    + Cardinality(counting)
    + Cardinality(NilJobs \cap UNION {Range(started[p]) : p \in Pools})

\* As long as no pool is sent an End, every job submitted is run.
EveryJobRuns ==
  [](ended = {}) => \A j \in Jobs \ NilJobs : j \in Submitted ~> j \in ran
=============================================================================
