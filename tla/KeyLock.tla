------------------------------- MODULE KeyLock -------------------------------
(***************************************************************************)
(* pkg/keylock: one mutex per key, made on first use, counted by the       *)
(* goroutines that use it, and deleted by Clean when nobody does.  The     *)
(* table is guarded by a read-write mutex, so a section under it is one    *)
(* step: writers run alone, and the readers of the table only look up and  *)
(* add to a counter atomically.  Between the sections anything can happen, *)
(* and the mutex of the key is taken and released outside of them.         *)
(***************************************************************************)
EXTENDS Integers, FiniteSets

CONSTANTS Procs,    \* goroutines, each calling Lock(k) and then Unlock(k)
          Keys,
          Objects,  \* memory for innerLocks; an unreferenced one is reused
          NoLock    \* the table has no entry

ASSUME KeyLockAssumption == IsFiniteSet(Procs) /\ NoLock \notin Objects

VARIABLES locks,   \* the table: key -> innerLock
          count,   \* the counter of every innerLock
          held,    \* the innerLocks whose sync.Mutex is locked
          pc, key, \* what a goroutine does, and with which key
          mine,    \* the innerLock in its local variable keyLock
          loop     \* the goroutine that cleans every cleanInterval

vars == <<locks, count, held, pc, key, mine, loop>>

Init == /\ locks = [k \in Keys |-> NoLock]
        /\ count = [o \in Objects |-> 0]
        /\ held = {}
        /\ pc = [p \in Procs |-> "idle"]
        /\ key \in [Procs -> Keys]
        /\ mine = [p \in Procs |-> NoLock]
        /\ loop = "none"

Users(k) == {p \in Procs : pc[p] \in {"acquire", "critical"} /\ key[p] = k}

Table == {locks[k] : k \in Keys}
Unreferenced == {o \in Objects : o \notin Table /\ \A p \in Procs : mine[p] # o}

Goto(p, l) == pc' = [pc EXCEPT ![p] = l]

-----------------------------------------------------------------------------
(* Lock(k) *)

\* Under the read lock: an existing entry is counted and kept.
Lookup(p, k) ==
  /\ pc[p] = "idle"
  /\ key' = [key EXCEPT ![p] = k]
  /\ \/ /\ locks[k] # NoLock
        /\ mine' = [mine EXCEPT ![p] = locks[k]]
        /\ count' = [count EXCEPT ![locks[k]] = @ + 1]
        /\ Goto(p, "acquire")
     \/ /\ locks[k] = NoLock
        /\ Goto(p, "create")
        /\ UNCHANGED <<mine, count>>
  /\ UNCHANGED <<locks, held, loop>>

\* Variants with a bug: the new entry goes to a variable that shadows keyLock; no
\* second look at the table under the write lock.
CreateShadowed(p) ==
  /\ pc[p] = "create"
  /\ \E o \in Unreferenced : /\ locks' = [locks EXCEPT ![key[p]] = o]
                             /\ count' = [count EXCEPT ![o] = 1]
                             /\ held' = held \ {o}
  /\ Goto(p, "acquire")
  /\ UNCHANGED <<key, mine, loop>>
CreateBlindly(p) ==
  /\ pc[p] = "create"
  /\ \E o \in Unreferenced : /\ locks' = [locks EXCEPT ![key[p]] = o]
                             /\ count' = [count EXCEPT ![o] = 1]
                             /\ held' = held \ {o}
                             /\ mine' = [mine EXCEPT ![p] = o]
  /\ Goto(p, "acquire")
  /\ UNCHANGED <<key, loop>>

\* Under the write lock: another goroutine may have made the entry meanwhile.
Create(p) ==
  /\ pc[p] = "create"
  /\ \/ /\ locks[key[p]] # NoLock
        /\ mine' = [mine EXCEPT ![p] = locks[key[p]]]
        /\ count' = [count EXCEPT ![locks[key[p]]] = @ + 1]
        /\ UNCHANGED <<locks, held>>
     \/ /\ locks[key[p]] = NoLock
        /\ \E o \in Unreferenced : /\ locks' = [locks EXCEPT ![key[p]] = o]
                                   /\ count' = [count EXCEPT ![o] = 1]
                                   /\ held' = held \ {o}
                                   /\ mine' = [mine EXCEPT ![p] = o]
  /\ Goto(p, "acquire")
  /\ UNCHANGED <<key, loop>>

\* keyLock.Lock(), after the table was released.
Acquire(p) ==
  /\ pc[p] = "acquire"
  /\ mine[p] \notin held
  /\ held' = held \cup {mine[p]}
  /\ Goto(p, "critical")
  /\ UNCHANGED <<locks, count, key, mine, loop>>

-----------------------------------------------------------------------------
(* Unlock(k) *)

\* Under the read lock: the entry of the key, whichever it is now, is counted
\* down; without an entry Unlock does nothing.
Done(p) ==
  /\ pc[p] = "critical"
  /\ \/ /\ locks[key[p]] # NoLock
        /\ mine' = [mine EXCEPT ![p] = locks[key[p]]]
        /\ count' = [count EXCEPT ![locks[key[p]]] = @ - 1]
        /\ Goto(p, "release")
     \/ /\ locks[key[p]] = NoLock
        /\ mine' = [mine EXCEPT ![p] = NoLock]
        /\ Goto(p, "idle")
        /\ UNCHANGED count
  /\ UNCHANGED <<locks, held, key, loop>>

\* Variant with a bug: the mutex is counted down and not unlocked.
ReleaseForgotten(p) ==
  /\ pc[p] = "release"
  /\ mine' = [mine EXCEPT ![p] = NoLock]
  /\ Goto(p, "idle")
  /\ UNCHANGED <<locks, count, held, key, loop>>

\* keyLock.Unlock(), after the table was released.
Release(p) ==
  /\ pc[p] = "release"
  /\ held' = held \ {mine[p]}
  /\ mine' = [mine EXCEPT ![p] = NoLock]
  /\ Goto(p, "idle")
  /\ UNCHANGED <<locks, count, key, loop>>

-----------------------------------------------------------------------------
(* Cleaning. *)

\* Variants with a bug: Clean goes by the mutex, not by the counter; Clean
\* compares the counter with < instead of =.
SweepUnlocked ==
  /\ locks' = [k \in Keys |-> IF locks[k] # NoLock /\ locks[k] \notin held THEN NoLock ELSE locks[k]]
  /\ UNCHANGED <<count, held, pc, key, mine>>
SweepNegative ==
  /\ locks' = [k \in Keys |-> IF locks[k] # NoLock /\ count[locks[k]] < 0 THEN NoLock ELSE locks[k]]
  /\ UNCHANGED <<count, held, pc, key, mine>>

\* Under the write lock, the entries nobody uses are deleted.
Sweep ==
  /\ locks' = [k \in Keys |-> IF locks[k] # NoLock /\ count[locks[k]] = 0 THEN NoLock ELSE locks[k]]
  /\ UNCHANGED <<count, held, pc, key, mine>>

Clean == Sweep /\ UNCHANGED loop                     \* called by anybody
CleanTick == loop = "running" /\ Sweep /\ UNCHANGED loop   \* by the loop's ticker

\* A second Start adds a loop whose ticks are CleanTick too, and a Start after a Stop
\* one that ends at once: both leave the state as it is.
StartCleanLoop == /\ loop = "none"
                  /\ loop' = "running"
                  /\ UNCHANGED <<locks, count, held, pc, key, mine>>

\* Also before Start; a second Stop closes a closed channel and panics, and is left out.
StopCleanLoop == /\ loop # "stopped"
                 /\ loop' = "stopped"
                 /\ UNCHANGED <<locks, count, held, pc, key, mine>>

Next == \/ \E p \in Procs : Create(p) \/ Acquire(p) \/ Done(p) \/ Release(p)
        \/ \E p \in Procs, k \in Keys : Lookup(p, k)
        \/ Clean \/ CleanTick \/ StartCleanLoop \/ StopCleanLoop

Spec == Init /\ [][Next]_vars

\* Goroutines inside Lock and Unlock run, and those in a critical section leave
\* it; sync.Mutex hands itself to a waiter that starves, hence strong fairness
\* of Acquire; the ticker of a running loop fires.
FairSpec ==
  /\ Spec
  /\ \A p \in Procs : /\ WF_vars(Create(p)) /\ WF_vars(Done(p)) /\ WF_vars(Release(p))
                      /\ SF_vars(Acquire(p))
  /\ WF_vars(CleanTick)

-----------------------------------------------------------------------------
(* Properties. *)

\* The types; past the table, the variable keyLock of Lock and Unlock is not nil.
TypeOK == /\ locks \in [Keys -> Objects \cup {NoLock}]
          /\ count \in [Objects -> Int]
          /\ held \in SUBSET Objects
          /\ pc \in [Procs -> {"idle", "create", "acquire", "critical", "release"}]
          /\ key \in [Procs -> Keys]
          /\ mine \in [Procs -> Objects \cup {NoLock}]
          /\ \A p \in Procs : pc[p] \in {"acquire", "critical", "release"} => mine[p] # NoLock
          /\ loop \in {"none", "running", "stopped"}

\* Two goroutines never hold the lock of one key at once, although its mutex is
\* made, counted, deleted and made anew around them.
MutualExclusion ==
  \A p, q \in Procs : p # q /\ pc[p] = "critical" /\ pc[q] = "critical" => key[p] # key[q]

\* Clean never takes away the mutex that a goroutine holds or waits for: Unlock
\* will find the one Lock took, and later callers queue at the same one.
EntryStays ==
  \A p \in Procs : pc[p] \in {"acquire", "critical"} => locks[key[p]] = mine[p]

\* The counter of an entry is the number of goroutines that need it.
CountsUsers ==
  \A k \in Keys : locks[k] # NoLock => count[locks[k]] = Cardinality(Users(k))

\* The mutex a goroutine is about to unlock is locked (unlocking a free one is a
\* fatal error in Go), and is not another goroutine's.
UnlocksOwn ==
  \A p \in Procs :
    pc[p] \in {"critical", "release"} =>
      /\ mine[p] \in held
      /\ \A q \in Procs \ {p} : pc[q] \in {"critical", "release"} => mine[q] # mine[p]

\* The goroutines as the specification of a keyed mutex sees them: who has to take
\* the mutex waits, and who has counted the key down has left, although its mutex is
\* still to be unlocked.
Place(p) == IF pc[p] \in {"create", "acquire"} THEN [at |-> "waiting", key |-> key[p]]
            ELSE IF pc[p] = "critical" THEN [at |-> "inside", key |-> key[p]]
            ELSE [at |-> "outside"]

Mutexes == INSTANCE KeyedMutex WITH place <- [p \in Procs |-> Place(p)]

\* The table of counted mutexes is a mutex for each key: whatever is created, deleted
\* and created anew, a goroutine gets its key only when nobody is inside with it, leaves
\* once, and no step of another goroutine or of cleaning moves it.
ImplementsMutexes == Mutexes!Spec

\* Lock returns.
EveryLockReturns ==
  \A p \in Procs : pc[p] \in {"create", "acquire"} ~> pc[p] = "critical"

\* The entry of a key that falls out of use does not stay in memory for ever,
\* while the loop runs.
UnusedEntriesGo ==
  \A k \in Keys : <>[](loop = "running" /\ \A p \in Procs : key[p] = k => pc[p] = "idle")
                    => []<>(locks[k] = NoLock)
=============================================================================
