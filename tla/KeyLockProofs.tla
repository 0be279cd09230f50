---------------------------- MODULE KeyLockProofs ----------------------------
(***************************************************************************)
(* The keyed mutex excludes, and Clean takes nothing that is in use, for   *)
(* any finite set of goroutines and any sets of keys and innerLocks.       *)
(***************************************************************************)
EXTENDS KeyLock, FiniteSetTheorems, TLAPS

\* Two keys never share an innerLock, and a goroutine that waits for or is inside
\* one has it from its own key.
OneKeyPerObject ==
  \A j, k \in Keys : j # k /\ locks[j] # NoLock => locks[j] # locks[k]

IInv == TypeOK /\ EntryStays /\ CountsUsers /\ UnlocksOwn /\ OneKeyPerObject

-----------------------------------------------------------------------------

\* Distinct goroutines in critical sections have distinct mutexes, hence keys.
LEMMA Exclusion == ASSUME IInv PROVE MutualExclusion
  BY DEF IInv, EntryStays, UnlocksOwn, MutualExclusion

\* Every set of users is finite, so that counting them makes sense.
LEMMA UsersFinite == ASSUME NEW k \in Keys PROVE IsFiniteSet(Users(k))
  BY KeyLockAssumption, FS_Subset DEF Users

\* The table starts empty, and no goroutine refers to memory.
LEMMA InitIInv == ASSUME Init PROVE IInv
  BY DEF Init, IInv, TypeOK, EntryStays, CountsUsers, UnlocksOwn, OneKeyPerObject, Users

\* An innerLock fresh from memory is nobody's.
LEMMA FreshObject ==
  ASSUME NEW o \in Unreferenced
  PROVE  /\ o \in Objects
         /\ \A k \in Keys : locks[k] # o
         /\ \A p \in Procs : mine[p] # o
  BY DEF Unreferenced, Table

\* A lookup counts the goroutine at the entry it found, or sends it to create one.
LEMMA LookupStep ==
  ASSUME IInv, NEW p \in Procs, NEW k \in Keys, Lookup(p, k) PROVE IInv'
<1> USE DEF IInv
<1>1. CASE locks[k] # NoLock
  <2>1. /\ pc[p] = "idle" /\ pc' = [pc EXCEPT ![p] = "acquire"]
        /\ key' = [key EXCEPT ![p] = k] /\ mine' = [mine EXCEPT ![p] = locks[k]]
        /\ count' = [count EXCEPT ![locks[k]] = @ + 1]
        /\ UNCHANGED <<locks, held, loop>>
    BY <1>1 DEF Lookup, Goto
  <2>2. TypeOK'
    BY <1>1, <2>1 DEF TypeOK
  <2>3. EntryStays'
    BY <2>1 DEF TypeOK, EntryStays
  <2>4. CountsUsers'
    <3>1. p \notin Users(k) /\ Users(k)' = Users(k) \cup {p}
      BY <2>1 DEF Users, TypeOK
    <3>2. Cardinality(Users(k)') = Cardinality(Users(k)) + 1
      BY <3>1, UsersFinite, FS_AddElement
    <3>3. \A j \in Keys : j # k => Users(j)' = Users(j) /\ (locks[j] # NoLock => locks[j] # locks[k])
      BY <1>1, <2>1 DEF Users, TypeOK, OneKeyPerObject
    <3> QED BY <1>1, <2>1, <3>2, <3>3 DEF CountsUsers, TypeOK
  <2>5. UnlocksOwn'
    BY <2>1 DEF TypeOK, UnlocksOwn
  <2> QED BY <2>1, <2>2, <2>3, <2>4, <2>5 DEF OneKeyPerObject
<1>2. CASE locks[k] = NoLock
  <2>1. /\ pc[p] = "idle" /\ pc' = [pc EXCEPT ![p] = "create"]
        /\ key' = [key EXCEPT ![p] = k]
        /\ UNCHANGED <<locks, held, loop, mine, count>>
    BY <1>2 DEF Lookup, Goto
  <2>2. \A j \in Keys : Users(j)' = Users(j)
    BY <2>1 DEF Users, TypeOK
  <2>3. CountsUsers'
    BY <2>1, <2>2 DEF CountsUsers
  <2> QED BY <2>1, <2>3 DEF TypeOK, EntryStays, UnlocksOwn, OneKeyPerObject
<1> QED BY <1>1, <1>2
\* Creation looks again under the write lock, so a key never gets a second entry.
LEMMA CreateStep ==
  ASSUME IInv, NEW p \in Procs, Create(p) PROVE IInv'
<1> USE DEF IInv
<1> DEFINE k == key[p]
<1>0. /\ k \in Keys /\ pc[p] = "create" /\ pc' = [pc EXCEPT ![p] = "acquire"]
      /\ p \notin Users(k) /\ Users(k)' = Users(k) \cup {p}
      /\ \A j \in Keys : j # k => Users(j)' = Users(j)
      /\ UNCHANGED <<key, loop>>
  BY DEF Create, Goto, Users, TypeOK
<1>n. Cardinality(Users(k)') = Cardinality(Users(k)) + 1
  BY <1>0, UsersFinite, FS_AddElement
<1>1. CASE locks[k] # NoLock
  <2>1. /\ mine' = [mine EXCEPT ![p] = locks[k]]
        /\ count' = [count EXCEPT ![locks[k]] = @ + 1]
        /\ UNCHANGED <<locks, held>>
    BY <1>1 DEF Create
  <2>2. TypeOK'
    BY <1>0, <1>1, <2>1 DEF TypeOK
  <2>3. EntryStays'
    BY <1>0, <2>1 DEF TypeOK, EntryStays
  <2>4. CountsUsers'
    BY <1>0, <1>n, <1>1, <2>1 DEF CountsUsers, TypeOK, OneKeyPerObject
  <2>5. UnlocksOwn'
    BY <1>0, <2>1 DEF TypeOK, UnlocksOwn
  <2> QED BY <2>1, <2>2, <2>3, <2>4, <2>5 DEF OneKeyPerObject
<1>2. CASE locks[k] = NoLock
  <2>1. PICK o \in Unreferenced :
           /\ locks' = [locks EXCEPT ![k] = o]
           /\ count' = [count EXCEPT ![o] = 1]
           /\ held' = held \ {o}
           /\ mine' = [mine EXCEPT ![p] = o]
    BY <1>2 DEF Create
  <2>2. /\ o \in Objects /\ o # NoLock
        /\ \A j \in Keys : locks[j] # o
        /\ \A q \in Procs : mine[q] # o
    BY FreshObject, KeyLockAssumption
  <2>3. TypeOK'
    BY <1>0, <2>1, <2>2 DEF TypeOK
  <2>4. EntryStays'
    <3>1. \A q \in Procs : pc[q] \in {"acquire", "critical"} => key[q] # k
      BY <1>2 DEF EntryStays, TypeOK
    <3> QED BY <1>0, <2>1, <3>1 DEF EntryStays, TypeOK
  <2>5. CountsUsers'
    <3>1. Users(k) = {}
      BY <1>2 DEF EntryStays, TypeOK, Users
    <3>2. Cardinality(Users(k)') = 1
      BY <1>n, <3>1, FS_EmptySet
    <3>3. \A j \in Keys : j # k => locks'[j] = locks[j] /\ locks[j] # o
      BY <1>0, <2>1, <2>2 DEF TypeOK
    <3>4. locks'[k] = o /\ count'[o] = 1
      BY <1>0, <2>1, <2>2 DEF TypeOK
    <3>5. \A j \in Keys : j # k /\ locks[j] # NoLock => count'[locks[j]] = count[locks[j]]
      BY <2>1, <2>2, <3>3 DEF TypeOK
    <3> QED BY <1>0, <3>2, <3>3, <3>4, <3>5 DEF CountsUsers
  <2>6. UnlocksOwn'
    BY <1>0, <2>1, <2>2 DEF TypeOK, UnlocksOwn
  <2>7. OneKeyPerObject'
    BY <1>0, <2>1, <2>2 DEF TypeOK, OneKeyPerObject
  <2> QED BY <2>3, <2>4, <2>5, <2>6, <2>7
<1> QED BY <1>1, <1>2

\* A mutex is taken only when nobody holds it.
LEMMA AcquireStep ==
  ASSUME IInv, NEW p \in Procs, Acquire(p) PROVE IInv'
<1> USE DEF IInv
<1>1. /\ pc[p] = "acquire" /\ pc' = [pc EXCEPT ![p] = "critical"]
      /\ mine[p] \notin held /\ held' = held \cup {mine[p]}
      /\ UNCHANGED <<locks, count, key, mine, loop>>
  BY DEF Acquire, Goto
<1>2. mine[p] \in Objects
  BY <1>1 DEF TypeOK
<1>3. TypeOK' /\ EntryStays' /\ UnlocksOwn'
  BY <1>1, <1>2 DEF TypeOK, EntryStays, UnlocksOwn
<1>4. \A k \in Keys : Users(k)' = Users(k)
  BY <1>1 DEF Users, TypeOK
<1>5. CountsUsers'
  BY <1>1, <1>4 DEF CountsUsers
<1> QED BY <1>1, <1>3, <1>5 DEF OneKeyPerObject

\* The counter goes down before the mutex is unlocked.
LEMMA DoneStep ==
  ASSUME IInv, NEW p \in Procs, Done(p) PROVE IInv'
<1> USE DEF IInv
<1> DEFINE k == key[p]
<1>1. k \in Keys /\ pc[p] = "critical" /\ locks[k] = mine[p] /\ mine[p] # NoLock /\ mine[p] \in Objects
  BY DEF Done, TypeOK, EntryStays
<1>2. /\ pc' = [pc EXCEPT ![p] = "release"]
      /\ mine' = [mine EXCEPT ![p] = locks[k]]
      /\ count' = [count EXCEPT ![locks[k]] = @ - 1]
      /\ UNCHANGED <<locks, held, key, loop>>
  BY <1>1 DEF Done, Goto
<1>3. mine' = mine
  BY <1>1, <1>2 DEF TypeOK
<1>4. TypeOK' /\ EntryStays' /\ UnlocksOwn'
  BY <1>1, <1>2, <1>3 DEF TypeOK, EntryStays, UnlocksOwn
<1>5. CountsUsers'
  <2>1. /\ p \in Users(k) /\ Users(k)' = Users(k) \ {p}
        /\ \A j \in Keys : j # k => Users(j)' = Users(j)
    BY <1>1, <1>2 DEF Users, TypeOK
  <2>2. Cardinality(Users(k)') = Cardinality(Users(k)) - 1
    BY <1>1, <2>1, UsersFinite, FS_RemoveElement
  <2>3. \A j \in Keys : j # k /\ locks[j] # NoLock => count'[locks[j]] = count[locks[j]]
    BY <1>1, <1>2 DEF OneKeyPerObject, TypeOK
  <2> QED BY <1>1, <1>2, <2>1, <2>2, <2>3 DEF CountsUsers, TypeOK
<1> QED BY <1>2, <1>4, <1>5 DEF OneKeyPerObject

\* A goroutine unlocks the mutex that it locked.
LEMMA ReleaseStep ==
  ASSUME IInv, NEW p \in Procs, Release(p) PROVE IInv'
<1> USE DEF IInv
<1>1. /\ pc[p] = "release" /\ pc' = [pc EXCEPT ![p] = "idle"]
      /\ held' = held \ {mine[p]} /\ mine' = [mine EXCEPT ![p] = NoLock]
      /\ UNCHANGED <<locks, count, key, loop>>
  BY DEF Release, Goto
<1>2. TypeOK' /\ EntryStays' /\ UnlocksOwn'
  BY <1>1 DEF TypeOK, EntryStays, UnlocksOwn
<1>3. \A k \in Keys : Users(k)' = Users(k)
  BY <1>1 DEF Users, TypeOK
<1>4. CountsUsers'
  BY <1>1, <1>3 DEF CountsUsers
<1> QED BY <1>1, <1>2, <1>4 DEF OneKeyPerObject

\* A swept entry has a counter of zero, hence no users.
LEMMA SweepStep ==
  ASSUME IInv, Sweep, loop' \in {"none", "running", "stopped"} PROVE IInv'
<1> USE DEF IInv
<1>1. /\ \A k \in Keys : locks'[k] = locks[k] \/ (locks'[k] = NoLock /\ locks[k] # NoLock /\ count[locks[k]] = 0)
      /\ locks' \in [Keys -> Objects \cup {NoLock}]
      /\ UNCHANGED <<count, held, pc, key, mine>>
  BY DEF Sweep, TypeOK
<1>2. TypeOK' /\ UnlocksOwn' /\ OneKeyPerObject'
  BY <1>1 DEF TypeOK, UnlocksOwn, OneKeyPerObject
<1>3. ASSUME NEW q \in Procs, pc[q] \in {"acquire", "critical"}
      PROVE  locks'[key[q]] = mine[q]
  <2>1. key[q] \in Keys /\ q \in Users(key[q]) /\ locks[key[q]] = mine[q] /\ mine[q] # NoLock
    BY <1>3 DEF TypeOK, Users, EntryStays
  <2>2. Cardinality(Users(key[q])) # 0
    BY <2>1, UsersFinite, FS_EmptySet
  <2> QED BY <1>1, <2>1, <2>2 DEF CountsUsers
<1>4. EntryStays'
  BY <1>1, <1>3 DEF EntryStays
<1>5. \A k \in Keys : Users(k)' = Users(k)
  BY <1>1 DEF Users
<1>6. CountsUsers'
  BY <1>1, <1>5 DEF CountsUsers
<1> QED BY <1>2, <1>4, <1>6

\* Every step keeps the inductive invariant: one lemma for each section.
LEMMA StepIInv == ASSUME IInv, [Next]_vars PROVE IInv'
<1>1. ASSUME NEW p \in Procs, Create(p) \/ Acquire(p) \/ Done(p) \/ Release(p) PROVE IInv'
  BY <1>1, CreateStep, AcquireStep, DoneStep, ReleaseStep
<1>2. ASSUME NEW p \in Procs, NEW k \in Keys, Lookup(p, k) PROVE IInv'
  BY <1>2, LookupStep
<1>3. CASE Clean \/ CleanTick
  BY <1>3, SweepStep DEF Clean, CleanTick, IInv, TypeOK
<1>4. CASE StartCleanLoop \/ StopCleanLoop \/ UNCHANGED vars
  <2>1. UNCHANGED <<locks, count, held, pc, key, mine>> /\ loop' \in {"none", "running", "stopped"}
    BY <1>4 DEF StartCleanLoop, StopCleanLoop, vars, IInv, TypeOK
  <2>2. \A k \in Keys : Users(k)' = Users(k)
    BY <2>1 DEF Users
  <2> QED BY <2>1, <2>2 DEF IInv, TypeOK, EntryStays, CountsUsers, UnlocksOwn, OneKeyPerObject
<1> QED BY <1>1, <1>2, <1>3, <1>4 DEF Next

-----------------------------------------------------------------------------

\* The inductive invariant holds in every behaviour.
THEOREM KeyLockInvariant == Spec => []IInv
  BY InitIInv, StepIInv, PTL DEF Spec

\* Every variable keeps its type and keyLock is never nil.
THEOREM TypeCorrect == Spec => []TypeOK
  BY KeyLockInvariant, PTL DEF IInv

\* Two goroutines never hold the lock of one key at once.
THEOREM LocksExclude == Spec => []MutualExclusion
  BY KeyLockInvariant, Exclusion, PTL

\* Clean deletes no entry that a goroutine holds or waits for.
THEOREM CleanKeepsUsed == Spec => []EntryStays
  BY KeyLockInvariant, PTL DEF IInv

\* The counters count.
THEOREM CountersCount == Spec => []CountsUsers
  BY KeyLockInvariant, PTL DEF IInv

\* Unlock unlocks a locked mutex, its own.
THEOREM UnlockIsOwn == Spec => []UnlocksOwn
  BY KeyLockInvariant, PTL DEF IInv

-----------------------------------------------------------------------------
(* The table implements a mutex for each key. *)

Places == [p \in Procs |-> Place(p)]

\* A step of one goroutine moves nobody else.
LEMMA OneMoves ==
  ASSUME TypeOK, NEW p \in Procs, NEW l, pc' = [pc EXCEPT ![p] = l],
         \A q \in Procs : q # p => key'[q] = key[q]
  PROVE  /\ pc'[p] = l
         /\ \A q \in Procs : q # p => Place(q)' = Place(q)
         /\ Places' = [Places EXCEPT ![p] = Place(p)']
<1>1. pc'[p] = l /\ \A q \in Procs : q # p => pc'[q] = pc[q]
  BY DEF TypeOK
<1>2. \A q \in Procs : q # p => Place(q)' = Place(q)
  BY <1>1 DEF Place
<1>3. Places' = [q \in Procs |-> Place(q)']
  BY DEF Places
<1>4. Places' = [Places EXCEPT ![p] = Place(p)']
  BY <1>2, <1>3 DEF Places
<1> QED BY <1>1, <1>2, <1>4

\* A lookup asks for the key, whether it finds the entry or has to make it.
LEMMA LookupAsks ==
  ASSUME IInv, NEW p \in Procs, NEW k \in Keys, Lookup(p, k)
  PROVE  Mutexes!Ask(p, k)
<1>1. /\ pc[p] = "idle" /\ key' = [key EXCEPT ![p] = k] /\ key'[p] = k
      /\ \A q \in Procs : q # p => key'[q] = key[q]
  BY DEF Lookup, IInv, TypeOK
<1>2. PICK l \in {"create", "acquire"} : pc' = [pc EXCEPT ![p] = l]
  BY DEF Lookup, Goto
<1>3. pc'[p] = l /\ Places' = [Places EXCEPT ![p] = Place(p)']
  BY <1>1, <1>2, OneMoves DEF IInv
<1>4. Place(p)' = Mutexes!Waiting(k)
  BY <1>1, <1>3 DEF Place, Mutexes!Waiting
<1>5. Places[p] = Mutexes!Outside
  BY <1>1 DEF Places, Place, Mutexes!Outside
<1> QED BY <1>3, <1>4, <1>5 DEF Mutexes!Ask, Places

\* Making the entry moves nobody: the goroutine waits for its mutex.
LEMMA CreateStutters ==
  ASSUME IInv, NEW p \in Procs, Create(p) PROVE UNCHANGED Places
<1>1. pc[p] = "create" /\ pc' = [pc EXCEPT ![p] = "acquire"] /\ UNCHANGED key
  BY DEF Create, Goto
<1>2. pc'[p] = "acquire" /\ \A q \in Procs : q # p => Place(q)' = Place(q)
  BY <1>1, OneMoves DEF IInv
<1>3. Place(p)' = Place(p)
  BY <1>1, <1>2 DEF Place
<1> QED BY <1>2, <1>3 DEF Places

\* Who takes the mutex finds nobody inside: there it would be the entry's, and locked.
LEMMA AcquireEnters ==
  ASSUME IInv, NEW p \in Procs, Acquire(p) PROVE Mutexes!Enter(p, key[p])
<1> DEFINE k == key[p]
<1>1. /\ pc[p] = "acquire" /\ pc' = [pc EXCEPT ![p] = "critical"]
      /\ mine[p] \notin held /\ UNCHANGED key
  BY DEF Acquire, Goto
<1>2. pc'[p] = "critical" /\ Places' = [Places EXCEPT ![p] = Place(p)']
  BY <1>1, OneMoves DEF IInv
<1>3. Places[p] = Mutexes!Waiting(k) /\ Place(p)' = Mutexes!Inside(k)
  BY <1>1, <1>2 DEF Places, Place, Mutexes!Waiting, Mutexes!Inside
<1>4. ASSUME NEW q \in Procs PROVE Places[q] # Mutexes!Inside(k)
  <2>1. CASE pc[q] = "critical"
    <3>1. mine[q] \in held /\ mine[q] = locks[key[q]] /\ mine[p] = locks[k]
      BY <1>1, <2>1 DEF IInv, UnlocksOwn, EntryStays
    <3>2. key[q] # k
      BY <1>1, <3>1
    <3> QED BY <2>1, <3>2 DEF Places, Place, Mutexes!Inside
  <2>2. CASE pc[q] # "critical"
    BY <2>2 DEF Places, Place, Mutexes!Inside
  <2> QED BY <2>1, <2>2
<1> QED BY <1>2, <1>3, <1>4 DEF Mutexes!Enter, Places

\* Counting the key down is leaving; the entry is still there to be counted.
LEMMA DoneLeaves ==
  ASSUME IInv, NEW p \in Procs, Done(p) PROVE Mutexes!Leave(p, key[p])
<1>1. /\ pc[p] = "critical" /\ UNCHANGED key
      /\ \E l \in {"release", "idle"} : pc' = [pc EXCEPT ![p] = l]
  BY DEF Done, Goto
<1>2. PICK l \in {"release", "idle"} : pc' = [pc EXCEPT ![p] = l]
  BY <1>1
<1>3. pc'[p] = l /\ Places' = [Places EXCEPT ![p] = Place(p)']
  BY <1>1, <1>2, OneMoves DEF IInv
<1>4. Places[p] = Mutexes!Inside(key[p]) /\ Place(p)' = Mutexes!Outside
  BY <1>1, <1>3 DEF Places, Place, Mutexes!Inside, Mutexes!Outside
<1> QED BY <1>3, <1>4 DEF Mutexes!Leave, Places

\* Unlocking the mutex happens outside.
LEMMA ReleaseStutters ==
  ASSUME IInv, NEW p \in Procs, Release(p) PROVE UNCHANGED Places
<1>1. pc[p] = "release" /\ pc' = [pc EXCEPT ![p] = "idle"] /\ UNCHANGED key
  BY DEF Release, Goto
<1>2. pc'[p] = "idle" /\ \A q \in Procs : q # p => Place(q)' = Place(q)
  BY <1>1, OneMoves DEF IInv
<1>3. Place(p)' = Place(p)
  BY <1>1, <1>2 DEF Place
<1> QED BY <1>2, <1>3 DEF Places

\* Every step is one of the mutexes' or moves nobody.
LEMMA RefinesStep ==
  ASSUME IInv, [Next]_vars PROVE [Mutexes!Next]_Places
<1>1. ASSUME NEW p \in Procs, NEW k \in Keys, Lookup(p, k) PROVE Mutexes!Next
  BY <1>1, LookupAsks DEF Mutexes!Next
<1>2. ASSUME NEW p \in Procs, Acquire(p) \/ Done(p) PROVE Mutexes!Next
  BY <1>2, AcquireEnters, DoneLeaves DEF Mutexes!Next, IInv, TypeOK
<1>3. ASSUME NEW p \in Procs, Create(p) \/ Release(p) PROVE UNCHANGED Places
  BY <1>3, CreateStutters, ReleaseStutters
<1>4. CASE Clean \/ CleanTick \/ StartCleanLoop \/ StopCleanLoop \/ UNCHANGED vars
  <2>1. UNCHANGED <<pc, key>>
    BY <1>4 DEF Clean, CleanTick, Sweep, StartCleanLoop, StopCleanLoop, vars
  <2> QED BY <2>1 DEF Places, Place
<1> QED BY <1>1, <1>2, <1>3, <1>4 DEF Next

\* Lock and Unlock implement a mutex for each key, for any goroutines, keys and memory.
THEOREM TableImplementsMutexes == Spec => ImplementsMutexes
<1>1. ASSUME Init PROVE Mutexes!Init
  BY <1>1 DEF Init, Mutexes!Init, Place, Mutexes!Outside
<1>2. ASSUME IInv, [Next]_vars PROVE [Mutexes!Next]_Places
  BY <1>2, RefinesStep
<1> QED BY <1>1, <1>2, KeyLockInvariant, PTL DEF Spec, ImplementsMutexes, Mutexes!Spec, Places
=============================================================================
