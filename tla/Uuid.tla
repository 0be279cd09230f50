-------------------------------- MODULE Uuid --------------------------------
(***************************************************************************)
(* Identifiers made by goroutines of one process: version 1, from the     *)
(* clock and the clock sequence, which a mutex guards.  The clock is the   *)
(* operating system's and may be set back.  Of the sixteen bytes the model *)
(* has the numbers they stand for: low and high for the time, seqHi and    *)
(* seqLow for the sequence; the hardware address is the same in all.       *)
(***************************************************************************)
EXTENDS Integers

CONSTANTS Goroutines,
          Nobody,              \* the holder of a free mutex
          ByteBits,            \* 8 in the source
          LowBits, HighBits,   \* bits of the time in the two numbers: 32 and 28
          Starts,              \* the clock sequences drawn at the start
          MaxTime,             \* a bound on the clock
          MaxBumps             \* a bound on the moves of the clock sequence

VARIABLES clock, clockSequence, lastTime,
          mutex,     \* who holds storageMutex
          pc,        \* the goroutines
          bumps,     \* history: how often the clock sequence was moved
          issued,    \* history: the identifiers, each with the bumps before it
          repeats    \* history: for two equal ones, how many bumps were between

vars == <<clock, clockSequence, lastTime, mutex, pc, bumps, issued, repeats>>

Byte == 0 .. 2 ^ ByteBits - 1
Sequences16 == 0 .. 2 ^ (2 * ByteBits) - 1
Distance(m, n) == IF m < n THEN n - m ELSE m - n

Idle == [at |-> "idle"]

Init == /\ clock \in 1 .. MaxTime
        /\ clockSequence \in Starts
        /\ lastTime = 0
        /\ mutex = Nobody
        /\ pc = [g \in Goroutines |-> Idle]
        /\ bumps = 0 /\ issued = {} /\ repeats = {}

-----------------------------------------------------------------------------
(* The layout *)

\* The version takes the four bits above the time, the variant the two upper bits
\* of the sequence.
SetVersion(u, v) == [u EXCEPT !.high = v * 2 ^ HighBits + (@ % (2 ^ HighBits))]
SetVariant(u) == [u EXCEPT !.seqHi = 2 ^ (ByteBits - 1) + (@ % (2 ^ (ByteBits - 2)))]

Version(u) == u.high \div 2 ^ HighBits
IsRFC4122(u) == u.seqHi \div 2 ^ (ByteBits - 2) = 2

\* Variant with a bug: version and variant are not set.
NewV1Plain(time, seq) ==
  [low   |-> time % (2 ^ LowBits), high   |-> time \div 2 ^ LowBits,
   seqHi |-> seq \div 2 ^ ByteBits, seqLow |-> seq % (2 ^ ByteBits)]
NewV1(time, seq) ==
  SetVariant(SetVersion([low   |-> time % (2 ^ LowBits), high   |-> time \div 2 ^ LowBits,
                         seqHi |-> seq \div 2 ^ ByteBits, seqLow |-> seq % (2 ^ ByteBits)], 1))

-----------------------------------------------------------------------------
(* getStorage: the mutex, the statements under it and the release by       *)
(* defer.  What is done with the result is the goroutine's own.            *)

\* Variant with a bug: nobody waits for the mutex.
LockUnguarded(g) ==
  /\ pc[g].at = "idle"
  /\ mutex' = g
  /\ pc' = [pc EXCEPT ![g] = [at |-> "readClock"]]
  /\ UNCHANGED <<clock, clockSequence, lastTime, bumps, issued, repeats>>

Lock(g) ==
  /\ pc[g].at = "idle"
  /\ mutex = Nobody
  /\ mutex' = g
  /\ pc' = [pc EXCEPT ![g] = [at |-> "readClock"]]
  /\ UNCHANGED <<clock, clockSequence, lastTime, bumps, issued, repeats>>

ReadClock(g) ==
  /\ pc[g].at = "readClock"
  /\ pc' = [pc EXCEPT ![g] = [at |-> "compare", time |-> clock]]
  /\ UNCHANGED <<clock, clockSequence, lastTime, mutex, bumps, issued, repeats>>

\* The sequence moves, modulo 2^16, unless the clock went on.  The variant moves it
\* only when the clock went back.
MovedBack(time) == time < lastTime
Moved(time) == time <= lastTime

Compare(g) ==
  LET moved == IF Moved(pc[g].time) THEN 1 ELSE 0
  IN  /\ pc[g].at = "compare"
      /\ bumps + moved <= MaxBumps
      /\ clockSequence' = (clockSequence + moved) % (2 ^ (2 * ByteBits))
      /\ bumps' = bumps + moved
      /\ pc' = [pc EXCEPT ![g].at = "store"]
      /\ UNCHANGED <<clock, lastTime, mutex, issued, repeats>>

Store(g) ==
  /\ pc[g].at = "store"
  /\ lastTime' = pc[g].time
  /\ mutex' = Nobody
  /\ pc' = [pc EXCEPT ![g] = [at |-> "make", time |-> @.time, seq |-> clockSequence, bumps |-> bumps]]
  /\ UNCHANGED <<clock, clockSequence, bumps, issued, repeats>>

\* The identifier is made of what getStorage returned, with the mutex released.
Make(g) ==
  LET u == NewV1(pc[g].time, pc[g].seq)
      b == pc[g].bumps
  IN  /\ pc[g].at = "make"
      /\ issued' = issued \cup {[uuid |-> u, bumps |-> b]}
      /\ repeats' = repeats \cup {Distance(b, i.bumps) : i \in {j \in issued : j.uuid = u}}
      /\ pc' = [pc EXCEPT ![g] = Idle]
      /\ UNCHANGED <<clock, clockSequence, lastTime, mutex, bumps>>

\* The operating system: time passes, or the clock is set.
SetClock ==
  /\ clock' \in 1 .. MaxTime
  /\ UNCHANGED <<clockSequence, lastTime, mutex, pc, bumps, issued, repeats>>

Next == \/ \E g \in Goroutines : Lock(g) \/ ReadClock(g) \/ Compare(g) \/ Store(g) \/ Make(g)
        \/ SetClock

Spec == Init /\ [][Next]_vars

-----------------------------------------------------------------------------
(* Properties. *)

TypeOK ==
  /\ clock \in 1 .. MaxTime /\ lastTime \in 0 .. MaxTime
  /\ clockSequence \in Sequences16
  /\ mutex \in Goroutines \cup {Nobody}
  /\ bumps \in 0 .. MaxBumps
  /\ \A g \in Goroutines : pc[g].at \in {"idle", "readClock", "compare", "store", "make"}
  /\ \A i \in issued : Version(i.uuid) = 1 /\ IsRFC4122(i.uuid)
  /\ repeats \subseteq 0 .. MaxBumps

\* No identifier is made twice, by any goroutines and however the clock is set,
\* until the clock sequence has moved through all the values that the variant leaves
\* room for.
NoEarlyRepeat == \A n \in repeats : n > 0 /\ n % (2 ^ (2 * ByteBits - 2)) = 0
=============================================================================
