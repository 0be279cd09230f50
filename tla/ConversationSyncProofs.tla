------------------------ MODULE ConversationSyncProofs ------------------------
(***************************************************************************)
(* The safety of conversation sync for any devices, conversations and      *)
(* goroutines, with and without MessageSaveAcrossDevice, and any bounds.   *)
(***************************************************************************)
EXTENDS ConversationSync, WellFoundedInduction, TLAPS

\* A bounded set of numbers has a largest one, and Max is it.
LEMMA MaxIsLargest ==
  ASSUME NEW n \in Nat, NEW S \in SUBSET (0 .. n), S # {}
  PROVE  Max(S) \in S /\ \A y \in S : Max(S) >= y
<1> DEFINE R == {ss \in Nat \X Nat : ss[1] < ss[2]}
           T == {k \in Nat : \E x \in S : k = n - x}
<1>1. IsWellFoundedOn(R, Nat)
  BY NatLessThanWellFounded, Zenon DEF OpToRel
<1>2. T \subseteq Nat /\ T # {}
  <2>1. PICK x \in S : TRUE
    OBVIOUS
  <2>2. n - x \in Nat
    BY <2>1
  <2> QED BY <2>1, <2>2
<1>3. PICK m \in T : \A k \in T : ~ (<<k, m>> \in R)
  <2> HIDE DEF R, T
  <2> QED BY <1>1, <1>2, WFMin
<1>4. ASSUME NEW k \in T PROVE m <= k
  <2>1. <<k, m>> \in Nat \X Nat /\ <<k, m>>[1] = k /\ <<k, m>>[2] = m
    OBVIOUS
  <2>2. ~(k < m)
    BY <1>3, <2>1
  <2> QED BY <2>2
<1>5. PICK x \in S : m = n - x
  BY <1>3
<1>6. \A y \in S : x >= y
  BY <1>4, <1>5
<1> QED BY <1>6 DEF Max

\* The newest of some versions, one of them given.
LEMMA LargestOf ==
  ASSUME NEW v \in Versions, NEW S \in SUBSET Versions
  PROVE  /\ Max({v} \cup S) \in Versions /\ Max({v} \cup S) >= v
         /\ \A x \in S : Max({v} \cup S) >= x
         /\ Max({v} \cup S) \in {v} \cup S
<1>1. MaxVersion \in Nat /\ {v} \cup S \in SUBSET (0 .. MaxVersion)
  BY ConversationAssumption DEF Versions
<1>2. /\ Max({v} \cup S) \in {v} \cup S
      /\ \A y \in {v} \cup S : Max({v} \cup S) >= y
  BY <1>1, MaxIsLargest
<1> QED BY <1>1, <1>2 DEF Versions

-----------------------------------------------------------------------------
(* The inductive invariant. *)

Entries == Convs \X Versions
VersionMaps == [Convs -> Versions]

\* With the conversations' versions vs, version n has come, and of what is not newer
\* everything is in done.
Known(n, vs, done) ==
  /\ n = 0 \/ \E c \in Convs : n <= vs[c]
  /\ \A c \in Convs : vs[c] # 0 /\ vs[c] <= n => <<c, vs[c]>> \in done

\* What a reply contained or left out.
Done == served \cup leftOut

\* The states of a goroutine.  Its copy holds numbers between two calls to redis,
\* and entries of the result cache between the two locks.
RoutineStates ==
  [at : {"idle", "device", "user", "setDevice", "im", "copy", "store", "version", "reply",
         "ackRead", "ackSet"},
   dev : Devices \cup {NoDevice}, asked : Versions, ver : Versions, got : SUBSET Entries,
   bare : SUBSET Entries, todo : SUBSET Entries, copy : SUBSET (Versions \cup Entries)]

\* What goroutine r carries to a place where a device, redis or the map takes it is
\* known: the version it was asked with and the one it asks with, the user's version
\* on its way to the device's key, the map's version on its way to the user's.  The
\* versions the IM server answered with are known together with the answer itself.
Carries(r, vs, done) ==
  /\ r.todo \subseteq r.got
  /\ (r.dev = NoDevice) <=> (r.at = "idle")
  /\ Known(r.asked, vs, done)
  /\ r.at \in {"device", "user", "setDevice", "im", "ackSet"} => Known(r.ver, vs, done)
  /\ r.at = "setDevice" => \A v \in r.copy : v \in Versions /\ Known(v, vs, done)
  /\ r.at = "store" => r.copy \subseteq Entries
  /\ r.at \in {"copy", "store", "version"} =>
       \A e \in r.got : Known(e[2], vs, done \cup r.got \cup r.bare)
  /\ r.at = "reply" => \A e \in r.got : Known(e[2], vs, done)

Work == /\ gr \in [Routines -> RoutineStates]
        /\ \A g \in Routines : Carries(gr[g], ver, Done)

\* The copies that goroutines read and write.
Copies == /\ \A d \in Devices : Known(devVer[d], ver, Done) /\ Known(cursor[d], ver, Done)
          /\ Known(userVer, ver, Done) /\ Known(verMap, ver, Done)

\* What is not a goroutine's.
Kept ==
  /\ ver \in VersionMaps
  /\ cursor \in [Devices -> Versions]
  /\ devVer \in [Devices -> Versions]
  /\ userVer \in Versions /\ verMap \in Versions
  /\ received \in SUBSET Entries /\ results \in SUBSET Entries
  /\ served \in SUBSET Entries /\ leftOut \in SUBSET Entries
  /\ crashes \in 0 .. MaxCrashes
  /\ Copies

IInv == Kept /\ Work

\* The inductive invariant gives the types.
LEMMA IInvTyped == IInv => TypeOK
<1> SUFFICES ASSUME IInv PROVE TypeOK
  OBVIOUS
<1>1. ASSUME NEW g \in Routines
      PROVE  /\ (gr[g].dev = NoDevice) <=> At(g, "idle")
             /\ gr[g].dev \in Devices \cup {NoDevice} /\ gr[g].ver \in Versions
             /\ gr[g].todo \subseteq gr[g].got
             /\ gr[g].got \cup gr[g].bare \subseteq Convs \X Versions
  BY DEF IInv, Work, Carries, RoutineStates, Entries, At
<1> QED BY <1>1 DEF IInv, Kept, TypeOK, Entries, VersionMaps

\* What is known is covered.
LEMMA IInvSkips == IInv => SkipsOnlyServed
BY DEF IInv, Kept, Copies, SkipsOnlyServed, Covered, Known, Done

\* Version 0 is before all others.
LEMMA ZeroIsKnown == 0 \in Versions /\ \A vs \in VersionMaps : \A done : Known(0, vs, done)
<1>1. MaxVersion \in Nat /\ \A n \in Versions : n \in Nat
  BY ConversationAssumption DEF Versions
<1> QED BY <1>1 DEF Known, Versions, VersionMaps

\* An idle goroutine carries nothing.
LEMMA IdleFits == Idle \in RoutineStates /\ \A vs \in VersionMaps : \A done : Carries(Idle, vs, done)
BY ZeroIsKnown DEF Idle, RoutineStates, Carries

\* At the start nothing was served and no device holds anything.
LEMMA InitIInv == Init => IInv
<1> SUFFICES ASSUME Init PROVE IInv
  OBVIOUS
<1>1. 0 \in Versions /\ 0 \in 0 .. MaxCrashes
  BY ConversationAssumption DEF Versions
<1>2. ver \in VersionMaps
  BY <1>1 DEF Init, VersionMaps
<1>3. Work
  BY <1>2, IdleFits DEF Init, Work
<1>4. Copies
  BY <1>2, ZeroIsKnown DEF Init, Copies
<1> QED BY <1>1, <1>2, <1>3, <1>4 DEF Init, IInv, Kept

-----------------------------------------------------------------------------
(* What is known stays so. *)

\* A version that a conversation takes is newer than all there were.
Onward(vs, ws) == \A c \in Convs : ws[c] = vs[c] \/ \A b \in Convs : ws[c] > vs[b]

\* A new version is above what is known, and replies only add to what is done.
LEMMA KnownStays ==
  ASSUME NEW vs \in VersionMaps, NEW ws \in VersionMaps, Onward(vs, ws),
         NEW done, NEW more, done \subseteq more, NEW n \in Versions, Known(n, vs, done)
  PROVE  Known(n, ws, more)
<1>1. n \in Nat /\ \A c \in Convs : vs[c] \in Nat /\ ws[c] \in Nat
  BY ConversationAssumption DEF Versions, VersionMaps
<1>2. \A c \in Convs : ws[c] >= vs[c]
  BY <1>1 DEF Onward
<1>3. n = 0 \/ \E c \in Convs : n <= ws[c]
  BY <1>1, <1>2 DEF Known
<1>4. ASSUME NEW c \in Convs, ws[c] # 0, ws[c] <= n PROVE <<c, ws[c]>> \in more
  <2>1. CASE ws[c] = vs[c]
    BY <1>4, <2>1 DEF Known
  <2>2. CASE \A b \in Convs : ws[c] > vs[b]
    <3>1. PICK b \in Convs : n <= vs[b]
      BY <1>1, <1>4 DEF Known
    <3> QED BY <1>1, <1>4, <2>2, <3>1
  <2> QED BY <2>1, <2>2 DEF Onward
<1> QED BY <1>3, <1>4 DEF Known

\* So does what a goroutine carries.
LEMMA CarriesStays ==
  ASSUME NEW vs \in VersionMaps, NEW ws \in VersionMaps, Onward(vs, ws),
         NEW done, NEW more, done \subseteq more, NEW r \in RoutineStates, Carries(r, vs, done)
  PROVE  Carries(r, ws, more)
<1>1. \A n \in Versions : \A S : Known(n, vs, done \cup S) => Known(n, ws, more \cup S)
  <2> SUFFICES ASSUME NEW n \in Versions, NEW S, Known(n, vs, done \cup S)
               PROVE  Known(n, ws, more \cup S)
    OBVIOUS
  <2>1. done \cup S \subseteq more \cup S
    OBVIOUS
  <2> QED BY <2>1, KnownStays
<1>2. \A n \in Versions : Known(n, vs, done) => Known(n, ws, more)
  BY KnownStays
<1>3. /\ r.asked \in Versions /\ r.ver \in Versions
      /\ \A e \in r.got : e[2] \in Versions
  BY DEF RoutineStates, Entries
<1>4. \A e \in r.got : Known(e[2], vs, done \cup r.got \cup r.bare)
                       => Known(e[2], ws, more \cup r.got \cup r.bare)
  <2>1. done \cup r.got \cup r.bare = done \cup (r.got \cup r.bare)
        /\ more \cup r.got \cup r.bare = more \cup (r.got \cup r.bare)
    OBVIOUS
  <2> QED BY <1>1, <1>3, <2>1
<1> QED BY <1>2, <1>3, <1>4 DEF Carries

\* One goroutine moves: the others carry what they carried.
LEMMA WorkTo ==
  ASSUME IInv, NEW g \in Routines, NEW r \in RoutineStates, To(g, r),
         ver' \in VersionMaps, Onward(ver, ver'),
         served \subseteq served', leftOut \subseteq leftOut',
         Carries(r, ver', served' \cup leftOut')
  PROVE  Work'
<1>1. gr' \in [Routines -> RoutineStates]
      /\ \A h \in Routines : gr'[h] = IF h = g THEN r ELSE gr[h]
  BY DEF IInv, Work, To
<1>2. ASSUME NEW h \in Routines, h # g PROVE Carries(gr[h], ver', served' \cup leftOut')
  <2>1. Carries(gr[h], ver, served \cup leftOut) /\ gr[h] \in RoutineStates /\ ver \in VersionMaps
    BY DEF IInv, Work, Kept, Done
  <2>2. served \cup leftOut \subseteq served' \cup leftOut'
    OBVIOUS
  <2> QED BY <2>1, <2>2, CarriesStays
<1> QED BY <1>1, <1>2 DEF Work, Done

\* The same, of a step that serves nothing.
LEMMA WorkBeside ==
  ASSUME IInv, NEW g \in Routines, NEW r \in RoutineStates, To(g, r), UNCHANGED World,
         Carries(r, ver, Done)
  PROVE  Work'
<1>1. ver \in VersionMaps /\ ver' = ver /\ served' = served /\ leftOut' = leftOut
  BY DEF World, IInv, Kept
<1>2. Onward(ver, ver')
  BY <1>1 DEF Onward
<1> QED BY <1>1, <1>2, WorkTo DEF Done

\* What the goroutine's own record says of it.
LEMMA RoutineFacts ==
  ASSUME IInv, NEW g \in Routines
  PROVE  /\ gr[g] \in RoutineStates /\ Carries(gr[g], ver, Done)
         /\ gr[g].dev \in Devices \cup {NoDevice} /\ gr[g].ver \in Versions /\ gr[g].asked \in Versions
         /\ gr[g].got \in SUBSET Entries /\ gr[g].todo \in SUBSET Entries
         /\ gr[g].bare \in SUBSET Entries
         /\ gr[g].at # "idle" => gr[g].dev \in Devices
BY DEF IInv, Work, RoutineStates, Carries

\* What the copies hold.
LEMMA CopyFacts ==
  ASSUME IInv
  PROVE  /\ ver \in VersionMaps
         /\ \A d \in Devices : cursor[d] \in Versions /\ Known(cursor[d], ver, Done)
         /\ \A d \in Devices : devVer[d] \in Versions /\ Known(devVer[d], ver, Done)
         /\ userVer \in Versions /\ Known(userVer, ver, Done)
         /\ verMap \in Versions /\ Known(verMap, ver, Done)
BY DEF IInv, Kept, Copies

\* The larger of two known versions is known.
LEMMA LargerKnown ==
  ASSUME NEW vs, NEW done, NEW a \in Versions, NEW b \in Versions,
         Known(a, vs, done), Known(b, vs, done)
  PROVE  Larger(a, b) \in Versions /\ Known(Larger(a, b), vs, done)
BY DEF Larger

\* A step of a goroutine that writes nothing.
LEMMA KeptSame ==
  ASSUME IInv, UNCHANGED <<deviceVars, redisVars, memoryVars, World>>
  PROVE  Kept'
BY DEF IInv, Kept, Copies, Done, deviceVars, redisVars, memoryVars, World

-----------------------------------------------------------------------------
(* The steps. *)

\* A request for the version map or for the device's key.
LEMMA ReceiveStep ==
  ASSUME IInv, NEW g \in Routines, NEW d \in Devices, SyncReceive(g, d) \/ AckReceive(g, d)
  PROVE  IInv'
<1>1. Kept' /\ UNCHANGED World
  BY KeptSame DEF SyncReceive, AckReceive, World
<1>2. d # NoDevice
  BY ConversationAssumption
<1>3. CASE SyncReceive(g, d)
  <2> DEFINE r(at) == [Idle EXCEPT !.at = at, !.dev = d, !.asked = cursor[d], !.ver = cursor[d]]
  <2>1. \A at \in {"im", "device"} : r(at) \in RoutineStates /\ Carries(r(at), ver, Done)
    BY <1>2, CopyFacts, IdleFits DEF RoutineStates, Carries, Idle
  <2>2. To(g, r("im")) \/ To(g, r("device"))
    BY <1>3 DEF SyncReceive
  <2> HIDE DEF r
  <2> QED BY <1>1, <2>1, <2>2, WorkBeside DEF IInv
<1>4. CASE AckReceive(g, d)
  <2> DEFINE r == [Idle EXCEPT !.at = "ackRead", !.dev = d]
  <2>1. r \in RoutineStates /\ Carries(r, ver, Done)
    BY <1>2, CopyFacts, IdleFits DEF RoutineStates, Carries, Idle
  <2>2. To(g, r) \/ To(g, Idle)
    BY <1>4 DEF AckReceive
  <2> HIDE DEF r
  <2> QED BY <1>1, <2>1, <2>2, CopyFacts, IdleFits, WorkBeside DEF IInv
<1> QED BY <1>3, <1>4

\* The two reads of redis.
LEMMA GetStep ==
  ASSUME IInv, NEW g \in Routines, GetDeviceVersion(g) \/ GetUserVersion(g)
  PROVE  IInv'
<1>1. Kept' /\ UNCHANGED World
  BY KeptSame DEF GetDeviceVersion, GetUserVersion
<1>2. gr[g].at \in {"device", "user"} /\ gr[g].dev \in Devices /\ Known(gr[g].ver, ver, Done)
  BY RoutineFacts DEF GetDeviceVersion, GetUserVersion, At, Carries
<1>3. CASE GetDeviceVersion(g)
  <2> DEFINE v == Larger(gr[g].ver, devVer[gr[g].dev])
             r1 == [gr[g] EXCEPT !.at = "user"]
             r2 == [gr[g] EXCEPT !.at = "im", !.ver = v]
  <2>1. v \in Versions /\ Known(v, ver, Done)
    BY <1>2, RoutineFacts, CopyFacts, LargerKnown
  <2>2. To(g, r1) \/ To(g, r2)
    BY <1>3, RoutineFacts DEF GetDeviceVersion, To, RoutineStates
  <2> HIDE DEF v
  <2>3. r1 \in RoutineStates /\ Carries(r1, ver, Done) /\ r2 \in RoutineStates /\ Carries(r2, ver, Done)
    BY <1>2, <2>1, RoutineFacts, ConversationAssumption DEF RoutineStates, Carries
  <2> HIDE DEF r1, r2
  <2> QED BY <1>1, <2>2, <2>3, WorkBeside DEF IInv
<1>4. CASE GetUserVersion(g)
  <2> DEFINE v == Larger(gr[g].ver, userVer)
             r(at) == [gr[g] EXCEPT !.at = at, !.ver = v, !.copy = {userVer}]
  <2>1. v \in Versions /\ Known(v, ver, Done)
    BY <1>2, RoutineFacts, CopyFacts, LargerKnown
  <2>2. To(g, r("setDevice")) \/ To(g, r("im"))
    BY <1>4, RoutineFacts DEF GetUserVersion, To, RoutineStates
  <2> HIDE DEF v
  <2>3. \A at \in {"setDevice", "im"} : r(at) \in RoutineStates /\ Carries(r(at), ver, Done)
    BY <1>2, <2>1, RoutineFacts, CopyFacts, ConversationAssumption DEF RoutineStates, Carries
  <2> HIDE DEF r
  <2> QED BY <1>1, <2>2, <2>3, WorkBeside DEF IInv
<1> QED BY <1>3, <1>4

\* The writes of redis, whether they are answered or fail.
LEMMA SetStep ==
  ASSUME IInv, NEW g \in Routines, SetDeviceVersion(g) \/ SyncFail(g) \/ AckSet(g)
  PROVE  IInv'
<1>0. UNCHANGED <<deviceVars, memoryVars, World>>
  BY DEF SetDeviceVersion, SyncFail, AckSet
<1>1. CASE SetDeviceVersion(g) \/ SyncFail(g)
  <2>0. gr[g].at # "idle"
    BY <1>1 DEF SetDeviceVersion, SyncFail, At
  <2>1. userVer' = userVer /\ devVer' \in [Devices -> Versions]
        /\ \A d \in Devices : Known(devVer'[d], ver, Done)
    <3>1. CASE UNCHANGED devVer
      BY <1>1, <3>1, CopyFacts DEF SetDeviceVersion, SyncFail, IInv, Kept
    <3>2. CASE ~UNCHANGED devVer
      <4>1. PICK v \in gr[g].copy : At(g, "setDevice") /\ devVer' = [devVer EXCEPT ![gr[g].dev] = v]
        BY <1>1, <3>2 DEF SetDeviceVersion, SyncFail
      <4>2. v \in Versions /\ Known(v, ver, Done)
        BY <4>1, RoutineFacts DEF At, Carries
      <4>3. devVer \in [Devices -> Versions]
        BY DEF IInv, Kept
      <4>4. \A d \in Devices : devVer'[d] = devVer[d] \/ devVer'[d] = v
        BY <4>1, <4>3
      <4> QED BY <1>1, <4>1, <4>2, <4>3, <4>4, CopyFacts DEF SetDeviceVersion, SyncFail
    <3> QED BY <3>1, <3>2
  <2>2. Kept'
    BY <1>0, <2>1 DEF IInv, Kept, Copies, Done, deviceVars, memoryVars, World
  <2> DEFINE r == [gr[g] EXCEPT !.at = "im", !.copy = {}]
  <2>3. At(g, "setDevice") => r \in RoutineStates /\ Carries(r, ver, Done)
    BY <2>0, RoutineFacts DEF RoutineStates, Carries, At
  <2>4. (At(g, "setDevice") /\ To(g, r)) \/ To(g, Idle)
    BY <1>1 DEF SetDeviceVersion, SyncFail
  <2> HIDE DEF r
  <2> QED BY <1>0, <2>2, <2>3, <2>4, IdleFits, CopyFacts, WorkBeside DEF IInv
<1>2. CASE AckSet(g)
  <2>1. userVer' \in Versions /\ Known(userVer', ver, Done) /\ devVer' = devVer
    BY <1>2, RoutineFacts, CopyFacts DEF AckSet, At, Carries
  <2>2. Kept'
    BY <1>0, <2>1 DEF IInv, Kept, Copies, Done, deviceVars, memoryVars, World
  <2>3. To(g, Idle)
    BY <1>2 DEF AckSet
  <2> QED BY <1>0, <2>2, <2>3, IdleFits, CopyFacts, WorkBeside DEF IInv
<1> QED BY <1>1, <1>2

\* The IM server's answer together with what was known before it covers everything.
LEMMA AnswerCovers ==
  ASSUME NEW vs \in VersionMaps, NEW done, NEW n \in Versions, Known(n, vs, done),
         NEW c \in Convs
  PROVE  Known(vs[c], vs, done \cup {<<b, vs[b]>> : b \in {b \in Convs : vs[b] > n}})
<1>1. n \in Nat /\ \A b \in Convs : vs[b] \in Nat
  BY ConversationAssumption DEF Versions, VersionMaps
<1>2. vs[c] <= vs[c]
  BY <1>1
<1>3. ASSUME NEW b \in Convs, vs[b] # 0, vs[b] <= vs[c]
      PROVE  <<b, vs[b]>> \in done \/ vs[b] > n
  BY <1>1, <1>3 DEF Known
<1> QED BY <1>2, <1>3 DEF Known

\* The IM server's answer, and the two locks of the result cache.
LEMMA ResultsStep ==
  ASSUME IInv, NEW g \in Routines, AskIM(g) \/ CopyResults(g) \/ StoreResults(g)
  PROVE  IInv'
<1>0. UNCHANGED <<deviceVars, redisVars, verMap, World>>
  BY DEF AskIM, CopyResults, StoreResults, memoryVars
<1>1. ASSUME results' \in SUBSET Entries PROVE Kept'
  BY <1>0, <1>1 DEF IInv, Kept, Copies, Done, deviceVars, redisVars, World
<1>2. results \in SUBSET Entries
  BY DEF IInv, Kept
<1>3. CASE AskIM(g)
  <2> DEFINE answer == {<<c, ver[c]>> : c \in {c \in Convs : ver[c] > gr[g].ver}}
             r(at, got) == [gr[g] EXCEPT !.at = at, !.ver = 0, !.copy = {}, !.got = got,
                                         !.bare = answer \ got, !.todo = got]
  <2>1. answer \in SUBSET Entries
    BY CopyFacts DEF Entries, VersionMaps
  <2>2. PICK got \in SUBSET answer : To(g, r("version", got)) \/ To(g, r("copy", got))
    BY <1>3 DEF AskIM
  <2>3. gr[g].at = "im" /\ gr[g].dev # NoDevice /\ Known(gr[g].ver, ver, Done)
    BY <1>3, RoutineFacts DEF AskIM, At, Carries
  <2>4. \A e \in answer : Known(e[2], ver, Done \cup answer)
    BY <2>3, RoutineFacts, CopyFacts, AnswerCovers
  <2> HIDE DEF answer
  <2>5. Done \cup got \cup (answer \ got) = Done \cup answer
    OBVIOUS
  <2>6. \A e \in got : Known(e[2], ver, Done \cup got \cup (answer \ got))
    BY <2>4, <2>5
  <2>7. \A at \in {"version", "copy"} :
          r(at, got) \in RoutineStates /\ Carries(r(at, got), ver, Done)
    BY <2>1, <2>3, <2>6, RoutineFacts, ZeroIsKnown DEF RoutineStates, Carries
  <2>8. results' = results
    BY <1>3 DEF AskIM, memoryVars
  <2> HIDE DEF r
  <2> QED BY <1>0, <1>1, <1>2, <2>2, <2>7, <2>8, WorkBeside DEF IInv
<1>4. CASE CopyResults(g)
  <2> DEFINE r == [gr[g] EXCEPT !.at = "store", !.copy = results]
  <2>1. gr[g].at = "copy"
    BY <1>4 DEF CopyResults, At
  <2>2. r \in RoutineStates /\ Carries(r, ver, Done)
    BY <1>2, <2>1, RoutineFacts DEF RoutineStates, Carries
  <2>3. To(g, r) /\ results' = results
    BY <1>4 DEF CopyResults, memoryVars
  <2> HIDE DEF r
  <2> QED BY <1>0, <1>1, <1>2, <2>2, <2>3, WorkBeside DEF IInv
<1>5. CASE StoreResults(g)
  <2>1. PICK entry \in gr[g].todo :
          /\ results' = gr[g].copy \cup {entry}
          /\ To(g, [gr[g] EXCEPT !.at = IF gr[g].todo = {entry} THEN "version" ELSE "copy",
                                 !.todo = @ \ {entry}, !.copy = {}])
    BY <1>5 DEF StoreResults
  <2> DEFINE todo == gr[g].todo \ {entry}
             r(at) == [gr[g] EXCEPT !.at = at, !.todo = todo, !.copy = {}]
  <2>2. To(g, r("version")) \/ To(g, r("copy"))
    BY <2>1, RoutineFacts DEF RoutineStates
  <2>3. todo \in SUBSET Entries /\ todo \subseteq gr[g].got
    BY RoutineFacts DEF Carries
  <2>4. gr[g].copy \subseteq Entries /\ results' \in SUBSET Entries /\ gr[g].at = "store"
    BY <1>5, <2>1, RoutineFacts DEF StoreResults, At, Carries
  <2> HIDE DEF todo
  <2>5. \A at \in {"version", "copy"} : r(at) \in RoutineStates /\ Carries(r(at), ver, Done)
    BY <2>3, <2>4, RoutineFacts DEF RoutineStates, Carries
  <2> HIDE DEF r
  <2> QED BY <1>0, <1>1, <2>2, <2>4, <2>5, WorkBeside DEF IInv
<1> QED BY <1>3, <1>4, <1>5

\* The reply's conversations are served and the others left out, so that the version
\* of any of them is known, and the version map rises to it.
LEMMA StoreVersionStep ==
  ASSUME IInv, NEW g \in Routines, StoreVersion(g)
  PROVE  IInv'
<1> DEFINE got == gr[g].got
           bare == gr[g].bare
           done == served' \cup leftOut'
           r == [Idle EXCEPT !.at = "reply", !.dev = gr[g].dev, !.got = got]
<1>1. /\ served' = served \cup got /\ leftOut' = leftOut \cup bare /\ To(g, r)
      /\ UNCHANGED <<ver, crashes, deviceVars, redisVars, results>>
      /\ gr[g].at = "version"
  BY DEF StoreVersion, At
<1>2. /\ done = Done \cup got \cup bare /\ Done \subseteq done
      /\ got \in SUBSET Entries /\ bare \in SUBSET Entries
  BY <1>1, RoutineFacts DEF Done
<1>3. \A n \in Versions : Known(n, ver, Done) => Known(n, ver, done)
  BY <1>2 DEF Known
<1>4. \A e \in got : e[2] \in Versions /\ Known(e[2], ver, done)
  BY <1>1, <1>2, RoutineFacts DEF Carries, Entries
<1>5. verMap' \in Versions /\ Known(verMap', ver, done)
  <2>1. PICK last \in IF got = {} THEN {gr[g].asked} ELSE {e[2] : e \in got} :
          verMap' = Larger(verMap, last)
    BY DEF StoreVersion
  <2>2. last \in Versions /\ Known(last, ver, done)
    <3>1. CASE got = {}
      BY <1>3, <2>1, <3>1, RoutineFacts DEF Carries
    <3>2. CASE got # {}
      BY <1>4, <2>1, <3>2
    <3> QED BY <3>1, <3>2
  <2> HIDE DEF done
  <2> QED BY <1>3, <2>1, <2>2, CopyFacts, LargerKnown
<1>6. /\ \A d \in Devices : Known(devVer[d], ver, done) /\ Known(cursor[d], ver, done)
      /\ Known(userVer, ver, done)
  BY <1>3, CopyFacts
<1>7. Kept'
  <2>1. served' \in SUBSET Entries /\ leftOut' \in SUBSET Entries
    BY <1>1, <1>2 DEF IInv, Kept
  <2>2. Copies'
    BY <1>1, <1>5, <1>6 DEF Copies, Done, deviceVars, redisVars
  <2> HIDE DEF r, done, got, bare
  <2> QED BY <1>1, <1>5, <2>1, <2>2 DEF IInv, Kept, deviceVars, redisVars
<1>8. gr[g].dev \in Devices /\ gr[g].dev # NoDevice
  BY <1>1, RoutineFacts, ConversationAssumption
<1>9. r \in RoutineStates /\ Carries(r, ver, done)
  BY <1>2, <1>4, <1>8, CopyFacts, ZeroIsKnown DEF Idle, RoutineStates, Carries
<1>10. Onward(ver, ver') /\ ver' \in VersionMaps /\ ver' = ver
  BY <1>1, CopyFacts DEF Onward
<1>11. served \subseteq served' /\ leftOut \subseteq leftOut'
  BY <1>1
<1>12. Carries(r, ver', served' \cup leftOut')
  BY <1>9, <1>10
<1> HIDE DEF r, got, bare, done
<1> QED BY <1>1, <1>7, <1>9, <1>10, <1>11, <1>12, WorkTo DEF IInv

\* A reply arrives or is lost.
LEMMA ReplyStep ==
  ASSUME IInv, NEW g \in Routines, Deliver(g) \/ LoseReply(g)
  PROVE  IInv'
<1>0. To(g, Idle) /\ UNCHANGED <<redisVars, memoryVars, World>>
  BY DEF Deliver, LoseReply
<1>1. Work'
  BY <1>0, IdleFits, CopyFacts, WorkBeside
<1>2. CASE LoseReply(g)
  BY <1>0, <1>1, <1>2, KeptSame DEF LoseReply, IInv
<1>3. CASE Deliver(g)
  <2> DEFINE d == gr[g].dev
             got == gr[g].got
             versions == {e[2] : e \in got}
  <2>1. d \in Devices /\ gr[g].at = "reply" /\ got \in SUBSET Entries
    BY <1>3, RoutineFacts DEF Deliver, At
  <2>2. cursor' = [cursor EXCEPT ![d] = Max({cursor[d]} \cup versions)]
        /\ received' = received \cup got
    BY <1>3 DEF Deliver
  <2>3. \A e \in got : e[2] \in Versions /\ Known(e[2], ver, Done)
    BY <2>1, RoutineFacts DEF Carries, Entries
  <2>4. versions \in SUBSET Versions /\ \A n \in versions : Known(n, ver, Done)
    BY <2>3
  <2> HIDE DEF versions, got, d
  <2>5. Max({cursor[d]} \cup versions) \in {cursor[d]} \cup versions
    BY <2>1, <2>4, CopyFacts, LargestOf
  <2>6. cursor' \in [Devices -> Versions] /\ \A e \in Devices : Known(cursor'[e], ver, Done)
    <3>1. cursor \in [Devices -> Versions]
      BY DEF IInv, Kept
    <3>2. \A e \in Devices : cursor'[e] = IF e = d THEN Max({cursor[d]} \cup versions) ELSE cursor[e]
      BY <2>2, <3>1
    <3>3. Max({cursor[d]} \cup versions) \in Versions /\ Known(Max({cursor[d]} \cup versions), ver, Done)
      BY <2>1, <2>4, <2>5, CopyFacts
    <3> QED BY <2>1, <2>2, <3>1, <3>2, <3>3, CopyFacts
  <2>7. received' \in SUBSET Entries
    BY <2>1, <2>2 DEF IInv, Kept
  <2>8. Kept'
    BY <1>0, <2>6, <2>7 DEF IInv, Kept, Copies, Done, redisVars, memoryVars, World
  <2> QED BY <1>1, <2>8 DEF IInv
<1> QED BY <1>2, <1>3

\* The ack reads the map's entry.
LEMMA AckReadStep ==
  ASSUME IInv, NEW g \in Routines, AckRead(g)
  PROVE  IInv'
<1> DEFINE r == [gr[g] EXCEPT !.at = "ackSet", !.ver = verMap]
<1>1. gr[g].at = "ackRead"
  BY DEF AckRead, At
<1>2. r \in RoutineStates /\ Carries(r, ver, Done)
  BY <1>1, RoutineFacts, CopyFacts DEF RoutineStates, Carries
<1>3. (To(g, r) \/ To(g, Idle)) /\ UNCHANGED World
  BY DEF AckRead
<1> HIDE DEF r
<1>4. Work'
  BY <1>2, <1>3, IdleFits, CopyFacts, WorkBeside
<1>5. Kept'
  BY KeptSame DEF AckRead
<1> QED BY <1>4, <1>5 DEF IInv

\* A message gives its conversation a version that is newer than all that are known.
LEMMA MessageStep ==
  ASSUME IInv, NEW c \in Convs, Message(c)
  PROVE  IInv'
<1> DEFINE S == {ver[b] : b \in Convs}
<1>1. 0 \in Versions /\ S \in SUBSET Versions /\ \A b \in Convs : ver[b] \in S
  BY ConversationAssumption DEF Versions, VersionMaps, IInv, Kept
<1> HIDE DEF S
<1>2. Max({0} \cup S) \in Versions /\ \A x \in S : Max({0} \cup S) >= x
  BY <1>1, LargestOf
<1>3. Newest \in Versions /\ Newest < MaxVersion /\ \A b \in Convs : Newest >= ver[b]
  BY <1>1, <1>2 DEF Message, Newest, S
<1>4. Newest + 1 \in Versions /\ \A b \in Convs : Newest + 1 > ver[b]
  <2>1. MaxVersion \in Nat /\ Newest \in Nat /\ \A b \in Convs : ver[b] \in Nat
    <3>1. \A b \in Convs : ver[b] \in Versions
      BY <1>1
    <3> QED BY <1>3, <3>1, ConversationAssumption DEF Versions
  <2>2. Newest + 1 \in Versions
    BY <1>3, <2>1 DEF Versions
  <2> QED BY <1>3, <2>1, <2>2
<1>5. /\ ver' = [ver EXCEPT ![c] = Newest + 1] /\ ver \in VersionMaps
      /\ UNCHANGED <<deviceVars, redisVars, memoryVars, gr, served, leftOut, crashes>>
  BY CopyFacts DEF Message
<1>6. ver' \in VersionMaps /\ \A b \in Convs : ver'[b] = IF b = c THEN Newest + 1 ELSE ver[b]
  BY <1>4, <1>5 DEF VersionMaps
<1>7. Onward(ver, ver')
  BY <1>4, <1>6 DEF Onward
<1>8. \A n \in Versions : Known(n, ver, Done) => Known(n, ver', Done)
  BY <1>5, <1>6, <1>7, KnownStays
<1>9. Done' = Done
  BY <1>5 DEF Done
<1>10. Copies'
  BY <1>5, <1>8, <1>9, CopyFacts DEF Copies, deviceVars, redisVars, memoryVars
<1>11. Kept'
  BY <1>5, <1>6, <1>10 DEF IInv, Kept, deviceVars, redisVars, memoryVars
<1>12. \A g \in Routines : Carries(gr[g], ver', Done)
  BY <1>5, <1>6, <1>7, RoutineFacts, CarriesStays
<1>13. Work'
  BY <1>5, <1>9, <1>12 DEF IInv, Work
<1> QED BY <1>11, <1>13 DEF IInv

\* A restart empties the maps and drops the requests; Redis and the devices keep theirs.
LEMMA CrashStep == ASSUME IInv, Crash PROVE IInv'
<1>1. crashes' \in 0 .. MaxCrashes
  <2>1. crashes \in 0 .. MaxCrashes /\ crashes < MaxCrashes /\ crashes' = crashes + 1
    BY DEF Crash, IInv, Kept
  <2> QED BY <2>1, ConversationAssumption
<1>2. UNCHANGED <<ver, served, leftOut, deviceVars, redisVars>> /\ verMap' = 0 /\ results' = {}
  BY DEF Crash
<1>3. Copies'
  BY <1>2, CopyFacts, ZeroIsKnown DEF Copies, Done, deviceVars, redisVars
<1>4. Kept'
  BY <1>1, <1>2, <1>3, ZeroIsKnown DEF IInv, Kept, deviceVars, redisVars
<1>5. Work'
  BY <1>2, IdleFits, CopyFacts DEF Crash, Work
<1> QED BY <1>4, <1>5 DEF IInv

\* Every step keeps the inductive invariant: one lemma for each kind.
LEMMA IInvStep == IInv /\ [Next]_vars => IInv'
<1> SUFFICES ASSUME IInv, [Next]_vars PROVE IInv'
  OBVIOUS
<1>1. CASE UNCHANGED vars
  BY <1>1 DEF vars, deviceVars, redisVars, memoryVars, IInv, Kept, Copies, Done, Work
<1> QED BY <1>1, ReceiveStep, GetStep, SetStep, ResultsStep, StoreVersionStep, ReplyStep,
           AckReadStep, MessageStep, CrashStep DEF Next

-----------------------------------------------------------------------------
(* Theorems. *)

\* The inductive invariant holds in every behaviour.
LEMMA Inductive == Spec => []IInv
<1> QED BY InitIInv, IInvStep, PTL DEF Spec

\* The versions, the keys and the map keep their types, and what a goroutine still
\* has to put in the result cache is part of what it got.
THEOREM TypeCorrect == Spec => []TypeOK
<1> QED BY Inductive, IInvTyped, PTL

\* Every version a sync starts from, of a device or of the user, in redis, in memory
\* or at a device, passes over no conversation but those that a reply contained or
\* that came without recents, for any number of overlapping syncs, acks, failures
\* and restarts.
THEOREM NothingUnservedIsSkipped == Spec => []SkipsOnlyServed
<1> QED BY Inductive, IInvSkips, PTL
=============================================================================
