--------------------------- MODULE ConversationSync ---------------------------
(***************************************************************************)
(* POST /v1/conversation/sync and /syncack for one user (every key and map *)
(* entry the handlers use names the user): the devices of the user fetch   *)
(* the conversations above a version, and the server moves that version    *)
(* forward with three copies of it: one per device and one per user in     *)
(* redis, and one per user in memory, which the ack copies to redis.       *)
(*                                                                         *)
(* External: the IM server returns the conversations whose version is      *)
(* above the one given, in an order of its own, any of them without recent *)
(* messages; a new message gives its conversation the next version; a      *)
(* device keeps what it receives.                                          *)
(***************************************************************************)
EXTENDS Integers, FiniteSets, FiniteSetsExt

CONSTANTS Devices, Convs,
          NoDevice,          \* of a goroutine without a request
          Routines,          \* goroutines serving the two routes
          SaveAcrossDevice,  \* the option MessageSaveAcrossDevice
          MaxVersion,        \* a bound on the messages sent
          MaxCrashes         \* a bound on the restarts

ASSUME ConversationAssumption == /\ NoDevice \notin Devices
                                 /\ SaveAcrossDevice \in BOOLEAN
                                 /\ MaxVersion \in Nat /\ MaxCrashes \in Nat

VARIABLES ver,      \* every conversation's version at the IM server
          cursor,   \* the newest version a device has received
          received, \* history: <<conversation, version>> that some device received
          devVer,   \* redis, deviceMaxVersion:uid-device
          userVer,  \* redis, userMaxVersion:uid
          verMap,   \* memory, syncConversationVersionMap[uid]
          results,  \* memory, syncConversationResultCacheMap[uid]
          gr,       \* the goroutines
          served,   \* history: <<conversation, version>> that a reply contained
          leftOut,  \* history: those that were left out of one, without recents
          crashes

vars == <<ver, cursor, received, devVer, userVer, verMap, results, gr, served, leftOut, crashes>>
deviceVars == <<cursor, received>>
redisVars == <<devVer, userVer>>
memoryVars == <<verMap, results>>

Versions == 0 .. MaxVersion
Larger(a, b) == IF a < b THEN b ELSE a
Newest == Max({0} \cup {ver[c] : c \in Convs})

Idle == [at |-> "idle", dev |-> NoDevice, asked |-> 0, ver |-> 0,
         got |-> {}, bare |-> {}, todo |-> {}, copy |-> {}]

Init == /\ ver = [c \in Convs |-> 0]
        /\ cursor = [d \in Devices |-> 0]
        /\ received = {}
        /\ devVer = [d \in Devices |-> 0]
        /\ userVer = 0 /\ verMap = 0 /\ results = {}
        /\ served = {} /\ leftOut = {}
        /\ gr = [g \in Routines |-> Idle]
        /\ crashes = 0

\* A message arrives at the IM server.
Message(c) ==
  /\ Newest < MaxVersion
  /\ ver' = [ver EXCEPT ![c] = Newest + 1]
  /\ UNCHANGED <<deviceVars, redisVars, memoryVars, gr, served, leftOut, crashes>>

\* Goroutine g goes from a place to another; what it leaves alone.
At(g, at) == gr[g].at = at
To(g, r) == gr' = [gr EXCEPT ![g] = r]
World == <<ver, served, leftOut, crashes>>

-----------------------------------------------------------------------------
(* syncUserConversation *)

SyncReceive(g, d) ==
  /\ At(g, "idle")
  /\ To(g, [Idle EXCEPT !.at = IF SaveAcrossDevice THEN "im" ELSE "device",
                        !.dev = d, !.asked = cursor[d], !.ver = cursor[d]])
  /\ UNCHANGED <<deviceVars, redisVars, memoryVars, World>>

\* getDeviceConversationMaxVersion: 0 stands for no version.
GetDeviceVersion(g) ==
  LET r == gr[g]
      cached == devVer[r.dev]
  IN  /\ At(g, "device")
      /\ To(g, IF cached = 0 THEN [r EXCEPT !.at = "user"]
               ELSE [r EXCEPT !.at = "im", !.ver = Larger(@, cached)])
      /\ UNCHANGED <<deviceVars, redisVars, memoryVars, World>>

\* getUserConversationMaxVersion
GetUserVersion(g) ==
  /\ At(g, "user")
  /\ To(g, [gr[g] EXCEPT !.at = IF userVer > 0 THEN "setDevice" ELSE "im",
                         !.ver = Larger(@, userVer), !.copy = {userVer}])
  /\ UNCHANGED <<deviceVars, redisVars, memoryVars, World>>

\* setDeviceConversationMaxVersion, with the user's version read before.
SetDeviceVersion(g) ==
  /\ At(g, "setDevice")
  /\ \E v \in gr[g].copy : devVer' = [devVer EXCEPT ![gr[g].dev] = v]
  /\ To(g, [gr[g] EXCEPT !.at = "im", !.copy = {}])
  /\ UNCHANGED <<deviceVars, userVer, memoryVars, World>>

\* POST /conversation/sync at the IM server, then the user's channel offsets.  The
\* conversations that come without recents are left out from here on.
AskIM(g) ==
  LET answer == {<<c, ver[c]>> : c \in {c \in Convs : ver[c] > gr[g].ver}}
  IN  /\ At(g, "im")
      /\ \E got \in SUBSET answer :
           To(g, [gr[g] EXCEPT !.at = IF SaveAcrossDevice \/ got = {} THEN "version" ELSE "copy",
                               !.ver = 0, !.copy = {},
                               !.got = got, !.bare = answer \ got, !.todo = got])
      /\ UNCHANGED <<deviceVars, redisVars, memoryVars, World>>

\* For each conversation, the result cache is read under a read lock and written
\* back, with the conversation added, under a write lock taken later.
CopyResults(g) ==
  /\ At(g, "copy")
  /\ To(g, [gr[g] EXCEPT !.at = "store", !.copy = results])
  /\ UNCHANGED <<deviceVars, redisVars, memoryVars, World>>

StoreResults(g) ==
  /\ At(g, "store")
  /\ \E entry \in gr[g].todo :
       /\ results' = gr[g].copy \cup {entry}
       /\ To(g, [gr[g] EXCEPT !.at = IF gr[g].todo = {entry} THEN "version" ELSE "copy",
                              !.todo = @ \ {entry}, !.copy = {}])
  /\ UNCHANGED <<deviceVars, redisVars, verMap, World>>

\* Variants with a bug: the version map takes a version too many, or the IM
\* server's newest version.
StoreNextVersion(g) ==
  /\ At(g, "version")
  /\ \E last \in IF gr[g].got = {} THEN {gr[g].asked} ELSE {e[2] : e \in gr[g].got} :
       verMap' = Larger(verMap, last + 1)
  /\ To(g, [Idle EXCEPT !.at = "reply", !.dev = gr[g].dev, !.got = gr[g].got])
  /\ served' = served \cup gr[g].got /\ leftOut' = leftOut \cup gr[g].bare
  /\ UNCHANGED <<ver, crashes, deviceVars, redisVars, results>>
StoreNewestVersion(g) ==
  /\ At(g, "version")
  /\ verMap' = Newest
  /\ To(g, [Idle EXCEPT !.at = "reply", !.dev = gr[g].dev, !.got = gr[g].got])
  /\ served' = served \cup gr[g].got /\ leftOut' = leftOut \cup gr[g].bare
  /\ UNCHANGED <<ver, crashes, deviceVars, redisVars, results>>

\* The version map rises, under the lock, to the version of the last conversation
\* of the reply, in the IM server's order, or without one to the version asked for.
StoreVersion(g) ==
  /\ At(g, "version")
  /\ \E last \in IF gr[g].got = {} THEN {gr[g].asked} ELSE {e[2] : e \in gr[g].got} :
       verMap' = Larger(verMap, last)
  /\ To(g, [Idle EXCEPT !.at = "reply", !.dev = gr[g].dev, !.got = gr[g].got])
  /\ served' = served \cup gr[g].got /\ leftOut' = leftOut \cup gr[g].bare
  /\ UNCHANGED <<ver, crashes, deviceVars, redisVars, results>>

\* Redis, MySQL or the IM server fails: an error to the device.  The SET may
\* have been applied.
SyncFail(g) ==
  /\ gr[g].at \in {"device", "user", "setDevice", "im"}
  /\ \/ UNCHANGED devVer
     \/ /\ At(g, "setDevice")
        /\ \E v \in gr[g].copy : devVer' = [devVer EXCEPT ![gr[g].dev] = v]
  /\ To(g, Idle)
  /\ UNCHANGED <<deviceVars, userVer, memoryVars, World>>

Deliver(g) ==
  LET d == gr[g].dev
      got == gr[g].got
  IN  /\ At(g, "reply")
      /\ cursor' = [cursor EXCEPT ![d] = Max({@} \cup {e[2] : e \in got})]
      /\ received' = received \cup got
      /\ To(g, Idle)
      /\ UNCHANGED <<redisVars, memoryVars, World>>

LoseReply(g) == /\ At(g, "reply")
                /\ To(g, Idle)
                /\ UNCHANGED <<deviceVars, redisVars, memoryVars, World>>

-----------------------------------------------------------------------------
(* syncUserConversationAck *)

\* A device acknowledges what it received, and may do so again.  With
\* MessageSaveAcrossDevice the ack is answered OK and does nothing.
AckReceive(g, d) ==
  /\ At(g, "idle") /\ cursor[d] # 0
  /\ To(g, IF SaveAcrossDevice THEN Idle ELSE [Idle EXCEPT !.at = "ackRead", !.dev = d])
  /\ UNCHANGED <<deviceVars, redisVars, memoryVars, World>>

\* The map entry of the user, not of the device, under the read lock.
AckRead(g) ==
  /\ At(g, "ackRead")
  /\ To(g, IF verMap > 0 THEN [gr[g] EXCEPT !.at = "ackSet", !.ver = verMap] ELSE Idle)
  /\ UNCHANGED <<deviceVars, redisVars, memoryVars, World>>

\* setUserConversationMaxVersion; a failed SET may have been applied.
AckSet(g) ==
  /\ At(g, "ackSet")
  /\ userVer' = gr[g].ver \/ UNCHANGED userVer
  /\ To(g, Idle)
  /\ UNCHANGED <<deviceVars, devVer, memoryVars, World>>

-----------------------------------------------------------------------------

\* The server restarts: what is in memory is gone, redis stays.
Crash ==
  /\ crashes < MaxCrashes
  /\ crashes' = crashes + 1
  /\ gr' = [g \in Routines |-> Idle]
  /\ verMap' = 0 /\ results' = {}
  /\ UNCHANGED <<ver, served, leftOut, deviceVars, redisVars>>

Next == \/ \E c \in Convs : Message(c)
        \/ \E g \in Routines, d \in Devices : SyncReceive(g, d) \/ AckReceive(g, d)
        \/ \E g \in Routines : \/ GetDeviceVersion(g) \/ GetUserVersion(g) \/ SetDeviceVersion(g)
                               \/ AskIM(g) \/ CopyResults(g) \/ StoreResults(g) \/ StoreVersion(g)
                               \/ SyncFail(g) \/ Deliver(g) \/ LoseReply(g)
                               \/ AckRead(g) \/ AckSet(g)
        \/ Crash

Spec == Init /\ [][Next]_vars

-----------------------------------------------------------------------------
(* Properties. *)

TypeOK ==
  /\ ver \in [Convs -> Versions]
  /\ cursor \in [Devices -> Versions]
  /\ devVer \in [Devices -> Versions]
  /\ {userVer, verMap} \subseteq Versions
  /\ {received, results, served, leftOut} \subseteq SUBSET (Convs \X Versions)
  /\ crashes \in 0 .. MaxCrashes
  /\ \A g \in Routines : /\ (gr[g].dev = NoDevice) <=> At(g, "idle")
                         /\ gr[g].dev \in Devices \cup {NoDevice} /\ gr[g].ver \in Versions
                         /\ gr[g].todo \subseteq gr[g].got
                         /\ gr[g].got \cup gr[g].bare \subseteq Convs \X Versions

\* Asking from version n on, nothing is passed over but what some reply contained,
\* or what the IM server returned without recents.
Covered(n) == \A c \in Convs : ver[c] # 0 /\ ver[c] <= n => <<c, ver[c]>> \in served \cup leftOut

\* Every version a sync can start from passes over no conversation but those a reply
\* contained or the IM server had no recents of, whatever acks and syncs overlap, in
\* whichever order the IM server answers, and wherever the server restarts.
SkipsOnlyServed ==
  /\ \A d \in Devices : Covered(devVer[d]) /\ Covered(cursor[d])
  /\ Covered(userVer) /\ Covered(verMap)

\* "获取离线的最近会话" (get the offline recent conversations): a conversation the
\* server skips for a device was received by some device of the user, or is in a
\* reply on its way.
SkippedWasReceived ==
  \A d \in Devices, c \in Convs :
    ver[c] # 0 /\ ver[c] <= devVer[d] =>
      \/ <<c, ver[c]>> \in received
      \/ \E g \in Routines : At(g, "reply") /\ <<c, ver[c]>> \in gr[g].got
=============================================================================
