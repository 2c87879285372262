----------------------------- MODULE GeoOpsProofs -----------------------------
(***************************************************************************)
(* Proofs about module GeoOps, for any spellings of the file, any number   *)
(* of versions, failures and restarts: the updater runs only while its     *)
(* files are watched, what it writes is followed without a gap, and nobody *)
(* is served an older version than before.                                 *)
(***************************************************************************)
EXTENDS GeoOps, HotReloadProofs

(* The updater has a stream at hand exactly while it is writing. *)
WritingInv == updater = "writing" <=> body # NoDB

GeoBase == TypeOK /\ OffInv /\ TimerInv /\ LoadedInv /\ ShutInv /\ GeoTypeOK /\ WritingInv

(* The updater writes, and operators change, the lower-case name alone: no  *)
(* other one is ever in the monitor's hands.                                *)
OnlyLower ==
  /\ \A i \in DOMAIN events : events[i] = Lower
  /\ \A k \in Keys : timers[k] # NoTimer => timers[k].path = Lower
  /\ \A p \in Paths, s \in Steps : p # Lower => callbacks[p][s] = 0
  /\ \A p \in Paths : Reloading(p) \/ Dropping(p) => p = Lower

AtMost(x, y) == x \in Versions /\ y \in Versions => x <= y

(* From what is served to what is published, versions rise. *)
Pipeline ==
  /\ AtMost(served[Database], loaded)
  /\ AtMost(served[Database], disk[Lower])
  /\ AtMost(served[Database], body)
  /\ AtMost(served[Database], latest)
  /\ AtMost(loaded, disk[Lower])
  /\ AtMost(loaded, body)
  /\ AtMost(loaded, latest)
  /\ AtMost(disk[Lower], body)
  /\ \A p \in Paths : AtMost(disk[p], latest)
  /\ AtMost(body, latest)

(* While the file is there in capital letters only, it is what is served. *)
CapitalsOnly ==
  /\ loaded # NoDB => disk[Lower] # Absent
  /\ disk[Lower] = Absent => \A p \in Paths : AtMost(served[Database], disk[p])
  /\ \A p, q \in Paths \ {Lower} : disk[p] # Absent /\ disk[q] # Absent => p = q

Rising == changes = 0 => Pipeline /\ CapitalsOnly

GeoInv == GeoBase /\ OnlyLower /\ Rising

(* Until the updater has written its file beside it, one in capital letters *)
(* is served, and nothing is happening to it.                               *)
Capitals == \E p \in Paths \ {Lower} : disk[p] # Absent
CapitalsAlone == Capitals /\ disk[Lower] = Absent

FollowInv ==
  /\ CapitalsAlone =>
       /\ \A p \in Paths : ~InHand(p)
       /\ ~Quit /\ ~shut => \E p \in Paths : disk[p] # Absent /\ served[Database] = disk[p]
  /\ ~CapitalsAlone /\ ~Quit /\ ~shut => Tracked(Lower)

-----------------------------------------------------------------------------
LEMMA VersionsAreContents ==
  /\ Versions \subseteq Valid /\ Valid \subseteq Contents
  /\ NoDB \notin Contents /\ Absent \notin Contents
  /\ Known = {Database} /\ Lower \in Paths /\ \A p \in Paths : KeyOf[p] = Database
  /\ \A n \in Versions : n \in Nat /\ 1 .. n \subseteq Versions
BY GeoAssumption, ReloadAssumption, MonitorAssumption DEF Versions

(* All steps but two are steps of HotReload. *)
LEMMA Inherited ==
  ASSUME GeoTypeOK, [GeoNext]_goVars
  PROVE  [Next]_hrVars \/ Rename \/ Restart
<1>1. CASE MonitorStep /\ UNCHANGED <<served, loaded, shut, updVars>>
  BY <1>1 DEF Next
<1>2. CASE (Release \/ \E p \in Paths : Callback(p)) /\ UNCHANGED updVars
  BY <1>2 DEF Next
<1>3. CASE Publish
  BY <1>3 DEF Publish
<1>4. CASE Operator
  <2>1. CASE Remove(Lower)
    BY <1>4, <2>1, VersionsAreContents DEF Operator, Next, Environment
  <2>2. ASSUME NEW c \in (1 .. latest) \cup (IF MaxMind THEN Contents \ Valid ELSE {}),
               Write(Lower, c)
        PROVE  Next
    <3>1. c \in Contents
      BY VersionsAreContents DEF GeoTypeOK
    <3>. QED
      BY <1>4, <2>2, <3>1, VersionsAreContents DEF Operator, Next, Environment
  <2>. QED
    BY <1>4, <2>1, <2>2 DEF Operator
<1>5. CASE Start
  BY <1>5 DEF Start, Next
<1>6. CASE StopUpdater
  BY <1>6 DEF StopUpdater
<1>7. CASE Close
  BY <1>7 DEF Close, Next
<1>8. CASE Ask \/ UpToDate \/ Download \/ Fail
  BY <1>8 DEF Ask, UpToDate, Download, Fail
<1>9. CASE UNCHANGED goVars
  BY <1>9 DEF goVars
<1>. QED
  BY <1>1, <1>2, <1>3, <1>4, <1>5, <1>6, <1>7, <1>8, <1>9 DEF GeoNext, UpdaterStep

LEMMA RenamedEvents ==
  ASSUME TypeOK, Rename
  PROVE  /\ events' \in Seq(Paths)
         /\ OnlyLower => \A i \in DOMAIN events' : events'[i] = Lower
<1>1. Lower \in Paths /\ events \in Seq(Paths)
  BY VersionsAreContents DEF TypeOK, MonitorTypeOK
<1>2. CASE events' = events
  BY <1>1, <1>2 DEF OnlyLower
<1>3. CASE events' = Append(events, Lower)
  BY <1>1, <1>3 DEF OnlyLower
<1>. QED
  BY <1>2, <1>3 DEF Rename

LEMMA MonitorBase ==
  ASSUME GeoBase, [GeoNext]_goVars
  PROVE  TypeOK' /\ OffInv' /\ TimerInv' /\ LoadedInv' /\ ShutInv'
<1>1. CASE [Next]_hrVars
  BY <1>1, TypeStep, OffStep, TimerStep, LoadedStep, ShutStep DEF GeoBase
<1>2. CASE Rename
  <2>1. /\ Lower \in Paths /\ body \in Contents /\ events' \in Seq(Paths)
        /\ watcher = "watching"
    BY <1>2, VersionsAreContents, RenamedEvents
       DEF Rename, GeoBase, GeoTypeOK, WritingInv, Serving
  <2>2. /\ disk' = [disk EXCEPT ![Lower] = body]
        /\ UNCHANGED <<changes, watcher, loop, timers, callbacks, handler, closer,
                       served, loaded, shut>>
    BY <1>2 DEF Rename
  <2>3. TypeOK'
    BY <2>1, <2>2 DEF GeoBase, TypeOK, MonitorTypeOK
  <2>4. OffInv'
    BY <2>1, <2>2 DEF GeoBase, OffInv, Quit
  <2>5. TimerInv' /\ LoadedInv' /\ ShutInv'
    BY <2>2 DEF GeoBase, TimerInv, LoadedInv, ShutInv, KnownPaths, Reloading, Quit
  <2>. QED
    BY <2>3, <2>4, <2>5
<1>3. CASE Restart
  <2>1. TypeOK'
    <3>1. \A p \in Paths : [s \in Steps |-> 0] \in [Steps -> Nat]
      OBVIOUS
    <3>2. callbacks' \in [Paths -> [Steps -> Nat]]
      BY <1>3, <3>1 DEF Restart
    <3>3. UNCHANGED <<disk, changes>> /\ disk \in [Paths -> Contents \cup {Absent}]
          /\ changes \in Nat
      BY <1>3 DEF Restart, fileVars, GeoBase, TypeOK, MonitorTypeOK
    <3>4. timers' \in [Keys -> Timer \cup {NoTimer}] /\ events' \in Seq(Paths)
      BY <1>3 DEF Restart
    <3>. QED
      BY <1>3, <3>2, <3>3, <3>4 DEF Restart, TypeOK, MonitorTypeOK
  <2>2. OffInv'
    BY <1>3 DEF Restart, OffInv
  <2>3. TimerInv' /\ LoadedInv' /\ ShutInv'
    BY <1>3 DEF Restart, TimerInv, LoadedInv, ShutInv
  <2>. QED
    BY <2>1, <2>2, <2>3
<1>. QED
  BY <1>1, <1>2, <1>3, Inherited DEF GeoBase

(* Only Start makes Serving true, and only the end of the monitor, for      *)
(* which Close waits until the updater has stopped, makes it false.         *)
LEMMA StillServing ==
  ASSUME [GeoNext]_goVars, Serving, ~Restart, ~Close
  PROVE  Serving'
<1>1. CASE MonitorStep
  BY <1>1 DEF MonitorStep, Loop, CallbackStep, CloseStep, ReadEvent, LoopExit, Fire, RemoveTimer,
     Settle, AbandonOffer, Receive, HandlerExit, CloseTimers, CloseWatcher, CloseWait, Serving, Quit
<1>2. CASE Release \/ \E p \in Paths : Callback(p)
  BY <1>2 DEF Release, Callback, Load, ReloadFails, Install, Delete, CallbackReturns, dmVars,
     monitorVars, Serving, Quit
<1>3. CASE Operator
  BY <1>3 DEF Operator, Remove, Write, Alter, Serving, Quit
<1>4. CASE Start
  BY <1>4 DEF Start, StartWatcher, StartMonitor, Serving, Quit
<1>5. CASE Publish \/ StopUpdater \/ Ask \/ UpToDate \/ Download \/ Fail \/ UNCHANGED goVars
  BY <1>5 DEF Publish, StopUpdater, Ask, UpToDate, Download, Fail, goVars, hrVars, dmVars,
     monitorVars, Serving, Quit
<1>6. CASE Rename
  BY <1>6 DEF Rename, Serving, Quit
<1>. QED
  BY <1>1, <1>2, <1>3, <1>4, <1>5, <1>6 DEF GeoNext, UpdaterStep

LEMMA GeoTypeStep ==
  ASSUME GeoBase, [GeoNext]_goVars
  PROVE  GeoTypeOK' /\ WritingInv'
<1> USE VersionsAreContents DEF GeoBase, GeoTypeOK, WritingInv
<1>1. CASE updater' = "off"
  <2>1. CASE StopUpdater \/ Restart
    BY <2>1, GeoAssumption DEF StopUpdater, Restart, Idler
  <2>2. CASE Publish
    <3>1. latest' \in Versions
      BY <2>2, GeoAssumption DEF Publish, Versions
    <3>. QED
      BY <1>1, <2>2, <3>1 DEF Publish
  <2>3. CASE Operator
    BY <1>1, <2>3 DEF Operator
  <2>4. CASE UNCHANGED updVars
    BY <1>1, <2>4 DEF updVars
  <2>5. CASE Close
    BY <1>1, <2>5 DEF Close, updVars
  <2>. QED
    BY <1>1, <2>1, <2>2, <2>3, <2>4, <2>5
       DEF GeoNext, UpdaterStep, Start, Idler, Ask, UpToDate, Download, Fail, Rename, goVars, updVars
<1>2. CASE updater' # "off" /\ updater = "off"
  <2>1. Start
    BY <1>2 DEF GeoNext, UpdaterStep, StopUpdater, Restart, Publish, Operator, Close, Idler, Ask,
       UpToDate, Download, Fail, Rename, goVars, updVars
  <2>2. watcher' = "watching" /\ closer' = "open"
    BY <2>1 DEF Start, StartWatcher, StartMonitor, OffInv
  <2>. QED
    BY <2>1, <2>2 DEF Start, Idler, Serving, Quit
<1>3. CASE updater' # "off" /\ updater # "off"
  <2>1. Serving'
    BY <1>3, StillServing DEF Restart, Close, Idler
  <2>2. CASE UNCHANGED updVars
    BY <1>3, <2>1, <2>2 DEF updVars
  <2>3. CASE Publish
    <3>1. latest' \in Versions
      BY <2>3, GeoAssumption DEF Publish, Versions
    <3>. QED
      BY <1>3, <2>1, <2>3, <3>1 DEF Publish
  <2>4. CASE Operator
    BY <1>3, <2>1, <2>4 DEF Operator
  <2>5. CASE Start \/ UpToDate \/ Rename
    BY <1>3, <2>1, <2>5 DEF Start, UpToDate, Rename, Idler
  <2>6. CASE Ask
    <3>1. has' \in Valid \cup {NoDB}
      BY <2>6 DEF Ask, TypeOK
    <3>. QED
      BY <1>3, <2>1, <2>6, <3>1 DEF Ask
  <2>7. CASE Download
    <3>1. body' \in Contents
      BY <2>7, GeoAssumption DEF Download, Delivered
    <3>2. mishaps' \in 0 .. MaxMishaps
      BY <2>7, GeoAssumption DEF Download
    <3>. QED
      BY <1>3, <2>1, <2>7, <3>1, <3>2 DEF Download
  <2>8. CASE Fail
    BY <1>3, <2>1, <2>8, GeoAssumption DEF Fail, Idler
  <2>. QED
    BY <1>3, <2>2, <2>3, <2>4, <2>5, <2>6, <2>7, <2>8
       DEF GeoNext, UpdaterStep, StopUpdater, Restart, Close, Idler, goVars, updVars
<1>. QED
  BY <1>1, <1>2, <1>3

-----------------------------------------------------------------------------
LEMMA OnlyLowerMonitor ==
  ASSUME TypeOK, OnlyLower, MonitorStep
  PROVE  OnlyLower'
<1> USE DEF OnlyLower, Reloading, Dropping
<1>1. CASE ReadEvent
  <2>1. /\ events \in Seq(Paths) /\ events # <<>> /\ events' = Tail(events)
        /\ UNCHANGED <<callbacks, handler>>
    BY <1>1 DEF ReadEvent, TypeOK, MonitorTypeOK
  <2>2. Head(events) = Lower /\ \A i \in DOMAIN events' : events'[i] = Lower
    BY <2>1
  <2>3. \A k \in Keys : timers'[k] # NoTimer => timers'[k].path = Lower
    <3>1. CASE Head(events) \notin Watched
      BY <1>1, <3>1 DEF ReadEvent
    <3>2. CASE Head(events) \in Watched
      <4> DEFINE k == KeyOf[Lower]
                 timer == IF timers[k] = NoTimer THEN [path |-> Lower, armed |-> TRUE]
                          ELSE [timers[k] EXCEPT !.armed = TRUE]
      <4>1. k \in Keys /\ timers \in [Keys -> Timer \cup {NoTimer}]
        BY VersionsAreContents, MonitorAssumption DEF TypeOK, MonitorTypeOK
      <4>2. timers' = [timers EXCEPT ![k] = timer]
        BY <1>1, <2>2, <3>2, TimerSet DEF ReadEvent
      <4>3. timer.path = Lower
        <5>1. CASE timers[k] = NoTimer
          BY <5>1
        <5>2. CASE timers[k] # NoTimer
          BY <4>1, <5>2, TimerEntry
        <5>. QED
          BY <5>1, <5>2
      <4> HIDE DEF timer
      <4>. QED
        BY <4>1, <4>2, <4>3
    <3>. QED
      BY <3>1, <3>2
  <2>. QED
    BY <2>1, <2>2, <2>3
<1>2. CASE LoopExit \/ HandlerExit \/ CloseWait
  BY <1>2 DEF LoopExit, HandlerExit, CloseWait, Idle, Exited
<1>3. CASE CloseTimers
  <2>1. \A k \in Keys : timers'[k] # NoTimer => timers[k] # NoTimer /\ timers'[k].path = timers[k].path
    BY <1>3, TimerEntry DEF CloseTimers, TypeOK, MonitorTypeOK
  <2>. QED
    BY <1>3, <2>1 DEF CloseTimers
<1>4. CASE CloseWatcher
  BY <1>4 DEF CloseWatcher
<1>5. ASSUME NEW k \in Keys, Fire(k) PROVE OnlyLower'
  <2>1. timers[k].path = Lower /\ Lower \in Paths
    BY <1>5, VersionsAreContents DEF Fire
  <2>2. \A p \in Paths, s \in Steps : p # Lower => callbacks'[p][s] = 0
    BY <1>5, <2>1, Spawned DEF Fire, CallbacksType, Steps, TypeOK, MonitorTypeOK
  <2>3. \A j \in Keys : timers'[j] # NoTimer => timers'[j].path = Lower
    <3>1. timers' = [timers EXCEPT ![k] = [timers[k] EXCEPT !.armed = FALSE]]
      BY <1>5 DEF Fire
    <3>2. [timers[k] EXCEPT !.armed = FALSE] = [path |-> Lower, armed |-> FALSE]
      BY <1>5, <2>1, TimerEntry DEF Fire, TypeOK, MonitorTypeOK
    <3>. QED
      BY <3>1, <3>2 DEF TypeOK, MonitorTypeOK
  <2>. QED
    BY <1>5, <2>2, <2>3 DEF Fire
<1>6. ASSUME NEW p \in Paths, RemoveTimer(p) PROVE OnlyLower'
  <2>1. \A q \in Paths, s \in Steps : q # Lower => callbacks'[q][s] = 0
    <3>1. p = Lower
      BY <1>6 DEF RemoveTimer, Steps
    <3>2. \A q \in Paths, s \in Steps : q # p => callbacks'[q][s] = callbacks[q][s]
      <4>1. /\ "removeTimer" \in Steps /\ "stat" \in Steps /\ Advance(p, "removeTimer", "stat")
            /\ callbacks \in CallbacksType /\ callbacks[p]["removeTimer"] > 0
        BY <1>6 DEF RemoveTimer, CallbacksType, Steps, TypeOK, MonitorTypeOK
      <4>. QED
        BY <4>1, Advanced
    <3>. QED
      BY <3>1, <3>2
  <2>. QED
    BY <1>6, <2>1 DEF RemoveTimer, TypeOK, MonitorTypeOK
<1>7. ASSUME NEW p \in Paths, Settle(p) PROVE OnlyLower'
  <2>1. \A q \in Paths, s \in Steps : q # Lower => callbacks'[q][s] = 0
    <3>1. p = Lower
      BY <1>7 DEF Settle, Steps
    <3> DEFINE u == IF disk[p] = Absent THEN "delete" ELSE "update"
    <3>2. /\ u \in Steps /\ "stat" \in Steps /\ u # "stat" /\ Advance(p, "stat", u)
          /\ callbacks \in CallbacksType /\ callbacks[p]["stat"] > 0
      BY <1>7 DEF Settle, CallbacksType, Steps, Ops, TypeOK, MonitorTypeOK
    <3> HIDE DEF u
    <3>3. \A q \in Paths, s \in Steps : q # p => callbacks'[q][s] = callbacks[q][s]
      BY <3>2, Advanced
    <3>. QED
      BY <3>1, <3>3
  <2>. QED
    BY <1>7, <2>1 DEF Settle
<1>8. ASSUME NEW p \in Paths, NEW op \in Ops, AbandonOffer(p, op) PROVE OnlyLower'
  <2>1. \A q \in Paths, s \in Steps : q # Lower => callbacks'[q][s] = 0
    BY <1>8, Taken DEF AbandonOffer, CallbacksType, Steps, TypeOK, MonitorTypeOK
  <2>. QED
    BY <1>8, <2>1 DEF AbandonOffer
<1>9. ASSUME NEW p \in Paths, NEW op \in Ops, Receive(p, op) PROVE OnlyLower'
  <2>1. \A q \in Paths, s \in Steps : q # Lower => callbacks'[q][s] = 0
    BY <1>9, Taken DEF Receive, CallbacksType, Steps, TypeOK, MonitorTypeOK
  <2>2. p = Lower
    BY <1>9 DEF Receive, Steps
  <2>. QED
    BY <1>9, <2>1, <2>2 DEF Receive
<1>. QED
  BY <1>1, <1>2, <1>3, <1>4, <1>5, <1>6, <1>7, <1>8, <1>9
     DEF MonitorStep, Loop, CallbackStep, CloseStep

LEMMA OnlyLowerStep ==
  ASSUME GeoBase, OnlyLower, [GeoNext]_goVars
  PROVE  OnlyLower'
<1>1. CASE MonitorStep
  BY <1>1, OnlyLowerMonitor DEF GeoBase
<1>2. ASSUME NEW p \in Paths, Callback(p) PROVE OnlyLower'
  BY <1>2 DEF Callback, Load, ReloadFails, Install, Delete, CallbackReturns, OnlyLower, Reloading,
     Dropping, Idle, dmVars, monitorVars
<1>3. CASE Release \/ Publish \/ StopUpdater \/ Ask \/ UpToDate \/ Download \/ Fail \/ UNCHANGED goVars
  BY <1>3 DEF Release, Publish, StopUpdater, Ask, UpToDate, Download, Fail, goVars, hrVars, dmVars,
     monitorVars, OnlyLower, Reloading, Dropping
<1>4. CASE Operator
  <2>1. Alter(disk', <<Lower>>) /\ <<Lower>> \in Seq(Paths) /\ events \in Seq(Paths)
    BY <1>4, VersionsAreContents DEF Operator, Remove, Write, Alter, GeoBase, TypeOK, MonitorTypeOK
  <2>2. \A i \in DOMAIN (events \o <<Lower>>) : (events \o <<Lower>>)[i] = Lower
    BY <2>1 DEF OnlyLower
  <2>3. \A i \in DOMAIN events' : events'[i] = Lower
    BY <2>1, <2>2 DEF Alter, OnlyLower
  <2>. QED
    BY <2>1, <2>3 DEF Alter, OnlyLower, Reloading, Dropping
<1>5. CASE Start
  BY <1>5 DEF Start, StartWatcher, StartMonitor, OnlyLower, Reloading, Dropping, Idle
<1>6. CASE Close
  BY <1>6 DEF Close, CloseQuit, OnlyLower, Reloading, Dropping
<1>7. CASE Restart
  BY <1>7 DEF Restart, OnlyLower, Reloading, Dropping, Off
<1>8. CASE Rename
  BY <1>8, RenamedEvents DEF GeoBase, Rename, OnlyLower, Reloading, Dropping
<1>. QED
  BY <1>1, <1>2, <1>3, <1>4, <1>5, <1>6, <1>7, <1>8 DEF GeoNext, UpdaterStep

-----------------------------------------------------------------------------
LEMMA RisingCallback ==
  ASSUME GeoBase, OnlyLower, Rising, NEW p \in Paths, Callback(p), UNCHANGED updVars
  PROVE  Rising'
<1> USE VersionsAreContents DEF Rising, Pipeline, CapitalsOnly, AtMost
<1>1. /\ p = Lower /\ UNCHANGED <<disk, changes, body, latest>>
      /\ served \in [Known -> Valid \cup {NoDB}]
  BY DEF Callback, Load, ReloadFails, Install, Delete, CallbackReturns, OnlyLower, dmVars, fileVars,
     updVars, GeoBase, TypeOK
<1>2. CASE Load(p)
  <2>1. served' = served /\ loaded' = disk[Lower] /\ disk[Lower] # Absent
    BY <1>1, <1>2 DEF Load
  <2>. QED
    BY <1>1, <2>1
<1>3. CASE ReloadFails(p)
  BY <1>1, <1>3 DEF ReloadFails
<1>4. CASE Install(p)
  <2>1. KeyOf[p] = Database /\ loaded # NoDB
    BY <1>1, <1>4 DEF Install, GeoBase, LoadedInv, KnownPaths, OnlyLower
  <2>2. served'[Database] = loaded /\ loaded' = NoDB
    BY <1>1, <1>4, <2>1 DEF Install
  <2>. QED
    BY <1>1, <2>1, <2>2
<1>5. CASE Delete(p)
  <2>1. served'[Database] \in {served[Database], NoDB} /\ loaded' = loaded
    BY <1>5 DEF Delete
  <2>. QED
    BY <1>1, <2>1
<1>. QED
  BY <1>2, <1>3, <1>4, <1>5 DEF Callback

(* What is found after a crash is what was served, or newer. *)
LEMMA Found ==
  ASSUME GeoBase, Rising, Restart, changes = 0
  PROVE  /\ AtMost(served[Database], served'[Database])
         /\ AtMost(served'[Database], disk[Lower])
         /\ AtMost(served'[Database], latest)
         /\ disk[Lower] = Absent => \A p \in Paths : AtMost(served'[Database], disk[p])
<1>1. CASE Present(Database) = {}
  <2>1. served'[Database] = NoDB
    BY <1>1, VersionsAreContents DEF Restart, New, Present, fileVars
  <2>. QED
    BY <2>1, VersionsAreContents DEF AtMost
<1>2. CASE Present(Database) # {}
  <2>1. PICK p \in Present(Database) :
          /\ \A q \in Present(Database) : ListsAfter[q] <= ListsAfter[p]
          /\ served'[Database] = disk[p]
    <3>1. Present(Database)' = Present(Database) /\ disk' = disk /\ New'
      BY DEF Restart, Present, fileVars
    <3>. QED
      BY <1>2, <3>1, VersionsAreContents DEF New
  <2>2. p \in Paths /\ disk[p] # Absent
    BY DEF Present
  <2>3. CASE p = Lower
    BY <2>1, <2>2, <2>3, VersionsAreContents DEF Rising, Pipeline, AtMost
  <2>4. CASE p # Lower
    <3>1. disk[Lower] = Absent
      BY <2>1, <2>2, <2>4, VersionsAreContents, GeoAssumption, ReloadAssumption DEF Present
    <3>2. \A q \in Paths : disk[q] # Absent => q = p
      BY <2>2, <2>4, <3>1 DEF Rising, CapitalsOnly
    <3>. QED
      BY <2>1, <2>2, <3>1, <3>2, VersionsAreContents DEF Rising, Pipeline, CapitalsOnly, AtMost
  <2>. QED
    BY <2>3, <2>4
<1>. QED
  BY <1>1, <1>2

LEMMA RisingStep ==
  ASSUME GeoBase, OnlyLower, Rising, [GeoNext]_goVars
  PROVE  Rising'
<1> USE VersionsAreContents DEF Rising, Pipeline, CapitalsOnly, AtMost
<1>1. CASE MonitorStep /\ UNCHANGED <<served, loaded, shut, updVars>>
  <2>1. UNCHANGED fileVars
    BY <1>1 DEF MonitorStep, Loop, CallbackStep, CloseStep, ReadEvent, LoopExit, Fire, RemoveTimer,
       Settle, AbandonOffer, Receive, HandlerExit, CloseTimers, CloseWatcher, CloseWait
  <2>. QED
    BY <1>1, <2>1 DEF fileVars, updVars
<1>2. CASE Start \/ Close \/ Ask \/ UNCHANGED goVars
  <2>1. CASE Start
    BY <2>1 DEF Start, StartWatcher, StartMonitor, fileVars, Idler
  <2>2. CASE Close
    BY <2>2 DEF Close, CloseQuit, fileVars, updVars
  <2>3. CASE Ask
    BY <2>3 DEF Ask, hrVars, dmVars, fileVars
  <2>4. CASE UNCHANGED goVars
    BY <2>4 DEF goVars, hrVars, dmVars, fileVars, updVars
  <2>. QED
    BY <1>2, <2>1, <2>2, <2>3, <2>4
<1>3. CASE StopUpdater \/ UpToDate \/ Fail
  BY <1>3 DEF StopUpdater, UpToDate, Fail, Idler, hrVars, dmVars, fileVars
<1>4. ASSUME NEW p \in Paths, Callback(p), UNCHANGED updVars PROVE Rising'
  BY <1>4, RisingCallback
<1>5. CASE Release /\ UNCHANGED updVars
  <2>1. served'[Database] = NoDB
    BY <1>5 DEF Release
  <2>. QED
    BY <1>5, <2>1 DEF Release, dmVars, fileVars, updVars
<1>6. CASE Publish
  <2>1. latest' = latest + 1 /\ latest \in Nat /\ latest \in Versions
    BY <1>6 DEF Publish, GeoBase, GeoTypeOK
  <2>2. \A x \in Versions : x <= latest => x <= latest'
    BY ONLY <2>1, VersionsAreContents
  <2>. QED
    BY <1>6, <2>1, <2>2 DEF Publish, hrVars, dmVars, fileVars
<1>7. CASE Operator
  <2>1. changes' = changes + 1 /\ changes \in Nat
    BY <1>7 DEF Operator, Remove, Write, Alter, GeoBase, TypeOK, MonitorTypeOK
  <2>. QED
    BY <2>1
<1>8. CASE Download
  <2>1. body' = latest \/ body' \notin Versions
    BY <1>8, GeoAssumption DEF Download, Delivered
  <2>2. latest \in Versions /\ \A x \in Versions : x \in Nat
    BY DEF GeoBase, GeoTypeOK
  <2>3. UNCHANGED <<served, loaded, disk, changes, latest>>
    BY <1>8 DEF Download, hrVars, dmVars, fileVars
  <2>. QED
    BY <2>1, <2>2, <2>3
<1>9. CASE Rename
  <2>1. Lower \in DOMAIN disk /\ body \in Contents
    BY <1>9 DEF Rename, GeoBase, TypeOK, MonitorTypeOK, GeoTypeOK, WritingInv
  <2>2. disk'[Lower] = body /\ body' = NoDB /\ \A p \in Paths \ {Lower} : disk'[p] = disk[p]
    BY <1>9, <2>1 DEF Rename, Idler, GeoBase, TypeOK, MonitorTypeOK
  <2>3. UNCHANGED <<served, loaded, changes, latest>>
    BY <1>9 DEF Rename
  <2>. QED
    BY <2>1, <2>2, <2>3
<1>10. CASE Restart
  <2>1. UNCHANGED <<disk, changes, latest>> /\ loaded' = NoDB /\ body' = NoDB
    BY <1>10 DEF Restart, Idler, fileVars
  <2>. QED
    BY <1>10, <2>1, Found
<1>. QED
  BY <1>1, <1>2, <1>3, <1>4, <1>5, <1>6, <1>7, <1>8, <1>9, <1>10 DEF GeoNext, UpdaterStep

LEMMA InitGeo == GeoInit => GeoInv
<1> SUFFICES ASSUME GeoInit PROVE GeoInv
  OBVIOUS
<1> USE VersionsAreContents DEF GeoInit
<1>1. TypeOK /\ OffInv /\ TimerInv /\ LoadedInv /\ ShutInv
  BY InitBase DEF BaseInv
<1>2. GeoTypeOK /\ WritingInv
  BY GeoAssumption DEF GeoTypeOK, WritingInv
<1>3. OnlyLower
  BY DEF Init, DMInit, OnlyLower, Off, Reloading, Dropping
<1>4. Rising
  <2>1. \A p \in Paths : AtMost(disk[p], latest)
    BY DEF AtMost
  <2>2. CASE Present(Database) = {}
    <3>1. served[Database] = NoDB /\ \A p \in Paths : disk[p] = Absent
      BY <2>2 DEF Init, New, Present
    <3>. QED
      BY <2>1, <3>1 DEF Init, Rising, Pipeline, CapitalsOnly, AtMost
  <2>3. CASE Present(Database) # {}
    <3>1. PICK p \in Paths : disk[p] # Absent /\ served[Database] = disk[p]
      BY <2>3 DEF Init, New, Present
    <3>2. \A q \in Paths : disk[q] # Absent => q = p
      BY <3>1
    <3>. QED
      BY <2>1, <3>1, <3>2 DEF Init, Rising, Pipeline, CapitalsOnly, AtMost
  <2>. QED
    BY <2>2, <2>3
<1>. QED
  BY <1>1, <1>2, <1>3, <1>4 DEF GeoInv, GeoBase

THEOREM Invariance == GeoSafety => []GeoInv
<1>1. GeoInv /\ [GeoNext]_goVars => GeoInv'
  BY MonitorBase, GeoTypeStep, OnlyLowerStep, RisingStep DEF GeoInv, GeoBase
<1>. QED
  BY InitGeo, <1>1, PTL DEF GeoSafety

(* Types; and the updater, which Close stops first, runs only while the     *)
(* watcher would see what it writes.                                        *)
THEOREM TypesAndWatch == GeoSafety => []GeoTypeOK
BY Invariance, PTL DEF GeoInv, GeoBase

(* As long as operators keep their hands off the directory, what is served  *)
(* never goes back to an older version, whatever happens to downloads and   *)
(* to the process, and whichever way the file is spelled.                   *)
THEOREM NeverBack == GeoSafety => NeverOlder
<1>1. ASSUME GeoInv, [GeoNext]_goVars, changes = 0,
             served[Database] \in Versions, served'[Database] \in Versions
      PROVE  served'[Database] >= served[Database]
  <2> USE <1>1, VersionsAreContents DEF GeoInv, GeoBase
  <2>1. CASE Restart
    BY <2>1, Found DEF AtMost
  <2>2. ASSUME NEW p \in Paths, Callback(p) PROVE served'[Database] >= served[Database]
    <3>1. CASE Install(p)
      <4>1. loaded # NoDB /\ KeyOf[p] = Database
        BY <3>1 DEF Install
      <4>2. served'[Database] = loaded
        BY <3>1, <4>1 DEF Install, TypeOK
      <4>. QED
        BY <4>2 DEF Rising, Pipeline, AtMost
    <3>2. CASE Delete(p)
      BY <3>2 DEF Delete
    <3>3. CASE Load(p) \/ ReloadFails(p)
      BY <3>3 DEF Load, ReloadFails
    <3>. QED
      BY <2>2, <3>1, <3>2, <3>3 DEF Callback
  <2>3. CASE Release
    BY <2>3 DEF Release
  <2>4. CASE UNCHANGED served
    BY <2>4
  <2>. QED
    BY <2>1, <2>2, <2>3, <2>4
       DEF GeoNext, UpdaterStep, Publish, Operator, Start, StartWatcher, StopUpdater, Close, Ask,
           UpToDate, Download, Fail, Rename, goVars, hrVars
<1>. QED
  BY <1>1, Invariance, PTL DEF GeoSafety, NeverOlder

-----------------------------------------------------------------------------
(* Without operators that put back what is being deleted the directory is   *)
(* followed through downloads, crashes and either spelling.                 *)
LEMMA GeoDropStep ==
  ASSUME ~RecreateRace, GeoBase, DropInv, [GeoNext]_goVars
  PROVE  DropInv'
<1>1. CASE [Next]_hrVars
  BY <1>1, DropStep DEF GeoBase
<1>2. CASE Rename
  <2>1. ~Deleting(Lower)
    BY <1>2, VersionsAreContents DEF Rename, Occupy, DropInv
  <2>2. \A p \in Paths : p # Lower => disk'[p] = disk[p]
    BY <1>2, VersionsAreContents DEF Rename, GeoBase, TypeOK, MonitorTypeOK
  <2>3. UNCHANGED <<callbacks, handler>>
    BY <1>2 DEF Rename
  <2>. QED
    BY <2>1, <2>2, <2>3 DEF DropInv, Deleting
<1>3. CASE Restart
  BY <1>3 DEF Restart, DropInv, Deleting, Off, Steps, Ops
<1>. QED
  BY <1>1, <1>2, <1>3, Inherited DEF GeoBase

(* What New finds: the file in lower case, if there is one. *)
NewFollows ==
  /\ CapitalsAlone => \E p \in Paths : disk[p] # Absent /\ served[Database] = disk[p]
  /\ ~CapitalsAlone => Tracked(Lower)

LEMMA FoundLower == New /\ loaded = NoDB => NewFollows
<1> SUFFICES ASSUME New, loaded = NoDB PROVE NewFollows
  OBVIOUS
<1> USE VersionsAreContents
<1>1. CASE disk[Lower] # Absent
  <2>1. Lower \in Present(Database)
    BY <1>1 DEF Present
  <2>2. PICK p \in Present(Database) :
          /\ \A q \in Present(Database) : ListsAfter[q] <= ListsAfter[p]
          /\ served[Database] = disk[p]
    BY <2>1 DEF New
  <2>3. p = Lower
    BY <2>1, <2>2, GeoAssumption, ReloadAssumption DEF Present
  <2>4. AgreesWith(Lower)
    BY <1>1, <2>2, <2>3 DEF AgreesWith
  <2>. QED
    BY <1>1, <2>4 DEF NewFollows, CapitalsAlone, Tracked
<1>2. CASE CapitalsAlone
  <2>1. Present(Database) # {}
    BY <1>2 DEF CapitalsAlone, Capitals, Present
  <2>. QED
    BY <1>2, <2>1 DEF NewFollows, New, Present
<1>3. CASE disk[Lower] = Absent /\ ~Capitals
  <2>1. Present(Database) = {}
    BY <1>3 DEF Capitals, Present
  <2>2. served[Database] = NoDB
    BY <2>1 DEF New
  <2>. QED
    BY <1>3, <2>2 DEF NewFollows, CapitalsAlone, Tracked, AgreesWith
<1>. QED
  BY <1>1, <1>2, <1>3 DEF CapitalsAlone

(* Nobody is in the monitor's hands but the file in lower case. *)
LEMMA LowerAlone ==
  ASSUME OnlyLower
  PROVE  \A p \in Paths : p # Lower => ~InHand(p)
BY DEF OnlyLower, InHand, Queued, Pending, Reloading, Dropping

(* Only the operator and the updater change the file, and operators leave   *)
(* it alone where it is spelled with capital letters.                       *)
LEMMA DiskChanges ==
  ASSUME GeoBase, [GeoNext]_goVars
  PROVE  \/ disk' = disk
         \/ Rename
         \/ Operator /\ \A p \in Paths \ {Lower} : disk[p] = Absent /\ disk'[p] = Absent
<1>1. CASE MonitorStep
  BY <1>1 DEF MonitorStep, Loop, CallbackStep, CloseStep, ReadEvent, LoopExit, Fire, RemoveTimer,
     Settle, AbandonOffer, Receive, HandlerExit, CloseTimers, CloseWatcher, CloseWait, fileVars
<1>2. CASE Release \/ \E p \in Paths : Callback(p)
  BY <1>2 DEF Release, Callback, Load, ReloadFails, Install, Delete, CallbackReturns, dmVars, fileVars
<1>3. CASE Operator
  BY <1>3 DEF Operator, Remove, Write, Alter, GeoBase, TypeOK, MonitorTypeOK
<1>4. CASE Start \/ Close \/ Restart
  BY <1>4 DEF Start, StartWatcher, StartMonitor, Close, CloseQuit, Restart, fileVars
<1>5. CASE Publish \/ StopUpdater \/ Ask \/ UpToDate \/ Download \/ Fail \/ UNCHANGED goVars
  BY <1>5 DEF Publish, StopUpdater, Ask, UpToDate, Download, Fail, goVars, hrVars, dmVars, fileVars
<1>. QED
  BY <1>1, <1>2, <1>3, <1>4, <1>5 DEF GeoNext, UpdaterStep

(* A file in capital letters is left alone by all but Close. *)
LEMMA CapitalsStep ==
  ASSUME GeoBase, CapitalsAlone, \A p \in Paths : ~InHand(p), [GeoNext]_goVars, ~Rename, ~Restart
  PROVE  /\ disk' = disk
         /\ \A p \in Paths : ~InHand(p)'
         /\ ~Quit' /\ ~shut' => served' = served /\ ~Quit /\ ~shut
<1>0. /\ events = <<>>
      /\ \A k \in Keys : timers[k] = NoTimer
      /\ \A p \in Paths, s \in Steps : callbacks[p][s] = 0
      /\ \A p \in Paths : ~Reloading(p) /\ ~Dropping(p)
  <2>1. CASE events # <<>>
    <3>1. events[1] \in Paths /\ 1 \in DOMAIN events
      BY <2>1 DEF GeoBase, TypeOK, MonitorTypeOK
    <3>. QED
      BY <3>1 DEF InHand, Queued
  <2>2. \A k \in Keys : timers[k] # NoTimer => timers[k].path \in Paths
    BY TimerEntry DEF GeoBase, TypeOK, MonitorTypeOK
  <2>3. \A p \in Paths, s \in Steps : callbacks[p][s] \in Nat
    BY DEF GeoBase, TypeOK, MonitorTypeOK
  <2>. QED
    BY <2>1, <2>2, <2>3 DEF InHand, Pending
<1>1. disk' = disk
  BY DiskChanges DEF CapitalsAlone, Capitals
<1>2. CASE MonitorStep /\ UNCHANGED <<served, loaded, shut, updVars>>
  <2>1. LoopExit \/ HandlerExit \/ CloseStep
    <3>1. ~ReadEvent /\ \A k \in Keys : ~Fire(k)
      BY <1>0 DEF ReadEvent, Fire
    <3>2. ASSUME NEW p \in Paths PROVE ~RemoveTimer(p) /\ ~Settle(p)
      BY <1>0 DEF RemoveTimer, Settle, Steps
    <3>3. ASSUME NEW p \in Paths, NEW op \in Ops PROVE ~AbandonOffer(p, op) /\ ~Receive(p, op)
      BY <1>0 DEF AbandonOffer, Receive, Steps
    <3>. QED
      BY <1>2, <3>1, <3>2, <3>3 DEF MonitorStep, Loop, CallbackStep
  <2>2. /\ events' = <<>>
        /\ \A k \in Keys : timers'[k] = NoTimer
        /\ callbacks' = callbacks
        /\ handler' = handler \/ handler' = Exited
        /\ Quit => Quit'
    BY <1>0, <2>1 DEF LoopExit, HandlerExit, CloseStep, CloseTimers, CloseWatcher, CloseWait, Quit
  <2>3. \A p \in Paths : ~InHand(p)'
    BY <1>0, <2>2 DEF InHand, Queued, Pending, Reloading, Dropping, Exited
  <2>. QED
    BY <1>1, <1>2, <2>2, <2>3
<1>3. CASE Start
  BY <1>0, <1>1, <1>3 DEF Start, StartWatcher, StartMonitor, InHand, Queued, Pending, Reloading,
     Dropping, Idle, Quit
<1>4. CASE Release
  BY <1>1, <1>4 DEF Release, dmVars, monitorVars, InHand, Queued, Pending, Reloading, Dropping
<1>5. CASE Close
  BY <1>1, <1>5 DEF Close, CloseQuit, InHand, Queued, Pending, Reloading, Dropping, Quit
<1>6. CASE UNCHANGED hrVars
  BY <1>6 DEF hrVars, dmVars, fileVars, monitorVars, InHand, Queued, Pending, Reloading, Dropping, Quit
<1>7. ~Operator /\ \A p \in Paths : ~Callback(p)
  BY <1>0 DEF Operator, CapitalsAlone, Capitals, Callback, Load, ReloadFails, Install, Delete
<1>. QED
  BY <1>2, <1>3, <1>4, <1>5, <1>6, <1>7
     DEF GeoNext, UpdaterStep, Publish, StopUpdater, Ask, UpToDate, Download, Fail, goVars

LEMMA FollowStep ==
  ASSUME QuietStart, ~RecreateRace, GeoBase, OnlyLower, DropInv, FollowInv, [GeoNext]_goVars
  PROVE  FollowInv'
<1> USE VersionsAreContents
<1>1. CASE Restart
  <2>1. (New /\ loaded = NoDB)' => NewFollows'
    BY FoundLower, PTL
  <2>2. NewFollows'
    BY <1>1, <2>1 DEF Restart
  <2>3. \A p \in Paths : ~InHand(p)'
    BY <1>1 DEF Restart, InHand, Queued, Pending, Reloading, Dropping, Off
  <2>. QED
    BY <2>2, <2>3 DEF FollowInv, NewFollows
<1>2. CASE Rename
  <2>1. disk'[Lower] # Absent
    BY <1>2 DEF Rename, GeoBase, GeoTypeOK, WritingInv, TypeOK, MonitorTypeOK
  <2>2. events' = events \o <<Lower>>
    BY <1>2 DEF Rename, GeoBase, GeoTypeOK, Serving, TypeOK, MonitorTypeOK
  <2>3. Queued(Lower)'
    <3>1. events \in Seq(Paths) /\ <<Lower>> \in Seq(Paths) /\ \E i \in DOMAIN <<Lower>> : <<Lower>>[i] = Lower
      BY DEF GeoBase, TypeOK, MonitorTypeOK
    <3>. QED
      BY <2>2, <3>1, QueuedStays
  <2>. QED
    BY <2>1, <2>3 DEF FollowInv, CapitalsAlone, Tracked, OnItsWay
<1>3. CASE CapitalsAlone /\ ~Rename /\ ~Restart
  <2>1. /\ disk' = disk
        /\ \A p \in Paths : ~InHand(p)'
        /\ ~Quit' /\ ~shut' => served' = served /\ ~Quit /\ ~shut
    BY <1>3, CapitalsStep DEF FollowInv
  <2>2. CapitalsAlone'
    BY <1>3, <2>1 DEF CapitalsAlone, Capitals
  <2>. QED
    BY <1>3, <2>1, <2>2 DEF FollowInv
<1>4. CASE ~CapitalsAlone /\ ~Rename /\ ~Restart
  <2>1. [Next]_hrVars
    BY <1>4, Inherited DEF GeoBase
  <2>2. ~CapitalsAlone'
    BY <1>4, DiskChanges DEF CapitalsAlone, Capitals
  <2>3. ASSUME ~Quit', ~shut' PROVE Tracked(Lower)'
    <3>1. Tracked(Lower)
      BY <1>4, <2>1, <2>3, ClosedStays DEF FollowInv
    <3>2. Alone(Lower)
      BY LowerAlone DEF Alone
    <3>3. Lower \in KnownPaths /\ Lower \in Watched
      BY GeoAssumption DEF KnownPaths
    <3>. QED
      BY <2>1, <2>3, <3>1, <3>2, <3>3, PathStep DEF GeoBase
  <2>. QED
    BY <2>2, <2>3 DEF FollowInv
<1>. QED
  BY <1>1, <1>2, <1>3, <1>4

LEMMA FollowInvariant ==
  ASSUME QuietStart, ~RecreateRace
  PROVE  GeoSafety => [](DropInv /\ FollowInv)
<1>1. GeoInit => DropInv /\ FollowInv
  <2> SUFFICES ASSUME GeoInit PROVE DropInv /\ FollowInv
    OBVIOUS
  <2>1. DropInv /\ \A p \in Paths : ~InHand(p)
    BY DEF GeoInit, Init, DMInit, DropInv, Deleting, InHand, Queued, Pending, Reloading, Dropping,
       Off, Steps, Ops
  <2>2. NewFollows
    BY FoundLower DEF GeoInit, Init
  <2>. QED
    BY <2>1, <2>2 DEF FollowInv, NewFollows
<1>2. GeoInv /\ DropInv /\ FollowInv /\ [GeoNext]_goVars => DropInv' /\ FollowInv'
  BY GeoDropStep, FollowStep DEF GeoInv
<1>. QED
  BY <1>1, <1>2, Invariance, PTL DEF GeoSafety

(* What the updater or the operator has written is served or on its way,    *)
(* also beside a file in capital letters, during and after any number of    *)
(* failures and restarts.                                                   *)
THEOREM WritesAreFollowed ==
  ASSUME QuietStart, ~RecreateRace
  PROVE  GeoSafety => []NoLostChange
<1>1. GeoInv /\ FollowInv => NoLostChange
  <2> SUFFICES ASSUME GeoInv, FollowInv, Serving
               PROVE  Agrees(Database) \/ OnItsWay(Lower)
    BY VersionsAreContents DEF NoLostChange
  <2> USE VersionsAreContents
  <2>1. ~Quit /\ ~shut
    BY DEF Serving, GeoInv, GeoBase, ShutInv, Quit
  <2>2. CASE CapitalsAlone
    BY <2>1, <2>2 DEF FollowInv, Agrees, Present
  <2>3. CASE ~CapitalsAlone /\ ~OnItsWay(Lower)
    <3>1. AgreesWith(Lower)
      BY <2>1, <2>3 DEF FollowInv, Tracked
    <3>2. CASE disk[Lower] # Absent
      BY <3>1, <3>2 DEF AgreesWith, Agrees, Present
    <3>3. CASE disk[Lower] = Absent
      <4>1. Present(Database) = {}
        BY <2>3, <3>3 DEF CapitalsAlone, Capitals, Present
      <4>. QED
        BY <3>1, <3>3, <4>1 DEF AgreesWith, Agrees
    <3>. QED
      BY <3>2, <3>3
  <2>. QED
    BY <2>2, <2>3
<1>. QED
  BY <1>1, Invariance, FollowInvariant, PTL

(* A database that is served goes only when no spelling of its file is left *)
(* (or with Close): neither an update nor a crash opens a gap.              *)
THEOREM FilesStayServed ==
  ASSUME QuietStart, ~RecreateRace
  PROVE  GeoSafety => DropOnlyIfGone
<1>1. ASSUME GeoInv, DropInv, FollowInv, [GeoNext]_goVars
      PROVE  [\A k \in Known : served[k] # NoDB /\ served'[k] = NoDB => shut' \/ Present(k) = {}]_hrVars
  <2> SUFFICES ASSUME served[Database] # NoDB, served'[Database] = NoDB, ~shut'
               PROVE  Present(Database) = {}
    BY VersionsAreContents
  <2> USE <1>1, VersionsAreContents DEF GeoInv, GeoBase
  <2>1. CASE Restart
    <3>1. New' /\ Present(Database)' = Present(Database) /\ disk' = disk
      BY <2>1 DEF Restart, Present, fileVars
    <3>2. ASSUME NEW p \in Present(Database), served'[Database] = disk[p] PROVE FALSE
      BY <3>2, ReloadAssumption DEF Present, TypeOK, MonitorTypeOK
    <3>. QED
      BY <3>1, <3>2 DEF New
  <2>2. ASSUME NEW p \in Paths, Delete(p) PROVE Present(Database) = {}
    <3>1. disk[p] = Absent /\ InHand(p)
      BY <2>2 DEF Delete, Dropping, DropInv, Deleting, InHand
    <3>2. p = Lower /\ ~CapitalsAlone
      BY <3>1, LowerAlone DEF FollowInv
    <3>. QED
      BY <3>1, <3>2 DEF CapitalsAlone, Capitals, Present
  <2>3. ASSUME NEW p \in Paths, Callback(p), ~Delete(p) PROVE FALSE
    BY <2>3, ReloadAssumption DEF Callback, Load, ReloadFails, Install, TypeOK
  <2>4. ~Release /\ ~ UNCHANGED served
    BY DEF Release
  <2>. QED
    BY <2>1, <2>2, <2>3, <2>4
       DEF GeoNext, UpdaterStep, Publish, Operator, Start, StartWatcher, StopUpdater, Close, Ask,
           UpToDate, Download, Fail, Rename, goVars, hrVars
<1>. QED
  BY <1>1, Invariance, FollowInvariant, PTL DEF GeoSafety, DropOnlyIfGone

===============================================================================
