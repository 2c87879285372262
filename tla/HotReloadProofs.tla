-------------------------- MODULE HotReloadProofs --------------------------
(***************************************************************************)
(* Proofs about module HotReload, for any set of files, any contents and   *)
(* any number of changes: its types, that it drives the registry by its    *)
(* operations, that a database is dropped only when its file is gone, that *)
(* no change is lost, that nothing is served after Close, and that no      *)
(* goroutine waits in vain.                                                *)
(***************************************************************************)
EXTENDS HotReload, TLAPS

(* What the results about the directory need of the operator: the editions  *)
(* are spelled so that the monitor watches them, no two files name the same *)
(* one, nothing changes before the watch is in place, and no file reappears *)
(* while its deletion is being carried out.  Each one is necessary: without *)
(* it TLC has a counterexample on an instance like those of MCHotReload.    *)
CarefulOperator ==
  /\ \A p \in Paths : KeyOf[p] \in Known => p \in Watched
  /\ \A p, q \in Paths : KeyOf[p] \in Known /\ KeyOf[p] = KeyOf[q] => p = q
  /\ QuietStart /\ ~RecreateRace

KnownPaths == {p \in Paths : KeyOf[p] \in Known}

(* Before the monitor starts nothing is in flight and all is as New left it.*)
OffInv ==
  /\ watcher = "closed" => Quit
  /\ watcher = "off" =>
       /\ closer = "open" /\ handler = Off /\ loop = "off" /\ events = <<>>
       /\ \A k \in Keys : timers[k] = NoTimer
       /\ \A p \in Paths, s \in Steps : callbacks[p][s] = 0

(* A timer sits under its own key, and one that is not armed has fired but  *)
(* not yet been removed (until Close disarms them).                         *)
TimerInv ==
  \A k \in Keys : timers[k] # NoTimer =>
    /\ KeyOf[timers[k].path] = k
    /\ timers[k].armed \/ callbacks[timers[k].path]["removeTimer"] > 0 \/ Quit

(* Only a running Reload of a recognised file holds a loaded content. *)
LoadedInv == loaded # NoDB => \E p \in KnownPaths : Reloading(p)

(* A decision to delete stays right until it is carried out. *)
DropInv == \A p \in Paths : Deleting(p) => disk[p] = Absent

AgreesWith(p) ==
  \/ disk[p] = Absent /\ served[KeyOf[p]] = NoDB
  \/ disk[p] # Absent /\ (disk[p] \in Valid => served[KeyOf[p]] = disk[p])

(* A file that differs from what is served, or from what a Reload is about  *)
(* to install, is on its way.                                               *)
Tracked(p) ==
  \/ AgreesWith(p) /\ (Reloading(p) /\ loaded # NoDB => loaded = disk[p])
  \/ OnItsWay(p)

WayInv == ~Quit /\ ~shut => \A p \in KnownPaths : Tracked(p)

(* The monitor has no other file of x's key in its hands. *)
InHand(p) ==
  \/ Queued(p) \/ Pending(p) \/ Reloading(p) \/ Dropping(p)
  \/ \E k \in Keys : timers[k] # NoTimer /\ timers[k].path = p

Alone(x) == \A p \in Paths : p # x /\ KeyOf[p] = KeyOf[x] => ~InHand(p)

(* An edition without any file is not served. *)
NoFileInv == \A k \in Known : (\A p \in Paths : KeyOf[p] # k) => served[k] = NoDB

(* After Close no goroutine is left that could change the registry. *)
ShutInv ==
  /\ closer = "closed" => handler = Exited
  /\ shut => /\ watcher = "off" \/ closer = "closed"
             /\ \A k \in Known : served[k] = NoDB

DirInv == DropInv /\ WayInv /\ NoFileInv

BaseInv == TypeOK /\ OffInv /\ TimerInv /\ LoadedInv /\ ShutInv

-----------------------------------------------------------------------------
(* Sequences of events. *)

LEMMA AppendedEvents ==
  ASSUME NEW S, NEW s \in Seq(S), NEW t \in Seq(S)
  PROVE  /\ s \o t \in Seq(S)
         /\ \A i \in DOMAIN s : \E j \in DOMAIN (s \o t) : (s \o t)[j] = s[i]
         /\ \A i \in DOMAIN t : \E j \in DOMAIN (s \o t) : (s \o t)[j] = t[i]
<1>1. s \o t \in Seq(S) /\ Len(s \o t) = Len(s) + Len(t)
  OBVIOUS
<1>2. ASSUME NEW i \in DOMAIN s PROVE \E j \in DOMAIN (s \o t) : (s \o t)[j] = s[i]
  <2>1. i \in DOMAIN (s \o t) /\ (s \o t)[i] = s[i]
    BY <1>1
  <2>. QED
    BY <2>1
<1>3. ASSUME NEW i \in DOMAIN t PROVE \E j \in DOMAIN (s \o t) : (s \o t)[j] = t[i]
  <2>1. Len(s) + i \in DOMAIN (s \o t) /\ (s \o t)[Len(s) + i] = t[i]
    BY <1>1
  <2>. QED
    BY <2>1
<1>. QED
  BY <1>1, <1>2, <1>3

LEMMA TakenEvent ==
  ASSUME NEW S, NEW s \in Seq(S), s # <<>>
  PROVE  /\ Tail(s) \in Seq(S) /\ Head(s) \in S
         /\ \A i \in DOMAIN s :
              s[i] = Head(s) \/ \E j \in DOMAIN Tail(s) : Tail(s)[j] = s[i]
<1>1. Tail(s) \in Seq(S) /\ Head(s) \in S /\ Len(Tail(s)) = Len(s) - 1 /\ Len(s) \in Nat
  OBVIOUS
<1>2. ASSUME NEW i \in DOMAIN s, i # 1 PROVE \E j \in DOMAIN Tail(s) : Tail(s)[j] = s[i]
  <2>1. i - 1 \in DOMAIN Tail(s) /\ Tail(s)[i - 1] = s[i]
    BY <1>1, <1>2
  <2>. QED
    BY <2>1
<1>3. s[1] = Head(s)
  OBVIOUS
<1>. QED
  BY <1>1, <1>2, <1>3

(* The counts of timer goroutines. *)
CallbacksType == [Paths -> [Steps -> Nat]]

LEMMA Spawned ==
  ASSUME callbacks \in CallbacksType, NEW p \in Paths, NEW s \in Steps,
         callbacks' = [callbacks EXCEPT ![p][s] = @ + 1]
  PROVE  /\ callbacks' \in CallbacksType
         /\ \A q \in Paths, r \in Steps :
              callbacks'[q][r] = IF q = p /\ r = s THEN callbacks[q][r] + 1 ELSE callbacks[q][r]
<1>1. callbacks' = [callbacks EXCEPT ![p] = [callbacks[p] EXCEPT ![s] = callbacks[p][s] + 1]]
  BY DEF CallbacksType
<1>2. [callbacks[p] EXCEPT ![s] = callbacks[p][s] + 1] \in [Steps -> Nat]
  BY DEF CallbacksType
<1>. QED
  BY <1>1, <1>2 DEF CallbacksType

LEMMA Taken ==
  ASSUME callbacks \in CallbacksType, NEW p \in Paths, NEW s \in Steps, callbacks[p][s] > 0,
         callbacks' = [callbacks EXCEPT ![p][s] = @ - 1]
  PROVE  /\ callbacks' \in CallbacksType
         /\ \A q \in Paths, r \in Steps :
              callbacks'[q][r] = IF q = p /\ r = s THEN callbacks[q][r] - 1 ELSE callbacks[q][r]
<1>1. callbacks' = [callbacks EXCEPT ![p] = [callbacks[p] EXCEPT ![s] = callbacks[p][s] - 1]]
  BY DEF CallbacksType
<1>2. callbacks[p][s] - 1 \in Nat
  BY DEF CallbacksType
<1>3. [callbacks[p] EXCEPT ![s] = callbacks[p][s] - 1] \in [Steps -> Nat]
  BY <1>2 DEF CallbacksType
<1>. QED
  BY <1>1, <1>3 DEF CallbacksType

LEMMA Advanced ==
  ASSUME callbacks \in CallbacksType, NEW p \in Paths, NEW s \in Steps, NEW u \in Steps,
         s # u, callbacks[p][s] > 0, Advance(p, s, u)
  PROVE  /\ callbacks' \in CallbacksType
         /\ \A q \in Paths, r \in Steps :
              callbacks'[q][r] = IF q = p /\ r = s THEN callbacks[q][r] - 1
                                 ELSE IF q = p /\ r = u THEN callbacks[q][r] + 1
                                 ELSE callbacks[q][r]
<1> DEFINE mid == [callbacks[p] EXCEPT ![s] = callbacks[p][s] - 1]
           end == [mid EXCEPT ![u] = callbacks[p][u] + 1]
<1>1. callbacks' = [callbacks EXCEPT ![p] = end]
  BY DEF CallbacksType, Advance
<1>2. callbacks[p][s] - 1 \in Nat /\ callbacks[p][u] + 1 \in Nat
  BY DEF CallbacksType
<1>3. mid \in [Steps -> Nat]
  BY <1>2 DEF CallbacksType
<1>4. end \in [Steps -> Nat]
  BY <1>2, <1>3
<1>5. \A r \in Steps : end[r] = IF r = s THEN callbacks[p][r] - 1
                                 ELSE IF r = u THEN callbacks[p][r] + 1 ELSE callbacks[p][r]
  BY <1>3 DEF CallbacksType
<1> HIDE DEF end
<1>. QED
  BY <1>1, <1>4, <1>5 DEF CallbacksType

(* The entries of the map. *)
LEMMA TimerEntry ==
  ASSUME timers \in [Keys -> Timer \cup {NoTimer}], NEW k \in Keys, timers[k] # NoTimer
  PROVE  /\ timers[k] \in Timer /\ timers[k].path \in Paths
         /\ \A a \in BOOLEAN : [timers[k] EXCEPT !.armed = a] = [path |-> timers[k].path, armed |-> a]
<1>1. timers[k] \in Timer
  OBVIOUS
<1>2. timers[k].path \in Paths
  BY <1>1 DEF Timer
<1>3. ASSUME NEW a \in BOOLEAN
      PROVE  [timers[k] EXCEPT !.armed = a] = [path |-> timers[k].path, armed |-> a]
  BY <1>1 DEF Timer
<1>. QED
  BY <1>1, <1>2, <1>3

(* What watcherLoop leaves in the map. *)
LEMMA TimerSet ==
  ASSUME NEW p, AddOrResetTimer(p)
  PROVE  timers' = [timers EXCEPT ![KeyOf[p]] =
                      IF timers[KeyOf[p]] = NoTimer THEN [path |-> p, armed |-> TRUE]
                      ELSE [timers[KeyOf[p]] EXCEPT !.armed = TRUE]]
  BY DEF AddOrResetTimer

-----------------------------------------------------------------------------
(* Every step keeps the types. *)
LEMMA TypeStep ==
  ASSUME TypeOK, [Next]_hrVars
  PROVE  TypeOK'
<1> USE MonitorAssumption, NoTimerAssumption, ReloadAssumption
<1>1. ASSUME NEW p \in Paths, Remove(p), UNCHANGED <<served, loaded, shut>>
      PROVE  TypeOK'
  BY <1>1 DEF Remove, TypeOK, MonitorTypeOK, dmVars, fileVars, monitorVars, Alter
<1>2. ASSUME NEW p \in Paths, NEW c \in Contents, Write(p, c), UNCHANGED <<served, loaded, shut>>
      PROVE  TypeOK'
  BY <1>2 DEF Write, TypeOK, MonitorTypeOK, dmVars, fileVars, monitorVars, Alter
<1>3. ASSUME NEW p \in Paths, NEW q \in Paths, Move(p, q), UNCHANGED <<served, loaded, shut>>
      PROVE  TypeOK'
  <2>1. <<p, q>> \in Seq(Paths)
    OBVIOUS
  <2>2. events' \in Seq(Paths)
    BY <1>3, <2>1, AppendedEvents DEF Move, Alter, TypeOK, MonitorTypeOK
  <2>3. disk' \in [Paths -> Contents \cup {Absent}]
    BY <1>3 DEF Move, Alter, TypeOK, MonitorTypeOK
  <2>4. changes' = changes + 1 /\ UNCHANGED <<watcher, loop, timers, callbacks, handler, closer>>
    BY <1>3 DEF Move, Alter
  <2>. QED
    BY <1>3, <2>2, <2>3, <2>4 DEF TypeOK, MonitorTypeOK
<1>4. ASSUME ReadEvent, UNCHANGED <<served, loaded, shut>>
      PROVE  TypeOK'
  <2>1. Tail(events) \in Seq(Paths) /\ Head(events) \in Paths
    BY <1>4, TakenEvent DEF ReadEvent, TypeOK, MonitorTypeOK
  <2>2. timers' \in [Keys -> Timer \cup {NoTimer}]
    <3>1. CASE Head(events) \notin Watched
      BY <1>4, <3>1 DEF ReadEvent, TypeOK, MonitorTypeOK
    <3>2. CASE Head(events) \in Watched
      <4> DEFINE k == KeyOf[Head(events)]
                 timer == IF timers[k] = NoTimer THEN [path |-> Head(events), armed |-> TRUE]
                          ELSE [timers[k] EXCEPT !.armed = TRUE]
      <4>1. k \in Keys /\ timer \in Timer
        <5>1. k \in Keys /\ timers \in [Keys -> Timer \cup {NoTimer}]
          BY <2>1 DEF TypeOK, MonitorTypeOK
        <5>2. CASE timers[k] = NoTimer
          BY <2>1, <5>2 DEF Timer
        <5>3. CASE timers[k] # NoTimer
          <6>1. timers[k].path \in Paths /\ timer = [path |-> timers[k].path, armed |-> TRUE]
            BY <5>1, <5>3, TimerEntry
          <6>2. [path |-> timers[k].path, armed |-> TRUE] \in Timer
            BY <6>1 DEF Timer
          <6> HIDE DEF timer
          <6>. QED
            BY <5>1, <6>1, <6>2
        <5> HIDE DEF timer
        <5>. QED
          BY <5>1, <5>2, <5>3
      <4>2. AddOrResetTimer(Head(events))
        BY <1>4, <3>2 DEF ReadEvent
      <4>3. timers' = [timers EXCEPT ![k] = timer]
        BY <4>2, TimerSet
      <4> HIDE DEF timer
      <4>. QED
        BY <4>1, <4>3 DEF TypeOK, MonitorTypeOK
    <3>. QED
      BY <3>1, <3>2
  <2>3. /\ events' = Tail(events)
        /\ UNCHANGED <<disk, changes, watcher, loop, callbacks, handler, closer>>
    BY <1>4 DEF ReadEvent, fileVars
  <2>. QED
    BY <1>4, <2>1, <2>2, <2>3 DEF TypeOK, MonitorTypeOK
<1>5. ASSUME LoopExit, UNCHANGED <<served, loaded, shut>>
      PROVE  TypeOK'
  BY <1>5 DEF LoopExit, TypeOK, MonitorTypeOK, dmVars, fileVars, monitorVars
<1>6. ASSUME NEW k \in Keys, Fire(k), UNCHANGED <<served, loaded, shut>>
      PROVE  TypeOK'
  <2>1. timers[k].path \in Paths /\ timers' \in [Keys -> Timer \cup {NoTimer}]
    <3>1. /\ timers \in [Keys -> Timer \cup {NoTimer}] /\ timers[k] # NoTimer
          /\ timers' = [timers EXCEPT ![k] = [timers[k] EXCEPT !.armed = FALSE]]
      BY <1>6 DEF Fire, TypeOK, MonitorTypeOK
    <3>2. timers[k].path \in Paths
          /\ [timers[k] EXCEPT !.armed = FALSE] = [path |-> timers[k].path, armed |-> FALSE]
      BY <3>1, TimerEntry
    <3>3. [path |-> timers[k].path, armed |-> FALSE] \in Timer
      BY <3>2 DEF Timer
    <3>. QED
      BY <3>1, <3>2, <3>3
  <2>2. callbacks' \in CallbacksType
    BY <1>6, <2>1, Spawned DEF Fire, CallbacksType, Steps, TypeOK, MonitorTypeOK
  <2>. QED
    BY <1>6, <2>1, <2>2 DEF Fire, CallbacksType, TypeOK, MonitorTypeOK, fileVars
<1>7. ASSUME NEW p \in Paths, RemoveTimer(p), UNCHANGED <<served, loaded, shut>>
      PROVE  TypeOK'
  <2>1. callbacks' \in CallbacksType
    BY <1>7, Advanced DEF RemoveTimer, CallbacksType, Steps, TypeOK, MonitorTypeOK
  <2>. QED
    BY <1>7, <2>1 DEF RemoveTimer, CallbacksType, TypeOK, MonitorTypeOK, fileVars
<1>8. ASSUME NEW p \in Paths, Settle(p), UNCHANGED <<served, loaded, shut>>
      PROVE  TypeOK'
  <2>1. callbacks' \in CallbacksType
    BY <1>8, Advanced DEF Settle, CallbacksType, Steps, Ops, TypeOK, MonitorTypeOK
  <2>. QED
    BY <1>8, <2>1 DEF Settle, CallbacksType, TypeOK, MonitorTypeOK, fileVars
<1>9. ASSUME NEW p \in Paths, NEW op \in Ops, AbandonOffer(p, op), UNCHANGED <<served, loaded, shut>>
      PROVE  TypeOK'
  <2>1. callbacks' \in CallbacksType
    BY <1>9, Taken DEF AbandonOffer, CallbacksType, Steps, TypeOK, MonitorTypeOK
  <2>. QED
    BY <1>9, <2>1 DEF AbandonOffer, CallbacksType, TypeOK, MonitorTypeOK, fileVars
<1>10. ASSUME NEW p \in Paths, NEW op \in Ops, Receive(p, op), UNCHANGED <<served, loaded, shut>>
       PROVE  TypeOK'
  <2>1. callbacks' \in CallbacksType
    BY <1>10, Taken DEF Receive, CallbacksType, Steps, TypeOK, MonitorTypeOK
  <2>. QED
    BY <1>10, <2>1 DEF Receive, CallbacksType, Running, TypeOK, MonitorTypeOK, fileVars
<1>11. ASSUME HandlerExit, UNCHANGED <<served, loaded, shut>>
       PROVE  TypeOK'
  BY <1>11 DEF HandlerExit, TypeOK, MonitorTypeOK, dmVars, fileVars, monitorVars
<1>12. ASSUME CloseTimers, UNCHANGED <<served, loaded, shut>>
       PROVE  TypeOK'
  BY <1>12 DEF CloseTimers, TypeOK, MonitorTypeOK, dmVars, fileVars, monitorVars, Timer
<1>13. ASSUME CloseWatcher, UNCHANGED <<served, loaded, shut>>
       PROVE  TypeOK'
  BY <1>13 DEF CloseWatcher, TypeOK, MonitorTypeOK, dmVars, fileVars, monitorVars
<1>14. ASSUME CloseWait, UNCHANGED <<served, loaded, shut>>
       PROVE  TypeOK'
  BY <1>14 DEF CloseWait, TypeOK, MonitorTypeOK, dmVars, fileVars, monitorVars
<1>15. ASSUME CloseQuit, UNCHANGED <<served, loaded, shut>>
       PROVE  TypeOK'
  BY <1>15 DEF CloseQuit, TypeOK, MonitorTypeOK, dmVars, fileVars, monitorVars
<1>16. ASSUME StartWatcher
       PROVE  TypeOK'
  BY <1>16 DEF StartWatcher, StartMonitor, TypeOK, MonitorTypeOK, dmVars, fileVars, monitorVars
<1>17. ASSUME NEW p \in Paths, Load(p)
       PROVE  TypeOK'
  BY <1>17 DEF Load, TypeOK, MonitorTypeOK, dmVars, fileVars, monitorVars
<1>18. ASSUME NEW p \in Paths, ReloadFails(p)
       PROVE  TypeOK'
  BY <1>18 DEF ReloadFails, CallbackReturns, TypeOK, MonitorTypeOK, dmVars, fileVars, monitorVars
<1>19. ASSUME NEW p \in Paths, Install(p)
       PROVE  TypeOK'
  BY <1>19 DEF Install, CallbackReturns, TypeOK, MonitorTypeOK, dmVars, fileVars, monitorVars
<1>20. ASSUME NEW p \in Paths, Delete(p)
       PROVE  TypeOK'
  BY <1>20 DEF Delete, CallbackReturns, TypeOK, MonitorTypeOK, dmVars, fileVars, monitorVars
<1>21. ASSUME Release
       PROVE  TypeOK'
  BY <1>21 DEF Release, TypeOK, MonitorTypeOK, dmVars, fileVars, monitorVars
<1>22. CASE UNCHANGED hrVars
  BY <1>22 DEF hrVars, dmVars, fileVars, TypeOK, MonitorTypeOK, dmVars, fileVars, monitorVars
<1>. QED
  BY <1>1, <1>2, <1>3, <1>4, <1>5, <1>6, <1>7, <1>8, <1>9, <1>10, <1>11, <1>12, <1>13, <1>14, <1>15, <1>16, <1>17, <1>18, <1>19, <1>20, <1>21, <1>22
     DEF Next, Environment, MonitorStep, Loop, CallbackStep, CloseStep, Callback

(* Nothing happens before the monitor starts. *)
LEMMA OffStep ==
  ASSUME TypeOK, OffInv, [Next]_hrVars
  PROVE  OffInv'
<1>1. ASSUME NEW p \in Paths, Remove(p), UNCHANGED <<served, loaded, shut>>
      PROVE  OffInv'
  BY <1>1 DEF Remove, OffInv, Quit, fileVars, monitorVars, dmVars, Off, Idle, Exited, Steps, Ops, TypeOK, MonitorTypeOK, Alter
<1>2. ASSUME NEW p \in Paths, NEW c \in Contents, Write(p, c), UNCHANGED <<served, loaded, shut>>
      PROVE  OffInv'
  BY <1>2 DEF Write, OffInv, Quit, fileVars, monitorVars, dmVars, Off, Idle, Exited, Steps, Ops, TypeOK, MonitorTypeOK, Alter
<1>3. ASSUME NEW p \in Paths, NEW q \in Paths, Move(p, q), UNCHANGED <<served, loaded, shut>>
      PROVE  OffInv'
  BY <1>3 DEF Move, OffInv, Quit, fileVars, monitorVars, dmVars, Off, Idle, Exited, Steps, Ops, TypeOK, MonitorTypeOK, Alter
<1>4. ASSUME ReadEvent, UNCHANGED <<served, loaded, shut>>
      PROVE  OffInv'
  BY <1>4 DEF ReadEvent, OffInv, Quit, fileVars, monitorVars, dmVars, Off, Idle, Exited, Steps, Ops, TypeOK, MonitorTypeOK
<1>5. ASSUME LoopExit, UNCHANGED <<served, loaded, shut>>
      PROVE  OffInv'
  BY <1>5 DEF LoopExit, OffInv, Quit, fileVars, monitorVars, dmVars, Off, Idle, Exited, Steps, Ops, TypeOK, MonitorTypeOK
<1>6. ASSUME NEW k \in Keys, Fire(k), UNCHANGED <<served, loaded, shut>>
      PROVE  OffInv'
  BY <1>6 DEF Fire, OffInv, Quit, TypeOK, MonitorTypeOK
<1>7. ASSUME NEW p \in Paths, RemoveTimer(p), UNCHANGED <<served, loaded, shut>>
      PROVE  OffInv'
  BY <1>7 DEF RemoveTimer, OffInv, Quit, Steps
<1>8. ASSUME NEW p \in Paths, Settle(p), UNCHANGED <<served, loaded, shut>>
      PROVE  OffInv'
  BY <1>8 DEF Settle, OffInv, Quit, Steps
<1>9. ASSUME NEW p \in Paths, NEW op \in Ops, AbandonOffer(p, op), UNCHANGED <<served, loaded, shut>>
      PROVE  OffInv'
  BY <1>9 DEF AbandonOffer, OffInv, Quit
<1>10. ASSUME NEW p \in Paths, NEW op \in Ops, Receive(p, op), UNCHANGED <<served, loaded, shut>>
       PROVE  OffInv'
  BY <1>10 DEF Receive, OffInv, Off, Idle, Quit
<1>11. ASSUME HandlerExit, UNCHANGED <<served, loaded, shut>>
       PROVE  OffInv'
  BY <1>11 DEF HandlerExit, OffInv, Off, Idle, Quit
<1>12. ASSUME CloseTimers, UNCHANGED <<served, loaded, shut>>
       PROVE  OffInv'
  BY <1>12 DEF CloseTimers, OffInv, Quit, fileVars, monitorVars, dmVars, Off, Idle, Exited, Steps, Ops, TypeOK, MonitorTypeOK
<1>13. ASSUME CloseWatcher, UNCHANGED <<served, loaded, shut>>
       PROVE  OffInv'
  BY <1>13 DEF CloseWatcher, OffInv, Quit, fileVars, monitorVars, dmVars, Off, Idle, Exited, Steps, Ops, TypeOK, MonitorTypeOK
<1>14. ASSUME CloseWait, UNCHANGED <<served, loaded, shut>>
       PROVE  OffInv'
  BY <1>14 DEF CloseWait, OffInv, Quit, fileVars, monitorVars, dmVars, Off, Idle, Exited, Steps, Ops, TypeOK, MonitorTypeOK
<1>15. ASSUME CloseQuit, UNCHANGED <<served, loaded, shut>>
       PROVE  OffInv'
  BY <1>15 DEF CloseQuit, OffInv, Quit, fileVars, monitorVars, dmVars, Off, Idle, Exited, Steps, Ops, TypeOK, MonitorTypeOK
<1>16. ASSUME StartWatcher
       PROVE  OffInv'
  BY <1>16 DEF StartWatcher, StartMonitor, OffInv, Quit, fileVars, monitorVars, dmVars, Off, Idle, Exited, Steps, Ops, TypeOK, MonitorTypeOK
<1>17. ASSUME NEW p \in Paths, Load(p)
       PROVE  OffInv'
  BY <1>17 DEF Load, OffInv, Quit, fileVars, monitorVars, dmVars, Off, Idle, Exited, Steps, Ops, TypeOK, MonitorTypeOK, Reloading, Dropping
<1>18. ASSUME NEW p \in Paths, ReloadFails(p)
       PROVE  OffInv'
  BY <1>18 DEF ReloadFails, CallbackReturns, OffInv, Quit, fileVars, monitorVars, dmVars, Off, Idle, Exited, Steps, Ops, TypeOK, MonitorTypeOK, Reloading, Dropping
<1>19. ASSUME NEW p \in Paths, Install(p)
       PROVE  OffInv'
  BY <1>19 DEF Install, CallbackReturns, OffInv, Quit, fileVars, monitorVars, dmVars, Off, Idle, Exited, Steps, Ops, TypeOK, MonitorTypeOK, Reloading, Dropping
<1>20. ASSUME NEW p \in Paths, Delete(p)
       PROVE  OffInv'
  BY <1>20 DEF Delete, CallbackReturns, OffInv, Quit, fileVars, monitorVars, dmVars, Off, Idle, Exited, Steps, Ops, TypeOK, MonitorTypeOK, Reloading, Dropping
<1>21. ASSUME Release
       PROVE  OffInv'
  BY <1>21 DEF Release, OffInv, Quit, fileVars, monitorVars, dmVars, Off, Idle, Exited, Steps, Ops, TypeOK, MonitorTypeOK
<1>22. CASE UNCHANGED hrVars
  BY <1>22 DEF hrVars, dmVars, fileVars, OffInv, Quit, fileVars, monitorVars, dmVars, Off, Idle, Exited, Steps, Ops, TypeOK, MonitorTypeOK
<1>. QED
  BY <1>1, <1>2, <1>3, <1>4, <1>5, <1>6, <1>7, <1>8, <1>9, <1>10, <1>11, <1>12, <1>13, <1>14, <1>15, <1>16, <1>17, <1>18, <1>19, <1>20, <1>21, <1>22
     DEF Next, Environment, MonitorStep, Loop, CallbackStep, CloseStep, Callback

(* Timers keep their keys, and those that fired their goroutines. *)
LEMMA TimerStep ==
  ASSUME TypeOK, TimerInv, [Next]_hrVars
  PROVE  TimerInv'
<1>1. ASSUME NEW p \in Paths, Remove(p), UNCHANGED <<served, loaded, shut>>
      PROVE  TimerInv'
  BY <1>1 DEF Remove, TimerInv, monitorVars, TypeOK, MonitorTypeOK, fileVars, dmVars, Quit, Alter
<1>2. ASSUME NEW p \in Paths, NEW c \in Contents, Write(p, c), UNCHANGED <<served, loaded, shut>>
      PROVE  TimerInv'
  BY <1>2 DEF Write, TimerInv, monitorVars, TypeOK, MonitorTypeOK, fileVars, dmVars, Quit, Alter
<1>3. ASSUME NEW p \in Paths, NEW q \in Paths, Move(p, q), UNCHANGED <<served, loaded, shut>>
      PROVE  TimerInv'
  BY <1>3 DEF Move, TimerInv, monitorVars, TypeOK, MonitorTypeOK, fileVars, dmVars, Quit, Alter
<1>4. ASSUME ReadEvent, UNCHANGED <<served, loaded, shut>>
      PROVE  TimerInv'
  <2> DEFINE e == Head(events)
             k == KeyOf[e]
  <2>1. CASE e \notin Watched
    BY <1>4, <2>1 DEF ReadEvent, TimerInv, Quit
  <2>2. CASE e \in Watched
    <3>1. e \in Paths /\ k \in Keys
      BY <1>4, TakenEvent, MonitorAssumption DEF ReadEvent, TypeOK, MonitorTypeOK
    <3>2. \A j \in Keys : j # k => timers'[j] = timers[j]
      BY <1>4, <2>2, <3>1 DEF ReadEvent, AddOrResetTimer, TypeOK, MonitorTypeOK
    <3>3. timers'[k].armed /\ KeyOf[timers'[k].path] = k
      <4>1. CASE timers[k] = NoTimer
        <5>1. timers' = [timers EXCEPT ![k] = [path |-> e, armed |-> TRUE]]
          BY <1>4, <2>2, <3>1, <4>1 DEF ReadEvent, AddOrResetTimer, TypeOK, MonitorTypeOK
        <5>. QED
          BY <3>1, <5>1 DEF TypeOK, MonitorTypeOK
      <4>2. CASE timers[k] # NoTimer
        <5>1. timers' = [timers EXCEPT ![k] = [timers[k] EXCEPT !.armed = TRUE]]
          BY <1>4, <2>2, <3>1, <4>2 DEF ReadEvent, AddOrResetTimer, TypeOK, MonitorTypeOK
        <5>2. timers[k] \in Timer
          BY <3>1, <4>2 DEF TypeOK, MonitorTypeOK
        <5>. QED
          BY <3>1, <4>2, <5>1, <5>2 DEF Timer, TimerInv, TypeOK, MonitorTypeOK
      <4>. QED
        BY <4>1, <4>2
    <3>. QED
      BY <1>4, <3>1, <3>2, <3>3 DEF ReadEvent, TimerInv, Quit
  <2>. QED
    BY <2>1, <2>2
<1>5. ASSUME LoopExit, UNCHANGED <<served, loaded, shut>>
      PROVE  TimerInv'
  BY <1>5 DEF LoopExit, TimerInv, monitorVars, TypeOK, MonitorTypeOK, fileVars, dmVars, Quit
<1>6. ASSUME NEW k \in Keys, Fire(k), UNCHANGED <<served, loaded, shut>>
      PROVE  TimerInv'
  <2> DEFINE f == timers[k].path
  <2>1. f \in Paths
    BY <1>6 DEF Fire, Timer, TypeOK, MonitorTypeOK
  <2>2. callbacks'[f]["removeTimer"] > 0
        /\ \A x \in Paths : callbacks[x]["removeTimer"] > 0 => callbacks'[x]["removeTimer"] > 0
    BY <1>6, <2>1, Spawned DEF Fire, CallbacksType, Steps, TypeOK, MonitorTypeOK
  <2>3. \A j \in Keys : j # k => timers'[j] = timers[j]
    BY <1>6 DEF Fire, TypeOK, MonitorTypeOK
  <2>4. timers'[k].path = f
    BY <1>6 DEF Fire, Timer, TypeOK, MonitorTypeOK
  <2>. QED
    BY <1>6, <2>1, <2>2, <2>3, <2>4 DEF Fire, TimerInv, Timer, Quit, TypeOK, MonitorTypeOK
<1>7. ASSUME NEW p \in Paths, RemoveTimer(p), UNCHANGED <<served, loaded, shut>>
      PROVE  TimerInv'
  <2>1. \A x \in Paths : x # p => callbacks'[x]["removeTimer"] = callbacks[x]["removeTimer"]
    <3>1. /\ callbacks \in CallbacksType /\ callbacks[p]["removeTimer"] > 0
          /\ "removeTimer" \in Steps /\ "stat" \in Steps
          /\ Advance(p, "removeTimer", "stat")
      BY <1>7 DEF RemoveTimer, CallbacksType, Steps, TypeOK, MonitorTypeOK
    <3>. QED
      BY <3>1, Advanced
  <2>2. timers'[KeyOf[p]] = NoTimer /\ \A j \in Keys : j # KeyOf[p] => timers'[j] = timers[j]
    BY <1>7, MonitorAssumption DEF RemoveTimer, TypeOK, MonitorTypeOK
  <2>3. ASSUME NEW j \in Keys, timers'[j] # NoTimer
        PROVE  /\ KeyOf[timers'[j].path] = j
               /\ timers'[j].armed \/ callbacks'[timers'[j].path]["removeTimer"] > 0 \/ Quit'
    <3>1. timers[j] # NoTimer /\ timers'[j] = timers[j] /\ j # KeyOf[p]
      BY <2>2, <2>3
    <3>2. KeyOf[timers[j].path] = j /\ timers[j].path # p /\ timers[j].path \in Paths
      BY <3>1 DEF TimerInv, Timer, TypeOK, MonitorTypeOK
    <3>. QED
      BY <1>7, <2>1, <3>1, <3>2 DEF RemoveTimer, TimerInv, Quit
  <2>. QED
    BY <2>3 DEF TimerInv
<1>8. ASSUME NEW p \in Paths, Settle(p), UNCHANGED <<served, loaded, shut>>
      PROVE  TimerInv'
  <2>1. \A x \in Paths : callbacks'[x]["removeTimer"] = callbacks[x]["removeTimer"]
    BY <1>8, Advanced DEF Settle, CallbacksType, Steps, Ops, TypeOK, MonitorTypeOK
  <2>2. UNCHANGED <<timers, closer>>
    BY <1>8 DEF Settle
  <2>3. \A k \in Keys : timers[k] # NoTimer => timers[k].path \in Paths
    BY DEF Timer, TypeOK, MonitorTypeOK
  <2>. QED
    BY <2>1, <2>2, <2>3 DEF TimerInv, Quit
<1>9. ASSUME NEW p \in Paths, NEW op \in Ops, AbandonOffer(p, op), UNCHANGED <<served, loaded, shut>>
      PROVE  TimerInv'
  <2>1. \A x \in Paths : callbacks'[x]["removeTimer"] = callbacks[x]["removeTimer"]
    BY <1>9, Taken DEF AbandonOffer, CallbacksType, Steps, Ops, TypeOK, MonitorTypeOK
  <2>2. UNCHANGED <<timers, closer>>
    BY <1>9 DEF AbandonOffer
  <2>3. \A k \in Keys : timers[k] # NoTimer => timers[k].path \in Paths
    BY DEF Timer, TypeOK, MonitorTypeOK
  <2>. QED
    BY <2>1, <2>2, <2>3 DEF TimerInv, Quit
<1>10. ASSUME NEW p \in Paths, NEW op \in Ops, Receive(p, op), UNCHANGED <<served, loaded, shut>>
       PROVE  TimerInv'
  <2>1. \A x \in Paths : callbacks'[x]["removeTimer"] = callbacks[x]["removeTimer"]
    BY <1>10, Taken DEF Receive, CallbacksType, Steps, Ops, TypeOK, MonitorTypeOK
  <2>2. UNCHANGED <<timers, closer>>
    BY <1>10 DEF Receive
  <2>3. \A k \in Keys : timers[k] # NoTimer => timers[k].path \in Paths
    BY DEF Timer, TypeOK, MonitorTypeOK
  <2>. QED
    BY <2>1, <2>2, <2>3 DEF TimerInv, Quit
<1>11. ASSUME HandlerExit, UNCHANGED <<served, loaded, shut>>
       PROVE  TimerInv'
  BY <1>11 DEF HandlerExit, TimerInv, monitorVars, TypeOK, MonitorTypeOK, fileVars, dmVars, Quit
<1>12. ASSUME CloseTimers, UNCHANGED <<served, loaded, shut>>
       PROVE  TimerInv'
  BY <1>12 DEF CloseTimers, TimerInv, monitorVars, TypeOK, MonitorTypeOK, fileVars, dmVars, Quit
<1>13. ASSUME CloseWatcher, UNCHANGED <<served, loaded, shut>>
       PROVE  TimerInv'
  BY <1>13 DEF CloseWatcher, TimerInv, monitorVars, TypeOK, MonitorTypeOK, fileVars, dmVars, Quit
<1>14. ASSUME CloseWait, UNCHANGED <<served, loaded, shut>>
       PROVE  TimerInv'
  BY <1>14 DEF CloseWait, TimerInv, monitorVars, TypeOK, MonitorTypeOK, fileVars, dmVars, Quit
<1>15. ASSUME CloseQuit, UNCHANGED <<served, loaded, shut>>
       PROVE  TimerInv'
  BY <1>15 DEF CloseQuit, TimerInv, monitorVars, TypeOK, MonitorTypeOK, fileVars, dmVars, Quit
<1>16. ASSUME StartWatcher
       PROVE  TimerInv'
  BY <1>16 DEF StartWatcher, StartMonitor, TimerInv, monitorVars, TypeOK, MonitorTypeOK, fileVars, dmVars, Quit
<1>17. ASSUME NEW p \in Paths, Load(p)
       PROVE  TimerInv'
  BY <1>17 DEF Load, TimerInv, monitorVars, TypeOK, MonitorTypeOK, fileVars, dmVars, Quit
<1>18. ASSUME NEW p \in Paths, ReloadFails(p)
       PROVE  TimerInv'
  BY <1>18 DEF ReloadFails, CallbackReturns, TimerInv, monitorVars, TypeOK, MonitorTypeOK, fileVars, dmVars, Quit
<1>19. ASSUME NEW p \in Paths, Install(p)
       PROVE  TimerInv'
  BY <1>19 DEF Install, CallbackReturns, TimerInv, monitorVars, TypeOK, MonitorTypeOK, fileVars, dmVars, Quit
<1>20. ASSUME NEW p \in Paths, Delete(p)
       PROVE  TimerInv'
  BY <1>20 DEF Delete, CallbackReturns, TimerInv, monitorVars, TypeOK, MonitorTypeOK, fileVars, dmVars, Quit
<1>21. ASSUME Release
       PROVE  TimerInv'
  BY <1>21 DEF Release, TimerInv, monitorVars, TypeOK, MonitorTypeOK, fileVars, dmVars, Quit
<1>22. CASE UNCHANGED hrVars
  BY <1>22 DEF hrVars, dmVars, fileVars, TimerInv, monitorVars, TypeOK, MonitorTypeOK, fileVars, dmVars, Quit
<1>. QED
  BY <1>1, <1>2, <1>3, <1>4, <1>5, <1>6, <1>7, <1>8, <1>9, <1>10, <1>11, <1>12, <1>13, <1>14, <1>15, <1>16, <1>17, <1>18, <1>19, <1>20, <1>21, <1>22
     DEF Next, Environment, MonitorStep, Loop, CallbackStep, CloseStep, Callback

(* Only a running Reload holds a loaded content. *)
LEMMA LoadedStep ==
  ASSUME TypeOK, OffInv, LoadedInv, [Next]_hrVars
  PROVE  LoadedInv'
<1>1. ASSUME NEW p \in Paths, Remove(p), UNCHANGED <<served, loaded, shut>>
      PROVE  LoadedInv'
  BY <1>1 DEF Remove, LoadedInv, monitorVars, Reloading, KnownPaths, fileVars, dmVars, Alter
<1>2. ASSUME NEW p \in Paths, NEW c \in Contents, Write(p, c), UNCHANGED <<served, loaded, shut>>
      PROVE  LoadedInv'
  BY <1>2 DEF Write, LoadedInv, monitorVars, Reloading, KnownPaths, fileVars, dmVars, Alter
<1>3. ASSUME NEW p \in Paths, NEW q \in Paths, Move(p, q), UNCHANGED <<served, loaded, shut>>
      PROVE  LoadedInv'
  BY <1>3 DEF Move, LoadedInv, monitorVars, Reloading, KnownPaths, fileVars, dmVars, Alter
<1>4. ASSUME ReadEvent, UNCHANGED <<served, loaded, shut>>
      PROVE  LoadedInv'
  BY <1>4 DEF ReadEvent, LoadedInv, monitorVars, Reloading, KnownPaths, fileVars, dmVars
<1>5. ASSUME LoopExit, UNCHANGED <<served, loaded, shut>>
      PROVE  LoadedInv'
  BY <1>5 DEF LoopExit, LoadedInv, monitorVars, Reloading, KnownPaths, fileVars, dmVars
<1>6. ASSUME NEW k \in Keys, Fire(k), UNCHANGED <<served, loaded, shut>>
      PROVE  LoadedInv'
  BY <1>6 DEF Fire, LoadedInv, monitorVars, Reloading, KnownPaths, fileVars, dmVars
<1>7. ASSUME NEW p \in Paths, RemoveTimer(p), UNCHANGED <<served, loaded, shut>>
      PROVE  LoadedInv'
  BY <1>7 DEF RemoveTimer, LoadedInv, monitorVars, Reloading, KnownPaths, fileVars, dmVars
<1>8. ASSUME NEW p \in Paths, Settle(p), UNCHANGED <<served, loaded, shut>>
      PROVE  LoadedInv'
  BY <1>8 DEF Settle, LoadedInv, monitorVars, Reloading, KnownPaths, fileVars, dmVars
<1>9. ASSUME NEW p \in Paths, NEW op \in Ops, AbandonOffer(p, op), UNCHANGED <<served, loaded, shut>>
      PROVE  LoadedInv'
  BY <1>9 DEF AbandonOffer, LoadedInv, monitorVars, Reloading, KnownPaths, fileVars, dmVars
<1>10. ASSUME NEW p \in Paths, NEW op \in Ops, Receive(p, op), UNCHANGED <<served, loaded, shut>>
       PROVE  LoadedInv'
  BY <1>10 DEF Receive, LoadedInv, monitorVars, Reloading, KnownPaths, fileVars, dmVars, Idle
<1>11. ASSUME HandlerExit, UNCHANGED <<served, loaded, shut>>
       PROVE  LoadedInv'
  BY <1>11 DEF HandlerExit, LoadedInv, monitorVars, Reloading, KnownPaths, fileVars, dmVars, Idle
<1>12. ASSUME CloseTimers, UNCHANGED <<served, loaded, shut>>
       PROVE  LoadedInv'
  BY <1>12 DEF CloseTimers, LoadedInv, monitorVars, Reloading, KnownPaths, fileVars, dmVars
<1>13. ASSUME CloseWatcher, UNCHANGED <<served, loaded, shut>>
       PROVE  LoadedInv'
  BY <1>13 DEF CloseWatcher, LoadedInv, monitorVars, Reloading, KnownPaths, fileVars, dmVars
<1>14. ASSUME CloseWait, UNCHANGED <<served, loaded, shut>>
       PROVE  LoadedInv'
  BY <1>14 DEF CloseWait, LoadedInv, monitorVars, Reloading, KnownPaths, fileVars, dmVars
<1>15. ASSUME CloseQuit, UNCHANGED <<served, loaded, shut>>
       PROVE  LoadedInv'
  BY <1>15 DEF CloseQuit, LoadedInv, monitorVars, Reloading, KnownPaths, fileVars, dmVars
<1>16. ASSUME StartWatcher
       PROVE  LoadedInv'
  BY <1>16 DEF StartWatcher, StartMonitor, LoadedInv, monitorVars, Reloading, KnownPaths, fileVars, dmVars, OffInv, Off
<1>17. ASSUME NEW p \in Paths, Load(p)
       PROVE  LoadedInv'
  BY <1>17 DEF Load, LoadedInv, monitorVars, Reloading, KnownPaths, fileVars, dmVars, Ops
<1>18. ASSUME NEW p \in Paths, ReloadFails(p)
       PROVE  LoadedInv'
  BY <1>18 DEF ReloadFails, LoadedInv
<1>19. ASSUME NEW p \in Paths, Install(p)
       PROVE  LoadedInv'
  BY <1>19 DEF Install, CallbackReturns, LoadedInv, monitorVars, Reloading, KnownPaths, fileVars, dmVars
<1>20. ASSUME NEW p \in Paths, Delete(p)
       PROVE  LoadedInv'
  BY <1>20 DEF Delete, CallbackReturns, LoadedInv, monitorVars, Reloading, KnownPaths, fileVars, dmVars, Dropping
<1>21. ASSUME Release
       PROVE  LoadedInv'
  BY <1>21 DEF Release, LoadedInv, monitorVars, Reloading, KnownPaths, fileVars, dmVars
<1>22. CASE UNCHANGED hrVars
  BY <1>22 DEF hrVars, dmVars, fileVars, LoadedInv, monitorVars, Reloading, KnownPaths, fileVars, dmVars
<1>. QED
  BY <1>1, <1>2, <1>3, <1>4, <1>5, <1>6, <1>7, <1>8, <1>9, <1>10, <1>11, <1>12, <1>13, <1>14, <1>15, <1>16, <1>17, <1>18, <1>19, <1>20, <1>21, <1>22
     DEF Next, Environment, MonitorStep, Loop, CallbackStep, CloseStep, Callback

(* After Close the registry is empty and stays so. *)
LEMMA ShutStep ==
  ASSUME TypeOK, OffInv, ShutInv, [Next]_hrVars
  PROVE  ShutInv'
<1> USE ReloadAssumption
<1>1. ASSUME NEW p \in Paths, Remove(p), UNCHANGED <<served, loaded, shut>>
      PROVE  ShutInv'
  BY <1>1 DEF Remove, ShutInv, monitorVars, TypeOK, MonitorTypeOK, fileVars, dmVars, Quit, Alter
<1>2. ASSUME NEW p \in Paths, NEW c \in Contents, Write(p, c), UNCHANGED <<served, loaded, shut>>
      PROVE  ShutInv'
  BY <1>2 DEF Write, ShutInv, monitorVars, TypeOK, MonitorTypeOK, fileVars, dmVars, Quit, Alter
<1>3. ASSUME NEW p \in Paths, NEW q \in Paths, Move(p, q), UNCHANGED <<served, loaded, shut>>
      PROVE  ShutInv'
  BY <1>3 DEF Move, ShutInv, monitorVars, TypeOK, MonitorTypeOK, fileVars, dmVars, Quit, Alter
<1>4. ASSUME ReadEvent, UNCHANGED <<served, loaded, shut>>
      PROVE  ShutInv'
  BY <1>4 DEF ReadEvent, ShutInv, monitorVars, TypeOK, MonitorTypeOK, fileVars, dmVars, Quit
<1>5. ASSUME LoopExit, UNCHANGED <<served, loaded, shut>>
      PROVE  ShutInv'
  BY <1>5 DEF LoopExit, ShutInv, monitorVars, TypeOK, MonitorTypeOK, fileVars, dmVars, Quit
<1>6. ASSUME NEW k \in Keys, Fire(k), UNCHANGED <<served, loaded, shut>>
      PROVE  ShutInv'
  BY <1>6 DEF Fire, ShutInv, monitorVars, TypeOK, MonitorTypeOK, fileVars, dmVars, Quit
<1>7. ASSUME NEW p \in Paths, RemoveTimer(p), UNCHANGED <<served, loaded, shut>>
      PROVE  ShutInv'
  BY <1>7 DEF RemoveTimer, ShutInv, monitorVars, TypeOK, MonitorTypeOK, fileVars, dmVars, Quit
<1>8. ASSUME NEW p \in Paths, Settle(p), UNCHANGED <<served, loaded, shut>>
      PROVE  ShutInv'
  BY <1>8 DEF Settle, ShutInv, monitorVars, TypeOK, MonitorTypeOK, fileVars, dmVars, Quit
<1>9. ASSUME NEW p \in Paths, NEW op \in Ops, AbandonOffer(p, op), UNCHANGED <<served, loaded, shut>>
      PROVE  ShutInv'
  BY <1>9 DEF AbandonOffer, ShutInv, monitorVars, TypeOK, MonitorTypeOK, fileVars, dmVars, Quit
<1>10. ASSUME NEW p \in Paths, NEW op \in Ops, Receive(p, op), UNCHANGED <<served, loaded, shut>>
       PROVE  ShutInv'
  BY <1>10 DEF Receive, ShutInv, monitorVars, TypeOK, MonitorTypeOK, fileVars, dmVars, Quit, Idle, Exited
<1>11. ASSUME HandlerExit, UNCHANGED <<served, loaded, shut>>
       PROVE  ShutInv'
  BY <1>11 DEF HandlerExit, ShutInv, monitorVars, TypeOK, MonitorTypeOK, fileVars, dmVars, Quit, Idle, Exited
<1>12. ASSUME CloseTimers, UNCHANGED <<served, loaded, shut>>
       PROVE  ShutInv'
  BY <1>12 DEF CloseTimers, ShutInv, monitorVars, TypeOK, MonitorTypeOK, fileVars, dmVars, Quit
<1>13. ASSUME CloseWatcher, UNCHANGED <<served, loaded, shut>>
       PROVE  ShutInv'
  BY <1>13 DEF CloseWatcher, ShutInv, monitorVars, TypeOK, MonitorTypeOK, fileVars, dmVars, Quit, OffInv
<1>14. ASSUME CloseWait, UNCHANGED <<served, loaded, shut>>
       PROVE  ShutInv'
  BY <1>14 DEF CloseWait, ShutInv, monitorVars, TypeOK, MonitorTypeOK, fileVars, dmVars, Quit
<1>15. ASSUME CloseQuit, UNCHANGED <<served, loaded, shut>>
       PROVE  ShutInv'
  BY <1>15 DEF CloseQuit, ShutInv, monitorVars, TypeOK, MonitorTypeOK, fileVars, dmVars, Quit
<1>16. ASSUME StartWatcher
       PROVE  ShutInv'
  BY <1>16 DEF StartWatcher, StartMonitor, ShutInv, monitorVars, TypeOK, MonitorTypeOK, fileVars, dmVars, Quit, OffInv
<1>17. ASSUME NEW p \in Paths, Load(p)
       PROVE  ShutInv'
  BY <1>17 DEF Load, ShutInv, monitorVars, TypeOK, MonitorTypeOK, fileVars, dmVars, Quit, Reloading, Dropping, Exited, Off, OffInv
<1>18. ASSUME NEW p \in Paths, ReloadFails(p)
       PROVE  ShutInv'
  BY <1>18 DEF ReloadFails, CallbackReturns, ShutInv, monitorVars, TypeOK, MonitorTypeOK, fileVars, dmVars, Quit, Reloading, Dropping, Exited, Off, OffInv
<1>19. ASSUME NEW p \in Paths, Install(p)
       PROVE  ShutInv'
  BY <1>19 DEF Install, CallbackReturns, ShutInv, monitorVars, TypeOK, MonitorTypeOK, fileVars, dmVars, Quit, Reloading, Dropping, Exited, Off, OffInv
<1>20. ASSUME NEW p \in Paths, Delete(p)
       PROVE  ShutInv'
  BY <1>20 DEF Delete, CallbackReturns, ShutInv, monitorVars, TypeOK, MonitorTypeOK, fileVars, dmVars, Quit, Reloading, Dropping, Exited, Off, OffInv
<1>21. ASSUME Release
       PROVE  ShutInv'
  BY <1>21 DEF Release, ShutInv, monitorVars, TypeOK, MonitorTypeOK, fileVars, dmVars, Quit
<1>22. CASE UNCHANGED hrVars
  BY <1>22 DEF hrVars, dmVars, fileVars, ShutInv, monitorVars, TypeOK, MonitorTypeOK, fileVars, dmVars, Quit
<1>. QED
  BY <1>1, <1>2, <1>3, <1>4, <1>5, <1>6, <1>7, <1>8, <1>9, <1>10, <1>11, <1>12, <1>13, <1>14, <1>15, <1>16, <1>17, <1>18, <1>19, <1>20, <1>21, <1>22
     DEF Next, Environment, MonitorStep, Loop, CallbackStep, CloseStep, Callback

-----------------------------------------------------------------------------
(* The directory and the registry, for a careful operator. *)

(* A file that is about to be dropped does not reappear. *)
LEMMA DropStep ==
  ASSUME ~RecreateRace, TypeOK, DropInv, [Next]_hrVars
  PROVE  DropInv'
<1>1. ASSUME NEW p \in Paths, Remove(p), UNCHANGED <<served, loaded, shut>>
      PROVE  DropInv'
  BY <1>1, MonitorAssumption DEF Remove, Alter, DropInv, Deleting, TypeOK, MonitorTypeOK
<1>2. ASSUME NEW p \in Paths, NEW c \in Contents, Write(p, c), UNCHANGED <<served, loaded, shut>>
      PROVE  DropInv'
  BY <1>2 DEF Write, Occupy, Alter, DropInv, Deleting, TypeOK, MonitorTypeOK
<1>3. ASSUME NEW p \in Paths, NEW q \in Paths, Move(p, q), UNCHANGED <<served, loaded, shut>>
      PROVE  DropInv'
  <2>1. UNCHANGED <<callbacks, handler>>
    BY <1>3 DEF Move, Alter
  <2>2. ~Deleting(q)
    BY <1>3 DEF Move, Occupy, DropInv
  <2>3. \A x \in Paths : x # q => disk'[x] = disk[x] \/ disk'[x] = Absent
    BY <1>3 DEF Move, Alter, TypeOK, MonitorTypeOK
  <2>. QED
    BY <2>1, <2>2, <2>3 DEF DropInv, Deleting
<1>4. ASSUME ReadEvent, UNCHANGED <<served, loaded, shut>>
      PROVE  DropInv'
  BY <1>4 DEF ReadEvent, DropInv, Deleting, fileVars, dmVars
<1>5. ASSUME LoopExit, UNCHANGED <<served, loaded, shut>>
      PROVE  DropInv'
  BY <1>5 DEF LoopExit, DropInv, Deleting, fileVars, dmVars
<1>6. ASSUME NEW k \in Keys, Fire(k), UNCHANGED <<served, loaded, shut>>
      PROVE  DropInv'
  <2>1. timers[k].path \in Paths
    BY <1>6, TimerEntry DEF Fire, TypeOK, MonitorTypeOK
  <2>2. \A x \in Paths : callbacks'[x]["delete"] = callbacks[x]["delete"]
    <3>1. /\ callbacks \in CallbacksType
          /\ "removeTimer" \in Steps /\ "delete" \in Steps
          /\ callbacks' = [callbacks EXCEPT ![timers[k].path]["removeTimer"] = @ + 1]
      BY <1>6 DEF Fire, CallbacksType, Steps, Ops, TypeOK, MonitorTypeOK
    <3>. QED
      BY <2>1, <3>1, Spawned
  <2>3. UNCHANGED <<disk, handler>>
    BY <1>6 DEF Fire, fileVars
  <2>. QED
    BY <2>2, <2>3 DEF DropInv, Deleting
<1>7. ASSUME NEW p \in Paths, RemoveTimer(p), UNCHANGED <<served, loaded, shut>>
      PROVE  DropInv'
  <2>1. \A x \in Paths : callbacks'[x]["delete"] = callbacks[x]["delete"]
    <3>1. /\ callbacks \in CallbacksType /\ callbacks[p]["removeTimer"] > 0
          /\ "removeTimer" \in Steps /\ "stat" \in Steps /\ "delete" \in Steps
          /\ Advance(p, "removeTimer", "stat")
      BY <1>7 DEF RemoveTimer, CallbacksType, Steps, Ops, TypeOK, MonitorTypeOK
    <3>. QED
      BY <3>1, Advanced
  <2>. QED
    BY <1>7, <2>1 DEF RemoveTimer, DropInv, Deleting, fileVars
<1>8. ASSUME NEW p \in Paths, Settle(p), UNCHANGED <<served, loaded, shut>>
      PROVE  DropInv'
  <2> DEFINE to == IF disk[p] = Absent THEN "delete" ELSE "update"
  <2>1. \A x \in Paths : x # p \/ disk[p] # Absent => callbacks'[x]["delete"] = callbacks[x]["delete"]
    <3>1. /\ callbacks \in CallbacksType /\ callbacks[p]["stat"] > 0
          /\ "stat" \in Steps /\ to \in Steps /\ to # "stat" /\ "delete" \in Steps
          /\ Advance(p, "stat", to)
      BY <1>8 DEF Settle, CallbacksType, Steps, Ops, TypeOK, MonitorTypeOK
    <3>2. \A x \in Paths, r \in Steps :
            callbacks'[x][r] = IF x = p /\ r = "stat" THEN callbacks[x][r] - 1
                               ELSE IF x = p /\ r = to THEN callbacks[x][r] + 1
                               ELSE callbacks[x][r]
      BY <3>1, Advanced
    <3>. QED
      BY <3>1, <3>2
  <2>2. UNCHANGED <<disk, handler>>
    BY <1>8 DEF Settle, fileVars
  <2>. QED
    BY <2>1, <2>2 DEF DropInv, Deleting
<1>9. ASSUME NEW p \in Paths, NEW op \in Ops, AbandonOffer(p, op), UNCHANGED <<served, loaded, shut>>
      PROVE  DropInv'
  <2>1. \A x \in Paths : callbacks'[x]["delete"] <= callbacks[x]["delete"]
    BY <1>9, Taken DEF AbandonOffer, CallbacksType, Steps, Ops, TypeOK, MonitorTypeOK
  <2>2. UNCHANGED <<disk, handler>>
    BY <1>9 DEF AbandonOffer, fileVars
  <2>3. callbacks \in CallbacksType /\ callbacks' \in CallbacksType /\ "delete" \in Steps
    BY <1>9, Taken DEF AbandonOffer, CallbacksType, Steps, Ops, TypeOK, MonitorTypeOK
  <2>4. \A x \in Paths : callbacks'[x]["delete"] > 0 => callbacks[x]["delete"] > 0
    BY <2>1, <2>3 DEF CallbacksType
  <2>. QED
    BY <2>2, <2>4 DEF DropInv, Deleting
<1>10. ASSUME NEW p \in Paths, NEW op \in Ops, Receive(p, op), UNCHANGED <<served, loaded, shut>>
       PROVE  DropInv'
  <2>1. \A x \in Paths : callbacks'[x]["delete"] <= callbacks[x]["delete"]
    BY <1>10, Taken DEF Receive, CallbacksType, Steps, Ops, TypeOK, MonitorTypeOK
  <2>. QED
    BY <1>10, <2>1 DEF Receive, DropInv, Deleting, fileVars, CallbacksType, Steps, Ops, TypeOK, MonitorTypeOK
<1>11. ASSUME HandlerExit, UNCHANGED <<served, loaded, shut>>
       PROVE  DropInv'
  BY <1>11 DEF HandlerExit, DropInv, Deleting, fileVars, dmVars, Exited
<1>12. ASSUME CloseTimers, UNCHANGED <<served, loaded, shut>>
       PROVE  DropInv'
  BY <1>12 DEF CloseTimers, DropInv, Deleting, fileVars, dmVars
<1>13. ASSUME CloseWatcher, UNCHANGED <<served, loaded, shut>>
       PROVE  DropInv'
  BY <1>13 DEF CloseWatcher, DropInv, Deleting, fileVars, dmVars
<1>14. ASSUME CloseWait, UNCHANGED <<served, loaded, shut>>
       PROVE  DropInv'
  BY <1>14 DEF CloseWait, DropInv, Deleting, fileVars, dmVars
<1>15. ASSUME CloseQuit, UNCHANGED <<served, loaded, shut>>
       PROVE  DropInv'
  BY <1>15 DEF CloseQuit, DropInv, Deleting, fileVars, dmVars
<1>16. ASSUME StartWatcher
       PROVE  DropInv'
  BY <1>16 DEF StartWatcher, StartMonitor, DropInv, Deleting, fileVars, dmVars, Idle
<1>17. ASSUME NEW p \in Paths, Load(p)
       PROVE  DropInv'
  BY <1>17 DEF Load, DropInv, Deleting, fileVars, dmVars, monitorVars
<1>18. ASSUME NEW p \in Paths, ReloadFails(p)
       PROVE  DropInv'
  BY <1>18 DEF ReloadFails, CallbackReturns, DropInv, Deleting, fileVars, dmVars, Idle
<1>19. ASSUME NEW p \in Paths, Install(p)
       PROVE  DropInv'
  BY <1>19 DEF Install, CallbackReturns, DropInv, Deleting, fileVars, dmVars, Idle
<1>20. ASSUME NEW p \in Paths, Delete(p)
       PROVE  DropInv'
  BY <1>20 DEF Delete, CallbackReturns, DropInv, Deleting, fileVars, dmVars, Idle
<1>21. ASSUME Release
       PROVE  DropInv'
  BY <1>21 DEF Release, DropInv, Deleting, fileVars, dmVars, monitorVars
<1>22. CASE UNCHANGED hrVars
  BY <1>22 DEF hrVars, dmVars, fileVars, monitorVars, DropInv, Deleting, fileVars, dmVars
<1>. QED
  BY <1>1, <1>2, <1>3, <1>4, <1>5, <1>6, <1>7, <1>8, <1>9, <1>10, <1>11, <1>12, <1>13, <1>14, <1>15, <1>16, <1>17, <1>18, <1>19, <1>20, <1>21, <1>22
     DEF Next, Environment, MonitorStep, Loop, CallbackStep, CloseStep, Callback

LEMMA QueuedStays ==
  ASSUME events \in Seq(Paths), NEW t \in Seq(Paths), events' = events \o t, NEW x
  PROVE  /\ Queued(x) => Queued(x)'
         /\ (\E i \in DOMAIN t : t[i] = x) => Queued(x)'
<1>1. ASSUME NEW i \in DOMAIN events PROVE \E j \in DOMAIN (events \o t) : (events \o t)[j] = events[i]
  BY AppendedEvents
<1>2. ASSUME NEW i \in DOMAIN t PROVE \E j \in DOMAIN (events \o t) : (events \o t)[j] = t[i]
  BY AppendedEvents
<1>. QED
  BY <1>1, <1>2 DEF Queued

LEMMA ArmedKey ==
  ASSUME TimerInv, NEW x \in Paths, NEW h \in Keys, timers[h] = [path |-> x, armed |-> TRUE]
  PROVE  KeyOf[x] = h
<1>1. timers[h] \in Timer /\ timers[h].path = x
  BY DEF Timer
<1>2. timers[h] # NoTimer
  BY <1>1, NoTimerAssumption
<1>. QED
  BY <1>1, <1>2 DEF TimerInv

(* Close is not undone. *)
LEMMA ClosedStays ==
  ASSUME [Next]_hrVars
  PROVE  (Quit => Quit') /\ (shut => shut')
<1>1. CASE Environment /\ UNCHANGED <<served, loaded, shut>>
  BY <1>1 DEF Environment, Remove, Write, Move, Alter, Quit
<1>2. CASE MonitorStep /\ UNCHANGED <<served, loaded, shut>>
  BY <1>2 DEF MonitorStep, Loop, CallbackStep, CloseStep, ReadEvent, LoopExit, Fire, RemoveTimer,
     Settle, AbandonOffer, Receive, HandlerExit, CloseTimers, CloseWatcher, CloseWait, Quit
<1>3. ASSUME NEW p \in Paths, Callback(p) PROVE (Quit => Quit') /\ (shut => shut')
  BY <1>3 DEF Callback, Load, ReloadFails, Install, Delete, CallbackReturns, dmVars, monitorVars, Quit
<1>4. CASE StartWatcher \/ Release \/ UNCHANGED hrVars
  BY <1>4 DEF StartWatcher, StartMonitor, Release, hrVars, dmVars, monitorVars, Quit
<1>5. CASE CloseQuit /\ UNCHANGED <<served, loaded, shut>>
  BY <1>5 DEF CloseQuit, Quit
<1>. QED
  BY <1>1, <1>2, <1>3, <1>4, <1>5 DEF Next

(* A file stays tracked by a step that does not touch it. *)
LEMMA Untouched ==
  ASSUME NEW x \in KnownPaths, Tracked(x),
         disk'[x] = disk[x], served'[KeyOf[x]] = served[KeyOf[x]],
         Queued(x) => Queued(x)', Armed(x) => Armed(x)',
         \A s \in Steps : callbacks'[x][s] = callbacks[x][s],
         Reloading(x)' <=> Reloading(x), Dropping(x)' <=> Dropping(x),
         Reloading(x) => loaded' = loaded
  PROVE  Tracked(x)'
<1>1. AgreesWith(x)' <=> AgreesWith(x)
  BY DEF AgreesWith
<1>2. OnItsWay(x) => OnItsWay(x)'
  BY DEF OnItsWay, Deleting, Reloading, Dropping, Steps, Ops
<1>. QED
  BY <1>1, <1>2 DEF Tracked

(* No step loses track of a file, if the monitor has no other file of the   *)
(* same key in its hands.                                                   *)
LEMMA PathStep ==
  ASSUME QuietStart, TypeOK, OffInv, TimerInv, LoadedInv, DropInv, [Next]_hrVars,
         NEW x \in KnownPaths, x \in Watched, Alone(x), Tracked(x), ~Quit', ~shut'
  PROVE  Tracked(x)'
<1> USE DEF KnownPaths
<1>1. ASSUME NEW p \in Paths, Remove(p), UNCHANGED <<served, loaded, shut>>
      PROVE  Tracked(x)'
  <2>1. watcher = "watching"
    BY <1>1 DEF Remove, Alter, OffInv, TypeOK, MonitorTypeOK, Quit
  <2>2. events' = events \o <<p>> /\ <<p>> \in Seq(Paths) /\ events \in Seq(Paths)
    BY <1>1, <2>1 DEF Remove, Alter, TypeOK, MonitorTypeOK
  <2>3. CASE x = p
    <3>1. Queued(x)'
      <4>1. \E i \in DOMAIN <<p>> : <<p>>[i] = x
        BY <2>3
      <4>. QED
        BY <2>2, <4>1, QueuedStays
    <3>. QED
      BY <3>1 DEF Tracked, OnItsWay
  <2>4. CASE x # p
    <3>1. disk'[x] = disk[x] /\ UNCHANGED <<timers, callbacks, handler>>
      BY <1>1, <2>4 DEF Remove, Alter, KnownPaths, TypeOK, MonitorTypeOK
    <3>2. Queued(x) => Queued(x)'
      BY <2>2, QueuedStays
    <3>. QED
      BY <1>1, <3>1, <3>2, Untouched DEF Armed, Reloading, Dropping
  <2>. QED
    BY <2>3, <2>4
<1>2. ASSUME NEW p \in Paths, NEW c \in Contents, Write(p, c), UNCHANGED <<served, loaded, shut>>
      PROVE  Tracked(x)'
  <2>1. watcher = "watching"
    BY <1>2 DEF Write, Alter, OffInv, TypeOK, MonitorTypeOK, Quit
  <2>2. events' = events \o <<p>> /\ <<p>> \in Seq(Paths) /\ events \in Seq(Paths)
    BY <1>2, <2>1 DEF Write, Alter, TypeOK, MonitorTypeOK
  <2>3. CASE x = p
    <3>1. Queued(x)'
      <4>1. \E i \in DOMAIN <<p>> : <<p>>[i] = x
        BY <2>3
      <4>. QED
        BY <2>2, <4>1, QueuedStays
    <3>. QED
      BY <3>1 DEF Tracked, OnItsWay
  <2>4. CASE x # p
    <3>1. disk'[x] = disk[x] /\ UNCHANGED <<timers, callbacks, handler>>
      BY <1>2, <2>4 DEF Write, Alter, KnownPaths, TypeOK, MonitorTypeOK
    <3>2. Queued(x) => Queued(x)'
      BY <2>2, QueuedStays
    <3>. QED
      BY <1>2, <3>1, <3>2, Untouched DEF Armed, Reloading, Dropping
  <2>. QED
    BY <2>3, <2>4
<1>3. ASSUME NEW p \in Paths, NEW q \in Paths, Move(p, q), UNCHANGED <<served, loaded, shut>>
      PROVE  Tracked(x)'
  <2>1. watcher = "watching"
    BY <1>3 DEF Move, Alter, OffInv, TypeOK, MonitorTypeOK, Quit
  <2>2. events' = events \o <<p, q>> /\ <<p, q>> \in Seq(Paths) /\ events \in Seq(Paths)
    BY <1>3, <2>1 DEF Move, Alter, TypeOK, MonitorTypeOK
  <2>3. CASE x = p \/ x = q
    <3>1. Queued(x)'
      <4>1. \E i \in DOMAIN <<p, q>> : <<p, q>>[i] = x
        BY <2>3
      <4>. QED
        BY <2>2, <4>1, QueuedStays
    <3>. QED
      BY <3>1 DEF Tracked, OnItsWay
  <2>4. CASE x # p /\ x # q
    <3>1. disk'[x] = disk[x] /\ UNCHANGED <<timers, callbacks, handler>>
      BY <1>3, <2>4 DEF Move, Alter, KnownPaths, TypeOK, MonitorTypeOK
    <3>2. Queued(x) => Queued(x)'
      BY <2>2, QueuedStays
    <3>. QED
      BY <1>3, <3>1, <3>2, Untouched DEF Armed, Reloading, Dropping
  <2>. QED
    BY <2>3, <2>4
<1>4. ASSUME ReadEvent, UNCHANGED <<served, loaded, shut>>
      PROVE  Tracked(x)'
  <2> DEFINE e == Head(events)
             j == KeyOf[e]
  <2>1. UNCHANGED <<disk, callbacks, handler, closer, served, loaded, shut>>
    BY <1>4 DEF ReadEvent, fileVars
  <2>2. /\ e \in Paths /\ j \in Keys
        /\ \A i \in DOMAIN events : events[i] = e \/ \E h \in DOMAIN events' : events'[h] = events[i]
    BY <1>4, TakenEvent, MonitorAssumption DEF ReadEvent, TypeOK, MonitorTypeOK
  <2>3. CASE x = e
    <3>1. e \in Watched
      BY <2>3
    <3>2. CASE timers[j] = NoTimer
      <4>1. timers'[j] = [path |-> x, armed |-> TRUE]
        BY <1>4, <2>2, <2>3, <3>1, <3>2 DEF ReadEvent, AddOrResetTimer, TypeOK, MonitorTypeOK
      <4>. QED
        BY <2>2, <4>1 DEF Tracked, OnItsWay, Armed
    <3>3. CASE timers[j] # NoTimer
      <4>1. timers[j] \in Timer /\ timers[j].path = x
        <5>1. timers[j] \in Timer /\ timers[j].path \in Paths
          BY <2>2, <3>3, TimerEntry DEF TypeOK, MonitorTypeOK
        <5>2. KeyOf[timers[j].path] = KeyOf[x]
          BY <2>2, <2>3, <3>3 DEF TimerInv
        <5>. QED
          BY <2>2, <3>3, <5>1, <5>2 DEF Alone, InHand
      <4>2. timers'[j] = [timers[j] EXCEPT !.armed = TRUE]
        <5>1. AddOrResetTimer(e)
          BY <1>4, <2>3, <3>1 DEF ReadEvent
        <5>2. timers' = [timers EXCEPT ![j] = [timers[j] EXCEPT !.armed = TRUE]]
          BY <3>3, <5>1, TimerSet
        <5>. QED
          BY <2>2, <5>2 DEF TypeOK, MonitorTypeOK
      <4>3. timers'[j] = [path |-> x, armed |-> TRUE]
        BY <4>1, <4>2 DEF Timer
      <4>. QED
        BY <2>2, <4>3 DEF Tracked, OnItsWay, Armed
    <3>. QED
      BY <3>2, <3>3
  <2>4. CASE x # e
    <3>1. Queued(x) => Queued(x)'
      BY <2>2, <2>4 DEF Queued
    <3>2. ASSUME NEW h \in Keys, timers[h] = [path |-> x, armed |-> TRUE] PROVE timers'[h] = timers[h]
      <4>1. KeyOf[x] = h
        BY <3>2, ArmedKey DEF KnownPaths
      <4>2. h # j
        <5>1. Queued(e)
          BY <1>4 DEF ReadEvent, Queued, TypeOK, MonitorTypeOK
        <5>. QED
          BY <2>2, <2>4, <4>1, <5>1 DEF Alone, InHand
      <4>. QED
        BY <1>4, <2>2, <4>2 DEF ReadEvent, AddOrResetTimer, TypeOK, MonitorTypeOK
    <3>. QED
      BY <2>1, <3>1, <3>2, Untouched DEF Armed, Reloading, Dropping
  <2>. QED
    BY <2>3, <2>4
<1>5. ASSUME LoopExit, UNCHANGED <<served, loaded, shut>>
      PROVE  Tracked(x)'
  BY <1>5 DEF LoopExit, OffInv, Quit
<1>6. ASSUME NEW k \in Keys, Fire(k), UNCHANGED <<served, loaded, shut>>
      PROVE  Tracked(x)'
  <2> DEFINE f == timers[k].path
  <2>1. UNCHANGED <<disk, events, handler, closer, served, loaded, shut>>
    BY <1>6 DEF Fire, fileVars
  <2>2. f \in Paths
    BY <1>6, TimerEntry DEF Fire, TypeOK, MonitorTypeOK
  <2>3. \A y \in Paths, s \in Steps :
          callbacks'[y][s] = IF y = f /\ s = "removeTimer" THEN callbacks[y][s] + 1 ELSE callbacks[y][s]
    <3>1. /\ callbacks \in CallbacksType /\ "removeTimer" \in Steps
          /\ callbacks' = [callbacks EXCEPT ![f]["removeTimer"] = @ + 1]
      BY <1>6 DEF Fire, CallbacksType, Steps, TypeOK, MonitorTypeOK
    <3> HIDE DEF f
    <3>. QED
      BY <2>2, <3>1, Spawned
  <2>4. CASE x = f
    <3>1. callbacks'[x]["removeTimer"] > 0
      BY <2>2, <2>3, <2>4 DEF CallbacksType, Steps, TypeOK, MonitorTypeOK
    <3>. QED
      BY <3>1 DEF Tracked, OnItsWay
  <2>5. CASE x # f
    <3>1. ASSUME NEW h \in Keys, timers[h] = [path |-> x, armed |-> TRUE] PROVE timers'[h] = timers[h]
      <4>1. h # k
        BY <2>5, <3>1
      <4>. QED
        BY <1>6, <4>1 DEF Fire, TypeOK, MonitorTypeOK
    <3>2. \A s \in Steps : callbacks'[x][s] = callbacks[x][s]
      BY <2>3, <2>5 DEF KnownPaths
    <3>. QED
      BY <2>1, <3>1, <3>2, Untouched DEF Armed, Queued, Reloading, Dropping
  <2>. QED
    BY <2>4, <2>5
<1>7. ASSUME NEW p \in Paths, RemoveTimer(p), UNCHANGED <<served, loaded, shut>>
      PROVE  Tracked(x)'
  <2>1. UNCHANGED <<disk, events, handler, closer, served, loaded, shut>>
    BY <1>7 DEF RemoveTimer, fileVars
  <2>2. /\ callbacks \in CallbacksType /\ callbacks[p]["removeTimer"] > 0
        /\ "removeTimer" \in Steps /\ "stat" \in Steps
        /\ Advance(p, "removeTimer", "stat")
    BY <1>7 DEF RemoveTimer, CallbacksType, Steps, TypeOK, MonitorTypeOK
  <2>3. /\ callbacks'[p]["stat"] = callbacks[p]["stat"] + 1
        /\ \A y \in Paths : y # p => \A s \in Steps : callbacks'[y][s] = callbacks[y][s]
    BY <2>2, Advanced
  <2>4. CASE x = p
    <3>1. callbacks'[x]["stat"] > 0
      BY <2>2, <2>3, <2>4 DEF CallbacksType
    <3>. QED
      BY <3>1 DEF Tracked, OnItsWay
  <2>5. CASE x # p
    <3>1. ASSUME NEW h \in Keys, timers[h] = [path |-> x, armed |-> TRUE] PROVE timers'[h] = timers[h]
      <4>1. KeyOf[x] = h
        BY <3>1, ArmedKey DEF KnownPaths
      <4>2. h # KeyOf[p]
        BY <2>2, <2>5, <4>1 DEF Alone, InHand, Pending
      <4>. QED
        BY <1>7, <4>2 DEF RemoveTimer, TypeOK, MonitorTypeOK
    <3>2. \A s \in Steps : callbacks'[x][s] = callbacks[x][s]
      BY <2>3, <2>5 DEF KnownPaths
    <3>. QED
      BY <2>1, <3>1, <3>2, Untouched DEF Armed, Queued, Reloading, Dropping
  <2>. QED
    BY <2>4, <2>5
<1>8. ASSUME NEW p \in Paths, Settle(p), UNCHANGED <<served, loaded, shut>>
      PROVE  Tracked(x)'
  <2> DEFINE to == IF disk[p] = Absent THEN "delete" ELSE "update"
  <2>1. UNCHANGED <<disk, events, timers, handler, closer, served, loaded, shut>>
    BY <1>8 DEF Settle, fileVars
  <2>2. /\ callbacks \in CallbacksType /\ callbacks[p]["stat"] > 0
        /\ "stat" \in Steps /\ to \in Steps /\ to # "stat"
        /\ Advance(p, "stat", to)
    BY <1>8 DEF Settle, CallbacksType, Steps, Ops, TypeOK, MonitorTypeOK
  <2>3. \A y \in Paths, r \in Steps :
          callbacks'[y][r] = IF y = p /\ r = "stat" THEN callbacks[y][r] - 1
                             ELSE IF y = p /\ r = to THEN callbacks[y][r] + 1
                             ELSE callbacks[y][r]
    BY <2>2, Advanced
  <2>4. CASE x = p
    <3>1. callbacks'[p][to] > 0
      BY <2>2, <2>3 DEF CallbacksType
    <3>. QED
      BY <2>1, <2>4, <3>1 DEF Tracked, OnItsWay, Deleting
  <2>5. CASE x # p
    <3>1. \A s \in Steps : callbacks'[x][s] = callbacks[x][s]
      BY <2>3, <2>5 DEF KnownPaths
    <3>. QED
      BY <2>1, <3>1, Untouched DEF Armed, Queued, Reloading, Dropping
  <2>. QED
    BY <2>4, <2>5
<1>9. ASSUME NEW p \in Paths, NEW op \in Ops, AbandonOffer(p, op), UNCHANGED <<served, loaded, shut>>
      PROVE  Tracked(x)'
  BY <1>9 DEF AbandonOffer, Quit
<1>10. ASSUME NEW p \in Paths, NEW op \in Ops, Receive(p, op), UNCHANGED <<served, loaded, shut>>
       PROVE  Tracked(x)'
  <2>1. UNCHANGED <<disk, events, timers, closer, served, loaded, shut>>
    BY <1>10 DEF Receive, fileVars
  <2>2. /\ callbacks \in CallbacksType /\ callbacks[p][op] > 0 /\ op \in Steps
        /\ callbacks' = [callbacks EXCEPT ![p][op] = @ - 1]
        /\ handler = Idle /\ handler' = [op |-> op, path |-> p]
    BY <1>10 DEF Receive, CallbacksType, Steps, Ops, TypeOK, MonitorTypeOK
  <2>3. \A y \in Paths, s \in Steps :
          callbacks'[y][s] = IF y = p /\ s = op THEN callbacks[y][s] - 1 ELSE callbacks[y][s]
    BY <2>2, Taken
  <2>4. \A y \in Paths : ~Reloading(y) /\ ~Dropping(y)
    BY <2>2 DEF Reloading, Dropping, Idle
  <2>5. loaded = NoDB
    BY <2>4 DEF LoadedInv, KnownPaths
  <2>6. CASE x = p /\ op = "update"
    <3>1. Reloading(x)'
      BY <2>2, <2>6 DEF Reloading
    <3>2. CASE disk[x] # Absent
      BY <2>1, <2>5, <3>1, <3>2 DEF Tracked, OnItsWay
    <3>3. CASE disk[x] = Absent
      <4>1. AgreesWith(x)' = AgreesWith(x)
        BY <2>1 DEF AgreesWith
      <4>2. \A s \in {"removeTimer", "stat", "delete"} : callbacks'[x][s] = callbacks[x][s]
        BY <2>3, <2>6 DEF Steps, Ops, KnownPaths
      <4>3. Queued(x)' = Queued(x) /\ Armed(x)' = Armed(x)
        BY <2>1 DEF Queued, Armed
      <4>4. Deleting(x) => Deleting(x)'
        BY <2>4, <4>2 DEF Deleting, Dropping, KnownPaths
      <4>. QED
        BY <2>1, <2>5, <3>3, <4>1, <4>2, <4>3, <4>4 DEF Tracked, OnItsWay
    <3>. QED
      BY <3>2, <3>3
  <2>7. CASE x = p /\ op = "delete"
    <3>1. Deleting(x) /\ Deleting(x)'
      BY <2>2, <2>7 DEF Deleting
    <3>. QED
      BY <2>1, <3>1 DEF DropInv, KnownPaths, Tracked, OnItsWay
  <2>8. CASE x # p
    <3>1. \A s \in Steps : callbacks'[x][s] = callbacks[x][s]
      BY <2>3, <2>8 DEF KnownPaths
    <3>2. ~Reloading(x)' /\ ~Dropping(x)'
      BY <2>2, <2>8 DEF Reloading, Dropping
    <3>3. ~Reloading(x) /\ ~Dropping(x)
      BY <2>4 DEF KnownPaths
    <3>. QED
      BY <2>1, <3>1, <3>2, <3>3, Untouched DEF Armed, Queued
  <2>. QED
    BY <2>6, <2>7, <2>8 DEF Ops
<1>11. ASSUME HandlerExit, UNCHANGED <<served, loaded, shut>>
       PROVE  Tracked(x)'
  BY <1>11 DEF HandlerExit, Quit
<1>12. ASSUME CloseTimers, UNCHANGED <<served, loaded, shut>>
       PROVE  Tracked(x)'
  BY <1>12 DEF CloseTimers, Quit
<1>13. ASSUME CloseWatcher, UNCHANGED <<served, loaded, shut>>
       PROVE  Tracked(x)'
  BY <1>13 DEF CloseWatcher, Quit
<1>14. ASSUME CloseWait, UNCHANGED <<served, loaded, shut>>
       PROVE  Tracked(x)'
  BY <1>14 DEF CloseWait, Quit
<1>15. ASSUME CloseQuit, UNCHANGED <<served, loaded, shut>>
       PROVE  Tracked(x)'
  BY <1>15 DEF CloseQuit, Quit
<1>16. ASSUME StartWatcher
       PROVE  Tracked(x)'
  <2>1. UNCHANGED <<disk, events, timers, callbacks, closer, served, loaded, shut>>
    BY <1>16 DEF StartWatcher, StartMonitor, fileVars
  <2>2. \A y \in Paths : ~Reloading(y) /\ ~Dropping(y) /\ ~Reloading(y)' /\ ~Dropping(y)'
    BY <1>16 DEF StartWatcher, StartMonitor, OffInv, Off, Idle, Reloading, Dropping
  <2>. QED
    BY <2>1, <2>2, Untouched DEF Armed, Queued
<1>17. ASSUME NEW p \in Paths, Load(p)
       PROVE  Tracked(x)'
  <2>1. UNCHANGED <<disk, events, timers, callbacks, handler, closer, served, shut>>
    BY <1>17 DEF Load, dmVars, fileVars, monitorVars
  <2>2. CASE x = p
    BY <1>17, <2>1, <2>2, MonitorAssumption, ReloadAssumption DEF Load, Tracked, OnItsWay, Reloading
  <2>3. CASE x # p
    <3>1. ~Reloading(x)
      BY <1>17, <2>3 DEF Load, Reloading
    <3>. QED
      BY <2>1, <3>1, Untouched DEF Armed, Queued, Reloading, Dropping
  <2>. QED
    BY <2>2, <2>3
<1>18. ASSUME NEW p \in Paths, ReloadFails(p)
       PROVE  Tracked(x)'
  <2>1. UNCHANGED <<disk, events, timers, callbacks, closer, served, loaded, shut>> /\ handler' = Idle
    BY <1>18 DEF ReloadFails, CallbackReturns, fileVars
  <2>2. \A y \in Paths : ~Reloading(y)' /\ ~Dropping(y)' /\ (y # p => ~Reloading(y) /\ ~Dropping(y))
    BY <1>18, <2>1 DEF ReloadFails, Reloading, Dropping, Idle
  <2>3. CASE x = p
    <3>1. loaded = NoDB /\ disk[x] \notin Valid
      BY <1>18, <2>2, <2>3 DEF ReloadFails
    <3>2. CASE disk[x] # Absent
      BY <2>1, <2>2, <3>1, <3>2 DEF Tracked, AgreesWith
    <3>3. CASE disk[x] = Absent
      <4>1. AgreesWith(x)' = AgreesWith(x) /\ Queued(x)' = Queued(x) /\ Armed(x)' = Armed(x)
        BY <2>1 DEF AgreesWith, Queued, Armed
      <4>2. ~Dropping(x)
        BY <1>18, <2>3 DEF ReloadFails, Reloading, Dropping
      <4>. QED
        BY <2>1, <2>2, <3>3, <4>1, <4>2 DEF Tracked, OnItsWay, Deleting, Dropping
    <3>. QED
      BY <3>2, <3>3
  <2>4. CASE x # p
    <3>1. served'[KeyOf[x]] = served[KeyOf[x]]
      BY <2>1
    <3>. QED
      BY <2>1, <2>2, <2>4, <3>1, Untouched DEF Armed, Queued
  <2>. QED
    BY <2>3, <2>4
<1>19. ASSUME NEW p \in Paths, Install(p)
       PROVE  Tracked(x)'
  <2>1. UNCHANGED <<disk, events, timers, callbacks, closer, shut>> /\ handler' = Idle
    BY <1>19 DEF Install, CallbackReturns, fileVars
  <2>2. \A y \in Paths : ~Reloading(y)' /\ ~Dropping(y)' /\ (y # p => ~Reloading(y) /\ ~Dropping(y))
    BY <1>19, <2>1 DEF Install, Reloading, Dropping, Idle
  <2>3. CASE x = p
    <3>1. loaded # NoDB /\ loaded' = NoDB /\ served'[KeyOf[x]] = loaded /\ loaded \in Valid /\ Reloading(x)
      BY <1>19, <2>2, <2>3 DEF Install, TypeOK
    <3>2. CASE loaded = disk[x]
      BY <2>1, <3>1, <3>2, MonitorAssumption, ReloadAssumption DEF Tracked, AgreesWith
    <3>3. CASE loaded # disk[x]
      <4>1. OnItsWay(x) /\ ~(Reloading(x) /\ loaded \in {NoDB, disk[x]})
        BY <3>1, <3>3 DEF Tracked
      <4>2. ~Dropping(x)
        BY <3>1 DEF Reloading, Dropping
      <4>3. Queued(x)' = Queued(x) /\ Armed(x)' = Armed(x)
        BY <2>1 DEF Queued, Armed
      <4>. QED
        BY <2>1, <4>1, <4>2, <4>3 DEF Tracked, OnItsWay, Deleting, Dropping
    <3>. QED
      BY <3>2, <3>3
  <2>4. CASE x # p
    <3>1. served'[KeyOf[x]] = served[KeyOf[x]]
      BY <1>19, <2>2, <2>4 DEF Install, Alone, InHand, TypeOK
    <3>. QED
      BY <2>1, <2>2, <2>4, <3>1, Untouched DEF Armed, Queued
  <2>. QED
    BY <2>3, <2>4
<1>20. ASSUME NEW p \in Paths, Delete(p)
       PROVE  Tracked(x)'
  <2>1. UNCHANGED <<disk, events, timers, callbacks, closer, loaded, shut>> /\ handler' = Idle
    BY <1>20 DEF Delete, CallbackReturns, fileVars
  <2>2. \A y \in Paths : ~Reloading(y)' /\ ~Dropping(y)' /\ (y # p => ~Reloading(y) /\ ~Dropping(y))
    BY <1>20, <2>1 DEF Delete, Reloading, Dropping, Idle
  <2>3. CASE x = p
    <3>1. disk[x] = Absent
      BY <1>20, <2>2, <2>3 DEF Delete, Dropping, DropInv, Deleting
    <3>2. served'[KeyOf[x]] = NoDB
      BY <1>20, <2>2, <2>3 DEF Delete
    <3>. QED
      BY <2>1, <2>2, <3>1, <3>2 DEF Tracked, AgreesWith
  <2>4. CASE x # p
    <3>1. served'[KeyOf[x]] = served[KeyOf[x]]
      BY <1>20, <2>2, <2>4 DEF Delete, Alone, InHand, TypeOK
    <3>. QED
      BY <2>1, <2>2, <2>4, <3>1, Untouched DEF Armed, Queued
  <2>. QED
    BY <2>3, <2>4
<1>21. ASSUME Release
       PROVE  Tracked(x)'
  BY <1>21 DEF Release
<1>22. CASE UNCHANGED hrVars
  <2>1. UNCHANGED <<disk, events, timers, callbacks, handler, closer, served, loaded, shut>>
    BY <1>22 DEF hrVars, dmVars, fileVars, monitorVars
  <2>. QED
    BY <2>1, Untouched DEF Armed, Queued, Reloading, Dropping
<1>. QED
  BY <1>1, <1>2, <1>3, <1>4, <1>5, <1>6, <1>7, <1>8, <1>9, <1>10, <1>11, <1>12, <1>13, <1>14, <1>15, <1>16, <1>17, <1>18, <1>19, <1>20, <1>21, <1>22
     DEF Next, Environment, MonitorStep, Loop, CallbackStep, CloseStep, Callback

(* For a careful operator every file is alone with its key. *)
LEMMA WayStep ==
  ASSUME CarefulOperator, TypeOK, OffInv, TimerInv, LoadedInv, DropInv, WayInv, [Next]_hrVars
  PROVE  WayInv'
<1>1. (Quit => Quit') /\ (shut => shut')
  BY ClosedStays
<1>2. ASSUME NEW x \in KnownPaths, ~Quit', ~shut' PROVE Tracked(x)'
  <2>1. Tracked(x)
    BY <1>1, <1>2 DEF WayInv
  <2>2. QuietStart /\ x \in Watched /\ Alone(x)
    BY DEF CarefulOperator, KnownPaths, Alone
  <2>. QED
    BY <1>2, <2>1, <2>2, PathStep
<1>. QED
  BY <1>2 DEF WayInv, KnownPaths

(* Only an edition with a file is ever served. *)
LEMMA NoFileStep ==
  ASSUME TypeOK, LoadedInv, NoFileInv, [Next]_hrVars
  PROVE  NoFileInv'
<1>1. ASSUME NEW p \in Paths, Remove(p), UNCHANGED <<served, loaded, shut>>
      PROVE  NoFileInv'
  BY <1>1 DEF Remove, NoFileInv, dmVars
<1>2. ASSUME NEW p \in Paths, NEW c \in Contents, Write(p, c), UNCHANGED <<served, loaded, shut>>
      PROVE  NoFileInv'
  BY <1>2 DEF Write, NoFileInv, dmVars
<1>3. ASSUME NEW p \in Paths, NEW q \in Paths, Move(p, q), UNCHANGED <<served, loaded, shut>>
      PROVE  NoFileInv'
  BY <1>3 DEF Move, NoFileInv, dmVars
<1>4. ASSUME ReadEvent, UNCHANGED <<served, loaded, shut>>
      PROVE  NoFileInv'
  BY <1>4 DEF ReadEvent, NoFileInv, dmVars
<1>5. ASSUME LoopExit, UNCHANGED <<served, loaded, shut>>
      PROVE  NoFileInv'
  BY <1>5 DEF LoopExit, NoFileInv, dmVars
<1>6. ASSUME NEW k \in Keys, Fire(k), UNCHANGED <<served, loaded, shut>>
      PROVE  NoFileInv'
  BY <1>6 DEF Fire, NoFileInv, dmVars
<1>7. ASSUME NEW p \in Paths, RemoveTimer(p), UNCHANGED <<served, loaded, shut>>
      PROVE  NoFileInv'
  BY <1>7 DEF RemoveTimer, NoFileInv, dmVars
<1>8. ASSUME NEW p \in Paths, Settle(p), UNCHANGED <<served, loaded, shut>>
      PROVE  NoFileInv'
  BY <1>8 DEF Settle, NoFileInv, dmVars
<1>9. ASSUME NEW p \in Paths, NEW op \in Ops, AbandonOffer(p, op), UNCHANGED <<served, loaded, shut>>
      PROVE  NoFileInv'
  BY <1>9 DEF AbandonOffer, NoFileInv, dmVars
<1>10. ASSUME NEW p \in Paths, NEW op \in Ops, Receive(p, op), UNCHANGED <<served, loaded, shut>>
       PROVE  NoFileInv'
  BY <1>10 DEF Receive, NoFileInv, dmVars
<1>11. ASSUME HandlerExit, UNCHANGED <<served, loaded, shut>>
       PROVE  NoFileInv'
  BY <1>11 DEF HandlerExit, NoFileInv, dmVars
<1>12. ASSUME CloseTimers, UNCHANGED <<served, loaded, shut>>
       PROVE  NoFileInv'
  BY <1>12 DEF CloseTimers, NoFileInv, dmVars
<1>13. ASSUME CloseWatcher, UNCHANGED <<served, loaded, shut>>
       PROVE  NoFileInv'
  BY <1>13 DEF CloseWatcher, NoFileInv, dmVars
<1>14. ASSUME CloseWait, UNCHANGED <<served, loaded, shut>>
       PROVE  NoFileInv'
  BY <1>14 DEF CloseWait, NoFileInv, dmVars
<1>15. ASSUME CloseQuit, UNCHANGED <<served, loaded, shut>>
       PROVE  NoFileInv'
  BY <1>15 DEF CloseQuit, NoFileInv, dmVars
<1>16. ASSUME StartWatcher
       PROVE  NoFileInv'
  BY <1>16 DEF StartWatcher, StartMonitor, NoFileInv, dmVars
<1>17. ASSUME NEW p \in Paths, Load(p)
       PROVE  NoFileInv'
  BY <1>17 DEF Load, NoFileInv, dmVars
<1>18. ASSUME NEW p \in Paths, ReloadFails(p)
       PROVE  NoFileInv'
  BY <1>18 DEF ReloadFails, CallbackReturns, NoFileInv, dmVars
<1>19. ASSUME NEW p \in Paths, Install(p)
       PROVE  NoFileInv'
  BY <1>19 DEF Install, NoFileInv, LoadedInv, KnownPaths, Reloading, TypeOK
<1>20. ASSUME NEW p \in Paths, Delete(p)
       PROVE  NoFileInv'
  BY <1>20 DEF Delete, CallbackReturns, NoFileInv, dmVars
<1>21. ASSUME Release
       PROVE  NoFileInv'
  BY <1>21 DEF Release, NoFileInv, dmVars
<1>22. CASE UNCHANGED hrVars
  BY <1>22 DEF hrVars, dmVars, fileVars, monitorVars, NoFileInv, dmVars
<1>. QED
  BY <1>1, <1>2, <1>3, <1>4, <1>5, <1>6, <1>7, <1>8, <1>9, <1>10, <1>11, <1>12, <1>13, <1>14, <1>15, <1>16, <1>17, <1>18, <1>19, <1>20, <1>21, <1>22
     DEF Next, Environment, MonitorStep, Loop, CallbackStep, CloseStep, Callback

(* The initial states. *)
LEMMA InitBase == Init => BaseInv
<1> SUFFICES ASSUME Init PROVE BaseInv
  OBVIOUS
<1> USE MonitorAssumption, ReloadAssumption DEF Init, DMInit
<1>1. TypeOK
  <2>1. served \in [Known -> Valid \cup {NoDB}]
    BY DEF New
  <2>2. MonitorTypeOK
    BY DEF MonitorTypeOK
  <2>. QED
    BY <2>1, <2>2 DEF TypeOK
<1>2. OffInv /\ TimerInv /\ LoadedInv /\ ShutInv
  BY DEF OffInv, TimerInv, LoadedInv, ShutInv, Quit
<1>. QED
  BY <1>1, <1>2 DEF BaseInv

LEMMA InitDir ==
  ASSUME CarefulOperator, Init
  PROVE  DirInv
<1>1. DropInv
  BY DEF Init, DMInit, DropInv, Deleting, Off, Steps, Ops
<1>2. WayInv
  <2> SUFFICES ASSUME NEW p \in KnownPaths PROVE Tracked(p)
    BY DEF WayInv
  <2>1. loaded = NoDB /\ New
    BY DEF Init
  <2>2. p \in Paths /\ KeyOf[p] \in Known /\ Present(KeyOf[p]) \subseteq {p}
    BY DEF KnownPaths, Present, CarefulOperator
  <2>3. disk[p] = Absent => Present(KeyOf[p]) = {}
    BY <2>2 DEF Present
  <2>4. disk[p] # Absent => Present(KeyOf[p]) = {p}
    BY <2>2 DEF Present
  <2>5. AgreesWith(p)
    BY <2>1, <2>2, <2>3, <2>4 DEF New, AgreesWith
  <2>. QED
    BY <2>1, <2>5 DEF Tracked
<1>3. NoFileInv
  BY DEF Init, New, NoFileInv, Present
<1>. QED
  BY <1>1, <1>2, <1>3 DEF DirInv

(* The base invariant holds whatever the operator does. *)
LEMMA BaseInvariant == Safety => []BaseInv
<1>1. BaseInv /\ [Next]_hrVars => BaseInv'
  BY TypeStep, OffStep, TimerStep, LoadedStep, ShutStep DEF BaseInv
<1>. QED
  BY InitBase, <1>1, PTL DEF Safety

LEMMA DirInvariant ==
  ASSUME CarefulOperator
  PROVE  Safety => []DirInv
<1>1. Init => DirInv
  BY InitDir
<1>2. BaseInv /\ DirInv /\ [Next]_hrVars => DirInv'
  BY DropStep, WayStep, NoFileStep DEF BaseInv, DirInv, CarefulOperator
<1>. QED
  BY <1>1, <1>2, BaseInvariant, PTL DEF Safety

-----------------------------------------------------------------------------
(* Every variable keeps its type; in particular only contents that parsed   *)
(* are ever served.                                                         *)
THEOREM TypeCorrect == Safety => []TypeOK
BY BaseInvariant, PTL DEF BaseInv

(* After Ops.Close nothing is served and no Reload is half done: Close      *)
(* waits for the only goroutine that stores providers.                      *)
THEOREM ShutForGood == Safety => []StaysShut
<1>1. BaseInv => StaysShut
  <2> SUFFICES ASSUME BaseInv, shut PROVE loaded = NoDB /\ \A k \in Known : served[k] = NoDB
    BY DEF StaysShut
  <2>1. handler = Off \/ handler = Exited
    BY DEF BaseInv, ShutInv, OffInv
  <2>2. \A p \in Paths : ~Reloading(p)
    BY <2>1 DEF Reloading, Off, Exited
  <2>. QED
    BY <2>2 DEF BaseInv, ShutInv, LoadedInv, KnownPaths
<1>. QED
  BY BaseInvariant, <1>1, PTL

(* The registry behind the monitor: every step of the program, whatever the *)
(* operator does to the directory, is one of the registry's operations or   *)
(* none of its business; the swap of a Reload never comes after Close.      *)
THEOREM RegistryDriven == Safety => DrivesRegistry
<1>1. ASSUME BaseInv, [Next]_hrVars
      PROVE  [Reg!RegNext]_<<served, shut>>
  <2>0. served \in [Known -> Valid \cup {NoDB}] /\ loaded \in Valid \cup {NoDB}
    BY <1>1 DEF BaseInv, TypeOK
  <2>1. ASSUME NEW p \in Paths, Install(p) PROVE Reg!RegNext
    <3>1. ~shut
      BY <1>1, <2>1 DEF Install, Reloading, BaseInv, ShutInv, OffInv, Off, Exited
    <3>2. KeyOf[p] \in Known /\ loaded \in Valid
      BY <1>1, <2>0, <2>1 DEF Install, BaseInv, LoadedInv, KnownPaths, Reloading
    <3>3. served' = [served EXCEPT ![KeyOf[p]] = loaded] /\ shut' = shut
      BY <2>1 DEF Install
    <3>4. Reg!Install(KeyOf[p], loaded)
      BY <3>1, <3>3 DEF Reg!Install
    <3>. QED
      BY <3>2, <3>4 DEF Reg!RegNext
  <2>2. ASSUME NEW p \in Paths, Delete(p) PROVE Reg!RegNext \/ UNCHANGED <<served, shut>>
    <3>1. served' = [k \in Known |-> IF k = KeyOf[p] THEN NoDB ELSE served[k]] /\ shut' = shut
      BY <2>2 DEF Delete
    <3>2. CASE KeyOf[p] \in Known
      <4>1. served' = [served EXCEPT ![KeyOf[p]] = NoDB]
        BY <2>0, <3>1
      <4>2. Reg!Remove(KeyOf[p])
        BY <3>1, <4>1 DEF Reg!Remove
      <4>. QED
        BY <3>2, <4>2 DEF Reg!RegNext
    <3>3. CASE KeyOf[p] \notin Known
      BY <2>0, <3>1, <3>3
    <3>. QED
      BY <3>2, <3>3
  <2>3. CASE Release
    <3>1. Reg!Shut
      BY <2>3 DEF Release, Reg!Shut, Reg!Nothing
    <3>. QED
      BY <3>1 DEF Reg!RegNext
  <2>4. ASSUME NEW p \in Paths, Load(p) \/ ReloadFails(p) PROVE UNCHANGED <<served, shut>>
    BY <2>4 DEF Load, ReloadFails
  <2>. QED
    BY <1>1, <2>1, <2>2, <2>3, <2>4 DEF Next, Callback, StartWatcher, hrVars
<1>. QED
  BY <1>1, BaseInvariant, PTL DEF Safety, DrivesRegistry

(* For a careful operator the debouncing, the timer races and the two       *)
(* channels lose no change: while the monitor runs, a database that differs *)
(* from its file has the difference on its way.                             *)
THEOREM NothingLost ==
  ASSUME CarefulOperator
  PROVE  Safety => []NoLostChange
<1>1. BaseInv /\ DirInv => NoLostChange
  <2> SUFFICES ASSUME BaseInv, DirInv, Serving, NEW k \in Known
               PROVE  Agrees(k) \/ \E p \in Paths : KeyOf[p] = k /\ OnItsWay(p)
    BY DEF NoLostChange
  <2>1. ~Quit /\ ~shut
    BY DEF Serving, BaseInv, ShutInv, Quit
  <2>2. CASE \A p \in Paths : KeyOf[p] # k
    BY <2>2 DEF DirInv, NoFileInv, Agrees, Present
  <2>3. ASSUME NEW p \in Paths, KeyOf[p] = k
        PROVE  Agrees(k) \/ OnItsWay(p)
    <3>1. AgreesWith(p) \/ OnItsWay(p)
      BY <2>1, <2>3 DEF DirInv, WayInv, Tracked, KnownPaths
    <3>2. Present(k) \subseteq {p}
      BY <2>3 DEF Present, CarefulOperator
    <3>3. ASSUME AgreesWith(p) PROVE Agrees(k)
      <4>1. CASE disk[p] = Absent
        <5>1. Present(k) = {}
          BY <3>2, <4>1 DEF Present
        <5>. QED
          BY <2>3, <3>3, <4>1, <5>1 DEF AgreesWith, Agrees
      <4>2. CASE disk[p] # Absent
        <5>1. p \in Present(k)
          BY <2>3, <4>2 DEF Present
        <5>. QED
          BY <2>3, <3>3, <4>2, <5>1 DEF AgreesWith, Agrees
      <4>. QED
        BY <4>1, <4>2
    <3>. QED
      BY <3>1, <3>3
  <2>. QED
    BY <2>2, <2>3
<1>. QED
  BY BaseInvariant, DirInvariant, <1>1, PTL

(* For a careful operator a database that is served is dropped only when    *)
(* its file is gone, or by Close.                                           *)
THEOREM DroppedOnlyIfGone ==
  ASSUME CarefulOperator
  PROVE  Safety => DropOnlyIfGone
<1>1. ASSUME BaseInv, DirInv, [Next]_hrVars
      PROVE  [\A k \in Known : served[k] # NoDB /\ served'[k] = NoDB => shut' \/ Present(k) = {}]_hrVars
  <2> SUFFICES ASSUME NEW k \in Known, served[k] # NoDB, served'[k] = NoDB, ~shut', Next
               PROVE  Present(k) = {}
    BY <1>1 DEF hrVars
  <2>1. ~ UNCHANGED served
    OBVIOUS
  <2>2. ~Release /\ ~StartWatcher
    BY <2>1 DEF Release, StartWatcher
  <2>3. ASSUME NEW p \in Paths, Install(p) PROVE FALSE
    BY <1>1, <2>3, ReloadAssumption DEF Install, BaseInv, TypeOK
  <2>4. ASSUME NEW p \in Paths, Delete(p) PROVE Present(k) = {}
    <3>1. KeyOf[p] = k
      BY <2>4 DEF Delete
    <3>2. disk[p] = Absent
      BY <1>1, <2>4 DEF Delete, Dropping, DirInv, DropInv, Deleting
    <3>. QED
      BY <3>1, <3>2 DEF Present, CarefulOperator
  <2>5. PICK p \in Paths : Install(p) \/ Delete(p)
    BY <2>1, <2>2 DEF Next, Callback, Load, ReloadFails
  <2>. QED
    BY <2>3, <2>4, <2>5
<1>. QED
  BY <1>1, BaseInvariant, DirInvariant, PTL DEF Safety, DropOnlyIfGone

-----------------------------------------------------------------------------
(* How far each goroutine of the monitor can be. *)
StageInv ==
  /\ loop = "off" <=> watcher = "off"
  /\ handler = Off <=> watcher = "off"
  /\ handler = Exited => Quit
  /\ closer \in {"waiting", "closed"} => watcher = "closed"
  /\ closer = "closed" => loop = "exited" /\ handler = Exited

LEMMA StageStep ==
  ASSUME TypeOK, OffInv, StageInv, [Next]_hrVars
  PROVE  StageInv'
<1>1. CASE Environment
  BY <1>1 DEF Environment, Remove, Write, Move, Alter, StageInv, Quit
<1>2. CASE UNCHANGED <<watcher, loop, closer, handler>>
  BY <1>2 DEF StageInv, Quit
<1>3. ASSUME ReadEvent \/ (\E k \in Keys : Fire(k)) \/ \E p \in Paths : CallbackStep(p)
      PROVE  UNCHANGED <<watcher, loop, closer, handler>>
  BY <1>3 DEF ReadEvent, Fire, CallbackStep, RemoveTimer, Settle, AbandonOffer
<1>4. CASE LoopExit
  BY <1>4 DEF LoopExit, StageInv, Quit
<1>5. ASSUME NEW p \in Paths, NEW op \in Ops, Receive(p, op) PROVE StageInv'
  BY <1>5 DEF Receive, StageInv, Quit, Off, Idle, Exited
<1>6. CASE HandlerExit
  BY <1>6 DEF HandlerExit, StageInv, Quit, Off, Idle, Exited
<1>7. CASE CloseTimers \/ CloseWatcher \/ CloseWait \/ CloseQuit
  BY <1>7 DEF CloseTimers, CloseWatcher, CloseWait, CloseQuit, StageInv, OffInv, Quit
<1>8. CASE StartWatcher
  BY <1>8 DEF StartWatcher, StartMonitor, StageInv, OffInv, Quit, Off, Idle, Exited, fileVars
<1>9. ASSUME NEW p \in Paths, Callback(p) PROVE StageInv'
  <2>1. handler \notin {Off, Exited}
    BY <1>9 DEF Callback, Load, ReloadFails, Install, Delete, Reloading, Dropping, Off, Exited
  <2>2. handler' \in {handler, Idle} /\ UNCHANGED <<watcher, loop, closer>>
    BY <1>9 DEF Callback, Load, ReloadFails, Install, Delete, CallbackReturns, dmVars, monitorVars
  <2>. QED
    BY <2>1, <2>2 DEF StageInv, Quit, Off, Idle, Exited
<1>10. CASE Release \/ UNCHANGED hrVars
  BY <1>2, <1>10 DEF Release, hrVars, dmVars, monitorVars
<1>. QED
  BY <1>1, <1>2, <1>3, <1>4, <1>5, <1>6, <1>7, <1>8, <1>9, <1>10 DEF Next, MonitorStep, Loop, CloseStep

(* The guards of the steps that handleEvents, inside a callback, and        *)
(* watcherLoop have still to take.                                          *)
CallbackGoesOn ==
  \E p \in Paths :
    \/ Reloading(p) /\ loaded = NoDB /\ KeyOf[p] \in Known /\ disk[p] \in Valid
    \/ Reloading(p) /\ loaded = NoDB /\ (KeyOf[p] \notin Known \/ disk[p] \notin Valid)
    \/ Reloading(p) /\ loaded # NoDB
    \/ Dropping(p)

LoopGoesOn ==
  \/ loop = "reading" /\ watcher = "watching" /\ events # <<>>
  \/ loop = "reading" /\ watcher = "closed"

(* An offer on an unbuffered channel has a receiver, or may be withdrawn;   *)
(* Close waits for goroutines that can return, and has seen them return     *)
(* when it does so itself.                                                  *)
NobodyIsStuck ==
  /\ \A p \in Paths, op \in Ops :
       callbacks[p][op] > 0 => Quit \/ handler = Idle \/ CallbackGoesOn
  /\ closer = "waiting" =>
       /\ loop = "exited" \/ LoopGoesOn
       /\ handler \in {Exited, Idle} \/ CallbackGoesOn
  /\ closer = "closed" => loop = "exited" /\ handler = Exited

(* The timers' goroutines, watcherLoop, handleEvents and Close never wait   *)
(* for something that cannot happen, whatever the operator does and however *)
(* many timers have fired: what GoroutinesEnd and CloseReleases need apart  *)
(* from fairness.                                                           *)
THEOREM EveryWaitHasAnEnd == Safety => []NobodyIsStuck
<1>1. Init => StageInv
  BY DEF Init, DMInit, StageInv, Quit, Off, Exited
<1>2. BaseInv /\ StageInv /\ [Next]_hrVars => StageInv'
  BY StageStep DEF BaseInv
<1>3. BaseInv /\ StageInv => NobodyIsStuck
  <2> SUFFICES ASSUME BaseInv, StageInv PROVE NobodyIsStuck
    OBVIOUS
  <2>1. handler \in Running \cup {Off, Idle, Exited}
    BY DEF BaseInv, TypeOK, MonitorTypeOK
  <2>2. ASSUME handler \in Running PROVE CallbackGoesOn
    <3>1. PICK p \in Paths : Reloading(p) \/ Dropping(p)
      BY <2>2 DEF Running, Ops, Reloading, Dropping
    <3>. QED
      BY <3>1 DEF CallbackGoesOn
  <2>3. ASSUME NEW p \in Paths, NEW op \in Ops, callbacks[p][op] > 0
        PROVE  Quit \/ handler = Idle \/ CallbackGoesOn
    <3>1. handler # Off
      <4>1. op \in Steps /\ ~(callbacks[p][op] = 0)
        BY <2>3 DEF Steps
      <4>. QED
        BY <4>1 DEF BaseInv, OffInv, StageInv
    <3>. QED
      BY <2>1, <2>2, <3>1 DEF StageInv
  <2>4. ASSUME closer = "waiting"
        PROVE  /\ loop = "exited" \/ LoopGoesOn
               /\ handler \in {Exited, Idle} \/ CallbackGoesOn
    <3>1. watcher = "closed" /\ loop # "off" /\ handler # Off
      BY <2>4 DEF StageInv
    <3>. QED
      BY <2>1, <2>2, <3>1 DEF LoopGoesOn, BaseInv, TypeOK, MonitorTypeOK
  <2>. QED
    BY <2>3, <2>4 DEF NobodyIsStuck, StageInv
<1>. QED
  BY BaseInvariant, <1>1, <1>2, <1>3, PTL DEF Safety

=============================================================================
