----------------------------- MODULE DirMonitor -----------------------------
(***************************************************************************)
(* Package internal/dirmonitor: from changes of the files in db_path to    *)
(* update and delete callbacks.  Four kinds of goroutine take part:        *)
(* watcherLoop reads fsnotify's events and (re)arms one debounce timer per *)
(* file; every expiry runs removeTimer and settle in a goroutine of its    *)
(* own, which offers the file on updateCh or deleteCh (both unbuffered);   *)
(* handleEvents takes offers one at a time and runs the callback; Close    *)
(* stops them all.                                                         *)
(*                                                                         *)
(* Time is abstracted away: an armed timer may fire at any moment.  What a *)
(* callback does is left to the module that extends this one.              *)
(***************************************************************************)
EXTENDS Naturals, Sequences

CONSTANTS
  Paths,        \* file names in db_path
  Watched,      \* those with extension ".mmdb", compared with its case
  Keys,         \* lower-case base names
  KeyOf,        \* [Paths -> Keys]: toTimerKey, and also db.ToFilename
  Contents,     \* contents a file may have
  Absent,       \* no such file
  NoTimer,      \* no entry in the timers map
  MaxChanges,   \* bound: how often the directory changes
  QuietStart,   \* environment: no change before the watch is in place
  RecreateRace  \* environment: may a file reappear while a delete decided
                \* from its absence is still on its way?

ASSUME MonitorAssumption ==
  /\ Watched \subseteq Paths
  /\ KeyOf \in [Paths -> Keys]
  /\ Absent \notin Contents
  /\ MaxChanges \in Nat
  /\ QuietStart \in BOOLEAN
  /\ RecreateRace \in BOOLEAN

Ops == {"update", "delete"}
Steps == {"removeTimer", "stat"} \cup Ops

Timer == [path : Paths, armed : BOOLEAN]

ASSUME NoTimerAssumption == NoTimer \notin Timer

VARIABLES
  disk,       \* the directory
  changes,    \* how often it has changed
  watcher,    \* the fsnotify watcher: "off", "watching" or "closed"
  events,     \* its unread events, oldest first; only the name matters
  loop,       \* watcherLoop: "off", "reading" or "exited"
  timers,     \* the debounce timer of each key
  callbacks,  \* how many timer goroutines of a file are before each step
  handler,    \* handleEvents: its state and the file of the running callback
  closer      \* how far Close has come; quit is closed once it has started

fileVars == <<disk, changes>>
monitorVars == <<watcher, events, loop, timers, callbacks, handler, closer>>
dmVars == <<fileVars, monitorVars>>

Running == [op : Ops, path : Paths]
Off == [op |-> "off"]
Idle == [op |-> "idle"]
Exited == [op |-> "exited"]

Quit == closer # "open"

DMInit ==
  /\ disk \in [Paths -> Contents \cup {Absent}]
  /\ changes = 0
  /\ watcher = "off"
  /\ events = <<>>
  /\ loop = "off"
  /\ timers = [k \in Keys |-> NoTimer]
  /\ callbacks = [p \in Paths |-> [s \in Steps |-> 0]]
  /\ handler = Off
  /\ closer = "open"

-----------------------------------------------------------------------------
(* The file system and the operator (or the updater). *)

Deleting(p) == callbacks[p]["delete"] > 0 \/ handler = [op |-> "delete", path |-> p]

Occupy(p) == disk[p] = Absent /\ ~RecreateRace => ~Deleting(p)

Alter(d, names) ==
  /\ changes < MaxChanges
  /\ QuietStart => watcher # "off"
  /\ disk' = d
  /\ changes' = changes + 1
  /\ events' = IF watcher = "watching" THEN events \o names ELSE events
  /\ UNCHANGED <<watcher, loop, timers, callbacks, handler, closer>>

(* Create, write in place, rename over, touch. *)
Write(p, c) == Occupy(p) /\ Alter([disk EXCEPT ![p] = c], <<p>>)

Remove(p) == disk[p] # Absent /\ Alter([disk EXCEPT ![p] = Absent], <<p>>)

Move(p, q) ==
  /\ p # q /\ disk[p] # Absent
  /\ Occupy(q)
  /\ Alter([disk EXCEPT ![p] = Absent, ![q] = disk[p]], <<p, q>>)

-----------------------------------------------------------------------------
(* New adds the watch, Start launches the two goroutines. *)
StartMonitor ==
  /\ watcher = "off"
  /\ watcher' = "watching"
  /\ loop' = "reading"
  /\ handler' = Idle
  /\ UNCHANGED <<fileVars, events, timers, callbacks, closer>>

(* The timer of the file's key, new or not, starts its wait afresh; an old  *)
(* timer keeps the closure, hence the file, it was created with.            *)
AddOrResetTimer(p) ==
  LET k == KeyOf[p] IN
  timers' = [timers EXCEPT ![k] = IF @ = NoTimer THEN [path |-> p, armed |-> TRUE]
                                                 ELSE [@ EXCEPT !.armed = TRUE]]

ReadEvent ==
  /\ loop = "reading" /\ watcher = "watching" /\ events # <<>>
  /\ events' = Tail(events)
  /\ IF Head(events) \in Watched THEN AddOrResetTimer(Head(events)) ELSE UNCHANGED timers
  /\ UNCHANGED <<fileVars, watcher, loop, callbacks, handler, closer>>

LoopExit ==
  /\ loop = "reading" /\ watcher = "closed"
  /\ loop' = "exited"
  /\ UNCHANGED <<fileVars, watcher, events, timers, callbacks, handler, closer>>

-----------------------------------------------------------------------------
(* The timer goroutines. *)

Advance(p, from, to) == callbacks' = [callbacks EXCEPT ![p][from] = @ - 1, ![p][to] = @ + 1]

Fire(k) ==
  /\ timers[k] # NoTimer
  /\ timers[k].armed
  /\ timers' = [timers EXCEPT ![k].armed = FALSE]
  /\ callbacks' = [callbacks EXCEPT ![timers[k].path]["removeTimer"] = @ + 1]
  /\ UNCHANGED <<fileVars, watcher, events, loop, handler, closer>>

(* removeTimer also stops a timer that was reset after it fired, and even   *)
(* one that another file with the same key has put there since.             *)
RemoveTimer(p) ==
  /\ callbacks[p]["removeTimer"] > 0
  /\ Advance(p, "removeTimer", "stat")
  /\ timers' = [timers EXCEPT ![KeyOf[p]] = NoTimer]
  /\ UNCHANGED <<fileVars, watcher, events, loop, handler, closer>>

(* Mutant of Settle: an offer is dropped while handleEvents is busy. *)
SettleUnlessBusy(p) ==
  /\ callbacks[p]["stat"] > 0
  /\ IF handler = Idle THEN Advance(p, "stat", IF disk[p] = Absent THEN "delete" ELSE "update")
                       ELSE callbacks' = [callbacks EXCEPT ![p]["stat"] = @ - 1]
  /\ UNCHANGED <<fileVars, watcher, events, loop, timers, handler, closer>>

(* settle: update or delete is decided from whether the file exists now ... *)
Settle(p) ==
  /\ callbacks[p]["stat"] > 0
  /\ Advance(p, "stat", IF disk[p] = Absent THEN "delete" ELSE "update")
  /\ UNCHANGED <<fileVars, watcher, events, loop, timers, handler, closer>>

(* Mutant of AbandonOffer: settle sends without selecting on quit. *)
AbandonOfferNever(p, op) == callbacks[p][op] > 0 /\ FALSE /\ UNCHANGED dmVars

(* ... and offered until handleEvents takes it or quit is closed. *)
AbandonOffer(p, op) ==
  /\ callbacks[p][op] > 0
  /\ Quit
  /\ callbacks' = [callbacks EXCEPT ![p][op] = @ - 1]
  /\ UNCHANGED <<fileVars, watcher, events, loop, timers, handler, closer>>

-----------------------------------------------------------------------------
(* handleEvents. *)

(* select picks any ready case, in no order between the two channels, and   *)
(* even after quit is closed.                                               *)
Receive(p, op) ==
  /\ handler = Idle
  /\ callbacks[p][op] > 0
  /\ callbacks' = [callbacks EXCEPT ![p][op] = @ - 1]
  /\ handler' = [op |-> op, path |-> p]
  /\ UNCHANGED <<fileVars, watcher, events, loop, timers, closer>>

(* The callback returns; its error is only logged. *)
CallbackReturns ==
  /\ handler \in Running
  /\ handler' = Idle
  /\ UNCHANGED <<fileVars, watcher, events, loop, timers, callbacks, closer>>

(* Mutant of HandlerExit: the loop ends only if a channel is closed. *)
HandlerExitNever == handler = Idle /\ FALSE /\ UNCHANGED dmVars

HandlerExit ==
  /\ handler = Idle
  /\ Quit
  /\ handler' = Exited
  /\ UNCHANGED <<fileVars, watcher, events, loop, timers, callbacks, closer>>

-----------------------------------------------------------------------------
(* Close: close quit, stop the timers, close the watcher, wait for the two  *)
(* goroutines.  Timers stay in the map, and the goroutines of those that    *)
(* have fired are not waited for.                                           *)

CloseQuit ==
  /\ closer = "open" /\ watcher = "watching"
  /\ closer' = "quit"
  /\ UNCHANGED <<fileVars, watcher, events, loop, timers, callbacks, handler>>

CloseTimers ==
  /\ closer = "quit"
  /\ closer' = "stopped"
  /\ timers' = [k \in Keys |-> IF timers[k] = NoTimer THEN NoTimer
                               ELSE [timers[k] EXCEPT !.armed = FALSE]]
  /\ UNCHANGED <<fileVars, watcher, events, loop, callbacks, handler>>

CloseWatcher ==
  /\ closer = "stopped"
  /\ closer' = "waiting"
  /\ watcher' = "closed"
  /\ events' = <<>>
  /\ UNCHANGED <<fileVars, loop, timers, callbacks, handler>>

(* Mutant of CloseWait: handleEvents is not in the wait group. *)
CloseWaitLoopOnly ==
  /\ closer = "waiting"
  /\ loop = "exited"
  /\ closer' = "closed"
  /\ UNCHANGED <<fileVars, watcher, events, loop, timers, callbacks, handler>>

CloseWait ==
  /\ closer = "waiting"
  /\ loop = "exited" /\ handler = Exited
  /\ closer' = "closed"
  /\ UNCHANGED <<fileVars, watcher, events, loop, timers, callbacks, handler>>

-----------------------------------------------------------------------------
Environment ==
  \E p \in Paths : Remove(p) \/ (\E c \in Contents : Write(p, c)) \/ (\E q \in Paths : Move(p, q))

Loop == ReadEvent \/ LoopExit

CallbackStep(p) == RemoveTimer(p) \/ Settle(p) \/ \E op \in Ops : AbandonOffer(p, op)

CloseStep == CloseTimers \/ CloseWatcher \/ CloseWait

(* Every step except those of the callbacks and of the monitor's user. *)
MonitorStep ==
  \/ Loop
  \/ \E k \in Keys : Fire(k)
  \/ \E p \in Paths : CallbackStep(p) \/ \E op \in Ops : Receive(p, op)
  \/ HandlerExit
  \/ CloseStep

(* Every goroutine that can run does and armed timers expire.  An offer     *)
(* waits in a queue on its channel and select is fair between ready         *)
(* channels, so one that is ready again and again is taken.                 *)
MonitorFairness ==
  /\ WF_dmVars(Loop)
  /\ \A k \in Keys : WF_dmVars(Fire(k))
  /\ \A p \in Paths : WF_dmVars(CallbackStep(p)) /\ \A op \in Ops : SF_dmVars(Receive(p, op))
  /\ SF_dmVars(HandlerExit)
  /\ WF_dmVars(CloseStep)

-----------------------------------------------------------------------------
MonitorTypeOK ==
  /\ disk \in [Paths -> Contents \cup {Absent}]
  /\ changes \in Nat
  /\ watcher \in {"off", "watching", "closed"}
  /\ events \in Seq(Paths)
  /\ loop \in {"off", "reading", "exited"}
  /\ timers \in [Keys -> Timer \cup {NoTimer}]
  /\ callbacks \in [Paths -> [Steps -> Nat]]
  /\ handler \in Running \cup {Off, Idle, Exited}
  /\ closer \in {"open", "quit", "stopped", "waiting", "closed"}

(* Close leaves no goroutine behind for ever: a timer that watcherLoop      *)
(* armed after Close had stopped the others fires once, finds quit closed   *)
(* and ends.                                                                *)
Pending(p) == \E s \in Steps : callbacks[p][s] > 0

Drained ==
  /\ \A p \in Paths : ~Pending(p)
  /\ \A k \in Keys : timers[k] # NoTimer => ~timers[k].armed

GoroutinesEnd == <>[](Quit => Drained)

=============================================================================
