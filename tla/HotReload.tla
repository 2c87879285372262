------------------------------ MODULE HotReload ------------------------------
(***************************************************************************)
(* The directory monitor drives the registry: handleEvents runs            *)
(* Ops.reloadWatched for an update and Ops.Delete for a delete.  Reload    *)
(* reads the file in one step and stores the provider in a later one; each *)
(* change of the registry is one step, which module Ops justifies.  The    *)
(* question is whether what is served follows what is on disk.             *)
(***************************************************************************)
EXTENDS DirMonitor

CONSTANTS
  Known,      \* keys that name a supported edition (db.IsKnown)
  Valid,      \* contents that parse as an mmdb
  NoDB,       \* nothing loaded
  ListsAfter  \* [Paths -> Nat]: the order in which ReadDir lists the files

ASSUME ReloadAssumption ==
  /\ Known \subseteq Keys
  /\ Valid \subseteq Contents
  /\ NoDB \notin Contents
  /\ ListsAfter \in [Paths -> Nat]

VARIABLES
  served,  \* the content each database is served from
  loaded,  \* the content the running Reload has read, NoDB before it has
  shut     \* Ops.Close has released the providers

hrVars == <<dmVars, served, loaded, shut>>

Present(k) == {p \in Paths : KeyOf[p] = k /\ disk[p] # Absent}

(* ops.New has loaded every recognised file, the last one listed wins; it   *)
(* fails, and nothing runs, if one of them does not parse.                  *)
New ==
  /\ served \in [Known -> Valid \cup {NoDB}]
  /\ \A k \in Known :
       /\ \A p \in Present(k) : disk[p] \in Valid
       /\ Present(k) = {} => served[k] = NoDB
       /\ Present(k) # {} =>
            \E p \in Present(k) : /\ \A q \in Present(k) : ListsAfter[q] <= ListsAfter[p]
                                  /\ served[k] = disk[p]

Init ==
  /\ DMInit
  /\ New
  /\ loaded = NoDB
  /\ shut = FALSE

-----------------------------------------------------------------------------
Reloading(p) == handler = [op |-> "update", path |-> p]
Dropping(p) == handler = [op |-> "delete", path |-> p]

(* Mutant of Load: any content is accepted. *)
LoadUnparsed(p) ==
  /\ Reloading(p) /\ loaded = NoDB
  /\ KeyOf[p] \in Known
  /\ disk[p] # Absent
  /\ loaded' = disk[p]
  /\ UNCHANGED <<dmVars, served, shut>>

(* loadProvider: read and parse the file. *)
Load(p) ==
  /\ Reloading(p) /\ loaded = NoDB
  /\ KeyOf[p] \in Known
  /\ disk[p] \in Valid
  /\ loaded' = disk[p]
  /\ UNCHANGED <<dmVars, served, shut>>

(* Mutant of ReloadFails: the old provider goes before the new one loads. *)
ReloadFailsDrops(p) ==
  /\ Reloading(p) /\ loaded = NoDB
  /\ KeyOf[p] \notin Known \/ disk[p] \notin Valid
  /\ served' = [k \in Known |-> IF k = KeyOf[p] THEN NoDB ELSE served[k]]
  /\ CallbackReturns
  /\ UNCHANGED <<loaded, shut>>

(* An unknown name, a file that is gone or one that does not parse: the     *)
(* provider, if any, keeps serving.                                         *)
ReloadFails(p) ==
  /\ Reloading(p) /\ loaded = NoDB
  /\ KeyOf[p] \notin Known \/ disk[p] \notin Valid
  /\ CallbackReturns
  /\ UNCHANGED <<served, loaded, shut>>

(* Mutant of Install: a database that is served already is kept. *)
InstallOnce(p) ==
  /\ Reloading(p) /\ loaded # NoDB
  /\ served' = [served EXCEPT ![KeyOf[p]] = IF @ = NoDB THEN loaded ELSE @]
  /\ loaded' = NoDB
  /\ CallbackReturns
  /\ UNCHANGED shut

(* The swap of Reload. *)
Install(p) ==
  /\ Reloading(p) /\ loaded # NoDB
  /\ served' = [served EXCEPT ![KeyOf[p]] = loaded]
  /\ loaded' = NoDB
  /\ CallbackReturns
  /\ UNCHANGED shut

(* Ops.Delete, without another look at the file. *)
Delete(p) ==
  /\ Dropping(p)
  /\ served' = [k \in Known |-> IF k = KeyOf[p] THEN NoDB ELSE served[k]]
  /\ CallbackReturns
  /\ UNCHANGED <<loaded, shut>>

Callback(p) == Load(p) \/ ReloadFails(p) \/ Install(p) \/ Delete(p)

-----------------------------------------------------------------------------
(* StartWatcher, after New; and Close, which releases the providers after   *)
(* dirMonitor.Close has returned (at once if there is no monitor).          *)

StartWatcher == ~shut /\ StartMonitor /\ UNCHANGED <<served, loaded, shut>>

Release ==
  /\ ~shut
  /\ closer = "closed" \/ watcher = "off"
  /\ served' = [k \in Known |-> NoDB]
  /\ shut' = TRUE
  /\ UNCHANGED <<dmVars, loaded>>

-----------------------------------------------------------------------------
Next ==
  \/ (Environment \/ MonitorStep \/ CloseQuit) /\ UNCHANGED <<served, loaded, shut>>
  \/ StartWatcher
  \/ \E p \in Paths : Callback(p)
  \/ Release

Safety == Init /\ [][Next]_hrVars

(* Caddy is not obliged to start or to stop the app, but Close goes on once *)
(* begun.                                                                   *)
Spec ==
  /\ Safety
  /\ MonitorFairness
  /\ WF_hrVars(\E p \in Paths : Callback(p))
  /\ WF_hrVars(closer = "closed" /\ Release)

-----------------------------------------------------------------------------
TypeOK ==
  /\ MonitorTypeOK
  /\ served \in [Known -> Valid \cup {NoDB}]
  /\ loaded \in Valid \cup {NoDB}
  /\ shut \in BOOLEAN

(* What is served for a key agrees with the directory: it is the content of *)
(* one of its files, or of an earlier one that a damaged file has replaced. *)
Agrees(k) ==
  \/ Present(k) = {} /\ served[k] = NoDB
  \/ \E p \in Present(k) : disk[p] \notin Valid \/ served[k] = disk[p]

(* A change of p is still on its way to the registry: as an event, a timer, *)
(* a goroutine that has not looked at the file, or a decision that fits     *)
(* what the file is now.                                                    *)
Queued(p) == \E i \in DOMAIN events : events[i] = p
Armed(p) == \E k \in Keys : timers[k] = [path |-> p, armed |-> TRUE]

OnItsWay(p) ==
  \/ Queued(p) \/ Armed(p)
  \/ callbacks[p]["removeTimer"] > 0 \/ callbacks[p]["stat"] > 0
  \/ /\ disk[p] # Absent
     /\ callbacks[p]["update"] > 0 \/ (Reloading(p) /\ loaded \in {NoDB, disk[p]})
  \/ disk[p] = Absent /\ Deleting(p)

Serving == watcher = "watching" /\ ~Quit

(* The debouncing loses no change: whenever what is served differs from     *)
(* the directory, the difference is still on its way.                       *)
NoLostChange ==
  Serving => \A k \in Known :
    Agrees(k) \/ \E p \in Paths : KeyOf[p] = k /\ OnItsWay(p)

(* A database is dropped only if its file is really gone (or at Close), so  *)
(* replacing a file, by whatever sequence of steps, opens no window without *)
(* it.                                                                      *)
DropOnlyIfGone ==
  [][\A k \in Known : served[k] # NoDB /\ served'[k] = NoDB => shut' \/ Present(k) = {}]_hrVars

(* Once the directory is left alone what is served agrees with it for good. *)
Converges == <>[](Serving => \A k \in Known : Agrees(k))

(* Every change of a file is debounced into a settle callback that looks at *)
(* that file, unless Close comes first.                                     *)
EventsSettle ==
  \A p \in Watched : Queued(p) /\ Serving ~> callbacks[p]["stat"] > 0 \/ Quit

(* After Close nothing is served again and no Reload is running. *)
StaysShut == shut => loaded = NoDB /\ \A k \in Known : served[k] = NoDB

(* To the registry the monitor's callbacks, New and Close are callers of    *)
(* its atomic operations, and nobody stores anything after Close.           *)
Reg == INSTANCE Registry WITH
  Databases <- Known, Versions <- Valid, Undecodable <- {},
  Readers <- {}, call <- <<>>, answer <- <<>>

DrivesRegistry == [][Reg!RegNext]_<<served, shut>>

(* Ops.Close releases the providers once it has begun. *)
CloseReleases == <>[](Quit => shut)

=============================================================================
