------------------------------- MODULE GeoOps -------------------------------
(***************************************************************************)
(* The whole of package internal/ops at work on one database: the updater  *)
(* asks the vendor about it, writes its file, the directory monitor sees   *)
(* the file change and the registry serves the new version, about which    *)
(* the updater then asks.  Vendors publish, operators touch the directory, *)
(* downloads fail, and the process is killed and started again.            *)
(*                                                                         *)
(* Module HotReload is the part from the file to the registry.  Of module  *)
(* Updater only what decides whether a download is due is here: for        *)
(* MaxMind the md5 of what is served, for the others the modification time *)
(* of the file, which is recent if it is not before the latest release.    *)
(***************************************************************************)
EXTENDS HotReload, Taxonomy

CONSTANTS
  Database,      \* the one key
  Lower,         \* the file that the updater writes, in lower case
  Documented,    \* [file names -> vendors]: the documentation's table
  Sells,         \* [products -> file names]: what the vendors' names stand for
  Credentialed,  \* the vendors whose credentials are configured
  LastVersion,   \* bound: versions are 1 .. LastVersion
  Foreign,       \* a database of another edition
  MaxMishaps     \* bound: failed downloads, damaged payloads and restarts

Versions == 1 .. LastVersion

(* ReadDir lists by name, and capital letters come first. *)
ASSUME GeoAssumption ==
  /\ LastVersion \in Nat \ {0}
  /\ Lower \in Watched /\ Known = {Database}
  /\ \A p \in Paths : KeyOf[p] = Database
  /\ \A p \in Paths \ {Lower} : ListsAfter[p] < ListsAfter[Lower]
  /\ Valid = Versions \cup {Foreign} /\ Foreign \notin Versions
  /\ \A f \in DOMAIN Documented : IsKnown(f)
  /\ MaxMishaps \in Nat

VARIABLES
  edition,  \* what the database is
  latest,   \* the latest version published
  recent,   \* Lower has not been modified since before it was published
  updater,  \* the updater: "off", "idle", "asked" or "writing"
  has,      \* the version that the request says is there already
  body,     \* what the vendor sends
  mishaps   \* how much has gone wrong

updVars == <<edition, latest, recent, updater, has, body, mishaps>>
goVars == <<hrVars, updVars>>

(* updateAll's choices, by file name. *)
VendorOf == [f \in DOMAIN Documented |-> Vendor(ToType(f))]
Requested == [f \in DOMAIN Documented |-> Products(ToType(f))]

MaxMind == VendorOf[edition] = "maxmind"
Updated == VendorOf[edition] \in Credentialed \cup {"dbip"}

Idler(state) == updater' = state /\ has' = NoDB /\ body' = NoDB

(* The file, if there is one, is of any version, spelled in any way. *)
GeoInit ==
  /\ Init
  /\ edition \in DOMAIN Documented
  /\ latest \in Versions
  /\ \A p \in Paths : disk[p] \in (1 .. latest) \cup {Absent}
  /\ \A p, q \in Paths : disk[p] # Absent /\ disk[q] # Absent => p = q
  /\ recent = (disk[Lower] = latest)
  /\ updater = "off" /\ has = NoDB /\ body = NoDB
  /\ mishaps = 0

-----------------------------------------------------------------------------
(* A vendor whose files go by date does not publish during a download.      *)
Publish ==
  /\ latest < LastVersion
  /\ ~MaxMind => updater \in {"off", "idle"}
  /\ latest' = latest + 1
  /\ recent' = FALSE
  /\ UNCHANGED <<hrVars, edition, updater, has, body, mishaps>>

(* The operator removes the file, or copies a version there with its date,  *)
(* or, of MaxMind, a damaged one; but leaves alone what is spelled with     *)
(* upper-case letters.                                                      *)
Operator ==
  /\ \A p \in Paths \ {Lower} : disk[p] = Absent
  /\ \/ Remove(Lower) /\ recent' = FALSE
     \/ \E c \in (1 .. latest) \cup (IF MaxMind THEN Contents \ Valid ELSE {}) :
          Write(Lower, c) /\ recent' = (c = latest)
  /\ UNCHANGED <<served, loaded, shut, edition, latest, updater, has, body, mishaps>>

(* Start: the watcher first. *)
Start ==
  /\ StartWatcher
  /\ Idler("idle")
  /\ UNCHANGED <<edition, latest, recent, mishaps>>

(* Mutant of Close: the monitor does not wait for the updater. *)
CloseAtOnce == CloseQuit /\ UNCHANGED <<served, loaded, shut, updVars>>

(* Close: the updater is stopped, whatever it is doing, before the monitor. *)
StopUpdater ==
  /\ Serving /\ updater # "off"
  /\ Idler("off")
  /\ UNCHANGED <<hrVars, edition, latest, recent, mishaps>>

Close == updater = "off" /\ CloseQuit /\ UNCHANGED <<served, loaded, shut, updVars>>

(* Mutant of Restart: the first file listed wins. *)
RestartFirst ==
  /\ mishaps < MaxMishaps
  /\ mishaps' = mishaps + 1
  /\ UNCHANGED fileVars
  /\ watcher' = "off" /\ events' = <<>> /\ loop' = "off" /\ handler' = Off /\ closer' = "open"
  /\ timers' = [k \in Keys |-> NoTimer]
  /\ callbacks' = [p \in Paths |-> [s \in Steps |-> 0]]
  /\ \A p \in Present(Database) : disk[p] \in Valid
  /\ \E p \in Present(Database) :
       /\ \A q \in Present(Database) : ListsAfter[p] <= ListsAfter[q]
       /\ served' = [k \in Known |-> disk[p]]
  /\ loaded' = NoDB /\ shut' = FALSE
  /\ Idler("off")
  /\ UNCHANGED <<edition, latest, recent>>

(* The process dies, and a new one loads what is there. *)
Restart ==
  /\ mishaps < MaxMishaps
  /\ mishaps' = mishaps + 1
  /\ UNCHANGED fileVars
  /\ watcher' = "off" /\ events' = <<>> /\ loop' = "off" /\ handler' = Off /\ closer' = "open"
  /\ timers' = [k \in Keys |-> NoTimer]
  /\ callbacks' = [p \in Paths |-> [s \in Steps |-> 0]]
  /\ served' \in [Known -> Valid \cup {NoDB}] /\ New'
  /\ loaded' = NoDB /\ shut' = FALSE
  /\ Idler("off")
  /\ UNCHANGED <<edition, latest, recent>>

-----------------------------------------------------------------------------
(* The updater.  Its ticker is far slower than the debounce, so a pass      *)
(* begins when earlier changes have reached the callback at least.          *)
Debounced ==
  events = <<>> /\ ~Pending(Lower) /\ \A k \in Keys : timers[k] = NoTimer

(* What is not being served is not asked about.                             *)
Ask ==
  /\ updater = "idle" /\ Debounced
  /\ served[Database] # NoDB
  /\ Updated /\ Requested[edition] # {}
  /\ updater' = "asked"
  /\ has' = IF MaxMind THEN served[Database]
            ELSE IF disk[Lower] # Absent /\ recent THEN latest ELSE NoDB
  /\ UNCHANGED <<hrVars, edition, latest, recent, body, mishaps>>

Delivered ==
  IF \E product \in Requested[edition] : Sells[product] = edition THEN latest ELSE Foreign

UpToDate ==
  /\ updater = "asked" /\ has = latest
  /\ Idler("idle")
  /\ UNCHANGED <<hrVars, edition, latest, recent, mishaps>>

(* MaxMind's download may be damaged.  After a damaged file of the others   *)
(* the vendor says "not modified" until it publishes again: Updater and its *)
(* run of damaged payloads are about that.                                  *)
Download ==
  /\ updater = "asked" /\ has # latest
  /\ updater' = "writing" /\ has' = NoDB
  /\ \/ body' = Delivered /\ UNCHANGED mishaps
     \/ /\ MaxMind /\ mishaps < MaxMishaps
        /\ body' \in Contents \ Valid
        /\ mishaps' = mishaps + 1
  /\ UNCHANGED <<hrVars, edition, latest, recent>>

Fail ==
  /\ updater \in {"asked", "writing"}
  /\ mishaps < MaxMishaps
  /\ mishaps' = mishaps + 1
  /\ Idler("idle")
  /\ UNCHANGED <<hrVars, edition, latest, recent>>

(* writeAtomic. *)
Rename ==
  /\ updater = "writing" /\ Occupy(Lower)
  /\ disk' = [disk EXCEPT ![Lower] = body]
  /\ events' = IF watcher = "watching" THEN Append(events, Lower) ELSE events
  /\ recent' = TRUE
  /\ Idler("idle")
  /\ UNCHANGED <<changes, watcher, loop, timers, callbacks, handler, closer,
                 served, loaded, shut, edition, latest, mishaps>>

-----------------------------------------------------------------------------
UpdaterStep == Ask \/ UpToDate \/ Download \/ Fail \/ Rename

GeoNext ==
  \/ MonitorStep /\ UNCHANGED <<served, loaded, shut, updVars>>
  \/ (Release \/ \E p \in Paths : Callback(p)) /\ UNCHANGED updVars
  \/ Publish \/ Operator \/ Start \/ StopUpdater \/ Close \/ Restart
  \/ UpdaterStep

GeoSafety == GeoInit /\ [][GeoNext]_goVars

(* Besides the fairness of HotReload: the ticker goes on ticking, vendors   *)
(* answer, and Close, once it has stopped the updater, goes on.             *)
GeoSpec ==
  /\ GeoSafety
  /\ MonitorFairness
  /\ WF_hrVars(\E p \in Paths : Callback(p))
  /\ WF_hrVars(closer = "closed" /\ Release)
  /\ WF_goVars(UpdaterStep)

-----------------------------------------------------------------------------
(* The updater runs only while the watcher does: what it writes is seen. *)
GeoTypeOK ==
  /\ edition \in DOMAIN Documented
  /\ latest \in Versions
  /\ recent \in BOOLEAN
  /\ updater \in {"off", "idle", "asked", "writing"}
  /\ has \in Valid \cup {NoDB}
  /\ body \in Contents \cup {NoDB}
  /\ mishaps \in 0 .. MaxMishaps
  /\ updater # "off" => Serving

(* Every edition that the documentation says is kept up to date is: once    *)
(* vendors and operators have left it alone, the latest version of that     *)
(* very edition is served for good, however many downloads have failed and  *)
(* processes were killed on the way, and, for MaxMind, however many files   *)
(* were damaged.  The one exception: nothing is served, hence asked about,  *)
(* where the operator has left no file that could be loaded.                *)
FinallyCurrent ==
  <>[](/\ updater # "off"
       /\ Documented[edition] \in Credentialed \cup {"dbip"}
       => \/ served[Database] = latest
          \/ /\ served[Database] = NoDB
             /\ \A p \in Present(Database) : disk[p] \notin Valid)

(* Nobody is served an older version than before, by a download or by a     *)
(* restart, unless the operator puts one there; even where the file that    *)
(* the updater wrote lies beside the old one in upper-case letters.         *)
NeverOlder ==
  [][served[Database] \in Versions /\ served'[Database] \in Versions /\ changes = 0
       => served'[Database] >= served[Database]]_goVars

=============================================================================
