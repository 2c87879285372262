--------------------------------- MODULE App ---------------------------------
(***************************************************************************)
(* Package app: the geo_ops app under Caddy's life cycle.  Every           *)
(* configuration Caddy is given has an app of its own.  Caddy loads one    *)
(* configuration at a time: it provisions and validates the modules,       *)
(* starts the apps in any order, and only when all are up stops those of   *)
(* the configuration before; whatever fails is stopped and cleaned up.     *)
(*                                                                         *)
(* Of Ops only what Start and Close touch is kept: the loaded databases,   *)
(* the watchers and their callback, the updater and its pass.  Modules     *)
(* Ops, HotReload and Updater look inside.                                 *)
(***************************************************************************)
EXTENDS Naturals, FiniteSets

CONSTANTS
  Apps,       \* one app per configuration that Caddy is given
  Databases,  \* the recognised files that db_path may hold
  Settings,   \* the option blocks that configurations may contain
  NoApp,      \* no configuration
  NoDB        \* no callback running

Options == [dbPath : BOOLEAN, autoUpdate : BOOLEAN, account : BOOLEAN, license : BOOLEAN]

ASSUME AppAssumption ==
  /\ Settings \subseteq Options
  /\ NoApp \notin Apps
  /\ NoDB \notin Databases

VARIABLES
  \* Caddy
  phase,     \* how far Caddy is with each configuration
  up,        \* its apps that have been started: this one and the HTTP server
  current,   \* the configuration in force
  \* the app and its Ops
  settings,  \* the App struct as decoded from the configuration
  ops,       \* a.ops: "nil", "open", or "closed" when Close has run
  loaded,    \* the databases in its map
  watchers,  \* how many directory monitors it has running
  callback,  \* the database its monitor is reloading or deleting
  updater,   \* its updater's goroutine
  closing    \* how far a running Close has come

caddyVars == <<phase, up, current>>
appVars == <<settings, ops, loaded, watchers, callback, updater, closing>>
vars == <<caddyVars, appVars>>

Siblings == {"geo_ops", "http"}

Settled == {"unused", "running", "gone"}

(* new(App) *)
Zero == [dbPath |-> FALSE, autoUpdate |-> FALSE, account |-> FALSE, license |-> FALSE]

Init ==
  /\ phase = [a \in Apps |-> "unused"]
  /\ up = [a \in Apps |-> {}]
  /\ current = NoApp
  /\ settings = [a \in Apps |-> Zero]
  /\ ops = [a \in Apps |-> "nil"]
  /\ loaded = [a \in Apps |-> {}]
  /\ watchers = [a \in Apps |-> 0]
  /\ callback = [a \in Apps |-> NoDB]
  /\ updater = [a \in Apps |-> "none"]
  /\ closing = [a \in Apps |-> "no"]

Enter(a, p) == phase' = [phase EXCEPT ![a] = p]

-----------------------------------------------------------------------------
(* Loading a configuration. *)

(* Mutant of Provision: the databases are loaded in Start. *)
ProvisionLater(a, options) ==
  /\ phase[a] = "unused" /\ \A b \in Apps : phase[b] \in Settled
  /\ settings' = [settings EXCEPT ![a] = options]
  /\ Enter(a, IF options.dbPath THEN "provisioned" ELSE "discarded")
  /\ UNCHANGED <<up, current, ops, loaded, watchers, callback, updater, closing>>

(* The options are decoded into the App; ops.New loads what the directory   *)
(* holds, and fails if that cannot be read or a file does not load.         *)
Provision(a, options) ==
  /\ phase[a] = "unused" /\ \A b \in Apps : phase[b] \in Settled
  /\ settings' = [settings EXCEPT ![a] = options]
  /\ \/ /\ options.dbPath
        /\ ops' = [ops EXCEPT ![a] = "open"]
        /\ \E dbs \in SUBSET Databases : loaded' = [loaded EXCEPT ![a] = dbs]
        /\ Enter(a, "provisioned")
     \/ Enter(a, "discarded") /\ UNCHANGED <<ops, loaded>>
  /\ UNCHANGED <<up, current, watchers, callback, updater, closing>>

(* Mutant of Validate: any credential will do. *)
ValidateEither(a) ==
  /\ phase[a] = "provisioned"
  /\ Enter(a, "validated")
  /\ UNCHANGED <<up, current, appVars>>

Validate(a) ==
  /\ phase[a] = "provisioned"
  /\ Enter(a, IF settings[a].autoUpdate /\ settings[a].account # settings[a].license
              THEN "discarded" ELSE "validated")
  /\ UNCHANGED <<up, current, appVars>>

(* The handlers, which take this app, and the other modules are             *)
(* provisioned, or one of them is not; Caddy also discards a configuration  *)
(* that it was only asked to validate.                                      *)
ProvisionSiblings(a) ==
  /\ phase[a] = "validated"
  /\ Enter(a, "starting") \/ Enter(a, "discarded")
  /\ UNCHANGED <<up, current, appVars>>

(* Mutant of StartWatcher: it does not look whether a monitor is running.   *)
StartWatcherAgain(a) == watchers' = [watchers EXCEPT ![a] = @ + 1]

(* Ops.StartWatcher, which may fail unless a monitor is running already. *)
StartWatcher(a) == watchers' = [watchers EXCEPT ![a] = IF @ = 0 THEN 1 ELSE @]
StartWatcherFails(a) == watchers[a] = 0 /\ UNCHANGED watchers

(* Start, as far as the call of StartUpdater. *)
Start(a) ==
  /\ phase[a] = "starting" /\ "geo_ops" \notin up[a]
  /\ \/ StartWatcher(a) /\ Enter(a, "watching")
     \/ StartWatcherFails(a) /\ Enter(a, "failing")
  /\ UNCHANGED <<up, current, settings, ops, loaded, callback, updater, closing>>

(* The rest of Start.  StartUpdater calls StartWatcher again; then          *)
(* update.New may fail: the directory is gone, or the client's arguments    *)
(* are refused.                                                             *)
StartUpdater(a) ==
  /\ phase[a] = "watching"
  /\ \/ /\ settings[a].autoUpdate
        /\ StartWatcher(a)
        /\ updater' = [updater EXCEPT ![a] = "idle"]
        /\ Enter(a, "starting")
        /\ up' = [up EXCEPT ![a] = @ \cup {"geo_ops"}]
     \/ /\ settings[a].autoUpdate
        /\ StartWatcher(a)
        /\ Enter(a, "failing")
        /\ UNCHANGED <<up, updater>>
     \/ /\ ~settings[a].autoUpdate
        /\ Enter(a, "starting")
        /\ up' = [up EXCEPT ![a] = @ \cup {"geo_ops"}]
        /\ UNCHANGED <<watchers, updater>>
  /\ UNCHANGED <<current, settings, ops, loaded, callback, closing>>

StartHTTP(a) ==
  /\ phase[a] = "starting" /\ "http" \notin up[a]
  /\ \/ up' = [up EXCEPT ![a] = @ \cup {"http"}] /\ UNCHANGED phase
     \/ Enter(a, "failing") /\ UNCHANGED up
  /\ UNCHANGED <<current, appVars>>

(* All apps are up: the new configuration is in force, the old one goes. *)
Switch(a) ==
  /\ phase[a] = "starting" /\ up[a] = Siblings
  /\ phase' = [b \in Apps |-> IF b = a THEN "running"
                               ELSE IF b = current THEN "stopping" ELSE phase[b]]
  /\ current' = a
  /\ UNCHANGED <<up, appVars>>

-----------------------------------------------------------------------------
(* Unloading it. *)

(* Caddy exits or is given an empty configuration. *)
Shutdown ==
  /\ current # NoApp /\ \A b \in Apps : phase[b] \in Settled
  /\ Enter(current, "stopping")
  /\ current' = NoApp
  /\ UNCHANGED <<up, appVars>>

Unloading(a) == phase[a] \in {"failing", "stopping"} /\ closing[a] = "no"

StopHTTP(a) ==
  /\ Unloading(a) /\ "http" \in up[a]
  /\ up' = [up EXCEPT ![a] = @ \ {"http"}]
  /\ UNCHANGED <<phase, current, appVars>>

(* Stop is for apps that have been started, not for one whose Start failed. *)
Stop(a) ==
  /\ Unloading(a) /\ "geo_ops" \in up[a]
  /\ closing' = [closing EXCEPT ![a] = "updater"]
  /\ UNCHANGED <<caddyVars, settings, ops, loaded, watchers, callback, updater>>

AllStopped(a) ==
  /\ Unloading(a) /\ up[a] = {}
  /\ Enter(a, "discarded")
  /\ UNCHANGED <<up, current, appVars>>

(* Mutant of Cleanup: it leaves Close to Stop. *)
CleanupNothing(a) ==
  /\ phase[a] = "discarded" /\ closing[a] = "no"
  /\ Enter(a, "gone")
  /\ UNCHANGED <<up, current, appVars>>

Cleanup(a) ==
  /\ phase[a] = "discarded" /\ closing[a] = "no"
  /\ \/ ops[a] = "nil" /\ Enter(a, "gone") /\ UNCHANGED closing
     \/ ops[a] # "nil" /\ closing' = [closing EXCEPT ![a] = "updater"] /\ UNCHANGED phase
  /\ UNCHANGED <<up, current, settings, ops, loaded, watchers, callback, updater>>

-----------------------------------------------------------------------------
(* Ops.Close: updater, watcher, providers, each only if it is there. *)

(* updater.Stop: cancel, and wait for the goroutine. *)
CloseUpdater(a) ==
  /\ closing[a] = "updater"
  /\ updater[a] \in {"none", "exited"}
  /\ updater' = [updater EXCEPT ![a] = "none"]
  /\ closing' = [closing EXCEPT ![a] = "monitor"]
  /\ UNCHANGED <<caddyVars, settings, ops, loaded, watchers, callback>>

(* Mutant of CloseMonitor: it does not wait for the callback. *)
CloseMonitorAtOnce(a) ==
  /\ closing[a] = "monitor"
  /\ watchers' = [watchers EXCEPT ![a] = IF @ = 0 THEN 0 ELSE @ - 1]
  /\ closing' = [closing EXCEPT ![a] = "release"]
  /\ UNCHANGED <<caddyVars, settings, ops, loaded, callback, updater>>

(* dirMonitor.Close waits for the callback that is running. *)
CloseMonitor(a) ==
  /\ closing[a] = "monitor"
  /\ callback[a] = NoDB
  /\ watchers' = [watchers EXCEPT ![a] = IF @ = 0 THEN 0 ELSE @ - 1]
  /\ closing' = [closing EXCEPT ![a] = "release"]
  /\ UNCHANGED <<caddyVars, settings, ops, loaded, callback, updater>>

(* The providers are released and Close returns, to Stop or to Cleanup. *)
Release(a) ==
  /\ closing[a] = "release"
  /\ ops' = [ops EXCEPT ![a] = "closed"]
  /\ loaded' = [loaded EXCEPT ![a] = {}]
  /\ closing' = [closing EXCEPT ![a] = "no"]
  /\ \/ phase[a] = "discarded" /\ Enter(a, "gone") /\ UNCHANGED up
     \/ phase[a] # "discarded" /\ up' = [up EXCEPT ![a] = @ \ {"geo_ops"}] /\ UNCHANGED phase
  /\ UNCHANGED <<current, settings, watchers, callback, updater>>

-----------------------------------------------------------------------------
(* The goroutines of the app. *)

(* handleEvents may still take an offer while Close waits for it. *)
CallbackBegins(a, d) ==
  /\ watchers[a] > 0 /\ callback[a] = NoDB
  /\ callback' = [callback EXCEPT ![a] = d]
  /\ UNCHANGED <<caddyVars, settings, ops, loaded, watchers, updater, closing>>

(* A Reload, which may fail, or a Delete. *)
CallbackEnds(a) ==
  /\ callback[a] # NoDB
  /\ \E dbs \in {loaded[a], loaded[a] \cup {callback[a]}, loaded[a] \ {callback[a]}} :
       loaded' = [loaded EXCEPT ![a] = dbs]
  /\ callback' = [callback EXCEPT ![a] = NoDB]
  /\ UNCHANGED <<caddyVars, settings, ops, watchers, updater, closing>>

PassBegins(a) ==
  /\ updater[a] = "idle"
  /\ updater' = [updater EXCEPT ![a] = "passing"]
  /\ UNCHANGED <<caddyVars, settings, ops, loaded, watchers, callback, closing>>

PassEnds(a) ==
  /\ updater[a] = "passing"
  /\ updater' = [updater EXCEPT ![a] = "idle"]
  /\ UNCHANGED <<caddyVars, settings, ops, loaded, watchers, callback, closing>>

(* Mutant of UpdaterExits: the loop waits for its ticker alone. *)
UpdaterExitsNever(a) == updater[a] = "idle" /\ FALSE /\ UNCHANGED vars

UpdaterExits(a) ==
  /\ updater[a] = "idle" /\ closing[a] = "updater"
  /\ updater' = [updater EXCEPT ![a] = "exited"]
  /\ UNCHANGED <<caddyVars, settings, ops, loaded, watchers, callback, closing>>

-----------------------------------------------------------------------------
Load(a) ==
  \/ Validate(a) \/ ProvisionSiblings(a) \/ Start(a) \/ StartUpdater(a)
  \/ StartHTTP(a) \/ Switch(a)

Unload(a) == StopHTTP(a) \/ Stop(a) \/ AllStopped(a) \/ Cleanup(a)

Close(a) == CloseUpdater(a) \/ CloseMonitor(a) \/ Release(a)

Goroutines(a) ==
  \/ PassBegins(a) \/ PassEnds(a) \/ UpdaterExits(a)
  \/ CallbackEnds(a) \/ \E d \in Databases : CallbackBegins(a, d)

Next ==
  \/ Shutdown
  \/ \E a \in Apps, options \in Settings : Provision(a, options)
  \/ \E a \in Apps : Load(a) \/ Unload(a) \/ Close(a) \/ Goroutines(a)

Safety == Init /\ [][Next]_vars

(* Caddy, one goroutine, goes on with what it has begun; callbacks and      *)
(* passes end; and a select that can take the cancelled context, or the     *)
(* closed quit channel, again and again takes it.                           *)
Fairness ==
  /\ WF_vars(\E a \in Apps : Load(a) \/ Unload(a) \/ Close(a))
  /\ SF_vars(\E a \in Apps : UpdaterExits(a))
  /\ SF_vars(\E a \in Apps : CloseMonitor(a))
  /\ \A a \in Apps : WF_vars(CallbackEnds(a)) /\ WF_vars(PassEnds(a))

Spec == Safety /\ Fairness

-----------------------------------------------------------------------------
TypeOK ==
  /\ phase \in [Apps -> Settled \cup {"provisioned", "validated", "starting", "watching",
                                      "failing", "stopping", "discarded"}]
  /\ up \in [Apps -> SUBSET Siblings]
  /\ current \in Apps \cup {NoApp}
  /\ settings \in [Apps -> Settings \cup {Zero}]
  /\ ops \in [Apps -> {"nil", "open", "closed"}]
  /\ loaded \in [Apps -> SUBSET Databases]
  /\ watchers \in [Apps -> {0, 1}]
  /\ callback \in [Apps -> Databases \cup {NoDB}]
  /\ updater \in [Apps -> {"none", "idle", "passing", "exited"}]
  /\ closing \in [Apps -> {"no", "updater", "monitor", "release"}]

(* No goroutine of the app is left. *)
Quiet(a) == watchers[a] = 0 /\ callback[a] = NoDB /\ updater[a] = "none"

(* Stop and Cleanup are the only hooks that release: whichever of them      *)
(* Caddy calls on whichever path, an app that Caddy has let go of holds no  *)
(* database, watcher or updater.                                            *)
GoneIsReleased == \A a \in Apps : phase[a] = "gone" => Quiet(a) /\ loaded[a] = {}

(* Close waits for the goroutines before it releases, so that none of them  *)
(* brings a database back or writes to the nil map.                         *)
ReleasedIsQuiet == \A a \in Apps : ops[a] = "closed" => Quiet(a) /\ loaded[a] = {}

(* An updater is never without a watcher that would load what it downloads, *)
(* and none runs with half of MaxMind's credentials.                        *)
UpdaterWatched ==
  \A a \in Apps : updater[a] # "none" =>
    watchers[a] = 1 /\ settings[a].account = settings[a].license

(* A server that is up, in whatever phase its configuration is, finds the   *)
(* databases: even when it is started before this app, or is up while       *)
(* another step of the same load fails.  The one exception is a             *)
(* configuration that Caddy is stopping, whose apps go in any order: there  *)
(* this app may have been stopped already.  The configuration in force      *)
(* stays complete until the next one is, so a reload that fails costs       *)
(* nothing.                                                                 *)
ServedUntilStopped ==
  /\ \A a \in Apps : "http" \in up[a] /\ ops[a] # "open" =>
       phase[a] = "stopping" /\ "geo_ops" \notin up[a]
  /\ current # NoApp =>
       /\ up[current] = Siblings
       /\ watchers[current] = 1
       /\ settings[current].autoUpdate <=> updater[current] # "none"

(* At most the old and the new configuration work on a directory at once,   *)
(* however many reloads succeed or fail.                                    *)
AtMostTwo == Cardinality({a \in Apps : ~Quiet(a)}) <= 2

(* Caddy gets through every load, reload and shutdown: each configuration   *)
(* it has touched ends in force or gone.                                    *)
LoadsEnd == []<>\A a \in Apps : phase[a] \in Settled

=============================================================================
