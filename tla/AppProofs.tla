------------------------------ MODULE AppProofs ------------------------------
(***************************************************************************)
(* Proofs about module App, for any number of configurations, databases    *)
(* and option blocks: its types, that what Caddy has let go of is released *)
(* and quiet, that an updater is watched, that requests always find the    *)
(* databases, and that two configurations at most overlap.                 *)
(***************************************************************************)
EXTENDS App, FiniteSetTheorems, TLAPS

(* Caddy is busy with one configuration at a time ... *)
Alone ==
  \A a, b \in Apps : phase[a] \notin Settled /\ phase[b] \notin Settled => a = b

(* ... and one is in force. *)
InForce == \A a \in Apps : phase[a] = "running" <=> a = current

(* Before New, after Close, and in between. *)
ReleaseInv(a) ==
  /\ ops[a] # "open" => Quiet(a) /\ loaded[a] = {}
  /\ ops[a] = "nil" => closing[a] = "no" /\ phase[a] \in {"unused", "discarded", "gone"}
  /\ phase[a] \in {"provisioned", "validated", "starting", "watching", "running"}
       => ops[a] = "open" /\ closing[a] = "no"
  /\ phase[a] \in {"unused", "gone"} => ops[a] # "open" /\ closing[a] = "no"
  /\ closing[a] # "no" => phase[a] \in {"failing", "stopping", "discarded"}

(* Close takes the goroutines down in their order. *)
OrderInv(a) ==
  /\ callback[a] # NoDB => watchers[a] = 1
  /\ updater[a] # "none" => /\ watchers[a] = 1
                            /\ settings[a].autoUpdate
                            /\ settings[a].account = settings[a].license
                            /\ closing[a] \in {"no", "updater"}
  /\ closing[a] = "release" => watchers[a] = 0

(* How far Start is. *)
StartInv(a) ==
  /\ phase[a] \in {"unused", "provisioned", "validated"} => up[a] = {}
  /\ phase[a] \in {"validated", "starting", "watching"} /\ settings[a].autoUpdate
       => settings[a].account = settings[a].license
  /\ phase[a] = "watching" => watchers[a] = 1
  /\ phase[a] \in {"provisioned", "validated", "watching"} => updater[a] = "none"
  /\ phase[a] = "starting" /\ "geo_ops" \notin up[a] => updater[a] = "none"
  /\ phase[a] \in {"starting", "running"} /\ "geo_ops" \in up[a]
       => watchers[a] = 1 /\ (settings[a].autoUpdate <=> updater[a] # "none")
  /\ phase[a] = "running" => up[a] = Siblings

(* What has been started while something fails or is being stopped. *)
StopInv(a) ==
  /\ phase[a] \in {"unused", "discarded", "gone"} => up[a] = {}
  /\ phase[a] = "watching" => "geo_ops" \notin up[a]
  /\ phase[a] = "failing" /\ "http" \in up[a]
       => "geo_ops" \notin up[a] /\ ops[a] = "open" /\ closing[a] = "no"
  /\ phase[a] = "stopping" /\ ops[a] # "open" => "geo_ops" \notin up[a]

AppInv(a) == ReleaseInv(a) /\ OrderInv(a) /\ StartInv(a) /\ StopInv(a)

Inv == TypeOK /\ Alone /\ InForce /\ \A a \in Apps : AppInv(a)

-----------------------------------------------------------------------------
LEMMA OptionsAreBoolean ==
  ASSUME TypeOK, NEW a \in Apps
  PROVE  settings[a] \in Options
<1>1. Zero \in Options
  BY DEF Zero, Options
<1>2. settings[a] \in Settings \cup {Zero}
  BY DEF TypeOK
<1>. QED
  BY <1>1, <1>2, AppAssumption

LEMMA InitInv == Init => Inv
<1>. SUFFICES ASSUME Init PROVE Inv
  OBVIOUS
<1>1. TypeOK
  BY DEF Init, TypeOK, Settled
<1>2. Alone /\ InForce
  BY AppAssumption DEF Init, Alone, InForce, Settled
<1>3. \A a \in Apps : AppInv(a)
  BY DEF Init, AppInv, ReleaseInv, OrderInv, StartInv, StopInv, Quiet, Zero
<1>. QED
  BY <1>1, <1>2, <1>3 DEF Inv

-----------------------------------------------------------------------------
(* Types. *)
LEMMA TypeNext == Inv /\ [Next]_vars => TypeOK'
<1>. SUFFICES ASSUME Inv, [Next]_vars PROVE TypeOK'
  OBVIOUS
<1>. USE DEF Enter
<1>1. TypeOK
  BY DEF Inv
<1>2. CASE UNCHANGED vars
  BY <1>1, <1>2 DEF TypeOK, vars, caddyVars, appVars
<1>3. CASE Shutdown
  BY <1>1, <1>3 DEF TypeOK, Shutdown, appVars
<1>4. ASSUME NEW a \in Apps, NEW options \in Settings, Provision(a, options) PROVE TypeOK'
  BY <1>1, <1>4 DEF TypeOK, Provision
<1>5. ASSUME NEW a \in Apps, Load(a) PROVE TypeOK'
  <2>1. CASE Validate(a)
    BY <1>1, <2>1 DEF TypeOK, Validate, appVars
  <2>2. CASE ProvisionSiblings(a)
    BY <1>1, <2>2 DEF TypeOK, ProvisionSiblings, appVars
  <2>3. CASE Start(a)
    BY <1>1, <2>3 DEF TypeOK, Start, StartWatcher, StartWatcherFails
  <2>4. CASE StartUpdater(a)
    BY <1>1, <2>4 DEF TypeOK, StartUpdater, StartWatcher, Siblings
  <2>5. CASE StartHTTP(a)
    BY <1>1, <2>5 DEF TypeOK, StartHTTP, appVars, Siblings
  <2>6. CASE Switch(a)
    BY <1>1, <2>6 DEF TypeOK, Switch, appVars, Settled
  <2>. QED
    BY <1>5, <2>1, <2>2, <2>3, <2>4, <2>5, <2>6 DEF Load
<1>6. ASSUME NEW a \in Apps, Unload(a) PROVE TypeOK'
  <2>1. CASE StopHTTP(a)
    BY <1>1, <2>1 DEF TypeOK, StopHTTP, appVars
  <2>2. CASE Stop(a)
    BY <1>1, <2>2 DEF TypeOK, Stop, caddyVars
  <2>3. CASE AllStopped(a)
    BY <1>1, <2>3 DEF TypeOK, AllStopped, appVars
  <2>4. CASE Cleanup(a)
    BY <1>1, <2>4 DEF TypeOK, Cleanup, Settled
  <2>. QED
    BY <1>6, <2>1, <2>2, <2>3, <2>4 DEF Unload
<1>7. ASSUME NEW a \in Apps, Close(a) PROVE TypeOK'
  <2>1. CASE CloseUpdater(a)
    BY <1>1, <2>1 DEF TypeOK, CloseUpdater, caddyVars
  <2>2. CASE CloseMonitor(a)
    BY <1>1, <2>2 DEF TypeOK, CloseMonitor, caddyVars
  <2>3. CASE Release(a)
    BY <1>1, <2>3 DEF TypeOK, Release, Settled
  <2>. QED
    BY <1>7, <2>1, <2>2, <2>3 DEF Close
<1>8. ASSUME NEW a \in Apps, Goroutines(a) PROVE TypeOK'
  <2>1. CASE PassBegins(a)
    BY <1>1, <2>1 DEF TypeOK, PassBegins, caddyVars
  <2>2. CASE PassEnds(a)
    BY <1>1, <2>2 DEF TypeOK, PassEnds, caddyVars
  <2>3. CASE UpdaterExits(a)
    BY <1>1, <2>3 DEF TypeOK, UpdaterExits, caddyVars
  <2>4. CASE CallbackEnds(a)
    BY <1>1, <2>4 DEF TypeOK, CallbackEnds, caddyVars
  <2>5. ASSUME NEW d \in Databases, CallbackBegins(a, d) PROVE TypeOK'
    BY <1>1, <2>5 DEF TypeOK, CallbackBegins, caddyVars
  <2>. QED
    BY <1>8, <2>1, <2>2, <2>3, <2>4, <2>5 DEF Goroutines
<1>. QED
  BY <1>2, <1>3, <1>4, <1>5, <1>6, <1>7, <1>8 DEF Next

-----------------------------------------------------------------------------
(* What a step of one app means for the others: nothing. *)
Untouched(b) ==
  /\ phase'[b] = phase[b] /\ up'[b] = up[b] /\ settings'[b] = settings[b]
  /\ ops'[b] = ops[b] /\ loaded'[b] = loaded[b] /\ watchers'[b] = watchers[b]
  /\ callback'[b] = callback[b] /\ updater'[b] = updater[b] /\ closing'[b] = closing[b]

LEMMA UntouchedInv ==
  ASSUME NEW b \in Apps, AppInv(b), Untouched(b)
  PROVE  AppInv(b)'
BY DEF Untouched, AppInv, ReleaseInv, OrderInv, StartInv, StopInv, Quiet

(* Caddy's loading steps. *)
LEMMA ProvisionKeeps ==
  ASSUME Inv, NEW a \in Apps, NEW options \in Settings, Provision(a, options)
  PROVE  AppInv(a)' /\ \A b \in Apps : b # a => Untouched(b)
<1>1. \A b \in Apps : b # a => Untouched(b)
  BY DEF Inv, TypeOK, Provision, Enter, Untouched
<1>2. AppInv(a)
  BY DEF Inv
<1>3. phase[a] = "unused" /\ settings'[a] = options
  BY DEF Inv, TypeOK, Provision
<1>4. \/ phase'[a] = "provisioned" /\ ops'[a] = "open"
      \/ phase'[a] = "discarded" /\ ops'[a] = ops[a] /\ loaded'[a] = loaded[a]
  BY DEF Inv, TypeOK, Provision, Enter
<1>5. /\ up'[a] = up[a] /\ watchers'[a] = watchers[a] /\ callback'[a] = callback[a]
      /\ updater'[a] = updater[a] /\ closing'[a] = closing[a]
  BY DEF Provision
<1>6. up[a] = {} /\ ops[a] # "open" /\ Quiet(a) /\ loaded[a] = {} /\ closing[a] = "no"
  BY <1>2, <1>3 DEF AppInv, ReleaseInv, StartInv
<1>. QED
  BY <1>1, <1>3, <1>4, <1>5, <1>6 DEF AppInv, ReleaseInv, OrderInv, StartInv, StopInv, Quiet

LEMMA ValidateKeeps ==
  ASSUME Inv, NEW a \in Apps, Validate(a)
  PROVE  AppInv(a)' /\ \A b \in Apps : b # a => Untouched(b)
<1>1. \A b \in Apps : b # a => Untouched(b)
  BY DEF Inv, TypeOK, Validate, Enter, appVars, Untouched
<1>2. AppInv(a) /\ settings[a] \in Options
  BY OptionsAreBoolean DEF Inv
<1>3. /\ up'[a] = up[a] /\ settings'[a] = settings[a] /\ ops'[a] = ops[a]
      /\ loaded'[a] = loaded[a] /\ watchers'[a] = watchers[a] /\ callback'[a] = callback[a]
      /\ updater'[a] = updater[a] /\ closing'[a] = closing[a]
  BY DEF Inv, TypeOK, Validate, Enter, appVars
<1>4. phase[a] = "provisioned"
  BY DEF Inv, TypeOK, Validate, Enter, appVars
<1>5. \/ phase'[a] = "discarded"
      \/ phase'[a] = "validated" /\ (settings[a].autoUpdate => settings[a].account = settings[a].license)
  BY DEF Inv, TypeOK, Validate, Enter, appVars
<1>. QED
  BY <1>1, <1>2, <1>3, <1>4, <1>5 DEF AppInv, ReleaseInv, OrderInv, StartInv, StopInv, Quiet, Options

LEMMA ProvisionSiblingsKeeps ==
  ASSUME Inv, NEW a \in Apps, ProvisionSiblings(a)
  PROVE  AppInv(a)' /\ \A b \in Apps : b # a => Untouched(b)
<1>1. \A b \in Apps : b # a => Untouched(b)
  BY DEF Inv, TypeOK, ProvisionSiblings, Enter, appVars, Untouched
<1>2. AppInv(a) /\ settings[a] \in Options
  BY OptionsAreBoolean DEF Inv
<1>3. /\ up'[a] = up[a] /\ settings'[a] = settings[a] /\ ops'[a] = ops[a]
      /\ loaded'[a] = loaded[a] /\ watchers'[a] = watchers[a] /\ callback'[a] = callback[a]
      /\ updater'[a] = updater[a] /\ closing'[a] = closing[a]
  BY DEF Inv, TypeOK, ProvisionSiblings, Enter, appVars
<1>4. phase[a] = "validated" /\ phase'[a] \in {"starting", "discarded"}
  BY DEF Inv, TypeOK, ProvisionSiblings, Enter, appVars
<1>. QED
  BY <1>1, <1>2, <1>3, <1>4 DEF AppInv, ReleaseInv, OrderInv, StartInv, StopInv, Quiet, Options

LEMMA StartKeeps ==
  ASSUME Inv, NEW a \in Apps, Start(a)
  PROVE  AppInv(a)' /\ \A b \in Apps : b # a => Untouched(b)
<1>1. \A b \in Apps : b # a => Untouched(b)
  BY DEF Inv, TypeOK, Start, StartWatcher, StartWatcherFails, Enter, Untouched
<1>2. AppInv(a) /\ settings[a] \in Options
  BY OptionsAreBoolean DEF Inv
<1>3. /\ up'[a] = up[a] /\ settings'[a] = settings[a] /\ ops'[a] = ops[a]
      /\ loaded'[a] = loaded[a] /\ callback'[a] = callback[a] /\ updater'[a] = updater[a]
      /\ closing'[a] = closing[a]
     /\ up'[a] = up[a]
  BY DEF Inv, TypeOK, Start, StartWatcher, StartWatcherFails, Enter
<1>4. phase[a] = "starting" /\ "geo_ops" \notin up[a] /\ watchers[a] \in {0, 1}
  BY DEF Inv, TypeOK, Start, StartWatcher, StartWatcherFails, Enter
<1>5. \/ phase'[a] = "watching" /\ watchers'[a] = 1
      \/ phase'[a] = "failing" /\ watchers'[a] = watchers[a]
  BY DEF Inv, TypeOK, Start, StartWatcher, StartWatcherFails, Enter
<1>. QED
  BY <1>1, <1>2, <1>3, <1>4, <1>5 DEF AppInv, ReleaseInv, OrderInv, StartInv, StopInv, Quiet, Options

LEMMA StartUpdaterKeeps ==
  ASSUME Inv, NEW a \in Apps, StartUpdater(a)
  PROVE  AppInv(a)' /\ \A b \in Apps : b # a => Untouched(b)
<1>1. \A b \in Apps : b # a => Untouched(b)
  BY DEF Inv, TypeOK, StartUpdater, StartWatcher, Enter, Untouched
<1>2. AppInv(a) /\ settings[a] \in Options
  BY OptionsAreBoolean DEF Inv
<1>3. /\ settings'[a] = settings[a] /\ ops'[a] = ops[a] /\ loaded'[a] = loaded[a]
      /\ callback'[a] = callback[a] /\ closing'[a] = closing[a]
  BY DEF Inv, TypeOK, StartUpdater, StartWatcher, Enter
<1>4. phase[a] = "watching" /\ watchers[a] \in {0, 1}
  BY DEF Inv, TypeOK, StartUpdater, StartWatcher, Enter
<1>5. \/ watchers'[a] = watchers[a]
      \/ watchers'[a] = 1
  BY DEF Inv, TypeOK, StartUpdater, StartWatcher, Enter
<1>6. \/ phase'[a] = "starting" /\ settings[a].autoUpdate /\ updater'[a] = "idle"
         /\ "geo_ops" \in up'[a]
      \/ phase'[a] = "failing" /\ updater'[a] = updater[a] /\ up'[a] = up[a]
      \/ phase'[a] = "starting" /\ ~settings[a].autoUpdate /\ updater'[a] = updater[a]
  BY DEF Inv, TypeOK, StartUpdater, StartWatcher, Enter
<1>. QED
  BY <1>1, <1>2, <1>3, <1>4, <1>5, <1>6 DEF AppInv, ReleaseInv, OrderInv, StartInv, StopInv, Quiet, Options

LEMMA StartHTTPKeeps ==
  ASSUME Inv, NEW a \in Apps, StartHTTP(a)
  PROVE  AppInv(a)' /\ \A b \in Apps : b # a => Untouched(b)
<1>1. \A b \in Apps : b # a => Untouched(b)
  BY DEF Inv, TypeOK, StartHTTP, Enter, appVars, Untouched
<1>2. AppInv(a) /\ settings[a] \in Options
  BY OptionsAreBoolean DEF Inv
<1>3. /\ settings'[a] = settings[a] /\ ops'[a] = ops[a] /\ loaded'[a] = loaded[a]
      /\ watchers'[a] = watchers[a] /\ callback'[a] = callback[a] /\ updater'[a] = updater[a]
      /\ closing'[a] = closing[a]
  BY DEF Inv, TypeOK, StartHTTP, Enter, appVars
<1>4. phase[a] = "starting" /\ "http" \notin up[a]
  BY DEF Inv, TypeOK, StartHTTP, Enter, appVars
<1>5. \/ phase'[a] = "starting" /\ up'[a] = up[a] \cup {"http"}
      \/ phase'[a] = "failing" /\ up'[a] = up[a]
  BY DEF Inv, TypeOK, StartHTTP, Enter, appVars
<1>. QED
  BY <1>1, <1>2, <1>3, <1>4, <1>5 DEF AppInv, ReleaseInv, OrderInv, StartInv, StopInv, Quiet, Options

-----------------------------------------------------------------------------
(* Unloading, and Close. *)
LEMMA StopHTTPKeeps ==
  ASSUME Inv, NEW a \in Apps, StopHTTP(a)
  PROVE  AppInv(a)' /\ \A b \in Apps : b # a => Untouched(b)
<1>1. \A b \in Apps : b # a => Untouched(b)
  BY DEF Inv, TypeOK, StopHTTP, Unloading, appVars, Untouched
<1>2. AppInv(a) /\ settings[a] \in Options
  BY OptionsAreBoolean DEF Inv
<1>3. /\ phase'[a] = phase[a] /\ settings'[a] = settings[a] /\ ops'[a] = ops[a]
      /\ loaded'[a] = loaded[a] /\ watchers'[a] = watchers[a] /\ callback'[a] = callback[a]
      /\ updater'[a] = updater[a] /\ closing'[a] = closing[a]
  BY DEF Inv, TypeOK, StopHTTP, Unloading, appVars
<1>4. phase[a] \in {"failing", "stopping"} /\ up'[a] = up[a] \ {"http"}
  BY DEF Inv, TypeOK, StopHTTP, Unloading, appVars
<1>. QED
  BY <1>1, <1>2, <1>3, <1>4 DEF AppInv, ReleaseInv, OrderInv, StartInv, StopInv, Quiet, Options

LEMMA StopKeeps ==
  ASSUME Inv, NEW a \in Apps, Stop(a)
  PROVE  AppInv(a)' /\ \A b \in Apps : b # a => Untouched(b)
<1>1. \A b \in Apps : b # a => Untouched(b)
  BY DEF Inv, TypeOK, Stop, Unloading, caddyVars, Untouched
<1>2. AppInv(a) /\ settings[a] \in Options
  BY OptionsAreBoolean DEF Inv
<1>3. /\ phase'[a] = phase[a] /\ up'[a] = up[a] /\ settings'[a] = settings[a]
      /\ ops'[a] = ops[a] /\ loaded'[a] = loaded[a] /\ watchers'[a] = watchers[a]
      /\ callback'[a] = callback[a] /\ updater'[a] = updater[a]
  BY DEF Inv, TypeOK, Stop, Unloading, caddyVars
<1>4. /\ phase[a] \in {"failing", "stopping"} /\ "geo_ops" \in up[a]
      /\ closing[a] = "no" /\ closing'[a] = "updater"
  BY DEF Inv, TypeOK, Stop, Unloading, caddyVars
<1>. QED
  BY <1>1, <1>2, <1>3, <1>4 DEF AppInv, ReleaseInv, OrderInv, StartInv, StopInv, Quiet, Options

LEMMA AllStoppedKeeps ==
  ASSUME Inv, NEW a \in Apps, AllStopped(a)
  PROVE  AppInv(a)' /\ \A b \in Apps : b # a => Untouched(b)
<1>1. \A b \in Apps : b # a => Untouched(b)
  BY DEF Inv, TypeOK, AllStopped, Unloading, Enter, appVars, Untouched
<1>2. AppInv(a) /\ settings[a] \in Options
  BY OptionsAreBoolean DEF Inv
<1>3. /\ up'[a] = up[a] /\ settings'[a] = settings[a] /\ ops'[a] = ops[a]
      /\ loaded'[a] = loaded[a] /\ watchers'[a] = watchers[a] /\ callback'[a] = callback[a]
      /\ updater'[a] = updater[a] /\ closing'[a] = closing[a]
  BY DEF Inv, TypeOK, AllStopped, Unloading, Enter, appVars
<1>4. /\ phase[a] \in {"failing", "stopping"} /\ phase'[a] = "discarded"
      /\ up[a] = {} /\ closing[a] = "no"
  BY DEF Inv, TypeOK, AllStopped, Unloading, Enter, appVars
<1>. QED
  BY <1>1, <1>2, <1>3, <1>4 DEF AppInv, ReleaseInv, OrderInv, StartInv, StopInv, Quiet, Options

LEMMA CleanupKeeps ==
  ASSUME Inv, NEW a \in Apps, Cleanup(a)
  PROVE  AppInv(a)' /\ \A b \in Apps : b # a => Untouched(b)
<1>1. \A b \in Apps : b # a => Untouched(b)
  BY DEF Inv, TypeOK, Cleanup, Enter, Untouched
<1>2. AppInv(a) /\ settings[a] \in Options
  BY OptionsAreBoolean DEF Inv
<1>3. /\ up'[a] = up[a] /\ settings'[a] = settings[a] /\ ops'[a] = ops[a]
      /\ loaded'[a] = loaded[a] /\ watchers'[a] = watchers[a] /\ callback'[a] = callback[a]
      /\ updater'[a] = updater[a]
  BY DEF Inv, TypeOK, Cleanup, Enter
<1>4. phase[a] = "discarded" /\ closing[a] = "no"
  BY DEF Inv, TypeOK, Cleanup, Enter
<1>5. \/ ops[a] = "nil" /\ phase'[a] = "gone" /\ closing'[a] = closing[a]
      \/ ops[a] # "nil" /\ phase'[a] = phase[a] /\ closing'[a] = "updater"
  BY DEF Inv, TypeOK, Cleanup, Enter
<1>. QED
  BY <1>1, <1>2, <1>3, <1>4, <1>5 DEF AppInv, ReleaseInv, OrderInv, StartInv, StopInv, Quiet, Options

LEMMA CloseUpdaterKeeps ==
  ASSUME Inv, NEW a \in Apps, CloseUpdater(a)
  PROVE  AppInv(a)' /\ \A b \in Apps : b # a => Untouched(b)
<1>1. \A b \in Apps : b # a => Untouched(b)
  BY DEF Inv, TypeOK, CloseUpdater, caddyVars, Untouched
<1>2. AppInv(a) /\ settings[a] \in Options
  BY OptionsAreBoolean DEF Inv
<1>3. /\ phase'[a] = phase[a] /\ up'[a] = up[a] /\ settings'[a] = settings[a]
      /\ ops'[a] = ops[a] /\ loaded'[a] = loaded[a] /\ watchers'[a] = watchers[a]
      /\ callback'[a] = callback[a]
  BY DEF Inv, TypeOK, CloseUpdater, caddyVars
<1>4. closing[a] = "updater" /\ closing'[a] = "monitor" /\ updater'[a] = "none"
  BY DEF Inv, TypeOK, CloseUpdater, caddyVars
<1>. QED
  BY <1>1, <1>2, <1>3, <1>4 DEF AppInv, ReleaseInv, OrderInv, StartInv, StopInv, Quiet, Options

LEMMA CloseMonitorKeeps ==
  ASSUME Inv, NEW a \in Apps, CloseMonitor(a)
  PROVE  AppInv(a)' /\ \A b \in Apps : b # a => Untouched(b)
<1>1. \A b \in Apps : b # a => Untouched(b)
  BY DEF Inv, TypeOK, CloseMonitor, caddyVars, Untouched
<1>2. AppInv(a) /\ settings[a] \in Options
  BY OptionsAreBoolean DEF Inv
<1>3. /\ phase'[a] = phase[a] /\ up'[a] = up[a] /\ settings'[a] = settings[a]
      /\ ops'[a] = ops[a] /\ loaded'[a] = loaded[a] /\ callback'[a] = callback[a]
      /\ updater'[a] = updater[a]
  BY DEF Inv, TypeOK, CloseMonitor, caddyVars
<1>4. closing[a] = "monitor" /\ closing'[a] = "release" /\ callback[a] = NoDB
  BY DEF Inv, TypeOK, CloseMonitor, caddyVars
<1>5. watchers[a] \in {0, 1} /\ watchers'[a] = IF watchers[a] = 0 THEN 0 ELSE watchers[a] - 1
  BY DEF Inv, TypeOK, CloseMonitor, caddyVars
<1>. QED
  BY <1>1, <1>2, <1>3, <1>4, <1>5 DEF AppInv, ReleaseInv, OrderInv, StartInv, StopInv, Quiet, Options

LEMMA ReleaseKeeps ==
  ASSUME Inv, NEW a \in Apps, Release(a)
  PROVE  AppInv(a)' /\ \A b \in Apps : b # a => Untouched(b)
<1>1. \A b \in Apps : b # a => Untouched(b)
  BY DEF Inv, TypeOK, Release, Enter, Untouched
<1>2. AppInv(a) /\ settings[a] \in Options
  BY OptionsAreBoolean DEF Inv
<1>3. /\ settings'[a] = settings[a] /\ watchers'[a] = watchers[a] /\ callback'[a] = callback[a]
      /\ updater'[a] = updater[a]
  BY DEF Inv, TypeOK, Release, Enter
<1>4. closing[a] = "release" /\ closing'[a] = "no" /\ ops'[a] = "closed" /\ loaded'[a] = {}
  BY DEF Inv, TypeOK, Release, Enter
<1>5. \/ phase[a] = "discarded" /\ phase'[a] = "gone" /\ up'[a] = up[a]
      \/ phase[a] # "discarded" /\ phase'[a] = phase[a] /\ up'[a] = up[a] \ {"geo_ops"}
  BY DEF Inv, TypeOK, Release, Enter
<1>. QED
  BY <1>1, <1>2, <1>3, <1>4, <1>5 DEF AppInv, ReleaseInv, OrderInv, StartInv, StopInv, Quiet, Options

-----------------------------------------------------------------------------
(* The app's goroutines. *)
LEMMA CallbackBeginsKeeps ==
  ASSUME Inv, NEW a \in Apps, NEW d \in Databases, CallbackBegins(a, d)
  PROVE  AppInv(a)' /\ \A b \in Apps : b # a => Untouched(b)
<1>1. \A b \in Apps : b # a => Untouched(b)
  BY DEF Inv, TypeOK, CallbackBegins, caddyVars, Untouched
<1>2. AppInv(a) /\ settings[a] \in Options
  BY OptionsAreBoolean DEF Inv
<1>3. /\ phase'[a] = phase[a] /\ up'[a] = up[a] /\ settings'[a] = settings[a]
      /\ ops'[a] = ops[a] /\ loaded'[a] = loaded[a] /\ watchers'[a] = watchers[a]
      /\ updater'[a] = updater[a] /\ closing'[a] = closing[a]
  BY DEF Inv, TypeOK, CallbackBegins, caddyVars
<1>4. watchers[a] > 0 /\ watchers[a] \in {0, 1}
  BY DEF Inv, TypeOK, CallbackBegins, caddyVars
<1>. QED
  BY <1>1, <1>2, <1>3, <1>4 DEF AppInv, ReleaseInv, OrderInv, StartInv, StopInv, Quiet, Options

LEMMA CallbackEndsKeeps ==
  ASSUME Inv, NEW a \in Apps, CallbackEnds(a)
  PROVE  AppInv(a)' /\ \A b \in Apps : b # a => Untouched(b)
<1>1. \A b \in Apps : b # a => Untouched(b)
  BY DEF Inv, TypeOK, CallbackEnds, caddyVars, Untouched
<1>2. AppInv(a) /\ settings[a] \in Options
  BY OptionsAreBoolean DEF Inv
<1>3. /\ phase'[a] = phase[a] /\ up'[a] = up[a] /\ settings'[a] = settings[a]
      /\ ops'[a] = ops[a] /\ watchers'[a] = watchers[a] /\ updater'[a] = updater[a]
      /\ closing'[a] = closing[a]
  BY DEF Inv, TypeOK, CallbackEnds, caddyVars
<1>4. callback[a] # NoDB /\ callback'[a] = NoDB
  BY DEF Inv, TypeOK, CallbackEnds, caddyVars
<1>. QED
  BY <1>1, <1>2, <1>3, <1>4 DEF AppInv, ReleaseInv, OrderInv, StartInv, StopInv, Quiet, Options

LEMMA PassBeginsKeeps ==
  ASSUME Inv, NEW a \in Apps, PassBegins(a)
  PROVE  AppInv(a)' /\ \A b \in Apps : b # a => Untouched(b)
<1>1. \A b \in Apps : b # a => Untouched(b)
  BY DEF Inv, TypeOK, PassBegins, caddyVars, Untouched
<1>2. AppInv(a) /\ settings[a] \in Options
  BY OptionsAreBoolean DEF Inv
<1>3. /\ phase'[a] = phase[a] /\ up'[a] = up[a] /\ settings'[a] = settings[a]
      /\ ops'[a] = ops[a] /\ loaded'[a] = loaded[a] /\ watchers'[a] = watchers[a]
      /\ callback'[a] = callback[a] /\ closing'[a] = closing[a]
  BY DEF Inv, TypeOK, PassBegins, caddyVars
<1>4. updater[a] = "idle" /\ updater'[a] = "passing"
  BY DEF Inv, TypeOK, PassBegins, caddyVars
<1>. QED
  BY <1>1, <1>2, <1>3, <1>4 DEF AppInv, ReleaseInv, OrderInv, StartInv, StopInv, Quiet, Options

LEMMA PassEndsKeeps ==
  ASSUME Inv, NEW a \in Apps, PassEnds(a)
  PROVE  AppInv(a)' /\ \A b \in Apps : b # a => Untouched(b)
<1>1. \A b \in Apps : b # a => Untouched(b)
  BY DEF Inv, TypeOK, PassEnds, caddyVars, Untouched
<1>2. AppInv(a) /\ settings[a] \in Options
  BY OptionsAreBoolean DEF Inv
<1>3. /\ phase'[a] = phase[a] /\ up'[a] = up[a] /\ settings'[a] = settings[a]
      /\ ops'[a] = ops[a] /\ loaded'[a] = loaded[a] /\ watchers'[a] = watchers[a]
      /\ callback'[a] = callback[a] /\ closing'[a] = closing[a]
  BY DEF Inv, TypeOK, PassEnds, caddyVars
<1>4. updater[a] = "passing" /\ updater'[a] = "idle"
  BY DEF Inv, TypeOK, PassEnds, caddyVars
<1>. QED
  BY <1>1, <1>2, <1>3, <1>4 DEF AppInv, ReleaseInv, OrderInv, StartInv, StopInv, Quiet, Options

LEMMA UpdaterExitsKeeps ==
  ASSUME Inv, NEW a \in Apps, UpdaterExits(a)
  PROVE  AppInv(a)' /\ \A b \in Apps : b # a => Untouched(b)
<1>1. \A b \in Apps : b # a => Untouched(b)
  BY DEF Inv, TypeOK, UpdaterExits, caddyVars, Untouched
<1>2. AppInv(a) /\ settings[a] \in Options
  BY OptionsAreBoolean DEF Inv
<1>3. /\ phase'[a] = phase[a] /\ up'[a] = up[a] /\ settings'[a] = settings[a]
      /\ ops'[a] = ops[a] /\ loaded'[a] = loaded[a] /\ watchers'[a] = watchers[a]
      /\ callback'[a] = callback[a] /\ closing'[a] = closing[a]
  BY DEF Inv, TypeOK, UpdaterExits, caddyVars
<1>4. updater[a] = "idle" /\ closing[a] = "updater" /\ updater'[a] = "exited"
  BY DEF Inv, TypeOK, UpdaterExits, caddyVars
<1>. QED
  BY <1>1, <1>2, <1>3, <1>4 DEF AppInv, ReleaseInv, OrderInv, StartInv, StopInv, Quiet, Options

-----------------------------------------------------------------------------
(* The steps that change two configurations. *)
LEMMA SwitchKeeps ==
  ASSUME Inv, NEW a \in Apps, Switch(a)
  PROVE  \A b \in Apps : AppInv(b)'
<1>. SUFFICES ASSUME NEW b \in Apps PROVE AppInv(b)'
  OBVIOUS
<1>1. AppInv(b) /\ settings[b] \in Options
  BY OptionsAreBoolean DEF Inv
<1>2. /\ up'[b] = up[b] /\ settings'[b] = settings[b] /\ ops'[b] = ops[b]
      /\ loaded'[b] = loaded[b] /\ watchers'[b] = watchers[b] /\ callback'[b] = callback[b]
      /\ updater'[b] = updater[b] /\ closing'[b] = closing[b]
  BY DEF Switch, appVars
<1>3. CASE b = a
  <2>1. phase[b] = "starting" /\ up[b] = Siblings /\ phase'[b] = "running"
    BY <1>3 DEF Inv, TypeOK, Switch
  <2>. QED
    BY <1>1, <1>2, <2>1 DEF AppInv, ReleaseInv, OrderInv, StartInv, StopInv, Quiet, Options
<1>4. CASE b # a /\ b = current
  <2>1. phase[b] = "running" /\ phase'[b] = "stopping"
    BY <1>4 DEF Inv, TypeOK, InForce, Switch
  <2>. QED
    BY <1>1, <1>2, <2>1 DEF AppInv, ReleaseInv, OrderInv, StartInv, StopInv, Quiet, Options
<1>5. CASE b # a /\ b # current
  <2>1. Untouched(b)
    BY <1>2, <1>5 DEF Inv, TypeOK, Switch, Untouched
  <2>. QED
    BY <1>1, <2>1, UntouchedInv
<1>. QED
  BY <1>3, <1>4, <1>5

LEMMA ShutdownKeeps ==
  ASSUME Inv, Shutdown
  PROVE  \A b \in Apps : AppInv(b)'
<1>. SUFFICES ASSUME NEW b \in Apps PROVE AppInv(b)'
  OBVIOUS
<1>1. AppInv(b) /\ settings[b] \in Options
  BY OptionsAreBoolean DEF Inv
<1>2. /\ up'[b] = up[b] /\ settings'[b] = settings[b] /\ ops'[b] = ops[b]
      /\ loaded'[b] = loaded[b] /\ watchers'[b] = watchers[b] /\ callback'[b] = callback[b]
      /\ updater'[b] = updater[b] /\ closing'[b] = closing[b]
  BY DEF Shutdown, appVars
<1>3. CASE b = current
  <2>1. phase[b] = "running" /\ phase'[b] = "stopping"
    BY <1>3 DEF Inv, TypeOK, InForce, Shutdown, Enter
  <2>. QED
    BY <1>1, <1>2, <2>1 DEF AppInv, ReleaseInv, OrderInv, StartInv, StopInv, Quiet, Options
<1>4. CASE b # current
  <2>1. Untouched(b)
    BY <1>2, <1>4 DEF Inv, TypeOK, Shutdown, Enter, Untouched
  <2>. QED
    BY <1>1, <2>1, UntouchedInv
<1>. QED
  BY <1>3, <1>4

-----------------------------------------------------------------------------
LEMMA AppsNext == Inv /\ [Next]_vars => \A b \in Apps : AppInv(b)'
<1>. SUFFICES ASSUME Inv, [Next]_vars PROVE \A b \in Apps : AppInv(b)'
  OBVIOUS
<1>1. ASSUME NEW a \in Apps, AppInv(a)', \A b \in Apps : b # a => Untouched(b)
      PROVE  \A b \in Apps : AppInv(b)'
  BY <1>1, UntouchedInv DEF Inv
<1>2. CASE UNCHANGED vars
  BY <1>2, UntouchedInv DEF Inv, Untouched, vars, caddyVars, appVars
<1>3. CASE Shutdown
  BY <1>3, ShutdownKeeps
<1>4. ASSUME NEW a \in Apps, NEW options \in Settings, Provision(a, options)
      PROVE  \A b \in Apps : AppInv(b)'
  BY <1>1, <1>4, ProvisionKeeps
<1>5. ASSUME NEW a \in Apps, Load(a) PROVE \A b \in Apps : AppInv(b)'
  BY <1>1, <1>5, ValidateKeeps, ProvisionSiblingsKeeps, StartKeeps, StartUpdaterKeeps,
     StartHTTPKeeps, SwitchKeeps DEF Load
<1>6. ASSUME NEW a \in Apps, Unload(a) PROVE \A b \in Apps : AppInv(b)'
  BY <1>1, <1>6, StopHTTPKeeps, StopKeeps, AllStoppedKeeps, CleanupKeeps DEF Unload
<1>7. ASSUME NEW a \in Apps, Close(a) PROVE \A b \in Apps : AppInv(b)'
  BY <1>1, <1>7, CloseUpdaterKeeps, CloseMonitorKeeps, ReleaseKeeps DEF Close
<1>8. ASSUME NEW a \in Apps, Goroutines(a) PROVE \A b \in Apps : AppInv(b)'
  BY <1>1, <1>8, CallbackBeginsKeeps, CallbackEndsKeeps, PassBeginsKeeps, PassEndsKeeps,
     UpdaterExitsKeeps DEF Goroutines
<1>. QED
  BY <1>2, <1>3, <1>4, <1>5, <1>6, <1>7, <1>8 DEF Next

(* Who is busy and who is in force changes in a few ways only. *)
Moves ==
  \/ UNCHANGED <<phase, current>>
  \/ /\ UNCHANGED current
     /\ \E a \in Apps :
          /\ phase[a] # "running" /\ phase'[a] # "running"
          /\ phase[a] \notin Settled \/ \A b \in Apps : phase[b] \in Settled
          /\ \A b \in Apps : b # a => phase'[b] = phase[b]
  \/ \E a \in Apps : Switch(a)
  \/ Shutdown

LEMMA CaddyMoves == Inv /\ [Next]_vars => Moves
<1>. SUFFICES ASSUME Inv, [Next]_vars PROVE Moves
  OBVIOUS
<1>. USE DEF Enter
<1>1. phase \in [Apps -> Settled \cup {"provisioned", "validated", "starting", "watching",
                                      "failing", "stopping", "discarded"}]
  BY DEF Inv, TypeOK
<1>2. CASE UNCHANGED vars
  BY <1>2 DEF Moves, vars, caddyVars
<1>3. CASE Shutdown
  BY <1>3 DEF Moves
<1>4. ASSUME NEW a \in Apps, NEW options \in Settings, Provision(a, options) PROVE Moves
  BY <1>1, <1>4 DEF Moves, Provision, Settled
<1>5. ASSUME NEW a \in Apps, Load(a) PROVE Moves
  <2>1. CASE Validate(a)
    BY <1>1, <2>1 DEF Moves, Validate, Settled
  <2>2. CASE ProvisionSiblings(a)
    BY <1>1, <2>2 DEF Moves, ProvisionSiblings, Settled
  <2>3. CASE Start(a)
    BY <1>1, <2>3 DEF Moves, Start, Settled
  <2>4. CASE StartUpdater(a)
    BY <1>1, <2>4 DEF Moves, StartUpdater, Settled
  <2>5. CASE StartHTTP(a)
    BY <1>1, <2>5 DEF Moves, StartHTTP, Settled
  <2>6. CASE Switch(a)
    BY <2>6 DEF Moves
  <2>. QED
    BY <1>5, <2>1, <2>2, <2>3, <2>4, <2>5, <2>6 DEF Load
<1>6. ASSUME NEW a \in Apps, Unload(a) PROVE Moves
  <2>1. CASE StopHTTP(a)
    BY <2>1 DEF Moves, StopHTTP
  <2>2. CASE Stop(a)
    BY <2>2 DEF Moves, Stop, caddyVars
  <2>3. CASE AllStopped(a)
    BY <1>1, <2>3 DEF Moves, AllStopped, Unloading, Settled
  <2>4. CASE Cleanup(a)
    BY <1>1, <2>4 DEF Moves, Cleanup, Settled
  <2>. QED
    BY <1>6, <2>1, <2>2, <2>3, <2>4 DEF Unload
<1>7. ASSUME NEW a \in Apps, Close(a) PROVE Moves
  <2>1. CASE CloseUpdater(a)
    BY <2>1 DEF Moves, CloseUpdater, caddyVars
  <2>2. CASE CloseMonitor(a)
    BY <2>2 DEF Moves, CloseMonitor, caddyVars
  <2>3. CASE Release(a)
    BY <1>1, <2>3 DEF Moves, Release, Settled
  <2>. QED
    BY <1>7, <2>1, <2>2, <2>3 DEF Close
<1>8. ASSUME NEW a \in Apps, Goroutines(a) PROVE Moves
  BY <1>8 DEF Moves, Goroutines, PassBegins, PassEnds, UpdaterExits, CallbackEnds,
     CallbackBegins, caddyVars
<1>. QED
  BY <1>2, <1>3, <1>4, <1>5, <1>6, <1>7, <1>8 DEF Next

LEMMA CaddyNext == Inv /\ [Next]_vars => (Alone /\ InForce)'
<1>. SUFFICES ASSUME Inv, [Next]_vars PROVE (Alone /\ InForce)'
  OBVIOUS
<1>1. Alone /\ InForce /\ current \in Apps \cup {NoApp}
  BY DEF Inv, TypeOK
<1>2. CASE UNCHANGED <<phase, current>>
  BY <1>1, <1>2 DEF Alone, InForce
<1>3. ASSUME NEW a \in Apps, UNCHANGED current,
             phase[a] # "running", phase'[a] # "running",
             phase[a] \notin Settled \/ \A b \in Apps : phase[b] \in Settled,
             \A b \in Apps : b # a => phase'[b] = phase[b]
      PROVE  (Alone /\ InForce)'
  BY <1>1, <1>3 DEF Alone, InForce
<1>4. ASSUME NEW a \in Apps, Switch(a) PROVE (Alone /\ InForce)'
  <2>1. \A b \in Apps : phase'[b] = IF b = a THEN "running"
                                   ELSE IF b = current THEN "stopping" ELSE phase[b]
    BY <1>4 DEF Switch
  <2>2. phase[a] \notin Settled /\ current' = a
    BY <1>4 DEF Switch, Settled
  <2>. QED
    BY <1>1, <2>1, <2>2 DEF Alone, InForce, Settled
<1>5. CASE Shutdown
  <2>1. current \in Apps /\ current' = NoApp /\ \A b \in Apps : phase[b] \in Settled
    BY <1>1, <1>5 DEF Shutdown
  <2>2. \A b \in Apps : phase'[b] = IF b = current THEN "stopping" ELSE phase[b]
    BY <1>5 DEF Inv, TypeOK, Shutdown, Enter
  <2>. QED
    BY <1>1, <2>1, <2>2, AppAssumption DEF Alone, InForce, Settled
<1>. QED
  BY <1>2, <1>3, <1>4, <1>5, CaddyMoves DEF Moves

THEOREM Invariance == Safety => []Inv
<1>1. Inv /\ [Next]_vars => Inv'
  BY TypeNext, AppsNext, CaddyNext DEF Inv
<1>. QED
  BY InitInv, <1>1, PTL DEF Safety

-----------------------------------------------------------------------------
(* The types of all variables. *)
THEOREM TypeCorrect == Safety => []TypeOK
<1>1. Inv => TypeOK
  BY DEF Inv
<1>. QED
  BY Invariance, <1>1, PTL

(* Whatever fails while a configuration is loaded, and whichever of Stop    *)
(* and Cleanup Caddy then calls: what it has let go of holds nothing.       *)
THEOREM AllIsReleased == Safety => []GoneIsReleased
<1>1. Inv => GoneIsReleased
  BY DEF Inv, AppInv, ReleaseInv, GoneIsReleased
<1>. QED
  BY Invariance, <1>1, PTL

(* After Close no goroutine of the app is left to touch the nil map. *)
THEOREM ClosedIsQuiet == Safety => []ReleasedIsQuiet
<1>1. Inv => ReleasedIsQuiet
  BY DEF Inv, AppInv, ReleaseInv, ReleasedIsQuiet
<1>. QED
  BY Invariance, <1>1, PTL

(* What an updater downloads is watched for. *)
THEOREM UpdatersAreWatched == Safety => []UpdaterWatched
<1>1. Inv => UpdaterWatched
  BY DEF Inv, AppInv, OrderInv, UpdaterWatched
<1>. QED
  BY Invariance, <1>1, PTL

(* No request meets a server whose databases are not loaded yet, nor one    *)
(* whose databases are gone, unless Caddy is stopping that server too; and  *)
(* the configuration in force is complete.                                  *)
THEOREM Served == Safety => []ServedUntilStopped
<1>1. ASSUME Inv PROVE ServedUntilStopped
  <2>1. ASSUME NEW a \in Apps, "http" \in up[a], ops[a] # "open"
        PROVE  phase[a] = "stopping" /\ "geo_ops" \notin up[a]
    <3>1. AppInv(a) /\ phase[a] \in Settled \cup {"provisioned", "validated", "starting",
                                   "watching", "failing", "stopping", "discarded"}
      BY <1>1 DEF Inv, TypeOK
    <3>2. phase[a] \notin {"unused", "discarded", "gone", "provisioned", "validated"}
      BY <2>1, <3>1 DEF AppInv, StartInv, StopInv
    <3>3. phase[a] \notin {"starting", "watching", "running", "failing"}
      BY <2>1, <3>1 DEF AppInv, ReleaseInv, StopInv
    <3>. QED
      BY <2>1, <3>1, <3>2, <3>3 DEF AppInv, StopInv, Settled
  <2>2. ASSUME current # NoApp
        PROVE  /\ up[current] = Siblings
               /\ watchers[current] = 1
               /\ settings[current].autoUpdate <=> updater[current] # "none"
    <3>1. current \in Apps
      BY <1>1, <2>2 DEF Inv, TypeOK
    <3>2. phase[current] = "running" /\ AppInv(current)
      BY <1>1, <3>1 DEF Inv, InForce
    <3>. QED
      BY <3>2 DEF AppInv, StartInv, Siblings
  <2>. QED
    BY <2>1, <2>2 DEF ServedUntilStopped
<1>. QED
  BY Invariance, <1>1, PTL

(* Two configurations at most have goroutines: those not settled and the    *)
(* one in force.                                                            *)
THEOREM TwoAtMost == Safety => []AtMostTwo
<1>1. ASSUME Inv PROVE AtMostTwo
  <2> DEFINE busy == {a \in Apps : ~Quiet(a)}
  <2>1. \A a \in busy : phase[a] \notin Settled \/ a = current
    BY <1>1 DEF Inv, AppInv, ReleaseInv, InForce, Settled, TypeOK
  <2>2. PICK u : busy \subseteq {current, u}
    <3>1. CASE \E a \in Apps : phase[a] \notin Settled
      BY <1>1, <2>1, <3>1 DEF Inv, Alone
    <3>2. CASE \A a \in Apps : phase[a] \in Settled
      BY <2>1, <3>2
    <3>. QED
      BY <3>1, <3>2
  <2>3. IsFiniteSet({current, u}) /\ Cardinality({current, u}) <= 2
    <3>1. IsFiniteSet({current}) /\ Cardinality({current}) = 1
      BY FS_Singleton
    <3>2. {current, u} = {current} \cup {u}
      OBVIOUS
    <3>. QED
      BY <3>1, <3>2, FS_AddElement
  <2>4. Cardinality(busy) <= Cardinality({current, u}) /\ Cardinality(busy) \in Nat
    <3>1. IsFiniteSet(busy) /\ Cardinality(busy) <= Cardinality({current, u})
      BY <2>2, <2>3, FS_Subset
    <3>. QED
      BY <3>1, FS_CardinalityType
  <2>5. Cardinality({current, u}) \in Nat
    BY <2>3, FS_CardinalityType
  <2>. QED
    BY <2>3, <2>4, <2>5 DEF AtMostTwo
<1>. QED
  BY Invariance, <1>1, PTL

==============================================================================
