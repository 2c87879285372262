# A formal model of caddy-geo-ops

`caddy-geo-ops` adds GeoIP placeholders and a matcher to Caddy. It keeps a
registry of mmdb databases loaded from one directory (`db_path`), reloads them
while requests are served, and can download new versions from MaxMind, DB-IP and
IP2Location. This directory holds TLA+ modules for the program, from Caddy's
life cycle down to the flattening of a record, TLC configurations that check them
on small instances, and proofs that TLAPS checks for instances of every size.

All source paths below are relative to `src/`.

## Inventory

| Component | State it keeps | Operations | Talks to |
|---|---|---|---|
| Registry, `internal/ops` (`ops.go`, `provider.go`) | map name -> provider (open mmdb reader, md5), RWMutex, monitor, updater | `New`, `LookupAll`, `GetDBInfo`, `Reload`, `Delete`, `StartWatcher`, `StartUpdater`, `Close` | called by requests, the monitor's callbacks, the updater, Caddy |
| Directory monitor, `internal/dirmonitor` | fsnotify watcher, a debounce timer per lower-case name, two unbuffered channels, `quit` | `New`, `Start`, `Close`, `watcherLoop`, timer callbacks, `settle`, `handleEvents` | reads the directory; calls `Ops.reloadWatched` and `Ops.Delete` |
| Updater, `internal/update` | ticker, context, temp files in `db_path` | `New` (with `cleanStaleTemps`), `Start`, `Stop`, `updateAll`, three downloads, `writeAtomic`, archive extraction | `Ops.GetDBInfo`; vendors over HTTP; the directory, hence the monitor |
| App, `app` | `ops` | `Provision`, `Validate`, `Start`, `Stop`, `Cleanup`, `LookupAll` | called by Caddy |
| Handler, `handler`; client address, `internal/clientip` | none | `ServeHTTP` | `App.LookupAll` |
| Matcher, `matcher` | conditions | `Validate`, `MatchWithError` | `App.LookupAll` |
| Taxonomy, `internal/db` | none | `ToFilename`, `Key`, `ToType`, vendor predicates | everybody |
| Flattening, `internal/replacers` | none | `Flatten` | `provider.flattenInto` |
| Parsing, logging, registration | none | Caddyfile directives, zap fields | |

What is hard: lookups against hot reload and `Close` (one map, one lock, readers
that must be closed exactly once, after their last use); the monitor's debounce,
where timers, their goroutines, a select over two channels and changes of the
directory interleave; the updater's files, which must survive errors, crashes
and a second updater (Caddy starts the new configuration before it stops the old
one); conditional requests whose condition is state read earlier. What makes
each part correct:

* registry: a lookup sees the map of one instant, no reader is used after close,
  none leaks, nothing is stored after `Close`, everybody returns;
* monitor with registry: no change is lost, what is served converges to what is
  on disk, a working database goes only with its file, `Close` leaves nothing
  running;
* updater: a file is never partly written, no temp file leaks or is taken from
  its writer, "up to date" is true, `Stop` returns;
* App: every path through Provision, Validate, Start, Stop and Cleanup releases
  what it took;
* handler, matcher: each looks up on its own, yet a request must be shown, and
  matched by, the databases of one instant;
* taxonomy, flattening: pure functions, compared with what the documentation's
  table and a walk through the record say;
* all together: what a vendor has published is served in the end.

`PROJECT.json` lists the hazards at their lines with the properties that cover
them.

## Modules

### Registry and Ops

`Registry` is what `internal/ops` promises: a map that `Install` (Reload),
`Remove` (Delete) and `Shut` (Close) change in one step, and calls whose answer
is the map as it was at one instant (`Ask`, `Answer`).

`Ops` is the code. The RWMutex is explicit: a writer announces itself (`Lock`,
then `Swap` once the readers are gone), readers that come after queue in
`blocked`, `Unlock` lets them in. A lookup is `RLock`, then for each database
`RangeNext` (the loop takes a provider) and `FlattenInto` (it uses the reader),
then `RUnlock`. Reload is `ReloadCall`, `Load` or `LoadFails`, `Lock`, `Swap`,
`Unlock`, `StopOld`: the file is parsed before the lock and the old reader
closed after it. Delete shares the steps with `fresh = None`. Close waits for
the writers (`CloseLock`), releases under the lock and unlocks, twice if asked.
A provider carries an id, so that two loads of the same bytes are two pointers.
`ImplementsRegistry` states that `Ops` implements `Registry`, with the map of
providers read as a map of versions.

A closed reader that is looked up contributes nothing; a record that does not
decode (`Undecodable`) is skipped. The content of records is not modelled.

### DirMonitor and HotReload

`DirMonitor` is the monitor by itself. `events` is fsnotify's queue (only names
matter: every kind of event is treated alike), `timers` the map of debounce
timers with the file each was created for, `callbacks[p][s]` counts the timer
goroutines of file `p` before step `s`: `removeTimer`, `stat`, and the blocked
sends `update` and `delete`. `handler` is `handleEvents`. `Close` is its four
steps. Time is left out: an armed timer may fire at any moment, which covers
every length of the debounce window.

`HotReload` extends it with the registry seen from outside (`served`), one step
for each change of the map, which `Ops` justifies: `Load` and `Install` (a
Reload reads the file first and stores later), `ReloadFails`, `Delete`, `New`,
`Release`.

`DrivesRegistry` joins it to `Registry`: every step of the monitor, its callbacks,
`New` and Close is one of the registry's operations or leaves it alone, so that
`Ops`, `Registry` and `HotReload` speak of one map, from its locks to the directory.

Two constants name what the environment may do. `QuietStart`: no change before
the watch is in place. `RecreateRace`: a file may appear again while a delete
decided from its absence is still on its way. The properties that the code
keeps are checked with `QuietStart` and without `RecreateRace`, with file names
that do not collide; what happens otherwise is in the findings.

### Updater

`Updater` models any number of updaters on one directory, each created, started
and stopped once. `pc` follows one updater: `created`, `pass` (the loop of
`updateAll`), `request`, `reading` or `zipping` (an IP2Location archive in memory
or in a temp file), `copying` and `renaming` (`writeAtomic`), `closing` (the
deferred calls and `run`'s log), `wait` (the select), `stopped`, `dead`. `out`
and `zip` are the modification times of the two temp files an updater may have;
a crash leaves them. `todo` is what `GetDBInfo` returned when the pass began, so
md5 sums are as old as in the code. MaxMind is asked with the md5, the others
with `If-Modified-Since`; DB-IP's URL names a month and the month before is tried
once. Vendors are external: they publish numbered versions (`released`), answer
honestly and may fail at any time.

Time is an integer clock. Three assumptions connect it with the code: a download
that uses the connection ends before its context's deadline; closing and
renaming the temp file take no time; the copy of an entry out of a local archive
may take any time but keeps writing. `PublishAnytime` and `BadPayloads` are the
vendors that may publish during a download and that may serve a damaged file.
`Publish` is also barred while the local file is as young as the clock can tell:
HTTP dates have whole seconds, so a release dated in the second in which the file
was written is "not modified" to `If-Modified-Since` until the next release, in the
code as well.

Of what each cycle asks, two properties are about versions. `UnchangedIsCurrent`:
"up to date" is logged only of the latest version. `WrittenAsAsked`: a download
brings the latest version there was when it was asked for, so that of two updaters
that write one file the slower one does harm only if its vendor has published in
the meantime.

### App

`App` is package `app` with as much of Caddy and of `Ops` as its hooks touch. Every
configuration has its own app; `phase` is how far Caddy is with it: `Provision`
(`ops.New` loads the databases or fails), `Validate`, `ProvisionSiblings`, `Start`
and `StartUpdater` (`App.Start` with its failing steps), `StartHTTP`, `Switch`,
then `Stop` for what was started and `Cleanup` for everything. The order in which
the two apps of a configuration start and stop is free, as Caddy's map is: hence the
exception in `ServedUntilStopped`, for the server of a configuration that Caddy is
stopping. `Close` is
`CloseUpdater`, `CloseMonitor` and `Release`, each waiting for its goroutine;
`Goroutines` are the updater's passes and the monitor's callback, and the select
that may prefer either a tick or the cancelled context. Caddy is modelled from how
`src/` is called by it and marked external.

### Requests, Flatten, Records

`Requests` is a request on its way through matchers and handlers over `Registry`,
which `Ops` implements. `MatchBegins` and `MatchEnds` surround a matcher's
`LookupAll`, `ServeBegins` and `ServeEnds` a handler's; `Change` reloads or deletes
a database, and `Close` closes them all, between any two steps. `ServeEnds` registers the placeholders'
function, which Caddy's replacer asks in the order of registration: of two handlers
the first one answers. `seen` is history: the registry's contents since the request
came. `Fields` is the flattened record of the client's address in each version of
a database; `clientip.FromRequest` is whether there is an address.

`Flatten` is `internal/replacers`: a decoded value becomes a set of paths and
strings. It is a recursive function over `Decoded`, a set of values that holds the
children of its members, each less deep than its parent (`Depth`): the decoder
builds values from the leaves up. `Records` puts the two together: `Fields` is what
`Flatten` makes of each version's nested record `RecordOf`, and `ShownAsStored`
compares what a request is shown with a walk through that record, from the root
along the placeholder's path, which is defined without `Flatten`.

### Taxonomy, GeoOps

`Taxonomy` is `internal/db` and the choices `updateAll` makes by edition: from the
file name to the type, the vendor and the vendor's name for the product.

`GeoOps` puts one database through all of `internal/ops`: it extends `HotReload`
with the vendor (`Publish`), the updater (`Ask`, `UpToDate`, `Download`, `Fail`,
`Rename`), the operator, `Close` in the code's order (`StopUpdater` first) and the
death of the process (`Restart`). Of `Updater` only what decides whether a download
is due is kept: the md5 of what is *served* for MaxMind, whether the file has been
modified since the release (`recent`) for the others. That closes the loop: what is
written is reloaded, and what is served is asked about. The file may lie there in
another spelling, of which the updater knows nothing (`Lower` is what it writes);
of several spellings the last one that `ReadDir` lists is loaded, and capitals come
first. `Download` may be damaged for MaxMind only, whose md5 makes the next cycle
retry; a damaged file of the others is "not modified" to the next cycle, which run
`updater_damaged` shows. `FinallyCurrent` has one exception: where the operator has
left no file that could be loaded, nothing is served, and the updater asks only
about what is served. `MCGeoOps` runs it for each of the 18 editions of the table at
`README.md:235-252`, with the names vendors give to their products.

## Runs

| Run | Instance | Shows |
|---|---|---|
| `ops` | 1 reader, 1 writer, 2 databases, 2 versions (one undecodable), 2 loads | refinement of `Registry` with liveness; writers and Close return |
| `ops_locks` | 2 readers, 2 writers, 2 databases, 2 loads, symmetry | no use after close, no leak, no store after Close |
| `hot_reload` | a known file and one of another name, 2 good contents and a bad one, 2 changes | no lost change, no drop of a present file, nothing after Close, only operations of `Registry`; convergence; Close finishes and leaves no goroutine |
| `updater` | 1 updater, a MaxMind and a DB-IP database, time to 3, periods of 2 | "up to date" is true; what is written is as new as what was asked for; Stop returns |
| `updater_temps` | 2 updaters, an IP2Location database, time to 3, symmetry | whole files, owned temp files, live ones spared |
| `app` | 3 configurations, 1 database, 4 option blocks | every path releases what it took, servers find their databases until Caddy stops their configuration, at most two apps on a directory; every load ends |
| `requests` | 1 request, 2 databases, 2 versions and a damaged one, 2 conditions, 2 changes | one instant per request, verdicts and placeholders agree, what is shown is what the record holds |
| `geo_ops` | each of 18 editions, 2 spellings, 2 versions, 2 mishaps, 1 operator's change | nothing written is lost on its way; the published version is served in the end, unless no file is left that could be loaded, and never an older one after a newer |

Two of everything is enough for the interleavings that matter: a reader that
overlaps a writer and one queued behind it, two writers that race for one key, a
file replaced, removed and put back within one debounce, an updater sweeping while
another writes, a request whose two lookups see different versions. Three
configurations are one in force, one that replaces it and one that does so again,
or fails. A frequency, a timeout and a month of 2 with a clock to 3 give a second
pass, an expired deadline, an orphan old enough to be swept and a change of month.
One database is enough for `geo_ops`, since each has its own file, timer and map
entry; two mishaps are a damaged or failed download and a crash, in either order.
`MaxLoads`, `MaxChanges`, `LastVersion`, `MaxTime` and `MaxMishaps` are the bounds
of counters that the code does not bound. The proofs below remove all of these
bounds for the safety properties.

`CHECK_DEADLOCK FALSE` where the system may really stop: after Close, when every
updater is stopped and the clock has reached its bound, when no configuration is
left to load. `requests` is checked for deadlock: a request can always arrive, and
one that has begun can always go on.

Runs that end in a violation:

| Run | Source | What happens |
|---|---|---|
| `hot_reload_recreate` | `internal/dirmonitor/dirmonitor.go:238` | `settle` decides, then waits to be heard. A file removed and put back can have its update handled first and the old delete afterwards: it is on disk and not served |
| `hot_reload_spellings` | `internal/dirmonitor/timer.go:26` | a file is renamed to another spelling of its name. The two events share a timer, which looks at the old name only: the database is dropped while the file is there |
| `updater_timeouts` | `internal/update/update.go:303` | the sweep uses the new updater's timeout on the old one's temp file |
| `updater_damaged` | `internal/update/update.go:583` | a file that did not load is "not modified" in the next cycle |

Seen while modelling, and kept as assumptions or notes instead of runs:

* files are loaded at Provision and watched from Start (`internal/ops/ops.go:68`,
  `internal/dirmonitor/dirmonitor.go:87`): a change in between is missed, so
  `Converges` needs `QuietStart`;
* the watcher compares the extension with its case (`dirmonitor.go:184`), so a file
  named `GEOIP2-CITY.MMDB` is loaded at start and never reloaded; `Watched` is the
  set of files for which the comparison succeeds;
* a version published while its predecessor is being downloaded is hidden by
  `If-Modified-Since` (`update.go:506`), because the file is newer than both:
  `UnchangedIsCurrent` and `FinallyCurrent` are about vendors that do not publish
  during a download, MaxMind excepted, whose client sends an md5;
* the first pass skips a file written less than `update_frequency` ago
  (`update.go:331`). The age of the file is not the age of the last check, so an
  up-to-date old file is asked about again at every restart;
* Caddy stops the apps of a configuration in any order, and `App.Stop` closes the
  databases at once (`app/app.go:145`): during a reload the old server, which may
  still have requests, finds none if this app is stopped first. The new configuration
  is in force by then; at shutdown there is none;
* when one of two spellings of a name is removed, `Ops.Delete` drops the key that
  both share (`ops.go:155`). The other file is there and not served until it is
  touched or the process restarts;
* the updater knows only lower-case names (`update.go:582`): beside
  `GeoIP2-City.mmdb` it writes a second file, which is loaded from then on, and at
  every start because it is listed last (`GeoOps`).

## Fairness

A goroutine that can run does (weak fairness of each goroutine's steps). Strong
fairness only where Go gives it: `sync.Mutex` hands the lock over in turn
(`Lock`), and a blocked send or a ready select case is taken if it is ready again
and again (`Receive`, `HandlerExit`, `WriterExit`, in `Updater` `Exit`, in `App`
`UpdaterExits` and `CloseMonitor`), because channels queue their senders and select
chooses at random. Armed timers expire. In `App`, Caddy's one loading goroutine goes on with
what it has begun, and callbacks and passes end, which `HotReload` and `Updater`
show. In `GeoOps` the ticker goes on ticking and vendors answer; faults are
bounded by `MaxMishaps`, so that in the end an attempt succeeds. Elsewhere nothing
is assumed of Caddy, requests, the operator, vendors or the clock; `StopReturns`
holds although no vendor ever answers.

## Proofs

Checked by TLAPS for all values of the constants that satisfy the named
assumptions (`OpsAssumption`, `MonitorAssumption`, `ReloadAssumption`, ...).

* `OpsProofs`: `TypeCorrect`, `ReadersStayOpen`, `ReadersAreOwned`, `NoPanic` and
  `Linearizable` (every safe behaviour of `Ops` is one of `Registry`). The
  inductive invariant adds to the types: who holds the lock (mutual exclusion of
  `swapped` writers, Close and readers), that providers in the map, in a Reload
  and in a Delete are pairwise different pointers with ids below `loads`, that a
  reader's `cur` is in the map while it holds the lock, and that the partial
  result `out` agrees with the map on the databases already seen. The last is
  what makes the lookup's `RUnlock` the step of `Answer`. `EveryWaitHasAnEnd`: behind
  every wait for the lock there is a goroutine whose next step nothing holds back.
* `HotReloadProofs`: `TypeCorrect`, `ShutForGood`, `RegistryDriven`,
  `EveryWaitHasAnEnd`, `NothingLost`, `DroppedOnlyIfGone`. The last two assume
  `CarefulOperator`: changes only after the watch, no recreation under a pending
  delete, every recognised path watched, no two of them with one key. The invariant
  records which timer belongs to which path and that a pending decision agrees with
  the directory unless a newer event, timer or goroutine is behind it. The argument
  is made for one path at a time (`PathStep`): a file stays `Tracked` as long as no
  other file of its key is in the monitor's hands (`Alone`). `RegistryDriven` needs
  nothing of the operator: nobody is between a Reload's parsing and its swap when
  Close releases. `EveryWaitHasAnEnd`: an offer on an unbuffered channel has a
  receiver, or quit is closed and it may be withdrawn; Close waits only for
  goroutines that can return.
* `UpdaterProofs`: `TypeCorrect`, `FilesAreWhole`, `TempsAreOwned`, and
  `SweepSparesLive`, which assumes that all updaters have the same timeout (run
  `updater_timeouts` is the counterexample without it). The invariant says of each
  download in flight that its deadline is at most a timeout away, that what it
  received is a version of an honest vendor, and that its temp file was written
  after it was asked for, or just now when no deadline bounds it: so it is younger
  than the timeout, which is what the comment at `internal/update/update.go:287`
  claims. `StopIsNear` is the part of `StopReturns` that is no matter of fairness: a
  cancelled updater has a step that waits for nobody, each such step lowers its
  `Distance` to the select, and nothing raises it but a tick that is due and wins
  there, whose pass ends at once.
* `UpdaterFreshProofs`: `LatestWhenAsked` and `UpToDateIsLatest`. The first needs
  no assumption. Its invariant keeps, for each download, that all versions newer
  than the month it asks for, or than what it has received, were published after it
  was asked for; DB-IP's second request inherits this because the first one's
  deadline has not passed. The second assumes `Undisturbed` (vendors asked with
  `If-Modified-Since` neither publish during a download nor serve damaged files, and
  MaxMind's downloads are overtaken only where there is one updater). Its invariant
  orders everything that stands for a version: what a pass remembers, what is loaded,
  what is in the file, what has been received, what is published.
* `AppProofs`: `TypeCorrect`, `AllIsReleased`, `ClosedIsQuiet`,
  `UpdatersAreWatched`, `Served`, `TwoAtMost`, for any number of configurations. The
  invariant says, for each phase of a configuration, what it may hold and which hook
  is still to come; that at most one configuration is between the settled phases
  while another is in force; and how far a running `Close` has got. For `Served` it
  also says (`StopInv`) that databases are still open where a server is up although a
  step of the same load fails, and that whoever is being stopped and has none has had
  this app stopped before.
* `RequestsProofs`: `TypeCorrect`, `ShownAtOnce`, `MatchedAtOnce`, `RoutedAsShown`,
  `Stay`, for any databases, versions, records, conditions and numbers of changes.
  The invariant ties an answer under way, a registered map and a verdict each to a
  member of `seen`.
* `RecordsProofs`: `OneLeafPerPath`, `FlattenIsWalk`, `FieldsAreLeaves` and
  `ShownFromRecords` (`ShownAsStored`), for records nested in any way and to any
  depth, assuming that distinct positions of a slice print differently and that
  values are finitely deep (`DecodedAssumption`). The induction over data that this
  needs is first-order: among the values that a set lacks there is one of least depth
  (< on the natural numbers is well-founded), all of whose children the set has
  (`ValueInduction`, over sets instead of predicates). That the recursive functions
  `Flatten` and `At` satisfy their definitions is proved from the same principle
  (`ValueRecursion`): functions that do so up to some depth agree, and are joined.
* `GeoOpsProofs`: `TypesAndWatch`, `NeverBack`, `WritesAreFollowed` and
  `FilesStayServed`, on top of the invariants of `HotReloadProofs`. The last two
  assume `QuietStart` and no `RecreateRace` but, unlike their counterparts for the
  monitor alone, not that the file has one spelling, and they hold through restarts.
  `FollowInv` says that the lower-case name, the only one that is ever in the
  monitor's hands, is `Tracked`, unless the file is there in capitals only and served
  from them. For `NeverBack`: as long as operators have changed nothing (the ghost
  counter `changes` is 0), versions only rise from what is served over what a Reload
  has read, the file and the download to what is published.

`CarefulOperator`, `QuietStart`, `RecreateRace` and `Undisturbed` are about the
environment; the violations and notes above show what happens without them.

The modules share a form: one lemma per part of the invariant with a step for each
action, and theorems that combine them. `changes`, `seen` and the bounds are the
only variables and constants that the code does not have.

Only model-checked: liveness under fairness (`WritersReturn`, `CloseReturns`,
`Converges`, `CloseReleases`, `GoroutinesEnd`, `StopReturns`, `LoadsEnd`,
`FinallyCurrent`, the liveness half of `ImplementsRegistry`), which is beyond the
prover because fairness speaks of ENABLED; and the findings, which are
counterexamples. `EveryWaitHasAnEnd` and `StopIsNear` prove, with guards written out
in place of ENABLED, that nobody waits for a lock, a channel or a goroutine that can
never be had.

## Not modelled

* Caddyfile parsing (`UnmarshalCaddyfile` in `app/app.go:189`, `handler/handler.go:107`
  and `matcher/matcher.go:143`), JSON decoding, logging and module registration:
  sequential, with no state that outlives the call; what they produce, options and
  conditions, is enumerated instead.
* fsnotify's queue is unbounded in the model. The code logs its overflow
  (`dirmonitor.go:208`) and does not read the directory again, so what was dropped
  is lost by the code as well.
* A file that changes while it is read is an unparsable content followed by the
  event of the last write.
* HTTP, tar, zip and gzip are reduced to their outcomes; tokens, user agents and
  logged text are left out, and so is the text of addresses: a request has a valid
  client address or none.
* The days of a month. `AddDate(0, -1, 0)` (`update.go:441`) from a day that the
  month before does not have (29 to 31 March, the 31st of May, July, October and
  December) stays in the current month, so the code asks for one month twice and says
  "not published" although the month before may be there. Months are numbers in the
  model, and the month before is one less. The unit test of the fallback
  (`update_test.go:260`) computes its previous month in the same way from today's
  date, and would fail on those days.
* `ops.New` that fails half way leaves the readers opened so far to the garbage
  collector (`ops.go:79`); `Provision` fails as a whole in `App`.
* CI and the e2e program.

## Open ends

A bounded event queue whose overflow is a lost change would turn the note above
into a run. Floating-point and 128-bit numbers are texts in `Flatten`; their
formatting could be compared with Go's.
