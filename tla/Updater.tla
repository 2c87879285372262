------------------------------- MODULE Updater -------------------------------
(***************************************************************************)
(* Package internal/update: each updater refreshes the databases of one    *)
(* directory from their vendors, one download at a time, at its start and  *)
(* on every tick of its ticker.  While Caddy reloads its configuration the *)
(* old and the new updater work on the same directory; after a crash a new *)
(* process finds what the old one left.                                    *)
(*                                                                         *)
(* Time is an integer.  Downloads end before their deadline, because their *)
(* context does; closing and renaming a file take no time; the copy of an  *)
(* entry out of an archive takes any time but never pauses.                *)
(***************************************************************************)
EXTENDS Integers

CONSTANTS
  Updaters,       \* each one is created, started and stopped once
  Files,          \* lower-case names of the databases (db.Filename)
  VendorOf,       \* [Files -> Vendors], from db.ToType
  Credentialed,   \* the vendors whose credentials are configured
  Frequency,      \* update_frequency
  Timeout,        \* [Updaters -> Nat]: update_timeout
  Month,          \* length of a month
  LastVersion,    \* bound: the vendors' versions are 1 .. LastVersion
  MaxTime,        \* bound of the clock
  PublishAnytime, \* environment: vendors that may publish during a download
  BadPayloads,    \* environment: vendors that may serve a damaged file
  Damaged,        \* the content of a file that is not a database
  Never,          \* not published
  Gone,           \* no such temp file
  NoFile,         \* no such database file
  NoJob           \* no download

Vendors == {"maxmind", "dbip", "ip2location"}
Versions == 1 .. LastVersion

ASSUME UpdaterAssumption ==
  /\ VendorOf \in [Files -> Vendors]
  /\ Credentialed \subseteq Vendors
  /\ Frequency \in Nat \ {0}
  /\ Timeout \in [Updaters -> Nat \ {0}]
  /\ Month \in Nat \ {0}
  /\ LastVersion \in Nat \ {0}
  /\ MaxTime \in Nat
  /\ PublishAnytime \subseteq Vendors
  /\ BadPayloads \subseteq Vendors
  /\ Damaged \notin Nat /\ Never \notin Nat /\ Gone \notin Nat

Contents == Versions \cup {Damaged}
Database == [content : Contents, mtime : Nat]
Jobs == [file : Files, since : Nat \cup {Gone}, month : Int, fallback : BOOLEAN,
         deadline : Nat, md5 : Versions, body : Contents]

ASSUME NothingAssumption == NoFile \notin Database /\ NoJob \notin Jobs

VARIABLES
  now,       \* the clock
  released,  \* when each vendor published each version
  target,    \* the database files: content and modification time
  loaded,    \* the content each updater's Ops serves (GetDBInfo's md5)
  pc,        \* where each updater is
  initial,   \* the current pass is the one Start makes
  todo,      \* what is left of the current pass: database -> md5, as GetDBInfo
             \* gave it when the pass began
  job,       \* the download of the current database
  outcome,   \* what run logs of it
  out,       \* modification time of writeAtomic's temp file
  zip,       \* modification time of extractMMDBToFile's temp file
  nextTick,  \* when the ticker fires, or has fired: ticks are not queued
  cancelled  \* Stop has cancelled the context

vendorVars == released
diskVars == <<target, out, zip>>
updaterVars == <<loaded, pc, initial, todo, job, outcome, nextTick, cancelled>>
vars == <<now, vendorVars, diskVars, updaterVars>>

(* Phases in which the context's deadline bounds the download.  A MaxMind   *)
(* or DB-IP body is copied straight from the connection into the temp file, *)
(* an IP2Location archive is received first and its entry copied then.      *)
Streamed(u) == VendorOf[job[u].file] # "ip2location"
Online(u) == pc[u] \in {"request", "reading", "zipping"} \/ (pc[u] = "copying" /\ Streamed(u))
InFlight(u) == Online(u) \/ pc[u] \in {"copying", "renaming"}
Alive(u) == pc[u] \notin {"off", "stopped", "dead"}

Published(f) == {v \in Versions : released[f][v] # Never}
Latest(f) == CHOOSE v \in Published(f) : \A w \in Published(f) : w <= v
MonthAt(t) == 1 + (t \div Month)
NothingLeft == [f \in {} |-> 1]

(* Every file is the vendor's first version, or was loaded from a file      *)
(* whose name is spelled with upper-case letters: then it is not found.     *)
Init ==
  /\ now = 0
  /\ released = [f \in Files |-> [v \in Versions |-> IF v = 1 THEN 0 ELSE Never]]
  /\ target \in [Files -> {[content |-> 1, mtime |-> 0], NoFile}]
  /\ loaded = [u \in Updaters |-> [f \in Files |-> 1]]
  /\ pc = [u \in Updaters |-> "off"]
  /\ initial = [u \in Updaters |-> FALSE]
  /\ todo = [u \in Updaters |-> NothingLeft]
  /\ job = [u \in Updaters |-> NoJob]
  /\ outcome = [u \in Updaters |-> "none"]
  /\ out = [u \in Updaters |-> Gone]
  /\ zip = [u \in Updaters |-> Gone]
  /\ nextTick = [u \in Updaters |-> 0]
  /\ cancelled = [u \in Updaters |-> FALSE]

-----------------------------------------------------------------------------
(* The environment: time, vendors, the watcher, Caddy, crashes. *)

Tick ==
  /\ now < MaxTime
  /\ \A u \in Updaters : /\ pc[u] # "renaming"
                         /\ Online(u) => now + 1 < job[u].deadline
  /\ now' = now + 1
  /\ out' = [u \in Updaters |->
       IF pc[u] = "copying" /\ ~Streamed(u) /\ out[u] # Gone THEN now' ELSE out[u]]
  /\ UNCHANGED <<released, target, zip, loaded, pc, initial, todo, job, outcome,
                 nextTick, cancelled>>

(* DB-IP publishes a file a month, the others replace the one they offer;   *)
(* not in the very second in which the local file was written.              *)
Publish(f, v) ==
  /\ released[f][v] = Never
  /\ IF VendorOf[f] = "dbip" THEN v = MonthAt(now) ELSE v = Latest(f) + 1
  /\ ~(target[f] # NoFile /\ target[f].mtime >= now)
  /\ VendorOf[f] \notin PublishAnytime =>
       \A u \in Updaters : ~(InFlight(u) /\ job[u].file = f)
  /\ released' = [released EXCEPT ![f][v] = now]
  /\ UNCHANGED <<now, diskVars, updaterVars>>

(* Mutant of HotReload: a damaged file is served as well. *)
HotReloadUnparsed(u, f) ==
  /\ Alive(u)
  /\ target[f] # NoFile
  /\ loaded' = [loaded EXCEPT ![u][f] = target[f].content]
  /\ UNCHANGED <<now, released, diskVars, pc, initial, todo, job, outcome,
                 nextTick, cancelled>>

(* The hot reload of a changed file, which keeps the old database when the  *)
(* new file is damaged.                                                     *)
HotReload(u, f) ==
  /\ Alive(u)
  /\ target[f] # NoFile /\ target[f].content \in Versions
  /\ loaded' = [loaded EXCEPT ![u][f] = target[f].content]
  /\ UNCHANGED <<now, released, diskVars, pc, initial, todo, job, outcome,
                 nextTick, cancelled>>

(* The process dies, with every updater in it. *)
Crash ==
  /\ \E u \in Updaters : Alive(u)
  /\ pc' = [u \in Updaters |-> IF Alive(u) THEN "dead" ELSE pc[u]]
  /\ loaded' = [u \in Updaters |-> [f \in Files |-> 1]]
  /\ initial' = [u \in Updaters |-> FALSE]
  /\ todo' = [u \in Updaters |-> NothingLeft]
  /\ job' = [u \in Updaters |-> NoJob]
  /\ outcome' = [u \in Updaters |-> "none"]
  /\ nextTick' = [u \in Updaters |-> 0]
  /\ cancelled' = [u \in Updaters |-> FALSE]
  /\ UNCHANGED <<now, released, diskVars>>

-----------------------------------------------------------------------------
(* Life of an updater. *)

(* Mutant of Stale: no age gate. *)
StaleAtAnyAge(u, mtime) == mtime # Gone /\ u \in Updaters

Stale(u, mtime) == mtime # Gone /\ now - mtime >= Timeout[u]
Swept(u, temps) == [w \in Updaters |-> IF Stale(u, temps[w]) THEN Gone ELSE temps[w]]

(* New: cleanStaleTemps removes the temp files not written for Timeout,     *)
(* whoever they belong to.  ops.New has loaded the files before.            *)
New(u) ==
  /\ pc[u] = "off"
  /\ \A f \in Files : target[f] # NoFile => target[f].content \in Versions
  /\ pc' = [pc EXCEPT ![u] = "created"]
  /\ loaded' = [loaded EXCEPT ![u] =
       [f \in Files |-> IF target[f] = NoFile THEN @[f] ELSE target[f].content]]
  /\ out' = Swept(u, out)
  /\ zip' = Swept(u, zip)
  /\ UNCHANGED <<now, released, target, initial, todo, job, outcome, nextTick, cancelled>>

(* updateAll reads GetDBInfo once. *)
BeginPass(u) ==
  /\ pc' = [pc EXCEPT ![u] = "pass"]
  /\ todo' = [todo EXCEPT ![u] = loaded[u]]
  /\ UNCHANGED <<now, released, diskVars, loaded, job, outcome, cancelled>>

Start(u) ==
  /\ pc[u] = "created"
  /\ BeginPass(u)
  /\ initial' = [initial EXCEPT ![u] = TRUE]
  /\ nextTick' = [nextTick EXCEPT ![u] = now + Frequency]

(* A tick that is already there may win over a cancelled context. *)
TakeTick(u) ==
  /\ pc[u] = "wait" /\ nextTick[u] <= now
  /\ BeginPass(u)
  /\ nextTick' = [nextTick EXCEPT ![u] = @ + Frequency * (1 + ((now - @) \div Frequency))]
  /\ UNCHANGED initial

EndPass(u) ==
  /\ pc[u] = "pass"
  /\ DOMAIN todo[u] = {} \/ cancelled[u]
  /\ pc' = [pc EXCEPT ![u] = "wait"]
  /\ initial' = [initial EXCEPT ![u] = FALSE]
  /\ todo' = [todo EXCEPT ![u] = NothingLeft]
  /\ UNCHANGED <<now, released, diskVars, loaded, job, outcome, nextTick, cancelled>>

(* Stop cancels and waits; the goroutine returns from its select. *)
Stop(u) ==
  /\ pc[u] \notin {"off", "created", "stopped", "dead"}
  /\ cancelled' = [cancelled EXCEPT ![u] = TRUE]
  /\ UNCHANGED <<now, released, diskVars, loaded, pc, initial, todo, job, outcome, nextTick>>

Exit(u) ==
  /\ pc[u] = "wait" /\ cancelled[u]
  /\ pc' = [pc EXCEPT ![u] = "stopped"]
  /\ loaded' = [loaded EXCEPT ![u] = [f \in Files |-> 1]]
  /\ nextTick' = [nextTick EXCEPT ![u] = 0]
  /\ cancelled' = [cancelled EXCEPT ![u] = FALSE]
  /\ UNCHANGED <<now, released, diskVars, initial, todo, job, outcome>>

-----------------------------------------------------------------------------
(* One database of a pass. *)

RecentlyUpdated(f) == target[f] # NoFile /\ now - target[f].mtime < Frequency

Skipped(u, f) ==
  \/ initial[u] /\ RecentlyUpdated(f)
  \/ VendorOf[f] # "dbip" /\ VendorOf[f] \notin Credentialed

Without(rest, f) == [g \in DOMAIN rest \ {f} |-> rest[g]]

Skip(u, f) ==
  /\ pc[u] = "pass" /\ f \in DOMAIN todo[u] /\ ~cancelled[u]
  /\ Skipped(u, f)
  /\ todo' = [todo EXCEPT ![u] = Without(@, f)]
  /\ UNCHANGED <<now, released, diskVars, loaded, pc, initial, job, outcome,
                 nextTick, cancelled>>

(* The context's deadline is set; the request carries the modification time *)
(* of the file (If-Modified-Since), that of MaxMind's client the md5 of the *)
(* loaded database instead.  The URL of DB-IP names a month.  What a vendor *)
(* is not sent has a fixed value.                                           *)
Ask(u, f, md5, month, fallback) ==
  job' = [job EXCEPT ![u] =
    [file |-> f, since |-> IF target[f] = NoFile THEN Gone ELSE target[f].mtime,
     month |-> month, fallback |-> fallback, deadline |-> now + Timeout[u], md5 |-> md5,
     body |-> Damaged]]

(* Mutant of Download: DB-IP's months are tried oldest first. *)
DownloadOldestFirst(u, f) ==
  /\ pc[u] = "pass" /\ f \in DOMAIN todo[u] /\ ~cancelled[u]
  /\ ~Skipped(u, f)
  /\ pc' = [pc EXCEPT ![u] = "request"]
  /\ todo' = [todo EXCEPT ![u] = Without(@, f)]
  /\ Ask(u, f, 1, IF MonthAt(now) > 1 THEN MonthAt(now) - 1 ELSE 1, FALSE)
  /\ UNCHANGED <<now, released, diskVars, loaded, initial, outcome, nextTick, cancelled>>

Download(u, f) ==
  /\ pc[u] = "pass" /\ f \in DOMAIN todo[u] /\ ~cancelled[u]
  /\ ~Skipped(u, f)
  /\ pc' = [pc EXCEPT ![u] = "request"]
  /\ todo' = [todo EXCEPT ![u] = Without(@, f)]
  /\ CASE VendorOf[f] = "maxmind" -> Ask(u, f, todo[u][f], 0, FALSE)
       [] VendorOf[f] = "dbip" -> Ask(u, f, 1, MonthAt(now), FALSE)
       [] VendorOf[f] = "ip2location" -> Ask(u, f, 1, 0, FALSE)
  /\ UNCHANGED <<now, released, diskVars, loaded, initial, outcome, nextTick, cancelled>>

(* Every way a download ends: run logs its outcome ... *)
Conclude(u, result) ==
  /\ pc' = [pc EXCEPT ![u] = "closing"]
  /\ outcome' = [outcome EXCEPT ![u] = result]
  /\ UNCHANGED <<now, released, loaded, initial, todo, job, nextTick, cancelled>>

(* ... after the deferred calls, one of which removes the archive. *)
Finish(u) ==
  /\ pc[u] = "closing"
  /\ pc' = [pc EXCEPT ![u] = "pass"]
  /\ zip' = [zip EXCEPT ![u] = Gone]
  /\ job' = [job EXCEPT ![u] = NoJob]
  /\ outcome' = [outcome EXCEPT ![u] = "none"]
  /\ UNCHANGED <<now, released, target, out, loaded, initial, todo, nextTick, cancelled>>

-----------------------------------------------------------------------------
(* The vendor answers. *)

(* The version behind the requested URL. *)
Offered(u) ==
  LET f == job[u].file
  IN {v \in Published(f) : IF VendorOf[f] = "dbip" THEN v = job[u].month ELSE v = Latest(f)}

(* Mutant of UpToDate: MaxMind is asked with If-Modified-Since too. *)
UpToDateByTime(u, v) == job[u].since # Gone /\ released[job[u].file][v] <= job[u].since

UpToDate(u, v) ==
  LET f == job[u].file
  IN IF VendorOf[f] = "maxmind" THEN job[u].md5 = v
     ELSE job[u].since # Gone /\ released[f][v] <= job[u].since

Payloads(f, v) == {v} \cup (IF VendorOf[f] \in BadPayloads THEN {Damaged} ELSE {})

NotModified(u) ==
  /\ pc[u] = "request"
  /\ \E v \in Offered(u) : UpToDate(u, v)
  /\ Conclude(u, "unchanged")
  /\ UNCHANGED diskVars

(* 404, for a month of DB-IP: the month before is tried once. *)
NotFound(u) ==
  /\ pc[u] = "request"
  /\ Offered(u) = {}
  /\ IF job[u].fallback
       THEN Conclude(u, "unpublished")
       ELSE /\ Ask(u, job[u].file, job[u].md5, job[u].month - 1, TRUE)
            /\ UNCHANGED <<now, released, pc, loaded, initial, todo, outcome,
                           nextTick, cancelled>>
  /\ UNCHANGED diskVars

(* 200: a stream goes into writeAtomic at once; an archive is read into     *)
(* memory, or into a temp file when it is large or of unknown length.       *)
Receive(u) ==
  /\ pc[u] = "request"
  /\ \E v \in Offered(u) :
       /\ ~UpToDate(u, v)
       /\ \E b \in Payloads(job[u].file, v) :
            job' = [job EXCEPT ![u].body = b]
  /\ \/ Streamed(u) /\ pc' = [pc EXCEPT ![u] = "copying"]
        /\ out' = [out EXCEPT ![u] = now] /\ UNCHANGED zip
     \/ ~Streamed(u) /\ pc' = [pc EXCEPT ![u] = "reading"] /\ UNCHANGED <<out, zip>>
     \/ ~Streamed(u) /\ pc' = [pc EXCEPT ![u] = "zipping"]
        /\ zip' = [zip EXCEPT ![u] = now] /\ UNCHANGED out
  /\ UNCHANGED <<now, released, target, loaded, initial, todo, outcome, nextTick, cancelled>>

(* More of the body arrives.  A file that has been removed stays removed.   *)
Touch(temps, u) == [temps EXCEPT ![u] = IF @ = Gone THEN Gone ELSE now]

Progress(u) ==
  /\ Online(u)
  /\ IF pc[u] = "zipping" THEN zip' = Touch(zip, u) /\ UNCHANGED out
                          ELSE out' = Touch(out, u) /\ UNCHANGED zip
  /\ UNCHANGED <<now, released, target, updaterVars>>

(* The archive is complete and its entry found; writeAtomic begins. *)
Extract(u) ==
  /\ \/ pc[u] = "reading" /\ UNCHANGED zip
     \/ pc[u] = "zipping" /\ zip[u] # Gone /\ zip' = Touch(zip, u)
  /\ pc' = [pc EXCEPT ![u] = "copying"]
  /\ out' = [out EXCEPT ![u] = now]
  /\ UNCHANGED <<now, released, target, loaded, initial, todo, job, outcome,
                 nextTick, cancelled>>

-----------------------------------------------------------------------------
(* writeAtomic. *)

CopyEnds(u) ==
  /\ pc[u] = "copying"
  /\ pc' = [pc EXCEPT ![u] = "renaming"]
  /\ out' = Touch(out, u)
  /\ UNCHANGED <<now, released, target, zip, loaded, initial, todo, job, outcome,
                 nextTick, cancelled>>

Rename(u) ==
  /\ pc[u] = "renaming" /\ out[u] # Gone
  /\ target' = [target EXCEPT ![job[u].file] = [content |-> job[u].body, mtime |-> out[u]]]
  /\ out' = [out EXCEPT ![u] = Gone]
  /\ UNCHANGED zip
  /\ Conclude(u, "updated")

(* Mutant of Fail: an error of the copy goes unnoticed. *)
FailUnnoticed(u) ==
  /\ InFlight(u)
  /\ target' = IF pc[u] # "copying" THEN target
               ELSE [target EXCEPT ![job[u].file] = [content |-> Damaged, mtime |-> now]]
  /\ out' = [out EXCEPT ![u] = Gone]
  /\ zip' = IF pc[u] = "zipping" THEN [zip EXCEPT ![u] = Gone] ELSE zip
  /\ Conclude(u, "failed")

(* Mutant of Fail: the temp file stays when the copy fails. *)
FailKeepsTemp(u) ==
  /\ InFlight(u)
  /\ zip' = IF pc[u] = "zipping" THEN [zip EXCEPT ![u] = Gone] ELSE zip
  /\ UNCHANGED <<target, out>>
  /\ Conclude(u, "failed")

(* An error, of the connection, the disk or the data: the temp file that is *)
(* being written is removed.                                                *)
Fail(u) ==
  /\ InFlight(u)
  /\ out' = [out EXCEPT ![u] = Gone]
  /\ zip' = IF pc[u] = "zipping" THEN [zip EXCEPT ![u] = Gone] ELSE zip
  /\ UNCHANGED target
  /\ Conclude(u, "failed")

(* Mutant of Doomed: requests are made without the cancelled context. *)
DoomedUncancelled(u) ==
  \/ Online(u) /\ now + 1 >= job[u].deadline
  \/ pc[u] = "zipping" /\ zip[u] = Gone
  \/ pc[u] = "renaming" /\ out[u] = Gone

(* The errors that are bound to come: the context ends, or rename, or       *)
(* zip.OpenReader, finds that somebody has removed the temp file.           *)
Doomed(u) ==
  \/ Online(u) /\ (cancelled[u] \/ now + 1 >= job[u].deadline)
  \/ pc[u] = "zipping" /\ zip[u] = Gone
  \/ pc[u] = "renaming" /\ out[u] = Gone

-----------------------------------------------------------------------------
Environment ==
  \/ Tick
  \/ \E f \in Files, v \in Versions : Publish(f, v)
  \/ \E u \in Updaters, f \in Files : HotReload(u, f)
  \/ Crash

(* Steps that need nobody else. *)
Advance(u) ==
  \/ EndPass(u) \/ Exit(u) \/ Finish(u)
  \/ \E f \in Files : Skip(u, f) \/ Download(u, f)
  \/ pc[u] = "copying" /\ ~Streamed(u) /\ CopyEnds(u)
  \/ Rename(u)
  \/ Doomed(u) /\ Fail(u)

Step(u) ==
  \/ New(u) \/ Start(u) \/ TakeTick(u) \/ EndPass(u) \/ Stop(u) \/ Exit(u)
  \/ \E f \in Files : Skip(u, f) \/ Download(u, f)
  \/ NotModified(u) \/ NotFound(u) \/ Receive(u)
  \/ Progress(u) \/ Extract(u) \/ CopyEnds(u) \/ Rename(u) \/ Fail(u) \/ Finish(u)

Next == Environment \/ \E u \in Updaters : Step(u)

Safety == Init /\ [][Next]_vars

(* A goroutine that can run does, and a select that finds the context       *)
(* cancelled again and again does not always prefer the tick; whether       *)
(* vendors answer, Caddy calls or time passes is up to them.                *)
Spec == Safety /\ \A u \in Updaters : WF_vars(Advance(u)) /\ SF_vars(Exit(u))

-----------------------------------------------------------------------------
Phases == {"off", "created", "pass", "wait", "request", "reading", "zipping", "copying",
           "renaming", "closing", "stopped", "dead"}

TypeOK ==
  /\ now \in Nat
  /\ released \in [Files -> [Versions -> Nat \cup {Never}]]
  /\ target \in [Files -> Database \cup {NoFile}]
  /\ loaded \in [Updaters -> [Files -> Versions]]
  /\ pc \in [Updaters -> Phases]
  /\ initial \in [Updaters -> BOOLEAN]
  /\ todo \in [Updaters -> UNION {[F -> Versions] : F \in SUBSET Files}]
  /\ job \in [Updaters -> Jobs \cup {NoJob}]
  /\ outcome \in [Updaters -> {"none", "unchanged", "unpublished", "updated", "failed"}]
  /\ out \in [Updaters -> Nat \cup {Gone}]
  /\ zip \in [Updaters -> Nat \cup {Gone}]
  /\ nextTick \in [Updaters -> Nat]
  /\ cancelled \in [Updaters -> BOOLEAN]

(* A database file is never partly written: whatever fails or crashes, it   *)
(* holds a complete download or what it held before.                        *)
TargetWhole ==
  \A f \in Files :
    target[f] # NoFile /\ VendorOf[f] \notin BadPayloads => target[f].content \in Versions

(* No temp file leaks: each belongs to a download that will remove it, or   *)
(* to a process that has died.                                              *)
TempsOwned ==
  \A u \in Updaters :
    /\ out[u] # Gone => pc[u] \in {"copying", "renaming", "dead"}
    /\ zip[u] # Gone => pc[u] \in {"zipping", "copying", "renaming", "closing", "dead"}

(* cleanStaleTemps never takes away a temp file that another updater is     *)
(* writing: only its owner's step makes it disappear.                       *)
Writing(u) == IF pc[u] = "zipping" THEN zip[u] ELSE out[u]

LiveTempsKept ==
  [][\A u \in Updaters :
       pc[u] \in {"zipping", "copying", "renaming"} /\ Writing(u) # Gone /\ pc'[u] = pc[u]
         => Writing(u)' # Gone]_vars

(* "database is up to date" is logged only when what the vendor was asked   *)
(* about, the loaded database or else the file, is the latest version.      *)
Held(u, f) ==
  IF VendorOf[f] = "maxmind" \/ target[f] = NoFile THEN loaded[u][f] ELSE target[f].content

UnchangedIsCurrent ==
  [][\A u \in Updaters :
       outcome[u] = "none" /\ outcome'[u] = "unchanged"
         => Held(u, job[u].file) = Latest(job[u].file)]_vars

(* A download brings the latest version there was when it was asked for: an *)
(* older one is written, even over a newer one of another updater, only if  *)
(* its successor has been published since.  DB-IP is asked for the month    *)
(* before within the time allowed for the first request.                    *)
Asked(u) == job[u].deadline - (IF job[u].fallback THEN 2 ELSE 1) * Timeout[u]

WrittenAsAsked ==
  [][\A u \in Updaters : pc[u] = "renaming" /\ outcome'[u] = "updated" =>
       LET f == job[u].file
           v == target'[f].content
       IN v \in Versions =>
            \A w \in Published(f) : w > v => released[f][w] >= Asked(u)]_vars

(* When a hot reload has failed the next cycle retries, so a damaged file   *)
(* is not taken for an up-to-date one.                                      *)
NextCycleRetries ==
  [][\A u \in Updaters :
       outcome[u] = "none" /\ outcome'[u] = "unchanged"
         => target[job[u].file] = NoFile \/ target[job[u].file].content # Damaged]_vars

(* Stop returns, whatever the vendors do. *)
StopReturns == \A u \in Updaters : cancelled[u] ~> pc[u] \in {"stopped", "dead"}

=============================================================================
