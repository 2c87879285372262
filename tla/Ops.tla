--------------------------------- MODULE Ops ---------------------------------
(***************************************************************************)
(* Package internal/ops: the registry of database providers, its RWMutex   *)
(* and the life cycle of the mmdb readers.  Readers run LookupAll or       *)
(* GetDBInfo under the read lock.  Writers run Reload and Delete; in the   *)
(* program the only one is the directory monitor's handleEvents goroutine, *)
(* but the package calls itself concurrency-safe, so any number is         *)
(* allowed.  One more goroutine, Caddy's, runs Close (twice: Stop, then    *)
(* Cleanup).                                                               *)
(*                                                                         *)
(* The content a Reload finds in the file is any of a valid version, an    *)
(* unparsable file or no file: the directory is not modelled here (module  *)
(* HotReload does that).                                                   *)
(***************************************************************************)
EXTENDS Naturals

CONSTANTS
  Databases, Versions, Undecodable, Readers, NoDB,
  Writers,   \* goroutines that call Reload and Delete
  Closer,    \* the goroutine that calls Close
  Nobody,    \* no holder of the write lock
  None,      \* a nil *provider
  MaxLoads   \* bound: how many readers may be opened

ASSUME OpsAssumption ==
  /\ Undecodable \subseteq Versions
  /\ NoDB \notin Versions
  /\ Closer \notin Writers
  /\ Nobody \notin Writers \cup {Closer}
  /\ MaxLoads \in Nat

(* A provider is a pointer: the id makes it unlike any other one loaded     *)
(* from the same bytes.  db stands for the placeholder prefix, version for  *)
(* the reader's data and their md5.                                         *)
Provider == [id : Nat, db : Databases, version : Versions]

ASSUME NoneAssumption == None \notin Provider

VARIABLES
  \* the Ops struct
  providers,  \* the map, None where a key is absent
  shut,       \* the map is nil (after Close)
  open,       \* providers whose reader is open
  loads,      \* how many providers have been loaded so far
  \* the RWMutex
  writer,     \* the goroutine that has announced or holds the write lock
  readers,    \* the goroutines that hold the read lock
  blocked,    \* the goroutines that wait for the writer in RLock
  \* locals of LookupAll and GetDBInfo
  call,       \* the call in progress, or "none"
  seen,       \* databases the range loop has visited
  cur,        \* the provider the loop body is using
  out,        \* the result map so far
  answer,     \* the result of the last call
  \* locals of Reload, Delete and Close
  pc, file, fresh, old,
  closing     \* program counter of Close

lockVars == <<writer, readers, blocked>>
readerVars == <<call, seen, cur, out, answer>>
writerVars == <<pc, file, fresh, old>>
vars == <<providers, shut, open, loads, lockVars, readerVars, writerVars, closing>>

Calls == {"LookupAll", "GetDBInfo"}

Nothing == [d \in Databases |-> NoDB]

(* Mutant of Yield: a record that does not decode leaves a nil entry.       *)
YieldNil(c, v) == IF c = "LookupAll" /\ v \in Undecodable THEN None ELSE v

(* What a database served from v adds to the result: a record that does not *)
(* decode is logged and skipped; GetDBInfo does not look at the records.    *)
Yield(c, v) == IF c = "LookupAll" /\ v \in Undecodable THEN NoDB ELSE v

Registered == {providers[d] : d \in Databases} \ {None}

Init ==
  /\ providers = [d \in Databases |-> None]
  /\ shut = FALSE
  /\ open = {}
  /\ loads = 0
  /\ writer = Nobody
  /\ readers = {}
  /\ blocked = {}
  /\ call = [r \in Readers |-> "none"]
  /\ seen = [r \in Readers |-> {}]
  /\ cur = [r \in Readers |-> None]
  /\ out = [r \in Readers |-> Nothing]
  /\ answer = [r \in Readers |-> Nothing]
  /\ pc = [w \in Writers |-> "idle"]
  /\ file \in [Writers -> Databases]
  /\ fresh = [w \in Writers |-> None]
  /\ old = [w \in Writers |-> None]
  /\ closing = "open"

-----------------------------------------------------------------------------
(* LookupAll and GetDBInfo. *)

(* Mutant of RLock: readers overtake the writer that waits for them. *)
RLockOvertakes(r, c) ==
  /\ call[r] = "none"
  /\ \A w \in Writers : pc[w] # "swapped"
  /\ closing # "released"
  /\ call' = [call EXCEPT ![r] = c]
  /\ seen' = [seen EXCEPT ![r] = {}]
  /\ out' = [out EXCEPT ![r] = Nothing]
  /\ readers' = readers \cup {r}
  /\ UNCHANGED <<providers, shut, open, loads, writer, blocked, cur, answer, writerVars, closing>>

(* RLock: a reader queues behind a writer that has announced itself. *)
RLock(r, c) ==
  /\ call[r] = "none"
  /\ call' = [call EXCEPT ![r] = c]
  /\ seen' = [seen EXCEPT ![r] = {}]
  /\ out' = [out EXCEPT ![r] = Nothing]
  /\ \/ writer = Nobody /\ readers' = readers \cup {r} /\ UNCHANGED blocked
     \/ writer # Nobody /\ blocked' = blocked \cup {r} /\ UNCHANGED readers
  /\ UNCHANGED <<providers, shut, open, loads, writer, cur, answer, writerVars, closing>>

(* The range loop, in any order, takes the next provider ... *)
RangeNext(r, d) ==
  /\ r \in readers
  /\ cur[r] = None
  /\ d \notin seen[r]
  /\ providers[d] # None
  /\ cur' = [cur EXCEPT ![r] = providers[d]]
  /\ seen' = [seen EXCEPT ![r] = @ \cup {d}]
  /\ UNCHANGED <<providers, shut, open, loads, lockVars, call, out, answer, writerVars, closing>>

(* ... and reads it: flattenInto for LookupAll, p.md5 for GetDBInfo.  A     *)
(* lookup in a closed reader fails and contributes nothing.                 *)
FlattenInto(r) ==
  LET p == cur[r] IN
  /\ p # None
  /\ out' = [out EXCEPT ![r][p.db] = IF call[r] = "LookupAll" /\ p \notin open
                                     THEN NoDB ELSE Yield(call[r], p.version)]
  /\ cur' = [cur EXCEPT ![r] = None]
  /\ UNCHANGED <<providers, shut, open, loads, lockVars, call, seen, answer, writerVars, closing>>

(* Mutant of RUnlock: LookupAll returns at the first record that does not   *)
(* decode.                                                                  *)
RUnlockOnError(r) ==
  /\ r \in readers
  /\ cur[r] = None
  /\ \/ \A d \in Databases : providers[d] # None => d \in seen[r]
     \/ call[r] = "LookupAll" /\ \E d \in seen[r] : providers[d].version \in Undecodable
  /\ readers' = readers \ {r}
  /\ answer' = [answer EXCEPT ![r] = out[r]]
  /\ call' = [call EXCEPT ![r] = "none"]
  /\ UNCHANGED <<providers, shut, open, loads, writer, blocked, seen, cur, out, writerVars, closing>>

RUnlock(r) ==
  /\ r \in readers
  /\ cur[r] = None
  /\ \A d \in Databases : providers[d] # None => d \in seen[r]
  /\ readers' = readers \ {r}
  /\ answer' = [answer EXCEPT ![r] = out[r]]
  /\ call' = [call EXCEPT ![r] = "none"]
  /\ UNCHANGED <<providers, shut, open, loads, writer, blocked, seen, cur, out, writerVars, closing>>

-----------------------------------------------------------------------------
(* Reload and Delete. *)

ReloadCall(w, d) ==
  /\ pc[w] = "idle"
  /\ loads < MaxLoads
  /\ pc' = [pc EXCEPT ![w] = "loading"]
  /\ file' = [file EXCEPT ![w] = d]
  /\ UNCHANGED <<providers, shut, open, loads, lockVars, readerVars, fresh, old, closing>>

(* loadProvider: read the file and open a reader on its bytes, before any   *)
(* lock is taken.                                                           *)
Load(w) ==
  /\ pc[w] = "loading"
  /\ \E v \in Versions :
       LET p == [id |-> loads + 1, db |-> file[w], version |-> v] IN
       /\ fresh' = [fresh EXCEPT ![w] = p]
       /\ open' = open \cup {p}
  /\ loads' = loads + 1
  /\ pc' = [pc EXCEPT ![w] = "locking"]
  /\ UNCHANGED <<providers, shut, lockVars, readerVars, file, old, closing>>

(* The file is gone or does not parse: Reload returns the error. *)
LoadFails(w) ==
  /\ pc[w] = "loading"
  /\ pc' = [pc EXCEPT ![w] = "idle"]
  /\ UNCHANGED <<providers, shut, open, loads, lockVars, readerVars, file, fresh, old, closing>>

DeleteCall(w, d) ==
  /\ pc[w] = "idle"
  /\ pc' = [pc EXCEPT ![w] = "locking"]
  /\ file' = [file EXCEPT ![w] = d]
  /\ UNCHANGED <<providers, shut, open, loads, lockVars, readerVars, fresh, old, closing>>

(* Lock, first half: announce, so that later readers queue. *)
Lock(w) ==
  /\ pc[w] = "locking"
  /\ writer = Nobody
  /\ writer' = w
  /\ pc' = [pc EXCEPT ![w] = "entering"]
  /\ UNCHANGED <<providers, shut, open, loads, readers, blocked, readerVars,
                 file, fresh, old, closing>>

(* Mutant of Swap: the map is changed without waiting for the readers, as   *)
(* if LookupAll did not take the read lock.                                 *)
SwapUnderReaders(w) ==
  /\ pc[w] = "entering"
  /\ pc' = [pc EXCEPT ![w] = "swapped"]
  /\ old' = [old EXCEPT ![w] = providers[file[w]]]
  /\ providers' = [providers EXCEPT ![file[w]] = fresh[w]]
  /\ UNCHANGED <<shut, open, loads, lockVars, readerVars, file, fresh, closing>>

(* Lock, second half, and the critical section: once the readers are gone,  *)
(* remember the old provider and store the fresh one (None: delete the      *)
(* key).  Storing into the nil map a Close leaves behind panics.            *)
Swap(w) ==
  /\ pc[w] = "entering"
  /\ readers = {}
  /\ IF shut /\ fresh[w] # None
     THEN /\ pc' = [pc EXCEPT ![w] = "panicked"]
          /\ UNCHANGED <<providers, old>>
     ELSE /\ pc' = [pc EXCEPT ![w] = "swapped"]
          /\ old' = [old EXCEPT ![w] = providers[file[w]]]
          /\ providers' = [providers EXCEPT ![file[w]] = fresh[w]]
  /\ UNCHANGED <<shut, open, loads, lockVars, readerVars, file, fresh, closing>>

(* Unlock lets every queued reader in. *)
Unlock(w) ==
  /\ pc[w] = "swapped"
  /\ writer' = Nobody
  /\ readers' = blocked
  /\ blocked' = {}
  /\ pc' = [pc EXCEPT ![w] = "stopping"]
  /\ UNCHANGED <<providers, shut, open, loads, readerVars, file, fresh, old, closing>>

(* Mutant of StopOld: Delete forgets to close the reader it removed. *)
StopOldUnlessDelete(w) ==
  /\ pc[w] = "stopping"
  /\ open' = IF fresh[w] = None THEN open ELSE open \ {old[w]}
  /\ old' = [old EXCEPT ![w] = None]
  /\ fresh' = [fresh EXCEPT ![w] = None]
  /\ pc' = [pc EXCEPT ![w] = "idle"]
  /\ UNCHANGED <<providers, shut, loads, lockVars, readerVars, file, closing>>

(* old.stop() closes the reader that was swapped out; then the call returns.*)
StopOld(w) ==
  /\ pc[w] = "stopping"
  /\ open' = open \ {old[w]}
  /\ old' = [old EXCEPT ![w] = None]
  /\ fresh' = [fresh EXCEPT ![w] = None]
  /\ pc' = [pc EXCEPT ![w] = "idle"]
  /\ UNCHANGED <<providers, shut, loads, lockVars, readerVars, file, closing>>

(* handleEvents returns once the monitor's quit channel is closed. *)
WriterExit(w) ==
  /\ pc[w] = "idle"
  /\ closing # "open"
  /\ pc' = [pc EXCEPT ![w] = "exited"]
  /\ UNCHANGED <<providers, shut, open, loads, lockVars, readerVars, file, fresh, old, closing>>

-----------------------------------------------------------------------------
(* Close. *)

(* updater.Stop and dirMonitor.Close; a second Close finds both nil. *)
CloseCall ==
  /\ closing \in {"open", "closed"}
  /\ closing' = "waiting"
  /\ UNCHANGED <<providers, shut, open, loads, lockVars, readerVars, writerVars>>

(* Mutant of CloseLock: dirMonitor.Close does not wait for its goroutines. *)
CloseLockAtOnce ==
  /\ closing = "waiting"
  /\ writer = Nobody
  /\ writer' = Closer
  /\ closing' = "entering"
  /\ UNCHANGED <<providers, shut, open, loads, readers, blocked, readerVars, writerVars>>

(* dirMonitor.Close returns when its goroutines have; then Close announces. *)
CloseLock ==
  /\ closing = "waiting"
  /\ \A w \in Writers : pc[w] = "exited"
  /\ writer = Nobody
  /\ writer' = Closer
  /\ closing' = "entering"
  /\ UNCHANGED <<providers, shut, open, loads, readers, blocked, readerVars, writerVars>>

(* Mutant of CloseRelease: the map is dropped, its readers stay open. *)
CloseReleaseDrops ==
  /\ closing = "entering"
  /\ readers = {}
  /\ providers' = [d \in Databases |-> None]
  /\ shut' = TRUE
  /\ closing' = "released"
  /\ UNCHANGED <<open, loads, lockVars, readerVars, writerVars>>

(* Inside the lock: every provider is stopped and the map set to nil. *)
CloseRelease ==
  /\ closing = "entering"
  /\ readers = {}
  /\ open' = open \ Registered
  /\ providers' = [d \in Databases |-> None]
  /\ shut' = TRUE
  /\ closing' = "released"
  /\ UNCHANGED <<loads, lockVars, readerVars, writerVars>>

CloseUnlock ==
  /\ closing = "released"
  /\ writer' = Nobody
  /\ readers' = blocked
  /\ blocked' = {}
  /\ closing' = "closed"
  /\ UNCHANGED <<providers, shut, open, loads, readerVars, writerVars>>

-----------------------------------------------------------------------------
ReaderStep(r) == (\E d \in Databases : RangeNext(r, d)) \/ FlattenInto(r) \/ RUnlock(r)

WriterStep(w) == Load(w) \/ LoadFails(w) \/ Swap(w) \/ Unlock(w) \/ StopOld(w)

CloseStep == CloseLock \/ CloseRelease \/ CloseUnlock

Next ==
  \/ \E r \in Readers : ReaderStep(r) \/ \E c \in Calls : RLock(r, c)
  \/ \E w \in Writers : \/ WriterStep(w) \/ Lock(w) \/ WriterExit(w)
                        \/ \E d \in Databases : ReloadCall(w, d) \/ DeleteCall(w, d)
  \/ CloseCall
  \/ CloseStep

(* Every goroutine that can run does; sync.Mutex hands the write lock over  *)
(* in turn (its starvation mode), hence strong fairness on Lock.  Nobody is *)
(* obliged to start a call, but handleEvents leaves its loop once quit is   *)
(* closed.                                                                  *)
Fairness ==
  /\ \A r \in Readers : WF_vars(ReaderStep(r))
  /\ \A w \in Writers : WF_vars(WriterStep(w)) /\ SF_vars(Lock(w)) /\ SF_vars(WriterExit(w))
  /\ WF_vars(CloseStep)

Safety == Init /\ [][Next]_vars

Spec == Safety /\ Fairness

-----------------------------------------------------------------------------
ProviderOrNone == Provider \cup {None}

Answers == [Databases -> Versions \cup {NoDB}]

TypeOK ==
  /\ providers \in [Databases -> ProviderOrNone]
  /\ shut \in BOOLEAN
  /\ open \subseteq Provider
  /\ loads \in Nat
  /\ writer \in Writers \cup {Closer, Nobody}
  /\ readers \subseteq Readers
  /\ blocked \subseteq Readers
  /\ call \in [Readers -> Calls \cup {"none"}]
  /\ seen \in [Readers -> SUBSET Databases]
  /\ cur \in [Readers -> ProviderOrNone]
  /\ out \in [Readers -> Answers]
  /\ answer \in [Readers -> Answers]
  /\ pc \in [Writers -> {"idle", "loading", "locking", "entering", "swapped",
                         "stopping", "panicked", "exited"}]
  /\ file \in [Writers -> Databases]
  /\ fresh \in [Writers -> ProviderOrNone]
  /\ old \in [Writers -> ProviderOrNone]
  /\ closing \in {"open", "waiting", "entering", "released", "closed"}

(* A provider that a lookup is reading is never closed under it: the swap   *)
(* waits for the readers of the old provider before old.stop() runs, and    *)
(* readers that come later cannot find it in the map any more.              *)
NoUseAfterClose == \A r \in Readers : cur[r] # None => cur[r] \in open

(* Every open reader has an owner who will close it: the map, a Reload that *)
(* has not stored it yet, or a Reload or Delete that has swapped it out.    *)
(* Conversely what any of them owns is open, so none is closed twice.       *)
Pending(w) ==
  CASE pc[w] \in {"locking", "entering"} -> {fresh[w]} \ {None}
    [] pc[w] \in {"swapped", "stopping"} -> {old[w]} \ {None}
    [] OTHER -> {}

NoReaderLeak == open = Registered \cup UNION {Pending(w) : w \in Writers}

(* No Reload reaches the map after Close has set it to nil. *)
NoNilMapWrite == \A w \in Writers : pc[w] # "panicked"

(* A Reload or Delete that was called returns, however many lookups keep    *)
(* arriving: an announced writer is not overtaken by new readers.           *)
WritersReturn == \A w \in Writers : pc[w] \in {"loading", "locking"} ~> pc[w] = "idle"

(* Close returns, and every reader is then closed. *)
CloseReturns == closing = "waiting" ~> (closing = "closed" /\ open = {})

(* The registry these locks and pointers implement. *)
servedNow == [d \in Databases |-> IF providers[d] = None THEN NoDB ELSE providers[d].version]

Reg == INSTANCE Registry WITH served <- servedNow

ImplementsRegistry == Reg!RegSpec

=============================================================================
