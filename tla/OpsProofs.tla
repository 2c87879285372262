----------------------------- MODULE OpsProofs -----------------------------
(***************************************************************************)
(* Proofs about package internal/ops (module Ops), for any sets of         *)
(* databases, readers and writers and any number of loads: its safety      *)
(* invariants, that its steps implement the atomic map of Registry, and    *)
(* that nobody waits in a circle.                                          *)
(***************************************************************************)
EXTENDS Ops, TLAPS

(* Who holds the write lock, and that it excludes the readers. *)
LockInv ==
  /\ \A w \in Writers : pc[w] \in {"entering", "swapped", "panicked"} <=> writer = w
  /\ closing \in {"entering", "released"} <=> writer = Closer
  /\ \A w \in Writers : pc[w] = "swapped" => readers = {}
  /\ closing = "released" => readers = {}
  /\ writer = Nobody => blocked = {}
  /\ readers \cap blocked = {}
  /\ \A r \in Readers : call[r] # "none" <=> r \in readers \cup blocked

(* What the loops of LookupAll and GetDBInfo have done so far: they hold    *)
(* the read lock, the provider in use is in the map, and the result agrees  *)
(* with the map on what has been visited and is empty elsewhere.            *)
LoopInv ==
  \A r \in Readers :
    /\ cur[r] # None => /\ r \in readers
                        /\ cur[r].db \in seen[r]
                        /\ cur[r] = providers[cur[r].db]
    /\ r \in blocked => seen[r] = {}
    /\ r \in readers \cup blocked => \A d \in Databases :
         /\ d \in seen[r] => providers[d] # None
         /\ d \notin seen[r] => out[r][d] = NoDB
         /\ d \in seen[r] /\ cur[r] # providers[d]
              => out[r][d] = Yield(call[r], providers[d].version)

(* Every provider in a variable comes from a load of the file it is for. *)
FreshInv ==
  /\ \A p \in open : p.id <= loads
  /\ \A d \in Databases : providers[d] # None => providers[d].db = d
  /\ \A w \in Writers : pc[w] \in {"idle", "loading", "exited"} => fresh[w] = None
  /\ \A w \in Writers : fresh[w] # None => fresh[w].db = file[w]

(* No two owners share a provider, and exactly the owned ones are open. *)
OwnerInv ==
  /\ \A w \in Writers : Pending(w) \cap Registered = {}
  /\ \A w, x \in Writers : w # x => Pending(w) \cap Pending(x) = {}
  /\ NoReaderLeak

(* Close starts on the map only when no goroutine will write to it again. *)
ShutInv ==
  /\ shut \/ closing \in {"entering", "released", "closed"}
       => \A w \in Writers : pc[w] = "exited"
  /\ shut => \A d \in Databases : providers[d] = None
  /\ NoNilMapWrite

IInv == TypeOK /\ LockInv /\ LoopInv /\ FreshInv /\ OwnerInv /\ ShutInv

-----------------------------------------------------------------------------
(* The initial states satisfy the invariant. *)
LEMMA InitIInv == Init => IInv
<1> SUFFICES ASSUME Init PROVE IInv
  OBVIOUS
<1> USE OpsAssumption, NoneAssumption DEF Init
<1>1. TypeOK
  BY DEF TypeOK, ProviderOrNone, Answers, Nothing
<1>2. LockInv /\ LoopInv /\ ShutInv
  BY DEF LockInv, LoopInv, ShutInv, NoNilMapWrite
<1>3. FreshInv /\ OwnerInv
  BY DEF FreshInv, OwnerInv, Pending, Registered, NoReaderLeak
<1>. QED
  BY <1>1, <1>2, <1>3 DEF IInv

(* Every step keeps the types. *)
LEMMA TypeStep == TypeOK /\ [Next]_vars => TypeOK'
<1> SUFFICES ASSUME TypeOK, [Next]_vars PROVE TypeOK'
  OBVIOUS
<1> USE OpsAssumption, NoneAssumption
<1>1. ASSUME NEW r \in Readers, NEW c \in Calls, RLock(r, c) PROVE TypeOK'
  BY <1>1 DEF RLock, TypeOK, lockVars, readerVars, writerVars, Answers, Nothing
<1>2. ASSUME NEW r \in Readers, NEW d \in Databases, RangeNext(r, d) PROVE TypeOK'
  BY <1>2 DEF RangeNext, TypeOK, lockVars, readerVars, writerVars
<1>3. ASSUME NEW r \in Readers, FlattenInto(r) PROVE TypeOK'
  BY <1>3 DEF FlattenInto, TypeOK, lockVars, readerVars, writerVars, Answers, Yield, ProviderOrNone, Provider
<1>4. ASSUME NEW r \in Readers, RUnlock(r) PROVE TypeOK'
  BY <1>4 DEF RUnlock, TypeOK, lockVars, readerVars, writerVars
<1>5. ASSUME NEW w \in Writers, NEW d \in Databases, ReloadCall(w, d) PROVE TypeOK'
  BY <1>5 DEF ReloadCall, TypeOK, lockVars, readerVars, writerVars
<1>6. ASSUME NEW w \in Writers, Load(w) PROVE TypeOK'
  BY <1>6 DEF Load, TypeOK, lockVars, readerVars, writerVars, ProviderOrNone, Provider
<1>7. ASSUME NEW w \in Writers, LoadFails(w) PROVE TypeOK'
  BY <1>7 DEF LoadFails, TypeOK, lockVars, readerVars, writerVars
<1>8. ASSUME NEW w \in Writers, NEW d \in Databases, DeleteCall(w, d) PROVE TypeOK'
  BY <1>8 DEF DeleteCall, TypeOK, lockVars, readerVars, writerVars
<1>9. ASSUME NEW w \in Writers, Lock(w) PROVE TypeOK'
  BY <1>9 DEF Lock, TypeOK, lockVars, readerVars, writerVars
<1>10. ASSUME NEW w \in Writers, Swap(w) PROVE TypeOK'
  <2>1. CASE shut /\ fresh[w] # None
    BY <1>10, <2>1 DEF Swap, TypeOK, lockVars, readerVars
  <2>2. CASE ~(shut /\ fresh[w] # None)
    BY <1>10, <2>2 DEF Swap, TypeOK, lockVars, readerVars
  <2>. QED
    BY <2>1, <2>2
<1>11. ASSUME NEW w \in Writers, Unlock(w) PROVE TypeOK'
  BY <1>11 DEF Unlock, TypeOK, lockVars, readerVars, writerVars
<1>12. ASSUME NEW w \in Writers, StopOld(w) PROVE TypeOK'
  BY <1>12 DEF StopOld, TypeOK, lockVars, readerVars, writerVars, ProviderOrNone
<1>13. ASSUME NEW w \in Writers, WriterExit(w) PROVE TypeOK'
  BY <1>13 DEF WriterExit, TypeOK, lockVars, readerVars, writerVars
<1>14. CASE CloseCall
  BY <1>14 DEF CloseCall, TypeOK, lockVars, readerVars, writerVars
<1>15. CASE CloseLock
  BY <1>15 DEF CloseLock, TypeOK, lockVars, readerVars, writerVars
<1>16. CASE CloseRelease
  BY <1>16 DEF CloseRelease, TypeOK, lockVars, readerVars, writerVars, ProviderOrNone
<1>17. CASE CloseUnlock
  BY <1>17 DEF CloseUnlock, TypeOK, lockVars, readerVars, writerVars
<1>18. CASE UNCHANGED vars
  BY <1>18 DEF vars, lockVars, readerVars, writerVars, TypeOK, lockVars, readerVars, writerVars
<1>. QED
  BY <1>1, <1>2, <1>3, <1>4, <1>5, <1>6, <1>7, <1>8, <1>9, <1>10, <1>11, <1>12, <1>13, <1>14, <1>15, <1>16, <1>17, <1>18 DEF Next, ReaderStep, WriterStep, CloseStep

(* The lock is held by one writer or by readers, never both. *)
LEMMA LockStep == TypeOK /\ LockInv /\ [Next]_vars => LockInv'
<1> SUFFICES ASSUME TypeOK /\ LockInv, [Next]_vars PROVE LockInv'
  OBVIOUS
<1> USE OpsAssumption
<1>1. ASSUME NEW r \in Readers, NEW c \in Calls, RLock(r, c) PROVE LockInv'
  <2>1. UNCHANGED <<pc, closing, writer>> /\ \A x \in Readers : x # r => call'[x] = call[x]
    BY <1>1 DEF RLock, TypeOK, writerVars
  <2>2. call'[r] # "none" /\ r \notin readers \cup blocked
    BY <1>1 DEF RLock, TypeOK, LockInv, Calls
  <2>3. CASE writer = Nobody /\ readers' = readers \cup {r} /\ UNCHANGED blocked
    BY <2>1, <2>2, <2>3 DEF LockInv, TypeOK
  <2>4. CASE writer # Nobody /\ blocked' = blocked \cup {r} /\ UNCHANGED readers
    BY <2>1, <2>2, <2>4 DEF LockInv, TypeOK
  <2>. QED
    BY <1>1, <2>3, <2>4 DEF RLock
<1>2. ASSUME NEW r \in Readers, NEW d \in Databases, RangeNext(r, d) PROVE LockInv'
  BY <1>2 DEF RangeNext, LockInv, TypeOK, lockVars, readerVars, writerVars
<1>3. ASSUME NEW r \in Readers, FlattenInto(r) PROVE LockInv'
  BY <1>3 DEF FlattenInto, LockInv, TypeOK, lockVars, readerVars, writerVars
<1>4. ASSUME NEW r \in Readers, RUnlock(r) PROVE LockInv'
  BY <1>4 DEF RUnlock, LockInv, TypeOK, lockVars, readerVars, writerVars
<1>5. ASSUME NEW w \in Writers, NEW d \in Databases, ReloadCall(w, d) PROVE LockInv'
  BY <1>5 DEF ReloadCall, LockInv, TypeOK, lockVars, readerVars, writerVars
<1>6. ASSUME NEW w \in Writers, Load(w) PROVE LockInv'
  BY <1>6 DEF Load, LockInv, TypeOK, lockVars, readerVars, writerVars
<1>7. ASSUME NEW w \in Writers, LoadFails(w) PROVE LockInv'
  BY <1>7 DEF LoadFails, LockInv, TypeOK, lockVars, readerVars, writerVars
<1>8. ASSUME NEW w \in Writers, NEW d \in Databases, DeleteCall(w, d) PROVE LockInv'
  BY <1>8 DEF DeleteCall, LockInv, TypeOK, lockVars, readerVars, writerVars
<1>9. ASSUME NEW w \in Writers, Lock(w) PROVE LockInv'
  BY <1>9 DEF Lock, LockInv, TypeOK, lockVars, readerVars, writerVars
<1>10. ASSUME NEW w \in Writers, Swap(w) PROVE LockInv'
  BY <1>10 DEF Swap, LockInv, TypeOK, lockVars, readerVars, writerVars
<1>11. ASSUME NEW w \in Writers, Unlock(w) PROVE LockInv'
  BY <1>11 DEF Unlock, LockInv, TypeOK, lockVars, readerVars, writerVars
<1>12. ASSUME NEW w \in Writers, StopOld(w) PROVE LockInv'
  BY <1>12 DEF StopOld, LockInv, TypeOK, lockVars, readerVars, writerVars
<1>13. ASSUME NEW w \in Writers, WriterExit(w) PROVE LockInv'
  BY <1>13 DEF WriterExit, LockInv, TypeOK, lockVars, readerVars, writerVars
<1>14. CASE CloseCall
  BY <1>14 DEF CloseCall, LockInv, TypeOK, lockVars, readerVars, writerVars
<1>15. CASE CloseLock
  BY <1>15 DEF CloseLock, LockInv, TypeOK, lockVars, readerVars, writerVars
<1>16. CASE CloseRelease
  BY <1>16 DEF CloseRelease, LockInv, TypeOK, lockVars, readerVars, writerVars
<1>17. CASE CloseUnlock
  BY <1>17 DEF CloseUnlock, LockInv, TypeOK, lockVars, readerVars, writerVars
<1>18. CASE UNCHANGED vars
  BY <1>18 DEF vars, lockVars, readerVars, writerVars, LockInv, TypeOK, lockVars, readerVars, writerVars
<1>. QED
  BY <1>1, <1>2, <1>3, <1>4, <1>5, <1>6, <1>7, <1>8, <1>9, <1>10, <1>11, <1>12, <1>13, <1>14, <1>15, <1>16, <1>17, <1>18 DEF Next, ReaderStep, WriterStep, CloseStep

(* After Close no goroutine writes to the map. *)
LEMMA ShutStep == TypeOK /\ LockInv /\ FreshInv /\ ShutInv /\ [Next]_vars => ShutInv'
<1> SUFFICES ASSUME TypeOK /\ LockInv /\ FreshInv /\ ShutInv, [Next]_vars PROVE ShutInv'
  OBVIOUS
<1> USE OpsAssumption
<1>1. ASSUME NEW r \in Readers, NEW c \in Calls, RLock(r, c) PROVE ShutInv'
  BY <1>1 DEF RLock, FreshInv, ShutInv, NoNilMapWrite, LockInv, TypeOK, lockVars, readerVars, writerVars
<1>2. ASSUME NEW r \in Readers, NEW d \in Databases, RangeNext(r, d) PROVE ShutInv'
  BY <1>2 DEF RangeNext, FreshInv, ShutInv, NoNilMapWrite, LockInv, TypeOK, lockVars, readerVars, writerVars
<1>3. ASSUME NEW r \in Readers, FlattenInto(r) PROVE ShutInv'
  BY <1>3 DEF FlattenInto, FreshInv, ShutInv, NoNilMapWrite, LockInv, TypeOK, lockVars, readerVars, writerVars
<1>4. ASSUME NEW r \in Readers, RUnlock(r) PROVE ShutInv'
  BY <1>4 DEF RUnlock, FreshInv, ShutInv, NoNilMapWrite, LockInv, TypeOK, lockVars, readerVars, writerVars
<1>5. ASSUME NEW w \in Writers, NEW d \in Databases, ReloadCall(w, d) PROVE ShutInv'
  BY <1>5 DEF ReloadCall, FreshInv, ShutInv, NoNilMapWrite, LockInv, TypeOK, lockVars, readerVars, writerVars
<1>6. ASSUME NEW w \in Writers, Load(w) PROVE ShutInv'
  BY <1>6 DEF Load, FreshInv, ShutInv, NoNilMapWrite, LockInv, TypeOK, lockVars, readerVars, writerVars
<1>7. ASSUME NEW w \in Writers, LoadFails(w) PROVE ShutInv'
  BY <1>7 DEF LoadFails, FreshInv, ShutInv, NoNilMapWrite, LockInv, TypeOK, lockVars, readerVars, writerVars
<1>8. ASSUME NEW w \in Writers, NEW d \in Databases, DeleteCall(w, d) PROVE ShutInv'
  BY <1>8 DEF DeleteCall, FreshInv, ShutInv, NoNilMapWrite, LockInv, TypeOK, lockVars, readerVars, writerVars
<1>9. ASSUME NEW w \in Writers, Lock(w) PROVE ShutInv'
  BY <1>9 DEF Lock, FreshInv, ShutInv, NoNilMapWrite, LockInv, TypeOK, lockVars, readerVars, writerVars
<1>10. ASSUME NEW w \in Writers, Swap(w) PROVE ShutInv'
  BY <1>10 DEF Swap, FreshInv, ShutInv, NoNilMapWrite, LockInv, TypeOK, lockVars, readerVars, writerVars
<1>11. ASSUME NEW w \in Writers, Unlock(w) PROVE ShutInv'
  BY <1>11 DEF Unlock, FreshInv, ShutInv, NoNilMapWrite, LockInv, TypeOK, lockVars, readerVars, writerVars
<1>12. ASSUME NEW w \in Writers, StopOld(w) PROVE ShutInv'
  BY <1>12 DEF StopOld, FreshInv, ShutInv, NoNilMapWrite, LockInv, TypeOK, lockVars, readerVars, writerVars
<1>13. ASSUME NEW w \in Writers, WriterExit(w) PROVE ShutInv'
  BY <1>13 DEF WriterExit, FreshInv, ShutInv, NoNilMapWrite, LockInv, TypeOK, lockVars, readerVars, writerVars
<1>14. CASE CloseCall
  BY <1>14 DEF CloseCall, FreshInv, ShutInv, NoNilMapWrite, LockInv, TypeOK, lockVars, readerVars, writerVars
<1>15. CASE CloseLock
  BY <1>15 DEF CloseLock, FreshInv, ShutInv, NoNilMapWrite, LockInv, TypeOK, lockVars, readerVars, writerVars
<1>16. CASE CloseRelease
  BY <1>16 DEF CloseRelease, FreshInv, ShutInv, NoNilMapWrite, LockInv, TypeOK, lockVars, readerVars, writerVars
<1>17. CASE CloseUnlock
  BY <1>17 DEF CloseUnlock, FreshInv, ShutInv, NoNilMapWrite, LockInv, TypeOK, lockVars, readerVars, writerVars
<1>18. CASE UNCHANGED vars
  BY <1>18 DEF vars, lockVars, readerVars, writerVars, FreshInv, ShutInv, NoNilMapWrite, LockInv, TypeOK, lockVars, readerVars, writerVars
<1>. QED
  BY <1>1, <1>2, <1>3, <1>4, <1>5, <1>6, <1>7, <1>8, <1>9, <1>10, <1>11, <1>12, <1>13, <1>14, <1>15, <1>16, <1>17, <1>18 DEF Next, ReaderStep, WriterStep, CloseStep

(* The loops see one map from RLock to RUnlock. *)
LEMMA LoopStep == TypeOK /\ LockInv /\ LoopInv /\ FreshInv /\ OwnerInv /\ [Next]_vars => LoopInv'
<1> SUFFICES ASSUME TypeOK /\ LockInv /\ LoopInv /\ FreshInv /\ OwnerInv, [Next]_vars PROVE LoopInv'
  OBVIOUS
<1> USE OpsAssumption, NoneAssumption
<1>1. ASSUME NEW r \in Readers, NEW c \in Calls, RLock(r, c) PROVE LoopInv'
  <2>1. r \notin readers /\ cur[r] = None
    BY <1>1 DEF RLock, LockInv, LoopInv, Calls
  <2>2. UNCHANGED <<providers, cur>> /\ seen'[r] = {} /\ out'[r] = Nothing
    BY <1>1 DEF RLock, TypeOK
  <2>3. \A x \in Readers : x # r => seen'[x] = seen[x] /\ out'[x] = out[x] /\ call'[x] = call[x]
    BY <1>1 DEF RLock, TypeOK
  <2>4. /\ readers \subseteq readers' /\ readers' \subseteq readers \cup {r}
        /\ blocked \subseteq blocked' /\ blocked' \subseteq blocked \cup {r}
    BY <1>1 DEF RLock
  <2> SUFFICES ASSUME NEW x \in Readers
               PROVE  /\ cur'[x] # None => /\ x \in readers'
                                            /\ cur'[x].db \in seen'[x]
                                            /\ cur'[x] = providers'[cur'[x].db]
                      /\ x \in blocked' => seen'[x] = {}
                      /\ x \in readers' \cup blocked' => \A d \in Databases :
                           /\ d \in seen'[x] => providers'[d] # None
                           /\ d \notin seen'[x] => out'[x][d] = NoDB
                           /\ d \in seen'[x] /\ cur'[x] # providers'[d]
                                => out'[x][d] = Yield(call'[x], providers'[d].version)
    BY DEF LoopInv, Yield
  <2>5. CASE x = r
    BY <2>1, <2>2, <2>5 DEF Nothing
  <2>6. CASE x # r
    BY <2>2, <2>3, <2>4, <2>6 DEF LoopInv
  <2>. QED
    BY <2>5, <2>6
<1>2. ASSUME NEW r \in Readers, NEW d \in Databases, RangeNext(r, d) PROVE LoopInv'
  <2>1. UNCHANGED <<providers, readers, blocked, call, out>>
    BY <1>2 DEF RangeNext, lockVars
  <2>2. /\ \A x \in Readers : x # r => seen'[x] = seen[x] /\ cur'[x] = cur[x]
        /\ cur'[r] = providers[d] /\ seen'[r] = seen[r] \cup {d}
    BY <1>2 DEF RangeNext, TypeOK
  <2>3. /\ r \in readers /\ cur[r] = None /\ d \notin seen[r]
        /\ providers[d] # None /\ providers[d].db = d /\ r \notin blocked
    BY <1>2 DEF RangeNext, FreshInv, LockInv
  <2>. QED
    BY <2>1, <2>2, <2>3 DEF LoopInv
<1>3. ASSUME NEW r \in Readers, FlattenInto(r) PROVE LoopInv'
  <2> DEFINE p == cur[r]
  <2>1. UNCHANGED <<providers, readers, blocked, call, seen>>
    BY <1>3 DEF FlattenInto, lockVars
  <2>2. /\ p # None /\ r \in readers /\ r \notin blocked
        /\ p.db \in Databases /\ p.db \in seen[r] /\ p = providers[p.db]
    BY <1>3 DEF FlattenInto, LoopInv, LockInv, TypeOK, ProviderOrNone, Provider
  <2>3. p \in open
    BY <2>2 DEF OwnerInv, NoReaderLeak, Registered
  <2>4. /\ \A x \in Readers : x # r => cur'[x] = cur[x] /\ out'[x] = out[x]
        /\ cur'[r] = None
        /\ \A d \in Databases : d # p.db => out'[r][d] = out[r][d]
        /\ out'[r][p.db] = Yield(call[r], p.version)
    BY <1>3, <2>2, <2>3 DEF FlattenInto, TypeOK, Answers
  <2>5. \A d \in Databases : d # p.db /\ providers[d] # None => p # providers[d]
    BY <2>2 DEF FreshInv
  <2>. QED
    BY <2>1, <2>2, <2>4, <2>5 DEF LoopInv
<1>4. ASSUME NEW r \in Readers, RUnlock(r) PROVE LoopInv'
  BY <1>4 DEF RUnlock, LoopInv, TypeOK, lockVars, readerVars, writerVars, LockInv
<1>5. ASSUME NEW w \in Writers, NEW d \in Databases, ReloadCall(w, d) PROVE LoopInv'
  BY <1>5 DEF ReloadCall, LoopInv, TypeOK, lockVars, readerVars, writerVars, LockInv
<1>6. ASSUME NEW w \in Writers, Load(w) PROVE LoopInv'
  BY <1>6 DEF Load, LoopInv, TypeOK, lockVars, readerVars, writerVars, LockInv
<1>7. ASSUME NEW w \in Writers, LoadFails(w) PROVE LoopInv'
  BY <1>7 DEF LoadFails, LoopInv, TypeOK, lockVars, readerVars, writerVars, LockInv
<1>8. ASSUME NEW w \in Writers, NEW d \in Databases, DeleteCall(w, d) PROVE LoopInv'
  BY <1>8 DEF DeleteCall, LoopInv, TypeOK, lockVars, readerVars, writerVars, LockInv
<1>9. ASSUME NEW w \in Writers, Lock(w) PROVE LoopInv'
  BY <1>9 DEF Lock, LoopInv, TypeOK, lockVars, readerVars, writerVars, LockInv
<1>10. ASSUME NEW w \in Writers, Swap(w) PROVE LoopInv'
  BY <1>10 DEF Swap, LoopInv, TypeOK, lockVars, readerVars, writerVars, LockInv
<1>11. ASSUME NEW w \in Writers, Unlock(w) PROVE LoopInv'
  BY <1>11 DEF Unlock, LoopInv, TypeOK, lockVars, readerVars, writerVars, LockInv
<1>12. ASSUME NEW w \in Writers, StopOld(w) PROVE LoopInv'
  BY <1>12 DEF StopOld, LoopInv, TypeOK, lockVars, readerVars, writerVars, LockInv
<1>13. ASSUME NEW w \in Writers, WriterExit(w) PROVE LoopInv'
  BY <1>13 DEF WriterExit, LoopInv, TypeOK, lockVars, readerVars, writerVars, LockInv
<1>14. CASE CloseCall
  BY <1>14 DEF CloseCall, LoopInv, TypeOK, lockVars, readerVars, writerVars, LockInv
<1>15. CASE CloseLock
  BY <1>15 DEF CloseLock, LoopInv, TypeOK, lockVars, readerVars, writerVars, LockInv
<1>16. CASE CloseRelease
  BY <1>16 DEF CloseRelease, LoopInv, TypeOK, lockVars, readerVars, writerVars, LockInv
<1>17. CASE CloseUnlock
  BY <1>17 DEF CloseUnlock, LoopInv, TypeOK, lockVars, readerVars, writerVars, LockInv
<1>18. CASE UNCHANGED vars
  BY <1>18 DEF vars, lockVars, readerVars, writerVars, LoopInv, TypeOK, lockVars, readerVars, writerVars, LockInv
<1>. QED
  BY <1>1, <1>2, <1>3, <1>4, <1>5, <1>6, <1>7, <1>8, <1>9, <1>10, <1>11, <1>12, <1>13, <1>14, <1>15, <1>16, <1>17, <1>18 DEF Next, ReaderStep, WriterStep, CloseStep

(* Providers stay with the files they were loaded from. *)
LEMMA FreshStep == TypeOK /\ FreshInv /\ ShutInv /\ [Next]_vars => FreshInv'
<1> SUFFICES ASSUME TypeOK /\ FreshInv /\ ShutInv, [Next]_vars PROVE FreshInv'
  OBVIOUS
<1> USE OpsAssumption, NoneAssumption
<1>1. ASSUME NEW r \in Readers, NEW c \in Calls, RLock(r, c) PROVE FreshInv'
  BY <1>1 DEF RLock, FreshInv, TypeOK, lockVars, readerVars, writerVars, ShutInv
<1>2. ASSUME NEW r \in Readers, NEW d \in Databases, RangeNext(r, d) PROVE FreshInv'
  BY <1>2 DEF RangeNext, FreshInv, TypeOK, lockVars, readerVars, writerVars, ShutInv
<1>3. ASSUME NEW r \in Readers, FlattenInto(r) PROVE FreshInv'
  BY <1>3 DEF FlattenInto, FreshInv, TypeOK, lockVars, readerVars, writerVars, ShutInv
<1>4. ASSUME NEW r \in Readers, RUnlock(r) PROVE FreshInv'
  BY <1>4 DEF RUnlock, FreshInv, TypeOK, lockVars, readerVars, writerVars, ShutInv
<1>5. ASSUME NEW w \in Writers, NEW d \in Databases, ReloadCall(w, d) PROVE FreshInv'
  BY <1>5 DEF ReloadCall, FreshInv, TypeOK, lockVars, readerVars, writerVars, ShutInv
<1>6. ASSUME NEW w \in Writers, Load(w) PROVE FreshInv'
  BY <1>6 DEF Load, FreshInv, TypeOK, lockVars, readerVars, writerVars, Provider
<1>7. ASSUME NEW w \in Writers, LoadFails(w) PROVE FreshInv'
  BY <1>7 DEF LoadFails, FreshInv, TypeOK, lockVars, readerVars, writerVars, ShutInv
<1>8. ASSUME NEW w \in Writers, NEW d \in Databases, DeleteCall(w, d) PROVE FreshInv'
  BY <1>8 DEF DeleteCall, FreshInv, TypeOK, lockVars, readerVars, writerVars, ShutInv
<1>9. ASSUME NEW w \in Writers, Lock(w) PROVE FreshInv'
  BY <1>9 DEF Lock, FreshInv, TypeOK, lockVars, readerVars, writerVars, ShutInv
<1>10. ASSUME NEW w \in Writers, Swap(w) PROVE FreshInv'
  BY <1>10 DEF Swap, FreshInv, TypeOK, lockVars, readerVars, writerVars, ShutInv
<1>11. ASSUME NEW w \in Writers, Unlock(w) PROVE FreshInv'
  BY <1>11 DEF Unlock, FreshInv, TypeOK, lockVars, readerVars, writerVars, ShutInv
<1>12. ASSUME NEW w \in Writers, StopOld(w) PROVE FreshInv'
  BY <1>12 DEF StopOld, FreshInv, TypeOK, lockVars, readerVars, writerVars, ShutInv
<1>13. ASSUME NEW w \in Writers, WriterExit(w) PROVE FreshInv'
  BY <1>13 DEF WriterExit, FreshInv, TypeOK, lockVars, readerVars, writerVars, ShutInv
<1>14. CASE CloseCall
  BY <1>14 DEF CloseCall, FreshInv, TypeOK, lockVars, readerVars, writerVars, ShutInv
<1>15. CASE CloseLock
  BY <1>15 DEF CloseLock, FreshInv, TypeOK, lockVars, readerVars, writerVars, ShutInv
<1>16. CASE CloseRelease
  BY <1>16 DEF CloseRelease, FreshInv, TypeOK, lockVars, readerVars, writerVars, ShutInv
<1>17. CASE CloseUnlock
  BY <1>17 DEF CloseUnlock, FreshInv, TypeOK, lockVars, readerVars, writerVars, ShutInv
<1>18. CASE UNCHANGED vars
  BY <1>18 DEF vars, lockVars, readerVars, writerVars, FreshInv, TypeOK, lockVars, readerVars, writerVars, ShutInv
<1>. QED
  BY <1>1, <1>2, <1>3, <1>4, <1>5, <1>6, <1>7, <1>8, <1>9, <1>10, <1>11, <1>12, <1>13, <1>14, <1>15, <1>16, <1>17, <1>18 DEF Next, ReaderStep, WriterStep, CloseStep

(* A step that touches neither the map nor what the goroutines own. *)
LEMMA SameOwners ==
  ASSUME OwnerInv, UNCHANGED <<providers, open>>,
         \A w \in Writers : Pending(w)' = Pending(w)
  PROVE  OwnerInv'
<1>1. Registered' = Registered
  BY DEF Registered
<1>. QED
  BY <1>1 DEF OwnerInv, NoReaderLeak

(* Every open reader keeps exactly one owner. *)
LEMMA OwnerStep == TypeOK /\ LockInv /\ FreshInv /\ OwnerInv /\ ShutInv /\ [Next]_vars => OwnerInv'
<1> SUFFICES ASSUME TypeOK /\ LockInv /\ FreshInv /\ OwnerInv /\ ShutInv, [Next]_vars PROVE OwnerInv'
  OBVIOUS
<1>1. ASSUME NEW r \in Readers, NEW c \in Calls, RLock(r, c) PROVE OwnerInv'
  <2>1. UNCHANGED <<providers, open, pc, fresh, old>>
    BY <1>1 DEF RLock, lockVars, writerVars
  <2>. QED
    BY <2>1, SameOwners DEF Pending
<1>2. ASSUME NEW r \in Readers, NEW d \in Databases, RangeNext(r, d) PROVE OwnerInv'
  <2>1. UNCHANGED <<providers, open, pc, fresh, old>>
    BY <1>2 DEF RangeNext, lockVars, writerVars
  <2>. QED
    BY <2>1, SameOwners DEF Pending
<1>3. ASSUME NEW r \in Readers, FlattenInto(r) PROVE OwnerInv'
  <2>1. UNCHANGED <<providers, open, pc, fresh, old>>
    BY <1>3 DEF FlattenInto, lockVars, writerVars
  <2>. QED
    BY <2>1, SameOwners DEF Pending
<1>4. ASSUME NEW r \in Readers, RUnlock(r) PROVE OwnerInv'
  <2>1. UNCHANGED <<providers, open, pc, fresh, old>>
    BY <1>4 DEF RUnlock, lockVars, writerVars
  <2>. QED
    BY <2>1, SameOwners DEF Pending
<1>5. ASSUME NEW w \in Writers, NEW d \in Databases, ReloadCall(w, d) PROVE OwnerInv'
  <2>1. UNCHANGED <<providers, open, fresh, old>>
    BY <1>5 DEF ReloadCall
  <2>2. \A x \in Writers : Pending(x)' = Pending(x)
    BY <1>5, <2>1 DEF ReloadCall, Pending, FreshInv, TypeOK
  <2>. QED
    BY <2>1, <2>2, SameOwners
<1>6. ASSUME NEW w \in Writers, Load(w) PROVE OwnerInv'
  <2> PICK v \in Versions :
           fresh' = [fresh EXCEPT ![w] = [id |-> loads + 1, db |-> file[w], version |-> v]]
           /\ open' = open \cup {[id |-> loads + 1, db |-> file[w], version |-> v]}
    BY <1>6 DEF Load
  <2> DEFINE p == [id |-> loads + 1, db |-> file[w], version |-> v]
  <2>1. p \notin open /\ p # None
    BY NoneAssumption DEF FreshInv, TypeOK, Provider
  <2>2. Registered' = Registered /\ open' = open \cup {p}
    BY <1>6 DEF Load, Registered
  <2>3. Pending(w) = {} /\ Pending(w)' = {p}
    BY <1>6, <2>1 DEF Load, Pending, TypeOK
  <2>4. \A x \in Writers : x # w => Pending(x)' = Pending(x)
    BY <1>6 DEF Load, Pending, TypeOK
  <2>. QED
    BY <2>1, <2>2, <2>3, <2>4 DEF OwnerInv, NoReaderLeak
<1>7. ASSUME NEW w \in Writers, LoadFails(w) PROVE OwnerInv'
  <2>1. UNCHANGED <<providers, open, fresh, old>>
    BY <1>7 DEF LoadFails
  <2>2. \A x \in Writers : Pending(x)' = Pending(x)
    BY <1>7, <2>1 DEF LoadFails, Pending, FreshInv, TypeOK
  <2>. QED
    BY <2>1, <2>2, SameOwners
<1>8. ASSUME NEW w \in Writers, NEW d \in Databases, DeleteCall(w, d) PROVE OwnerInv'
  <2>1. UNCHANGED <<providers, open, fresh, old>>
    BY <1>8 DEF DeleteCall
  <2>2. \A x \in Writers : Pending(x)' = Pending(x)
    BY <1>8, <2>1 DEF DeleteCall, Pending, FreshInv, TypeOK
  <2>. QED
    BY <2>1, <2>2, SameOwners
<1>9. ASSUME NEW w \in Writers, Lock(w) PROVE OwnerInv'
  <2>1. UNCHANGED <<providers, open, fresh, old>>
    BY <1>9 DEF Lock
  <2>2. \A x \in Writers : Pending(x)' = Pending(x)
    BY <1>9, <2>1 DEF Lock, Pending, FreshInv, TypeOK
  <2>. QED
    BY <2>1, <2>2, SameOwners
<1>10. ASSUME NEW w \in Writers, Swap(w) PROVE OwnerInv'
  <2> DEFINE f == file[w]
  <2>1. ~(shut /\ fresh[w] # None)
    BY <1>10 DEF Swap, ShutInv
  <2>2. /\ pc' = [pc EXCEPT ![w] = "swapped"]
        /\ old' = [old EXCEPT ![w] = providers[f]]
        /\ providers' = [providers EXCEPT ![f] = fresh[w]]
        /\ UNCHANGED <<open, fresh>>
    BY <1>10, <2>1 DEF Swap
  <2>3. Pending(w) = {fresh[w]} \ {None} /\ Pending(w)' = {providers[f]} \ {None}
    BY <1>10, <2>2 DEF Swap, Pending, TypeOK
  <2>4. \A x \in Writers : x # w => Pending(x)' = Pending(x)
    BY <2>2 DEF Pending, TypeOK
  <2>5. f \in Databases /\ \A d \in Databases : providers[d] = providers[f] /\ providers[d] # None => d = f
    BY DEF FreshInv, TypeOK
  <2>6. Registered' = (Registered \ {providers[f]}) \cup ({fresh[w]} \ {None})
    <3>1. \A d \in Databases : providers'[d] = IF d = f THEN fresh[w] ELSE providers[d]
      BY <2>2 DEF TypeOK
    <3>. QED
      BY <2>5, <3>1 DEF Registered
  <2>7. {providers[f]} \ {None} \subseteq Registered
    BY <2>5 DEF Registered
  <2>8. NoReaderLeak'
    <3>1. Registered' \cup Pending(w)' = Registered \cup Pending(w)
      <4>1. None \notin Registered
        BY DEF Registered
      <4>. QED
        BY <2>3, <2>6, <2>7, <4>1
    <3>2. \A p : p \in open <=> p \in Registered \/ \E x \in Writers : p \in Pending(x)
      BY DEF OwnerInv, NoReaderLeak
    <3>3. \A p : p \in open <=> p \in Registered' \/ \E x \in Writers : p \in Pending(x)'
      BY <2>4, <3>1, <3>2
    <3>. QED
      BY <2>2, <3>3 DEF NoReaderLeak
  <2>9. \A x \in Writers : x # w => /\ Pending(x)' \cap Registered' = {}
                                 /\ Pending(x)' \cap Pending(w)' = {}
    BY <2>3, <2>4, <2>6, <2>7 DEF OwnerInv
  <2>10. Pending(w)' \cap Registered' = {}
    BY <2>3, <2>6, <2>7 DEF OwnerInv
  <2>. QED
    BY <2>4, <2>8, <2>9, <2>10 DEF OwnerInv
<1>11. ASSUME NEW w \in Writers, Unlock(w) PROVE OwnerInv'
  <2>1. UNCHANGED <<providers, open, fresh, old>>
    BY <1>11 DEF Unlock
  <2>2. \A x \in Writers : Pending(x)' = Pending(x)
    BY <1>11, <2>1 DEF Unlock, Pending, FreshInv, TypeOK
  <2>. QED
    BY <2>1, <2>2, SameOwners
<1>12. ASSUME NEW w \in Writers, StopOld(w) PROVE OwnerInv'
  <2>1. Registered' = Registered /\ open' = open \ {old[w]}
    BY <1>12 DEF StopOld, Registered
  <2>2. Pending(w) = {old[w]} \ {None} /\ Pending(w)' = {}
    BY <1>12 DEF StopOld, Pending, TypeOK
  <2>3. \A x \in Writers : x # w => Pending(x)' = Pending(x)
    BY <1>12 DEF StopOld, Pending, TypeOK
  <2>4. None \notin open
    BY NoneAssumption DEF TypeOK
  <2>. QED
    BY <2>1, <2>2, <2>3, <2>4 DEF OwnerInv, NoReaderLeak
<1>13. ASSUME NEW w \in Writers, WriterExit(w) PROVE OwnerInv'
  <2>1. UNCHANGED <<providers, open, fresh, old>>
    BY <1>13 DEF WriterExit
  <2>2. \A x \in Writers : Pending(x)' = Pending(x)
    BY <1>13, <2>1 DEF WriterExit, Pending, FreshInv, TypeOK
  <2>. QED
    BY <2>1, <2>2, SameOwners
<1>14. CASE CloseCall
  <2>1. UNCHANGED <<providers, open, pc, fresh, old>>
    BY <1>14 DEF CloseCall, lockVars, writerVars
  <2>. QED
    BY <2>1, SameOwners DEF Pending
<1>15. CASE CloseLock
  <2>1. UNCHANGED <<providers, open, pc, fresh, old>>
    BY <1>15 DEF CloseLock, lockVars, writerVars
  <2>. QED
    BY <2>1, SameOwners DEF Pending
<1>16. CASE CloseRelease
  <2>1. \A w \in Writers : Pending(w) = {} /\ Pending(w)' = {}
    BY <1>16 DEF CloseRelease, ShutInv, Pending, writerVars
  <2>2. Registered' = {} /\ open' = open \ Registered
    BY <1>16 DEF CloseRelease, Registered
  <2>. QED
    BY <2>1, <2>2 DEF OwnerInv, NoReaderLeak
<1>17. CASE CloseUnlock
  <2>1. UNCHANGED <<providers, open, pc, fresh, old>>
    BY <1>17 DEF CloseUnlock, lockVars, writerVars
  <2>. QED
    BY <2>1, SameOwners DEF Pending
<1>18. CASE UNCHANGED vars
  BY <1>18, SameOwners DEF vars, writerVars, Pending
<1>. QED
  BY <1>1, <1>2, <1>3, <1>4, <1>5, <1>6, <1>7, <1>8, <1>9, <1>10, <1>11, <1>12, <1>13, <1>14, <1>15, <1>16, <1>17, <1>18 DEF Next, ReaderStep, WriterStep, CloseStep

-----------------------------------------------------------------------------
(* The invariant holds in every reachable state. *)
THEOREM Invariance == Safety => []IInv
<1>1. IInv /\ [Next]_vars => IInv'
  BY TypeStep, LockStep, LoopStep, FreshStep, OwnerStep, ShutStep DEF IInv
<1>. QED
  BY InitIInv, <1>1, PTL DEF Safety

(* Every variable of Ops keeps its type. *)
THEOREM TypeCorrect == Safety => []TypeOK
BY Invariance, PTL DEF IInv

(* No lookup ever reads an mmdb reader that a Reload, a Delete or Close has *)
(* closed.                                                                  *)
THEOREM ReadersStayOpen == Safety => []NoUseAfterClose
<1>1. IInv => NoUseAfterClose
  <2> SUFFICES ASSUME IInv, NEW r \in Readers, cur[r] # None PROVE cur[r] \in open
    BY DEF NoUseAfterClose
  <2>1. cur[r].db \in Databases /\ cur[r] = providers[cur[r].db]
    BY DEF IInv, LoopInv, TypeOK, ProviderOrNone, Provider
  <2>2. cur[r] \in Registered
    BY <2>1 DEF Registered
  <2>. QED
    BY <2>2 DEF IInv, OwnerInv, NoReaderLeak
<1>. QED
  BY Invariance, <1>1, PTL

(* Exactly the providers that the map or a running call owns are open.      *)
THEOREM ReadersAreOwned == Safety => []NoReaderLeak
<1>1. IInv => NoReaderLeak
  BY DEF IInv, OwnerInv
<1>. QED
  BY Invariance, <1>1, PTL

(* No Reload stores into the nil map that Close leaves behind. *)
THEOREM NoPanic == Safety => []NoNilMapWrite
<1>1. IInv => NoNilMapWrite
  BY DEF IInv, ShutInv
<1>. QED
  BY Invariance, <1>1, PTL

-----------------------------------------------------------------------------
(* Steps that leave the map and the callers' calls alone are invisible in   *)
(* the atomic registry.                                                     *)
LEMMA Stutters ==
  ASSUME UNCHANGED <<providers, shut, call, answer>>
  PROVE  UNCHANGED Reg!regVars
BY DEF Reg!regVars, servedNow

(* Every step of Ops is a step of the atomic registry or invisible in it. *)
LEMMA StepImplements == IInv /\ [Next]_vars => [Reg!RegNext]_(Reg!regVars)
<1> SUFFICES ASSUME IInv, [Next]_vars PROVE Reg!RegNext \/ UNCHANGED Reg!regVars
  OBVIOUS
<1> USE OpsAssumption DEF IInv
<1>1. ASSUME NEW r \in Readers, NEW c \in Calls, RLock(r, c) PROVE Reg!RegNext
  <2>1. Reg!Ask(r, c)
    BY <1>1 DEF RLock, Reg!Ask, servedNow
  <2>. QED
    BY <2>1 DEF Reg!RegNext, Reg!Calls, Calls
<1>2. ASSUME NEW r \in Readers, NEW d \in Databases, RangeNext(r, d) PROVE UNCHANGED Reg!regVars
  BY <1>2, Stutters DEF RangeNext, readerVars
<1>3. ASSUME NEW r \in Readers, FlattenInto(r) PROVE UNCHANGED Reg!regVars
  BY <1>3, Stutters DEF FlattenInto, readerVars
<1>4. ASSUME NEW r \in Readers, RUnlock(r) PROVE Reg!RegNext
  <2>1. call[r] # "none" /\ r \in readers
    BY <1>4 DEF RUnlock, LockInv
  <2>2. out[r] = [d \in Databases |-> Reg!Yield(call[r], servedNow[d])]
    <3>1. ASSUME NEW d \in Databases PROVE out[r][d] = Reg!Yield(call[r], servedNow[d])
      <4>1. CASE providers[d] = None
        <5>1. out[r][d] = NoDB /\ servedNow[d] = NoDB
          BY <2>1, <4>1 DEF LoopInv, servedNow
        <5>. QED
          BY <5>1 DEF Reg!Yield
      <4>2. CASE providers[d] # None
        <5>1. d \in seen[r] /\ cur[r] # providers[d]
          BY <1>4, <4>2 DEF RUnlock
        <5>2. out[r][d] = Yield(call[r], providers[d].version)
          BY <2>1, <5>1 DEF LoopInv
        <5>. QED
          BY <4>2, <5>2 DEF Reg!Yield, Yield, servedNow
      <4>. QED
        BY <4>1, <4>2
    <3>2. out[r] \in [Databases -> Versions \cup {NoDB}]
      BY DEF TypeOK, Answers
    <3>. QED
      BY <3>1, <3>2
  <2>3. Reg!Answer(r)
    BY <1>4, <2>1, <2>2 DEF RUnlock, Reg!Answer, servedNow
  <2>. QED
    BY <2>3 DEF Reg!RegNext
<1>5. ASSUME NEW w \in Writers, NEW d \in Databases, ReloadCall(w, d) PROVE UNCHANGED Reg!regVars
  BY <1>5, Stutters DEF ReloadCall, readerVars
<1>6. ASSUME NEW w \in Writers, Load(w) PROVE UNCHANGED Reg!regVars
  BY <1>6, Stutters DEF Load, readerVars
<1>7. ASSUME NEW w \in Writers, LoadFails(w) PROVE UNCHANGED Reg!regVars
  BY <1>7, Stutters DEF LoadFails, readerVars
<1>8. ASSUME NEW w \in Writers, NEW d \in Databases, DeleteCall(w, d) PROVE UNCHANGED Reg!regVars
  BY <1>8, Stutters DEF DeleteCall, readerVars
<1>9. ASSUME NEW w \in Writers, Lock(w) PROVE UNCHANGED Reg!regVars
  BY <1>9, Stutters DEF Lock, readerVars
<1>10. ASSUME NEW w \in Writers, Swap(w) PROVE Reg!RegNext
  <2> DEFINE f == file[w]
  <2>1. ~(shut /\ fresh[w] # None)
    BY <1>10 DEF Swap, ShutInv
  <2>2. providers' = [providers EXCEPT ![f] = fresh[w]] /\ UNCHANGED <<shut, call, answer>>
    BY <1>10, <2>1 DEF Swap, readerVars
  <2>3. f \in Databases /\ providers \in [Databases -> ProviderOrNone]
    BY DEF TypeOK
  <2>4. servedNow' = [servedNow EXCEPT ![f] = IF fresh[w] = None THEN NoDB ELSE fresh[w].version]
    BY <2>2, <2>3 DEF servedNow
  <2>5. CASE fresh[w] = None
    <3>1. Reg!Remove(f)
      BY <2>2, <2>4, <2>5 DEF Reg!Remove
    <3>. QED
      BY <2>3, <3>1 DEF Reg!RegNext
  <2>6. CASE fresh[w] # None
    <3>1. fresh[w].version \in Versions
      BY <2>6 DEF TypeOK, ProviderOrNone, Provider
    <3>2. Reg!Install(f, fresh[w].version)
      BY <2>1, <2>2, <2>4, <2>6, <3>1 DEF Reg!Install, ShutInv, TypeOK
    <3>. QED
      BY <2>3, <3>1, <3>2 DEF Reg!RegNext
  <2>. QED
    BY <2>5, <2>6
<1>11. ASSUME NEW w \in Writers, Unlock(w) PROVE UNCHANGED Reg!regVars
  BY <1>11, Stutters DEF Unlock, readerVars
<1>12. ASSUME NEW w \in Writers, StopOld(w) PROVE UNCHANGED Reg!regVars
  BY <1>12, Stutters DEF StopOld, readerVars
<1>13. ASSUME NEW w \in Writers, WriterExit(w) PROVE UNCHANGED Reg!regVars
  BY <1>13, Stutters DEF WriterExit, readerVars
<1>14. ASSUME CloseCall PROVE UNCHANGED Reg!regVars
  BY <1>14, Stutters DEF CloseCall, readerVars
<1>15. ASSUME CloseLock PROVE UNCHANGED Reg!regVars
  BY <1>15, Stutters DEF CloseLock, readerVars
<1>16. ASSUME CloseRelease PROVE Reg!RegNext
  <2>1. Reg!Shut
    BY <1>16 DEF CloseRelease, Reg!Shut, Reg!Nothing, servedNow, readerVars
  <2>. QED
    BY <2>1 DEF Reg!RegNext
<1>17. ASSUME CloseUnlock PROVE UNCHANGED Reg!regVars
  BY <1>17, Stutters DEF CloseUnlock, readerVars
<1>18. CASE UNCHANGED vars
  BY <1>18, Stutters DEF vars, readerVars
<1>. QED
  BY <1>1, <1>2, <1>3, <1>4, <1>5, <1>6, <1>7, <1>8, <1>9, <1>10, <1>11, <1>12, <1>13, <1>14, <1>15, <1>16, <1>17, <1>18
     DEF Next, ReaderStep, WriterStep, CloseStep

(* The locks and pointers of internal/ops implement the atomic registry:    *)
(* each Reload, Delete and Close takes effect at one instant, and what      *)
(* LookupAll or GetDBInfo returns is the whole map as it was at one instant *)
(* of the call.                                                             *)
THEOREM Linearizable == Safety => Reg!RegSafety
<1>1. Init => Reg!RegInit
  BY DEF Init, Reg!RegInit, Reg!Nothing, Nothing, servedNow
<1>. QED
  BY <1>1, Invariance, StepImplements, PTL DEF Safety, Reg!RegSafety
-----------------------------------------------------------------------------
(* The guards of the steps that a goroutine has still to take: one that     *)
(* satisfies its predicate is held back by nobody.                          *)
ReaderGoesOn(r) ==
  \/ cur[r] # None
  \/ r \in readers /\ \E d \in Databases : d \notin seen[r] /\ providers[d] # None
  \/ r \in readers /\ \A d \in Databases : providers[d] # None => d \in seen[r]

WriterGoesOn(w) ==
  \/ pc[w] \in {"loading", "swapped", "stopping"}
  \/ pc[w] = "locking" /\ writer = Nobody
  \/ pc[w] = "entering" /\ readers = {}
  \/ pc[w] = "idle" /\ closing # "open"

CloseGoesOn ==
  \/ closing = "waiting" /\ writer = Nobody /\ \A w \in Writers : pc[w] = "exited"
  \/ closing = "entering" /\ readers = {}
  \/ closing = "released"

(* Whoever has announced a write goes on, or the lookups it waits for do. *)
HolderGoesOn ==
  \/ writer \in Writers /\ WriterGoesOn(writer)
  \/ writer = Closer /\ CloseGoesOn
  \/ readers # {} /\ \A r \in readers : ReaderGoesOn(r)

(* A goroutine that waits, waits for the holder of the lock; Close may also *)
(* wait for a goroutine that is not done.                                   *)
NoCircularWait ==
  /\ \A r \in Readers : call[r] # "none" =>
       ReaderGoesOn(r) \/ (writer # Nobody /\ HolderGoesOn)
  /\ \A w \in Writers : pc[w] \notin {"idle", "exited"} =>
       WriterGoesOn(w) \/ (writer # Nobody /\ HolderGoesOn)
  /\ closing \notin {"open", "closed"} =>
       \/ CloseGoesOn \/ (writer # Nobody /\ HolderGoesOn)
       \/ \E w \in Writers : pc[w] # "exited" /\ WriterGoesOn(w)

(* Lookups, Reloads, Deletes and Close never wait for each other in a       *)
(* circle, however many of them there are: behind every wait there is a     *)
(* goroutine that has its next step free.  This is what WritersReturn and   *)
(* CloseReturns need apart from fairness.                                   *)
THEOREM EveryWaitHasAnEnd == Safety => []NoCircularWait
<1>1. IInv => NoCircularWait
  <2> SUFFICES ASSUME IInv PROVE NoCircularWait
    OBVIOUS
  <2> USE OpsAssumption DEF IInv
  <2>1. ASSUME NEW r \in readers PROVE ReaderGoesOn(r)
    BY <2>1 DEF ReaderGoesOn
  <2>2. ASSUME writer # Nobody PROVE HolderGoesOn
    <3>1. CASE readers # {}
      BY <2>1, <3>1 DEF HolderGoesOn
    <3>2. CASE readers = {} /\ writer \in Writers
      <4>1. pc[writer] \in {"entering", "swapped", "panicked"}
        BY <3>2 DEF LockInv
      <4>2. pc[writer] # "panicked"
        BY <3>2 DEF ShutInv, NoNilMapWrite
      <4>. QED
        BY <3>2, <4>1, <4>2 DEF HolderGoesOn, WriterGoesOn
    <3>3. CASE readers = {} /\ writer = Closer
      <4>1. closing \in {"entering", "released"}
        BY <3>3 DEF LockInv
      <4>. QED
        BY <3>3, <4>1 DEF HolderGoesOn, CloseGoesOn
    <3>. QED
      BY <2>2, <3>1, <3>2, <3>3 DEF TypeOK
  <2>3. ASSUME NEW r \in Readers, call[r] # "none"
        PROVE  ReaderGoesOn(r) \/ writer # Nobody
    BY <2>1, <2>3 DEF LockInv
  <2>4. ASSUME NEW w \in Writers, pc[w] # "exited", pc[w] = "idle" => closing # "open"
        PROVE  WriterGoesOn(w) \/ writer # Nobody
    <3>1. pc[w] # "panicked"
      BY DEF ShutInv, NoNilMapWrite
    <3>2. pc[w] = "entering" => writer = w
      BY DEF LockInv
    <3>. QED
      BY <2>4, <3>1, <3>2 DEF TypeOK, WriterGoesOn
  <2>5. ASSUME closing \notin {"open", "closed"}
        PROVE  \/ CloseGoesOn \/ writer # Nobody
               \/ \E w \in Writers : pc[w] # "exited" /\ WriterGoesOn(w)
    <3>1. CASE closing = "waiting"
      BY <2>4, <3>1 DEF CloseGoesOn
    <3>2. CASE closing \in {"entering", "released"}
      BY <3>2 DEF LockInv
    <3>. QED
      BY <2>5, <3>1, <3>2 DEF TypeOK
  <2>. QED
    BY <2>2, <2>3, <2>4, <2>5 DEF NoCircularWait
<1>. QED
  BY Invariance, <1>1, PTL

=============================================================================
