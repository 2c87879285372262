--------------------------- MODULE UpdaterProofs ---------------------------
(***************************************************************************)
(* Proofs about module Updater, for any number of updaters, databases and  *)
(* versions and any periods: its types, that database files are whole,     *)
(* that temp files are owned, that those being written are not swept, and  *)
(* that Stop does not wait for vendors.                                    *)
(***************************************************************************)
EXTENDS Updater, TLAPS

(* A download is described from its request to its rename. *)
Received == {"reading", "zipping", "copying", "renaming"}
Busy == {"request"} \cup Received

WorkInv == \A u \in Updaters : pc[u] \in Busy => job[u] \in Jobs

-----------------------------------------------------------------------------
(* Arithmetic of the ticker. *)
LEMMA NextTickAfter ==
  ASSUME NEW t \in Nat, NEW n \in Nat, t <= n
  PROVE  t + Frequency * (1 + ((n - t) \div Frequency)) \in Nat
<1>1. Frequency \in Nat /\ Frequency > 0 /\ n - t \in Nat
  BY UpdaterAssumption
<1>2. (n - t) \div Frequency \in Nat
  BY <1>1
<1> DEFINE q == 1 + ((n - t) \div Frequency)
<1>3. q \in Nat
  BY <1>2
<1> HIDE DEF q
<1>4. Frequency * q \in Nat
  BY <1>1, <1>3
<1>. QED
  BY <1>4 DEF q

(* What is left of a pass. *)
Rests == UNION {[F -> Versions] : F \in SUBSET Files}

LEMMA RestIs == \A F \in SUBSET Files : \A t \in [F -> Versions] : t \in Rests
  BY DEF Rests

LEMMA RestHas == \A t \in Rests : DOMAIN t \subseteq Files /\ \A f \in DOMAIN t : t[f] \in Versions
<1>. SUFFICES ASSUME NEW t \in Rests
              PROVE  DOMAIN t \subseteq Files /\ \A f \in DOMAIN t : t[f] \in Versions
  OBVIOUS
<1>1. PICK F \in SUBSET Files : t \in [F -> Versions]
  BY DEF Rests
<1>. QED
  BY <1>1

LEMMA RestWithout == \A t \in Rests, f \in Files : Without(t, f) \in Rests
<1>. SUFFICES ASSUME NEW t \in Rests, NEW f \in Files PROVE Without(t, f) \in Rests
  OBVIOUS
<1>1. DOMAIN t \ {f} \in SUBSET Files /\ Without(t, f) \in [DOMAIN t \ {f} -> Versions]
  BY RestHas DEF Without
<1>. QED
  BY <1>1, RestIs

LEMMA RestNothing == NothingLeft \in Rests
<1>1. NothingLeft \in [{} -> Versions] /\ {} \in SUBSET Files
  BY DEF NothingLeft
<1>. QED
  BY <1>1, RestIs

(* A request. *)
LEMMA AskedType ==
  ASSUME TypeOK, NEW u \in Updaters, NEW f \in Files, NEW md5 \in Versions, NEW month \in Int,
         NEW fallback \in BOOLEAN, Ask(u, f, md5, month, fallback)
  PROVE  /\ job' \in [Updaters -> Jobs \cup {NoJob}]
         /\ job'[u] \in Jobs /\ \A w \in Updaters : w # u => job'[w] = job[w]
         /\ job'[u].deadline = now + Timeout[u]
<1> DEFINE since == IF target[f] = NoFile THEN Gone ELSE target[f].mtime
           asked == [file |-> f, since |-> since, month |-> month, fallback |-> fallback,
                     deadline |-> now + Timeout[u], md5 |-> md5, body |-> Damaged]
<1>1. since \in Nat \cup {Gone}
  BY DEF TypeOK, Database
<1>2. now + Timeout[u] \in Nat
  BY UpdaterAssumption DEF TypeOK
<1>3. job' = [job EXCEPT ![u] = asked]
  BY DEF Ask
<1>4. asked \in Jobs /\ asked.deadline = now + Timeout[u]
  <2> HIDE DEF since
  <2>. QED
    BY <1>1, <1>2 DEF Jobs, Contents
<1>5. job \in [Updaters -> Jobs \cup {NoJob}]
  BY DEF TypeOK
<1> HIDE DEF asked
<1>. QED
  BY <1>3, <1>4, <1>5

(* The modification times of temp files. *)
LEMMA TouchedTemps ==
  ASSUME TypeOK, NEW u \in Updaters
  PROVE  \A t \in {out, zip} :
           /\ t \in [Updaters -> Nat \cup {Gone}]
           /\ [t EXCEPT ![u] = now] \in [Updaters -> Nat \cup {Gone}]
           /\ Touch(t, u) \in [Updaters -> Nat \cup {Gone}]
<1>1. out \in [Updaters -> Nat \cup {Gone}] /\ zip \in [Updaters -> Nat \cup {Gone}] /\ now \in Nat
  BY DEF TypeOK
<1>2. ASSUME NEW t \in [Updaters -> Nat \cup {Gone}]
      PROVE  /\ [t EXCEPT ![u] = now] \in [Updaters -> Nat \cup {Gone}]
             /\ Touch(t, u) \in [Updaters -> Nat \cup {Gone}]
  <2>1. (IF t[u] = Gone THEN Gone ELSE now) \in Nat \cup {Gone}
    BY <1>1
  <2>. QED
    BY <1>1, <2>1 DEF Touch
<1>. QED
  BY <1>1, <1>2

(* The three places where a download changes. *)
LEMMA DownloadAsks ==
  ASSUME TypeOK, NEW u \in Updaters, NEW f \in Files, Download(u, f)
  PROVE  /\ job' \in [Updaters -> Jobs \cup {NoJob}]
         /\ job'[u] \in Jobs /\ \A w \in Updaters : w # u => job'[w] = job[w]
         /\ job'[u].deadline = now + Timeout[u]
<1>1. 1 \in Versions /\ MonthAt(now) \in Int /\ 0 \in Int /\ FALSE \in BOOLEAN
  BY UpdaterAssumption DEF Versions, MonthAt, TypeOK
<1>2. todo[u] \in Rests
  BY DEF TypeOK, Rests
<1>3. todo[u][f] \in Versions
  BY <1>2, RestHas DEF Download
<1>4. VendorOf[f] \in Vendors
  BY UpdaterAssumption
<1>5. CASE VendorOf[f] = "maxmind"
  <2>1. Ask(u, f, todo[u][f], 0, FALSE)
    BY <1>5 DEF Download
  <2>. QED
    BY <1>1, <1>3, <2>1, AskedType
<1>6. CASE VendorOf[f] = "dbip"
  <2>1. Ask(u, f, 1, MonthAt(now), FALSE)
    BY <1>6 DEF Download
  <2>. QED
    BY <1>1, <2>1, AskedType
<1>7. CASE VendorOf[f] = "ip2location"
  <2>1. Ask(u, f, 1, 0, FALSE)
    BY <1>7 DEF Download
  <2>. QED
    BY <1>1, <2>1, AskedType
<1>. QED
  BY <1>4, <1>5, <1>6, <1>7 DEF Vendors

LEMMA NotFoundAsks ==
  ASSUME TypeOK, WorkInv, NEW u \in Updaters, NotFound(u)
  PROVE  \/ pc' = [pc EXCEPT ![u] = "closing"] /\ job' = job
         \/ /\ pc' = pc
            /\ job' \in [Updaters -> Jobs \cup {NoJob}]
            /\ job'[u] \in Jobs /\ \A w \in Updaters : w # u => job'[w] = job[w]
            /\ job'[u].deadline = now + Timeout[u]
<1>1. CASE job[u].fallback
  BY <1>1 DEF NotFound, Conclude
<1>2. CASE ~job[u].fallback
  <2>1. job[u] \in Jobs
    BY DEF NotFound, WorkInv, Busy
  <2>2. job[u].file \in Files /\ job[u].md5 \in Versions /\ job[u].month - 1 \in Int
    BY <2>1 DEF Jobs
  <2>3. Ask(u, job[u].file, job[u].md5, job[u].month - 1, TRUE) /\ pc' = pc
    BY <1>2 DEF NotFound
  <2>. QED
    BY <2>2, <2>3, AskedType
<1>. QED
  BY <1>1, <1>2

LEMMA ReceivedBody ==
  ASSUME TypeOK, WorkInv, NEW u \in Updaters, Receive(u)
  PROVE  /\ job' \in [Updaters -> Jobs \cup {NoJob}]
         /\ job'[u] \in Jobs /\ \A w \in Updaters : w # u => job'[w] = job[w]
         /\ job'[u].deadline = job[u].deadline /\ job'[u].file = job[u].file
         /\ VendorOf[job[u].file] \notin BadPayloads => job'[u].body \in Versions
<1>1. PICK v \in Versions : \E b \in Payloads(job[u].file, v) : job' = [job EXCEPT ![u].body = b]
  BY DEF Receive, Offered, Published
<1>2. PICK b \in Payloads(job[u].file, v) : job' = [job EXCEPT ![u].body = b]
  BY <1>1
<1>3. b \in Contents /\ (VendorOf[job[u].file] \notin BadPayloads => b \in Versions)
  BY DEF Payloads, Contents
<1>4. job[u] \in Jobs /\ job \in [Updaters -> Jobs \cup {NoJob}]
  BY DEF Receive, WorkInv, Busy, TypeOK
<1> DEFINE got == [job[u] EXCEPT !.body = b]
<1>5. got \in Jobs /\ got.deadline = job[u].deadline /\ got.file = job[u].file /\ got.body = b
  BY <1>3, <1>4 DEF Jobs
<1>6. job' = [job EXCEPT ![u] = got]
  BY <1>2
<1> HIDE DEF got
<1>. QED
  BY <1>3, <1>4, <1>5, <1>6

-----------------------------------------------------------------------------
(* Every step keeps the types. *)
LEMMA TypeStep ==
  ASSUME TypeOK, WorkInv, [Next]_vars
  PROVE  TypeOK'
<1>0. todo \in [Updaters -> Rests]
  BY DEF TypeOK, Rests
<1>1. ASSUME Tick
      PROVE  TypeOK'
  <2>1. now' \in Nat
    BY <1>1 DEF Tick, TypeOK
  <2>2. out' \in [Updaters -> Nat \cup {Gone}]
    BY <1>1, <2>1 DEF Tick, TypeOK
  <2>. QED
    BY <1>1, <2>1, <2>2 DEF Tick, TypeOK, vendorVars, diskVars, updaterVars
<1>2. ASSUME NEW f \in Files, NEW v \in Versions, Publish(f, v)
      PROVE  TypeOK'
  BY <1>2 DEF Publish, TypeOK, vendorVars, diskVars, updaterVars
<1>3. ASSUME NEW u \in Updaters, NEW f \in Files, HotReload(u, f)
      PROVE  TypeOK'
  <2>1. loaded' \in [Updaters -> [Files -> Versions]]
    BY <1>3 DEF HotReload, TypeOK
  <2>. QED
    BY <1>3, <2>1 DEF HotReload, TypeOK, vendorVars, diskVars, updaterVars
<1>4. ASSUME Crash
      PROVE  TypeOK'
  <2>1. 1 \in Versions
    BY UpdaterAssumption DEF Versions
  <2>2. loaded' \in [Updaters -> [Files -> Versions]]
    BY <1>4, <2>1 DEF Crash
  <2>3. todo' \in [Updaters -> Rests]
    BY <1>4, RestNothing DEF Crash
  <2>4. /\ pc' \in [Updaters -> Phases]
        /\ initial' \in [Updaters -> BOOLEAN]
    BY <1>4 DEF Crash, TypeOK, Phases
  <2>5. /\ job' \in [Updaters -> Jobs \cup {NoJob}]
        /\ nextTick' \in [Updaters -> Nat]
        /\ cancelled' \in [Updaters -> BOOLEAN]
        /\ outcome' \in [Updaters -> {"none", "unchanged", "unpublished", "updated", "failed"}]
    BY <1>4 DEF Crash
  <2>. QED
    BY <1>4, <2>1, <2>2, <2>3, <2>4, <2>5 DEF Crash, TypeOK, vendorVars, diskVars, updaterVars, Rests
<1>5. ASSUME NEW u \in Updaters, New(u)
      PROVE  TypeOK'
  <2>1. /\ out' \in [Updaters -> Nat \cup {Gone}]
        /\ zip' \in [Updaters -> Nat \cup {Gone}]
    BY <1>5 DEF New, Swept, TypeOK
  <2>2. pc' \in [Updaters -> Phases]
    BY <1>5 DEF New, TypeOK, Phases
  <2>3. \A f \in Files : target[f] # NoFile => target[f].content \in Versions
    BY <1>5 DEF New
  <2>4. [f \in Files |-> IF target[f] = NoFile THEN loaded[u][f] ELSE target[f].content] \in [Files -> Versions]
    BY <2>3 DEF TypeOK
  <2>5. loaded' \in [Updaters -> [Files -> Versions]]
    BY <1>5, <2>4 DEF New, TypeOK
  <2>. QED
    BY <1>5, <2>1, <2>2, <2>3, <2>4, <2>5 DEF New, TypeOK, vendorVars, diskVars, updaterVars
<1>6. ASSUME NEW u \in Updaters, Start(u)
      PROVE  TypeOK'
  <2>1. pc' \in [Updaters -> Phases]
    BY <1>6 DEF Start, BeginPass, TypeOK, Phases
  <2>2. loaded[u] \in Rests
    BY RestIs DEF TypeOK
  <2>3. todo' \in [Updaters -> Rests]
    BY <1>6, <1>0, <2>2 DEF Start, BeginPass
  <2>4. now + Frequency \in Nat
    BY UpdaterAssumption DEF TypeOK
  <2>5. nextTick' \in [Updaters -> Nat]
    BY <1>6, <2>4 DEF Start, TypeOK
  <2>. QED
    BY <1>6, <2>1, <2>2, <2>3, <2>4, <2>5 DEF Start, BeginPass, TypeOK, vendorVars, diskVars, updaterVars, Rests
<1>7. ASSUME NEW u \in Updaters, TakeTick(u)
      PROVE  TypeOK'
  <2>1. pc' \in [Updaters -> Phases]
    BY <1>7 DEF TakeTick, BeginPass, TypeOK, Phases
  <2>2. loaded[u] \in Rests
    BY RestIs DEF TypeOK
  <2>3. todo' \in [Updaters -> Rests]
    BY <1>7, <1>0, <2>2 DEF TakeTick, BeginPass
  <2>4. nextTick[u] + Frequency * (1 + ((now - nextTick[u]) \div Frequency)) \in Nat
    BY <1>7, NextTickAfter DEF TakeTick, TypeOK
  <2>5. nextTick' \in [Updaters -> Nat]
    BY <1>7, <2>4 DEF TakeTick, TypeOK
  <2>. QED
    BY <1>7, <2>1, <2>2, <2>3, <2>4, <2>5 DEF TakeTick, BeginPass, TypeOK, vendorVars, diskVars, updaterVars, Rests
<1>8. ASSUME NEW u \in Updaters, EndPass(u)
      PROVE  TypeOK'
  <2>1. pc' \in [Updaters -> Phases]
    BY <1>8 DEF EndPass, TypeOK, Phases
  <2>2. todo' \in [Updaters -> Rests]
    BY <1>8, <1>0, RestNothing DEF EndPass
  <2>3. initial' \in [Updaters -> BOOLEAN]
    BY <1>8 DEF EndPass, TypeOK
  <2>. QED
    BY <1>8, <2>1, <2>2, <2>3 DEF EndPass, TypeOK, vendorVars, diskVars, updaterVars, Rests
<1>9. ASSUME NEW u \in Updaters, Stop(u)
      PROVE  TypeOK'
  BY <1>9 DEF Stop, TypeOK, vendorVars, diskVars, updaterVars
<1>10. ASSUME NEW u \in Updaters, Exit(u)
      PROVE  TypeOK'
  <2>1. pc' \in [Updaters -> Phases]
    BY <1>10 DEF Exit, TypeOK, Phases
  <2>2. 1 \in Versions
    BY UpdaterAssumption DEF Versions
  <2>3. loaded' \in [Updaters -> [Files -> Versions]]
    BY <1>10, <2>2 DEF Exit, TypeOK
  <2>4. nextTick' \in [Updaters -> Nat] /\ cancelled' \in [Updaters -> BOOLEAN]
    BY <1>10 DEF Exit, TypeOK
  <2>. QED
    BY <1>10, <2>1, <2>2, <2>3, <2>4 DEF Exit, TypeOK, vendorVars, diskVars, updaterVars
<1>11. ASSUME NEW u \in Updaters, NEW f \in Files, Skip(u, f)
      PROVE  TypeOK'
  <2>1. Without(todo[u], f) \in Rests
    BY <1>0, RestWithout
  <2>2. todo' \in [Updaters -> Rests]
    BY <1>11, <1>0, <2>1 DEF Skip
  <2>. QED
    BY <1>11, <2>1, <2>2 DEF Skip, TypeOK, vendorVars, diskVars, updaterVars, Rests
<1>12. ASSUME NEW u \in Updaters, NEW f \in Files, Download(u, f)
      PROVE  TypeOK'
  <2>1. pc' \in [Updaters -> Phases]
    BY <1>12 DEF Download, TypeOK, Phases
  <2>2. Without(todo[u], f) \in Rests
    BY <1>0, RestWithout
  <2>3. todo' \in [Updaters -> Rests]
    BY <1>12, <1>0, <2>2 DEF Download
  <2>4. job' \in [Updaters -> Jobs \cup {NoJob}]
    BY <1>12, DownloadAsks
  <2>. QED
    BY <1>12, <2>1, <2>2, <2>3, <2>4 DEF Download, TypeOK, vendorVars, diskVars, updaterVars, Rests
<1>13. ASSUME NEW u \in Updaters, NotModified(u)
      PROVE  TypeOK'
  <2>1. pc' \in [Updaters -> Phases]
    BY <1>13 DEF NotModified, Conclude, TypeOK, Phases
  <2>. QED
    BY <1>13, <2>1 DEF NotModified, Conclude, TypeOK, vendorVars, diskVars, updaterVars
<1>14. ASSUME NEW u \in Updaters, NotFound(u)
      PROVE  TypeOK'
  <2>1. pc' \in [Updaters -> Phases]
    BY <1>14, NotFoundAsks DEF TypeOK, Phases
  <2>2. job' \in [Updaters -> Jobs \cup {NoJob}]
    BY <1>14, NotFoundAsks DEF TypeOK
  <2>3. outcome' \in [Updaters -> {"none", "unchanged", "unpublished", "updated", "failed"}]
    BY <1>14 DEF NotFound, Conclude, TypeOK
  <2>. QED
    BY <1>14, <2>1, <2>2, <2>3 DEF NotFound, Conclude, TypeOK, vendorVars, diskVars, updaterVars
<1>15. ASSUME NEW u \in Updaters, Receive(u)
      PROVE  TypeOK'
  <2>1. pc' \in {[pc EXCEPT ![u] = s] : s \in {"copying", "reading", "zipping"}}
    BY <1>15 DEF Receive
  <2>2. pc' \in [Updaters -> Phases]
    BY <2>1 DEF TypeOK, Phases
  <2>3. out' \in {out, [out EXCEPT ![u] = now]} /\ zip' \in {zip, [zip EXCEPT ![u] = now]}
    BY <1>15 DEF Receive
  <2>4. /\ out' \in [Updaters -> Nat \cup {Gone}]
        /\ zip' \in [Updaters -> Nat \cup {Gone}]
    BY <2>3, TouchedTemps
  <2>5. job' \in [Updaters -> Jobs \cup {NoJob}]
    BY <1>15, ReceivedBody
  <2>. QED
    BY <1>15, <2>1, <2>2, <2>3, <2>4, <2>5 DEF Receive, TypeOK, vendorVars, diskVars, updaterVars
<1>16. ASSUME NEW u \in Updaters, Progress(u)
      PROVE  TypeOK'
  <2>1. out' \in {out, Touch(out, u)} /\ zip' \in {zip, Touch(zip, u)}
    BY <1>16 DEF Progress
  <2>2. /\ out' \in [Updaters -> Nat \cup {Gone}]
        /\ zip' \in [Updaters -> Nat \cup {Gone}]
    BY <2>1, TouchedTemps
  <2>. QED
    BY <1>16, <2>1, <2>2 DEF Progress, TypeOK, vendorVars, diskVars, updaterVars
<1>17. ASSUME NEW u \in Updaters, Extract(u)
      PROVE  TypeOK'
  <2>1. pc' \in [Updaters -> Phases]
    BY <1>17 DEF Extract, TypeOK, Phases
  <2>2. out' = [out EXCEPT ![u] = now] /\ zip' \in {zip, Touch(zip, u)}
    BY <1>17 DEF Extract
  <2>3. /\ out' \in [Updaters -> Nat \cup {Gone}]
        /\ zip' \in [Updaters -> Nat \cup {Gone}]
    BY <2>2, TouchedTemps
  <2>. QED
    BY <1>17, <2>1, <2>2, <2>3 DEF Extract, TypeOK, vendorVars, diskVars, updaterVars
<1>18. ASSUME NEW u \in Updaters, CopyEnds(u)
      PROVE  TypeOK'
  <2>1. pc' \in [Updaters -> Phases]
    BY <1>18 DEF CopyEnds, TypeOK, Phases
  <2>2. out' \in [Updaters -> Nat \cup {Gone}]
    BY <1>18, TouchedTemps DEF CopyEnds
  <2>. QED
    BY <1>18, <2>1, <2>2 DEF CopyEnds, TypeOK, vendorVars, diskVars, updaterVars
<1>19. ASSUME NEW u \in Updaters, Rename(u)
      PROVE  TypeOK'
  <2>1. pc' \in [Updaters -> Phases]
    BY <1>19 DEF Rename, Conclude, TypeOK, Phases
  <2>2. job[u] \in Jobs /\ out[u] \in Nat
    BY <1>19 DEF Rename, WorkInv, Busy, Received, TypeOK
  <2>3. [content |-> job[u].body, mtime |-> out[u]] \in Database
    BY <2>2 DEF Jobs, Database
  <2>4. target' \in [Files -> Database \cup {NoFile}]
    BY <1>19, <2>3 DEF Rename, TypeOK
  <2>5. out' \in [Updaters -> Nat \cup {Gone}]
    BY <1>19 DEF Rename, TypeOK
  <2>. QED
    BY <1>19, <2>1, <2>2, <2>3, <2>4, <2>5 DEF Rename, Conclude, TypeOK, vendorVars, diskVars, updaterVars
<1>20. ASSUME NEW u \in Updaters, Fail(u)
      PROVE  TypeOK'
  <2>1. pc' \in [Updaters -> Phases]
    BY <1>20 DEF Fail, Conclude, TypeOK, Phases
  <2>2. /\ out' \in [Updaters -> Nat \cup {Gone}]
        /\ zip' \in [Updaters -> Nat \cup {Gone}]
    BY <1>20 DEF Fail, TypeOK
  <2>. QED
    BY <1>20, <2>1, <2>2 DEF Fail, Conclude, TypeOK, vendorVars, diskVars, updaterVars
<1>21. ASSUME NEW u \in Updaters, Finish(u)
      PROVE  TypeOK'
  <2>1. pc' \in [Updaters -> Phases]
    BY <1>21 DEF Finish, TypeOK, Phases
  <2>2. job' \in [Updaters -> Jobs \cup {NoJob}]
    BY <1>21 DEF Finish, TypeOK
  <2>3. zip' \in [Updaters -> Nat \cup {Gone}]
    BY <1>21 DEF Finish, TypeOK
  <2>. QED
    BY <1>21, <2>1, <2>2, <2>3 DEF Finish, TypeOK, vendorVars, diskVars, updaterVars
<1>22. CASE UNCHANGED vars
  BY <1>22 DEF vars, TypeOK, vendorVars, diskVars, updaterVars
<1>. QED
  BY <1>1, <1>2, <1>3, <1>4, <1>5, <1>6, <1>7, <1>8, <1>9, <1>10, <1>11, <1>12, <1>13, <1>14, <1>15,
     <1>16, <1>17, <1>18, <1>19, <1>20, <1>21, <1>22 DEF Next, Environment, Step

-----------------------------------------------------------------------------
(* What a step of one updater does to another: New may remove its temp      *)
(* files, nothing else.                                                     *)
LEMMA Others ==
  ASSUME TypeOK, WorkInv, NEW u \in Updaters, Step(u), NEW w \in Updaters, w # u
  PROVE  /\ now' = now /\ pc'[w] = pc[w] /\ job'[w] = job[w]
         /\ out'[w] = out[w] \/ (out'[w] = Gone /\ Stale(u, out[w]))
         /\ zip'[w] = zip[w] \/ (zip'[w] = Gone /\ Stale(u, zip[w]))
<1> DEFINE Goal == /\ now' = now /\ pc'[w] = pc[w] /\ job'[w] = job[w]
                   /\ out'[w] = out[w] \/ (out'[w] = Gone /\ Stale(u, out[w]))
                   /\ zip'[w] = zip[w] \/ (zip'[w] = Gone /\ Stale(u, zip[w]))
<1>0. /\ pc \in [Updaters -> Phases] /\ job \in [Updaters -> Jobs \cup {NoJob}]
      /\ out \in [Updaters -> Nat \cup {Gone}] /\ zip \in [Updaters -> Nat \cup {Gone}]
  BY DEF TypeOK
<1>1. ASSUME New(u) PROVE Goal
  BY <1>0, <1>1 DEF New, Swept, diskVars
<1>2. ASSUME Start(u) PROVE Goal
  BY <1>0, <1>2 DEF Start, BeginPass, diskVars
<1>3. ASSUME TakeTick(u) PROVE Goal
  BY <1>0, <1>3 DEF TakeTick, BeginPass, diskVars
<1>4. ASSUME EndPass(u) PROVE Goal
  BY <1>0, <1>4 DEF EndPass, diskVars
<1>5. ASSUME Stop(u) PROVE Goal
  BY <1>0, <1>5 DEF Stop, diskVars
<1>6. ASSUME Exit(u) PROVE Goal
  BY <1>0, <1>6 DEF Exit, diskVars
<1>7. ASSUME NEW f \in Files, Skip(u, f) PROVE Goal
  BY <1>0, <1>7 DEF Skip, diskVars
<1>8. ASSUME NEW f \in Files, Download(u, f) PROVE Goal
  <2>1. now' = now /\ pc'[w] = pc[w] /\ out'[w] = out[w] /\ zip'[w] = zip[w]
    BY <1>0, <1>8 DEF Download, diskVars
  <2>2. job'[w] = job[w]
    BY <1>8, DownloadAsks
  <2>. QED
    BY <2>1, <2>2
<1>9. ASSUME NotModified(u) PROVE Goal
  BY <1>0, <1>9 DEF NotModified, Conclude, diskVars
<1>10. ASSUME NotFound(u) PROVE Goal
  <2>1. now' = now /\ pc'[w] = pc[w] /\ out'[w] = out[w] /\ zip'[w] = zip[w]
    BY <1>0, <1>10 DEF NotFound, Conclude, diskVars
  <2>2. job'[w] = job[w]
    BY <1>10, NotFoundAsks
  <2>. QED
    BY <2>1, <2>2
<1>11. ASSUME Receive(u) PROVE Goal
  <2>1. now' = now /\ pc'[w] = pc[w] /\ out'[w] = out[w] /\ zip'[w] = zip[w]
    BY <1>0, <1>11 DEF Receive, diskVars
  <2>2. job'[w] = job[w]
    BY <1>11, ReceivedBody
  <2>. QED
    BY <2>1, <2>2
<1>12. ASSUME Progress(u) PROVE Goal
  BY <1>0, <1>12 DEF Progress, Touch, updaterVars, diskVars
<1>13. ASSUME Extract(u) PROVE Goal
  BY <1>0, <1>13 DEF Extract, Touch, diskVars
<1>14. ASSUME CopyEnds(u) PROVE Goal
  BY <1>0, <1>14 DEF CopyEnds, Touch, diskVars
<1>15. ASSUME Rename(u) PROVE Goal
  BY <1>0, <1>15 DEF Rename, Conclude, diskVars
<1>16. ASSUME Fail(u) PROVE Goal
  BY <1>0, <1>16 DEF Fail, Conclude, diskVars
<1>17. ASSUME Finish(u) PROVE Goal
  BY <1>0, <1>17 DEF Finish, diskVars
<1> HIDE DEF Goal
<1>18. Goal
  BY <1>1, <1>2, <1>3, <1>4, <1>5, <1>6, <1>7, <1>8, <1>9, <1>10, <1>11, <1>12, <1>13, <1>14, <1>15, <1>16, <1>17 DEF Step
<1>. QED
  BY <1>18 DEF Goal

-----------------------------------------------------------------------------
(* Temp files are owned. *)
Owned(u) ==
  /\ out[u] # Gone => pc[u] \in {"copying", "renaming", "dead"}
  /\ zip[u] # Gone => pc[u] \in {"zipping", "copying", "renaming", "closing", "dead"}

LEMMA OwnStep ==
  ASSUME TypeOK, NEW u \in Updaters, Owned(u), Step(u)
  PROVE  Owned(u)'
<1>0. /\ pc \in [Updaters -> Phases]
      /\ out \in [Updaters -> Nat \cup {Gone}] /\ zip \in [Updaters -> Nat \cup {Gone}]
  BY DEF TypeOK
<1>1. ASSUME New(u) PROVE Owned(u)'
  BY <1>0, <1>1 DEF New, Swept, diskVars, Owned
<1>2. ASSUME Start(u) PROVE Owned(u)'
  BY <1>0, <1>2 DEF Start, BeginPass, diskVars, Owned
<1>3. ASSUME TakeTick(u) PROVE Owned(u)'
  BY <1>0, <1>3 DEF TakeTick, BeginPass, diskVars, Owned
<1>4. ASSUME EndPass(u) PROVE Owned(u)'
  BY <1>0, <1>4 DEF EndPass, diskVars, Owned
<1>5. ASSUME Stop(u) PROVE Owned(u)'
  BY <1>0, <1>5 DEF Stop, diskVars, Owned
<1>6. ASSUME Exit(u) PROVE Owned(u)'
  BY <1>0, <1>6 DEF Exit, diskVars, Owned
<1>7. ASSUME NEW f \in Files, Skip(u, f) PROVE Owned(u)'
  BY <1>0, <1>7 DEF Skip, diskVars, Owned
<1>8. ASSUME NEW f \in Files, Download(u, f) PROVE Owned(u)'
  BY <1>0, <1>8 DEF Download, diskVars, Owned
<1>9. ASSUME NotModified(u) PROVE Owned(u)'
  BY <1>0, <1>9 DEF NotModified, Conclude, diskVars, Owned
<1>10. ASSUME NotFound(u) PROVE Owned(u)'
  BY <1>0, <1>10 DEF NotFound, Conclude, diskVars, Owned
<1>11. ASSUME Receive(u) PROVE Owned(u)'
  BY <1>0, <1>11 DEF Receive, diskVars, Owned
<1>12. ASSUME Progress(u) PROVE Owned(u)'
  BY <1>0, <1>12 DEF Progress, Touch, updaterVars, diskVars, Owned, Online
<1>13. ASSUME Extract(u) PROVE Owned(u)'
  BY <1>0, <1>13 DEF Extract, Touch, diskVars, Owned
<1>14. ASSUME CopyEnds(u) PROVE Owned(u)'
  BY <1>0, <1>14 DEF CopyEnds, Touch, diskVars, Owned
<1>15. ASSUME Rename(u) PROVE Owned(u)'
  BY <1>0, <1>15 DEF Rename, Conclude, diskVars, Owned
<1>16. ASSUME Fail(u) PROVE Owned(u)'
  BY <1>0, <1>16 DEF Fail, Conclude, diskVars, Owned, InFlight, Online
<1>17. ASSUME Finish(u) PROVE Owned(u)'
  BY <1>0, <1>17 DEF Finish, diskVars, Owned
<1>. QED
  BY <1>1, <1>2, <1>3, <1>4, <1>5, <1>6, <1>7, <1>8, <1>9, <1>10, <1>11, <1>12, <1>13, <1>14, <1>15, <1>16, <1>17 DEF Step

LEMMA OwnedStep ==
  ASSUME TypeOK, WorkInv, TempsOwned, [Next]_vars
  PROVE  TempsOwned'
<1>0. \A u \in Updaters : Owned(u)
  BY DEF TempsOwned, Owned
<1>. SUFFICES ASSUME NEW w \in Updaters PROVE Owned(w)'
  BY DEF TempsOwned, Owned
<1>1. CASE Tick
  BY <1>0, <1>1 DEF Tick, Owned, TypeOK
<1>2. ASSUME NEW f \in Files, NEW v \in Versions, Publish(f, v) PROVE Owned(w)'
  BY <1>0, <1>2 DEF Publish, Owned, diskVars, updaterVars
<1>3. ASSUME NEW u \in Updaters, NEW f \in Files, HotReload(u, f) PROVE Owned(w)'
  BY <1>0, <1>3 DEF HotReload, Owned, diskVars
<1>4. CASE Crash
  BY <1>0, <1>4 DEF Crash, Owned, Alive, diskVars
<1>5. ASSUME NEW u \in Updaters, Step(u) PROVE Owned(w)'
  <2>1. CASE w = u
    BY <1>0, <1>5, <2>1, OwnStep
  <2>2. CASE w # u
    <3>1. /\ pc'[w] = pc[w]
          /\ out'[w] \in {out[w], Gone} /\ zip'[w] \in {zip[w], Gone}
      BY <1>5, <2>2, Others
    <3>. QED
      BY <1>0, <3>1 DEF Owned
  <2>. QED
    BY <2>1, <2>2
<1>6. CASE UNCHANGED vars
  BY <1>0, <1>6 DEF vars, Owned, diskVars, updaterVars
<1>. QED
  BY <1>1, <1>2, <1>3, <1>4, <1>5, <1>6 DEF Next, Environment

-----------------------------------------------------------------------------
(* Downloads in flight.  Until its rename a download has a job; what it     *)
(* received is a version of an honest vendor; on the network it is ahead of *)
(* its deadline; and its temp file has been written since it was asked for, *)
(* just now if no deadline applies.                                         *)
Sound(u) ==
  /\ pc[u] \in Busy => job[u] \in Jobs /\ job[u].deadline <= now + Timeout[u]
  /\ pc[u] \in Received /\ VendorOf[job[u].file] \notin BadPayloads => job[u].body \in Versions

Timely(u) ==
  /\ Online(u) => now < job[u].deadline
  /\ pc[u] = "zipping" /\ zip[u] # Gone => job[u].deadline <= zip[u] + Timeout[u]
  /\ pc[u] \in {"copying", "renaming"} /\ out[u] # Gone =>
       out[u] = now \/ (Online(u) /\ job[u].deadline <= out[u] + Timeout[u])

SoundInv == \A u \in Updaters : Sound(u) /\ Timely(u)

LEMMA SoundWork == SoundInv => WorkInv
  BY DEF SoundInv, Sound, WorkInv

(* A download keeps to this while it stays where it is and its temp files   *)
(* are left alone, written or removed.                                      *)
LEMMA SoundStays ==
  ASSUME TypeOK, NEW u \in Updaters, Sound(u), Timely(u),
         now' = now, pc'[u] = pc[u], job'[u] = job[u],
         out'[u] \in {out[u], Gone, now}, zip'[u] \in {zip[u], Gone, now}
  PROVE  Sound(u)' /\ Timely(u)'
<1>1. Sound(u)'
  BY DEF Sound
<1>2. Online(u)' <=> Online(u)
  BY DEF Online, Streamed
<1>3. pc[u] = "zipping" => job[u].deadline <= now + Timeout[u]
  BY DEF Sound, Busy, Received
<1>. QED
  BY <1>1, <1>2, <1>3 DEF Timely

LEMMA SoundIdle ==
  ASSUME NEW u \in Updaters, pc'[u] \notin Busy
  PROVE  Sound(u)' /\ Timely(u)'
  BY DEF Sound, Timely, Online, Busy, Received

(* The steps of a download's own updater. *)
LEMMA SoundOwn ==
  ASSUME TypeOK, NEW u \in Updaters, Sound(u), Timely(u), WorkInv, Step(u)
  PROVE  Sound(u)' /\ Timely(u)'
<1>0. /\ pc \in [Updaters -> Phases] /\ job \in [Updaters -> Jobs \cup {NoJob}] /\ now \in Nat
      /\ out \in [Updaters -> Nat \cup {Gone}] /\ zip \in [Updaters -> Nat \cup {Gone}]
      /\ Timeout[u] \in Nat /\ Timeout[u] > 0
  BY UpdaterAssumption DEF TypeOK
<1> DEFINE Goal == Sound(u)' /\ Timely(u)'
<1>1. ASSUME New(u) PROVE Goal
  <2>1. pc'[u] \notin Busy
    BY <1>0, <1>1 DEF New, Swept, Busy, Received
  <2>. QED
    BY <2>1, SoundIdle
<1>2. ASSUME Start(u) PROVE Goal
  <2>1. pc'[u] \notin Busy
    BY <1>0, <1>2 DEF Start, BeginPass, Busy, Received
  <2>. QED
    BY <2>1, SoundIdle
<1>3. ASSUME TakeTick(u) PROVE Goal
  <2>1. pc'[u] \notin Busy
    BY <1>0, <1>3 DEF TakeTick, BeginPass, Busy, Received
  <2>. QED
    BY <2>1, SoundIdle
<1>4. ASSUME EndPass(u) PROVE Goal
  <2>1. pc'[u] \notin Busy
    BY <1>0, <1>4 DEF EndPass, Busy, Received
  <2>. QED
    BY <2>1, SoundIdle
<1>5. ASSUME Stop(u) PROVE Goal
  <2>1. /\ now' = now /\ pc'[u] = pc[u] /\ job'[u] = job[u]
        /\ out'[u] \in {out[u], Gone, now} /\ zip'[u] \in {zip[u], Gone, now}
    BY <1>0, <1>5 DEF Stop, diskVars
  <2>. QED
    BY <2>1, SoundStays
<1>6. ASSUME Exit(u) PROVE Goal
  <2>1. pc'[u] \notin Busy
    BY <1>0, <1>6 DEF Exit, Busy, Received
  <2>. QED
    BY <2>1, SoundIdle
<1>7. ASSUME NEW f \in Files, Skip(u, f) PROVE Goal
  <2>1. /\ now' = now /\ pc'[u] = pc[u] /\ job'[u] = job[u]
        /\ out'[u] \in {out[u], Gone, now} /\ zip'[u] \in {zip[u], Gone, now}
    BY <1>0, <1>7 DEF Skip, diskVars
  <2>. QED
    BY <2>1, SoundStays
<1>8. ASSUME NEW f \in Files, Download(u, f) PROVE Goal
  <2>1. now' = now /\ pc'[u] = "request" /\ job'[u] \in Jobs /\ job'[u].deadline = now + Timeout[u]
    BY <1>0, <1>8, DownloadAsks DEF Download
  <2>. QED
    BY <1>0, <2>1 DEF Sound, Timely, Online, Busy, Received
<1>9. ASSUME NotModified(u) PROVE Goal
  <2>1. pc'[u] \notin Busy
    BY <1>0, <1>9 DEF NotModified, Conclude, Busy, Received
  <2>. QED
    BY <2>1, SoundIdle
<1>10. ASSUME NotFound(u) PROVE Goal
  <2>1. now' = now
    BY <1>10 DEF NotFound, Conclude
  <2>2. CASE pc' = [pc EXCEPT ![u] = "closing"] /\ job' = job
    <3>1. pc'[u] \notin Busy
      BY <1>0, <2>2 DEF Busy, Received
    <3>. QED
      BY <3>1, SoundIdle
  <2>3. CASE pc' = pc /\ job'[u] \in Jobs /\ job'[u].deadline = now + Timeout[u]
    <3>1. pc'[u] = "request"
      BY <1>10, <2>3 DEF NotFound
    <3>. QED
      BY <1>0, <2>1, <2>3, <3>1 DEF Sound, Timely, Online, Busy, Received
  <2>. QED
    BY <1>10, <2>2, <2>3, NotFoundAsks
<1>11. ASSUME Receive(u) PROVE Goal
  <2>1. /\ job'[u] \in Jobs /\ job'[u].deadline = job[u].deadline /\ job'[u].file = job[u].file
        /\ VendorOf[job[u].file] \notin BadPayloads => job'[u].body \in Versions
    BY <1>11, ReceivedBody
  <2>2. pc[u] = "request" /\ now' = now
    BY <1>11 DEF Receive
  <2>3. \/ pc'[u] = "copying" /\ out'[u] = now /\ VendorOf[job[u].file] # "ip2location"
        \/ pc'[u] = "reading"
        \/ pc'[u] = "zipping" /\ zip'[u] = now
    BY <1>0, <1>11 DEF Receive, Streamed
  <2>4. job[u].deadline <= now + Timeout[u] /\ now < job[u].deadline
    BY <2>2 DEF Sound, Timely, Online, Busy
  <2>5. Sound(u)'
    BY <2>1, <2>2, <2>3, <2>4 DEF Sound, Busy, Received
  <2>6. Timely(u)'
    BY <2>1, <2>2, <2>3, <2>4 DEF Timely, Online, Streamed
  <2>. QED
    BY <2>5, <2>6
<1>12. ASSUME Progress(u) PROVE Goal
  <2>1. /\ now' = now /\ pc'[u] = pc[u] /\ job'[u] = job[u]
        /\ out'[u] \in {out[u], Gone, now} /\ zip'[u] \in {zip[u], Gone, now}
    BY <1>0, <1>12 DEF Progress, Touch, updaterVars, diskVars
  <2>. QED
    BY <2>1, SoundStays
<1>13. ASSUME Extract(u) PROVE Goal
  <2>1. now' = now /\ job' = job /\ pc[u] \in {"reading", "zipping"} /\ pc'[u] = "copying" /\ out'[u] = now
    BY <1>0, <1>13 DEF Extract
  <2>2. now < job[u].deadline
    BY <2>1 DEF Timely, Online
  <2>. QED
    BY <2>1, <2>2 DEF Sound, Timely, Online, Busy, Received
<1>14. ASSUME CopyEnds(u) PROVE Goal
  <2>1. /\ now' = now /\ job' = job /\ pc[u] = "copying" /\ pc'[u] = "renaming"
        /\ out'[u] \in {Gone, now}
    BY <1>0, <1>14 DEF CopyEnds, Touch
  <2>. QED
    BY <2>1 DEF Sound, Timely, Online, Busy, Received
<1>15. ASSUME Rename(u) PROVE Goal
  <2>1. pc'[u] \notin Busy
    BY <1>0, <1>15 DEF Rename, Conclude, Busy, Received
  <2>. QED
    BY <2>1, SoundIdle
<1>16. ASSUME Fail(u) PROVE Goal
  <2>1. pc'[u] \notin Busy
    BY <1>0, <1>16 DEF Fail, Conclude, Busy, Received
  <2>. QED
    BY <2>1, SoundIdle
<1>17. ASSUME Finish(u) PROVE Goal
  <2>1. pc'[u] \notin Busy
    BY <1>0, <1>17 DEF Finish, Busy, Received
  <2>. QED
    BY <2>1, SoundIdle
<1> HIDE DEF Goal
<1>18. Goal
  BY <1>1, <1>2, <1>3, <1>4, <1>5, <1>6, <1>7, <1>8, <1>9, <1>10, <1>11, <1>12, <1>13, <1>14, <1>15, <1>16, <1>17 DEF Step
<1>. QED
  BY <1>18 DEF Goal

LEMMA SoundStep ==
  ASSUME TypeOK, SoundInv, [Next]_vars
  PROVE  SoundInv'
<1>0. WorkInv /\ now \in Nat /\ \A u \in Updaters : Sound(u) /\ Timely(u) /\ Timeout[u] \in Nat
  BY SoundWork, UpdaterAssumption DEF SoundInv, TypeOK
<1>. SUFFICES ASSUME NEW w \in Updaters PROVE Sound(w)' /\ Timely(w)'
  BY DEF SoundInv
<1>1. CASE Tick
  <2>1. /\ now' = now + 1 /\ UNCHANGED <<pc, job, zip>>
        /\ pc[w] # "renaming" /\ (Online(w) => now + 1 < job[w].deadline)
        /\ out'[w] = IF pc[w] = "copying" /\ ~Streamed(w) /\ out[w] # Gone THEN now' ELSE out[w]
    BY <1>1 DEF Tick
  <2>2. Sound(w)'
    <3>1. pc[w] \in Busy => job[w] \in Jobs /\ job[w].deadline <= now' + Timeout[w]
      BY <1>0, <2>1 DEF Sound, Jobs
    <3>. QED
      BY <1>0, <2>1, <3>1 DEF Sound
  <2>3. Online(w)' <=> Online(w)
    BY <2>1 DEF Online, Streamed
  <2>4. pc[w] = "copying" => (Online(w) <=> Streamed(w))
    BY DEF Online
  <2>5. Online(w) => job[w].deadline <= now + Timeout[w]
    BY <1>0 DEF Sound, Online, Busy, Received
  <2>6. pc[w] = "copying" /\ out'[w] # Gone =>
          out'[w] = now' \/ (Online(w) /\ job[w].deadline <= out'[w] + Timeout[w])
    BY <1>0, <2>1, <2>4, <2>5 DEF Timely
  <2>7. Timely(w)'
    BY <1>0, <2>1, <2>3, <2>6 DEF Timely
  <2>. QED
    BY <2>2, <2>7
<1>2. ASSUME NEW f \in Files, NEW v \in Versions, Publish(f, v) PROVE Sound(w)' /\ Timely(w)'
  <2>1. UNCHANGED <<now, pc, job, out, zip>>
    BY <1>2 DEF Publish, diskVars, updaterVars
  <2>. QED
    BY <1>0, <2>1, SoundStays
<1>3. ASSUME NEW u \in Updaters, NEW f \in Files, HotReload(u, f) PROVE Sound(w)' /\ Timely(w)'
  <2>1. UNCHANGED <<now, pc, job, out, zip>>
    BY <1>3 DEF HotReload, diskVars
  <2>. QED
    BY <1>0, <2>1, SoundStays
<1>4. CASE Crash
  <2>1. pc'[w] \notin Busy
    BY <1>4 DEF Crash, Alive, Busy, Received
  <2>. QED
    BY <2>1, SoundIdle
<1>5. ASSUME NEW u \in Updaters, Step(u) PROVE Sound(w)' /\ Timely(w)'
  <2>1. CASE w = u
    BY <1>0, <1>5, <2>1, SoundOwn
  <2>2. CASE w # u
    <3>1. /\ now' = now /\ pc'[w] = pc[w] /\ job'[w] = job[w]
          /\ out'[w] \in {out[w], Gone, now} /\ zip'[w] \in {zip[w], Gone, now}
      BY <1>0, <1>5, <2>2, Others
    <3>. QED
      BY <1>0, <3>1, SoundStays
  <2>. QED
    BY <2>1, <2>2
<1>6. CASE UNCHANGED vars
  <2>1. UNCHANGED <<now, pc, job, out, zip>>
    BY <1>6 DEF vars, diskVars, updaterVars
  <2>. QED
    BY <1>0, <2>1, SoundStays
<1>. QED
  BY <1>1, <1>2, <1>3, <1>4, <1>5, <1>6 DEF Next, Environment

-----------------------------------------------------------------------------
(* Database files are whole.  Only Rename writes one. *)
LEMMA OnlyRenameWrites ==
  ASSUME NEW u \in Updaters, Step(u), ~Rename(u)
  PROVE  target' = target
  BY DEF Step, New, Start, TakeTick, BeginPass, EndPass, Stop, Exit, Skip, Download, NotModified,
         NotFound, Receive, Progress, Extract, CopyEnds, Fail, Finish, diskVars

LEMMA WholeStep ==
  ASSUME TypeOK, SoundInv, TargetWhole, [Next]_vars
  PROVE  TargetWhole'
<1>1. CASE Environment \/ UNCHANGED vars
  <2>1. target' = target
    BY <1>1 DEF Environment, Tick, Publish, HotReload, Crash, vars, diskVars
  <2>. QED
    BY <2>1 DEF TargetWhole
<1>2. ASSUME NEW u \in Updaters, Step(u), ~Rename(u) PROVE TargetWhole'
  <2>1. target' = target
    BY <1>2, OnlyRenameWrites
  <2>. QED
    BY <2>1 DEF TargetWhole
<1>3. ASSUME NEW u \in Updaters, Rename(u) PROVE TargetWhole'
  <2>1. target' = [target EXCEPT ![job[u].file] = [content |-> job[u].body, mtime |-> out[u]]]
    BY <1>3 DEF Rename
  <2>2. VendorOf[job[u].file] \notin BadPayloads => job[u].body \in Versions
    BY <1>3 DEF Rename, SoundInv, Sound, Received
  <2>3. target \in [Files -> Database \cup {NoFile}]
    BY DEF TypeOK
  <2>. SUFFICES ASSUME NEW f \in Files, target'[f] # NoFile, VendorOf[f] \notin BadPayloads
                PROVE  target'[f].content \in Versions
    BY DEF TargetWhole
  <2>4. CASE f = job[u].file
    BY <2>1, <2>2, <2>3, <2>4
  <2>5. CASE f # job[u].file
    <3>1. target'[f] = target[f]
      BY <2>1, <2>3, <2>5
    <3>. QED
      BY <3>1 DEF TargetWhole
  <2>. QED
    BY <2>4, <2>5
<1>. QED
  BY <1>1, <1>2, <1>3 DEF Next

-----------------------------------------------------------------------------
(* The start-up sweep, when all updaters have the same timeout. *)
SameTimeout == \A u, w \in Updaters : Timeout[u] = Timeout[w]

Kept(u) ==
  pc[u] \in {"zipping", "copying", "renaming"} /\ Writing(u) # Gone /\ pc'[u] = pc[u]
    => Writing(u)' # Gone

(* A temp file that is being written is younger than the timeout. *)
LEMMA LiveIsFresh ==
  ASSUME TypeOK, WorkInv, SameTimeout, NEW w \in Updaters, Timely(w), NEW u \in Updaters,
         pc[w] \in {"zipping", "copying", "renaming"}, Writing(w) # Gone
  PROVE  ~Stale(u, Writing(w))
<1>1. /\ Timeout[u] = Timeout[w] /\ Timeout[w] \in Nat /\ Timeout[w] > 0 /\ now \in Nat
      /\ out[w] \in Nat \cup {Gone} /\ zip[w] \in Nat \cup {Gone}
  BY UpdaterAssumption DEF SameTimeout, TypeOK
<1>2. CASE pc[w] = "zipping"
  <2>1. Writing(w) = zip[w] /\ zip[w] \in Nat
    BY <1>1, <1>2 DEF Writing
  <2>2. now < job[w].deadline /\ job[w].deadline <= zip[w] + Timeout[w]
    BY <1>2, <2>1 DEF Timely, Online
  <2>3. job[w] \in Jobs
    BY <1>2 DEF WorkInv, Busy, Received
  <2>4. now - zip[w] < Timeout[w]
    BY <1>1, <2>1, <2>2, <2>3 DEF Jobs
  <2>. QED
    BY <1>1, <2>1, <2>4 DEF Stale
<1>3. CASE pc[w] # "zipping"
  <2>1. Writing(w) = out[w] /\ out[w] \in Nat
    BY <1>1, <1>3 DEF Writing
  <2>2. out[w] = now \/ (now < job[w].deadline /\ job[w].deadline <= out[w] + Timeout[w])
    BY <1>3, <2>1 DEF Timely
  <2>3. job[w] \in Jobs
    BY <1>3 DEF WorkInv, Busy, Received
  <2>4. now - out[w] < Timeout[w]
    BY <1>1, <2>1, <2>2, <2>3 DEF Jobs
  <2>. QED
    BY <1>1, <2>1, <2>4 DEF Stale
<1>. QED
  BY <1>2, <1>3

(* Its own updater does not take it away while it goes on writing. *)
LEMMA KeptOwn ==
  ASSUME TypeOK, NEW u \in Updaters, Step(u)
  PROVE  Kept(u)
<1>0. /\ pc \in [Updaters -> Phases] /\ now \in Nat /\ now # Gone
      /\ out \in [Updaters -> Nat \cup {Gone}] /\ zip \in [Updaters -> Nat \cup {Gone}]
  BY UpdaterAssumption DEF TypeOK
<1>. SUFFICES ASSUME pc[u] \in {"zipping", "copying", "renaming"}, Writing(u) # Gone, pc'[u] = pc[u]
              PROVE  Writing(u)' # Gone
  BY DEF Kept
<1>1. CASE Stop(u)
  BY <1>1 DEF Stop, Writing, diskVars
<1>2. CASE Progress(u)
  <2>1. /\ out'[u] = out[u] \/ (out[u] = Gone /\ out'[u] = Gone) \/ out'[u] = now
        /\ zip'[u] = zip[u] \/ (zip[u] = Gone /\ zip'[u] = Gone) \/ zip'[u] = now
    BY <1>0, <1>2 DEF Progress, Touch
  <2>2. (out[u] # Gone => out'[u] # Gone) /\ (zip[u] # Gone => zip'[u] # Gone)
    BY <1>0, <2>1
  <2>. QED
    BY <2>2 DEF Writing
<1>3. ASSUME NEW f \in Files, Skip(u, f) PROVE FALSE
  BY <1>3 DEF Skip
<1>4. ASSUME NEW f \in Files, Download(u, f) PROVE FALSE
  BY <1>4 DEF Download
<1>5. ~New(u) /\ ~Start(u) /\ ~TakeTick(u) /\ ~EndPass(u) /\ ~Exit(u) /\ ~NotModified(u)
      /\ ~NotFound(u) /\ ~Receive(u) /\ ~Finish(u)
  BY DEF New, Start, TakeTick, EndPass, Exit, NotModified, NotFound, Receive, Finish
<1>6. ~Extract(u)
  BY <1>0 DEF Extract
<1>7. ~CopyEnds(u)
  BY <1>0 DEF CopyEnds
<1>8. ~Rename(u) /\ ~Fail(u)
  BY <1>0 DEF Rename, Fail, Conclude
<1>. QED
  BY <1>1, <1>2, <1>3, <1>4, <1>5, <1>6, <1>7, <1>8 DEF Step

LEMMA KeptStep ==
  ASSUME TypeOK, SoundInv, SameTimeout, [Next]_vars
  PROVE  \A u \in Updaters : Kept(u)
<1>. SUFFICES ASSUME NEW w \in Updaters, pc[w] \in {"zipping", "copying", "renaming"},
                     Writing(w) # Gone, pc'[w] = pc[w]
              PROVE  Writing(w)' # Gone
  BY DEF Kept
<1>0. now \in Nat /\ Gone \notin Nat /\ WorkInv /\ Timely(w)
  BY SoundWork, UpdaterAssumption DEF SoundInv, TypeOK
<1>1. CASE Tick
  <2>1. zip' = zip /\ now' \in Nat /\ (out'[w] = out[w] \/ out'[w] = now')
    BY <1>0, <1>1 DEF Tick
  <2>. QED
    BY <1>0, <2>1 DEF Writing
<1>2. ASSUME NEW f \in Files, NEW v \in Versions, Publish(f, v) PROVE Writing(w)' # Gone
  BY <1>2 DEF Publish, Writing, diskVars
<1>3. ASSUME NEW u \in Updaters, NEW f \in Files, HotReload(u, f) PROVE Writing(w)' # Gone
  BY <1>3 DEF HotReload, Writing, diskVars
<1>4. CASE Crash
  BY <1>4 DEF Crash, Writing, diskVars
<1>5. ASSUME NEW u \in Updaters, Step(u) PROVE Writing(w)' # Gone
  <2>1. CASE w = u
    BY <1>5, <2>1, KeptOwn DEF Kept
  <2>2. CASE w # u
    <3>1. ~Stale(u, Writing(w))
      BY <1>0, LiveIsFresh
    <3>2. /\ out'[w] = out[w] \/ (out'[w] = Gone /\ Stale(u, out[w]))
          /\ zip'[w] = zip[w] \/ (zip'[w] = Gone /\ Stale(u, zip[w]))
      BY <1>0, <1>5, <2>2, Others
    <3>. QED
      BY <3>1, <3>2 DEF Writing
  <2>. QED
    BY <2>1, <2>2
<1>6. CASE UNCHANGED vars
  BY <1>6 DEF vars, Writing, diskVars, updaterVars
<1>. QED
  BY <1>1, <1>2, <1>3, <1>4, <1>5, <1>6 DEF Next, Environment

-----------------------------------------------------------------------------
(* The theorems. *)
LEMMA Initially == Init => TypeOK /\ SoundInv /\ TempsOwned /\ TargetWhole
<1>. SUFFICES ASSUME Init PROVE TypeOK /\ SoundInv /\ TempsOwned /\ TargetWhole
  OBVIOUS
<1>1. 1 \in Versions /\ NothingLeft \in Rests
  BY UpdaterAssumption, RestNothing DEF Versions
<1>2. [content |-> 1, mtime |-> 0] \in Database
  BY <1>1 DEF Database, Contents
<1>3. TypeOK
  <2>1. target \in [Files -> Database \cup {NoFile}]
    BY <1>2 DEF Init
  <2>2. todo \in [Updaters -> Rests]
    BY <1>1 DEF Init
  <2>3. released \in [Files -> [Versions -> Nat \cup {Never}]] /\ loaded \in [Updaters -> [Files -> Versions]]
    BY <1>1 DEF Init
  <2>. QED
    BY <2>1, <2>2, <2>3 DEF Init, TypeOK, Rests, Phases
<1>4. SoundInv
  BY DEF Init, SoundInv, Sound, Timely, Online, Busy, Received
<1>5. TempsOwned
  BY DEF Init, TempsOwned
<1>6. TargetWhole
  <2>1. \A f \in Files : target[f] # NoFile => target[f] = [content |-> 1, mtime |-> 0]
    BY DEF Init
  <2>. QED
    BY <1>1, <2>1 DEF TargetWhole
<1>. QED
  BY <1>3, <1>4, <1>5, <1>6

FilesInv == TypeOK /\ SoundInv /\ TempsOwned /\ TargetWhole

LEMMA FilesInvariant == Safety => []FilesInv
<1>1. Init => FilesInv
  BY Initially DEF FilesInv
<1>2. FilesInv /\ [Next]_vars => FilesInv'
  BY SoundWork, TypeStep, SoundStep, OwnedStep, WholeStep DEF FilesInv
<1>. QED
  BY <1>1, <1>2, PTL DEF Safety

(* The variables keep their types, for any periods and any number of        *)
(* updaters (package internal/update).                                      *)
THEOREM TypeCorrect == Safety => []TypeOK
<1>1. FilesInv => TypeOK
  BY DEF FilesInv
<1>. QED
  BY <1>1, FilesInvariant, PTL

(* A database file holds a complete download or what it held before,        *)
(* whatever fails or crashes and however many updaters write (writeAtomic). *)
THEOREM FilesAreWhole == Safety => []TargetWhole
<1>1. FilesInv => TargetWhole
  BY DEF FilesInv
<1>. QED
  BY <1>1, FilesInvariant, PTL

(* Every temp file belongs to a download that will remove it, or to a dead  *)
(* process (writeAtomic, extractMMDBToFile).                                *)
THEOREM TempsAreOwned == Safety => []TempsOwned
<1>1. FilesInv => TempsOwned
  BY DEF FilesInv
<1>. QED
  BY <1>1, FilesInvariant, PTL

(* cleanStaleTemps never removes a temp file that is being written, if all  *)
(* updaters have the same update_timeout.                                   *)
THEOREM SweepSparesLive == ASSUME SameTimeout PROVE Safety => LiveTempsKept
<1>1. FilesInv /\ [Next]_vars =>
        \A u \in Updaters :
          pc[u] \in {"zipping", "copying", "renaming"} /\ Writing(u) # Gone /\ pc'[u] = pc[u]
            => Writing(u)' # Gone
  BY KeptStep, SameTimeout DEF FilesInv, Kept
<1>. QED
  BY <1>1, FilesInvariant, PTL DEF Safety, LiveTempsKept

-----------------------------------------------------------------------------
(* Stop cancels an updater's context and waits for its goroutine. *)
CancelInv ==
  \A u \in Updaters : cancelled[u] => pc[u] \notin {"off", "created", "stopped", "dead"}

(* How many steps lie at most between an updater and its select. *)
Distance(u) ==
  CASE pc[u] = "request"              -> IF job[u].fallback THEN 6 ELSE 7
    [] pc[u] \in {"reading", "zipping"} -> 5
    [] pc[u] = "copying"              -> 4
    [] pc[u] = "renaming"             -> 3
    [] pc[u] = "closing"              -> 2
    [] pc[u] = "pass"                 -> 1
    [] OTHER                          -> 0

(* The guards of Advance, for a cancelled updater. *)
StopGoesOn(u) ==
  \/ pc[u] \in {"wait", "pass", "closing"}
  \/ pc[u] = "copying" /\ ~Streamed(u)
  \/ pc[u] = "renaming" /\ out[u] # Gone
  \/ InFlight(u) /\ Doomed(u)

(* A step takes the updater towards its select, if it is one of its own     *)
(* that waits for nobody, and never away from it, except when a tick that   *)
(* is due wins there.                                                       *)
Closer(u) ==
  /\ TakeTick(u) \/ Distance(u)' <= Distance(u)
  /\ Advance(u) => Distance(u)' < Distance(u)

LEMMA CancelledStays ==
  ASSUME NEW u \in Updaters, Step(u)
  PROVE  \/ Stop(u) \/ Exit(u)
         \/ cancelled' = cancelled
BY DEF Step, New, Start, BeginPass, TakeTick, EndPass, Skip, Download, NotModified, NotFound, Receive,
       Progress, Extract, CopyEnds, Rename, Fail, Finish, Conclude, updaterVars

LEMMA CancelStep ==
  ASSUME TypeOK, WorkInv, CancelInv, [Next]_vars
  PROVE  CancelInv'
<1>0. pc \in [Updaters -> Phases] /\ cancelled \in [Updaters -> BOOLEAN]
  BY DEF TypeOK
<1>. SUFFICES ASSUME NEW w \in Updaters, cancelled'[w]
              PROVE  pc'[w] \notin {"off", "created", "stopped", "dead"}
  BY DEF CancelInv
<1>1. CASE Crash
  BY <1>1 DEF Crash
<1>2. CASE Tick \/ UNCHANGED vars
  BY <1>2 DEF Tick, vars, updaterVars, CancelInv
<1>3. ASSUME NEW f \in Files, NEW v \in Versions, Publish(f, v) PROVE UNCHANGED <<pc, cancelled>>
  BY <1>3 DEF Publish, updaterVars
<1>4. ASSUME NEW u \in Updaters, NEW f \in Files, HotReload(u, f) PROVE UNCHANGED <<pc, cancelled>>
  BY <1>4 DEF HotReload
<1>5. ASSUME NEW u \in Updaters, Step(u)
      PROVE  pc'[w] \notin {"off", "created", "stopped", "dead"}
  <2>1. CASE Stop(u)
    BY <1>0, <2>1 DEF Stop, CancelInv
  <2>2. CASE Exit(u)
    BY <1>0, <2>2 DEF Exit, CancelInv
  <2>3. CASE cancelled' = cancelled
    <3>1. pc[w] \notin {"off", "created", "stopped", "dead"}
      BY <2>3 DEF CancelInv
    <3>2. CASE w # u
      BY <1>5, <3>1, <3>2, Others
    <3>3. CASE w = u
      <4>1. ~New(u) /\ ~Start(u)
        BY <3>1, <3>3 DEF New, Start
      <4>2. Exit(u) => FALSE
        BY <1>0, <2>3, <3>3 DEF Exit
      <4>3. CASE Progress(u)
        BY <3>1, <3>3, <4>3 DEF Progress, updaterVars
      <4>4. CASE NotFound(u)
        BY <1>0, <3>1, <3>3, <4>4 DEF NotFound, Conclude
      <4>5. CASE Receive(u)
        BY <1>0, <3>3, <4>5 DEF Receive
      <4>6. ASSUME Step(u), ~New(u), ~Start(u), ~Exit(u), ~Progress(u), ~NotFound(u), ~Receive(u)
            PROVE  \/ pc' = pc
                   \/ \E p \in Phases \ {"off", "created", "stopped", "dead"} : pc' = [pc EXCEPT ![u] = p]
        BY <4>6 DEF Step, BeginPass, TakeTick, EndPass, Stop, Skip, Download, NotModified,
                    Extract, CopyEnds, Rename, Fail, Finish, Conclude, Phases
      <4>. QED
        BY <1>0, <1>5, <3>1, <3>3, <4>1, <4>2, <4>3, <4>4, <4>5, <4>6
    <3>. QED
      BY <3>2, <3>3
  <2>. QED
    BY <1>5, <2>1, <2>2, <2>3, CancelledStays
<1>. QED
  BY <1>1, <1>2, <1>3, <1>4, <1>5 DEF Next, Environment, CancelInv

(* What waits for nobody leads on. *)
LEMMA AdvanceLeads ==
  ASSUME TypeOK, NEW u \in Updaters, cancelled[u], cancelled'[u], Advance(u)
  PROVE  Distance(u)' < Distance(u)
<1>0. pc \in [Updaters -> Phases] /\ cancelled \in [Updaters -> BOOLEAN]
  BY DEF TypeOK
<1>1. ~Exit(u)
  BY <1>0 DEF Exit
<1>2. \A f \in Files : ~Skip(u, f) /\ ~Download(u, f)
  BY DEF Skip, Download
<1>3. CASE EndPass(u)
  BY <1>0, <1>3 DEF EndPass, Distance
<1>4. CASE Finish(u)
  BY <1>0, <1>4 DEF Finish, Distance
<1>5. CASE CopyEnds(u)
  BY <1>0, <1>5 DEF CopyEnds, Distance
<1>6. CASE Rename(u)
  BY <1>0, <1>6 DEF Rename, Conclude, Distance
<1>7. CASE Fail(u)
  BY <1>0, <1>7 DEF Fail, Conclude, Distance, InFlight, Online
<1>. QED
  BY <1>1, <1>2, <1>3, <1>4, <1>5, <1>6, <1>7 DEF Advance

(* The vendor's answers do not lead back. *)
LEMMA StepLeads ==
  ASSUME TypeOK, CancelInv, NEW u \in Updaters, cancelled[u], cancelled'[u], Step(u), ~Advance(u)
  PROVE  TakeTick(u) \/ Distance(u)' <= Distance(u)
<1>0. /\ pc \in [Updaters -> Phases] /\ cancelled \in [Updaters -> BOOLEAN]
      /\ pc[u] \notin {"off", "created", "stopped", "dead"}
  BY DEF TypeOK, CancelInv
<1>1. ~New(u) /\ ~Start(u)
  BY <1>0 DEF New, Start
<1>2. CASE Stop(u)
  BY <1>0, <1>2 DEF Stop, Distance
<1>3. CASE NotModified(u)
  BY <1>0, <1>3 DEF NotModified, Conclude, Distance
<1>4. CASE NotFound(u)
  <2>1. CASE job[u].fallback
    BY <1>0, <1>4, <2>1 DEF NotFound, Conclude, Distance
  <2>2. CASE ~job[u].fallback
    <3>1. pc[u] = "request" /\ pc'[u] = "request"
      BY <1>4, <2>2 DEF NotFound
    <3>. QED
      BY <2>2, <3>1 DEF Distance
  <2>. QED
    BY <2>1, <2>2
<1>5. CASE Receive(u)
  <2>1. pc[u] = "request" /\ pc'[u] \in {"copying", "reading", "zipping"}
    BY <1>0, <1>5 DEF Receive
  <2>. QED
    BY <2>1 DEF Distance
<1>6. CASE Progress(u)
  BY <1>6 DEF Progress, Distance, updaterVars
<1>7. CASE Extract(u)
  BY <1>0, <1>7 DEF Extract, Distance
<1>8. CASE CopyEnds(u)
  BY <1>0, <1>8 DEF CopyEnds, Distance
<1>9. CASE Fail(u)
  BY <1>0, <1>9 DEF Fail, Conclude, Distance, InFlight, Online
<1>. QED
  BY <1>1, <1>2, <1>3, <1>4, <1>5, <1>6, <1>7, <1>8, <1>9 DEF Step, Advance

LEMMA ComesCloser ==
  ASSUME TypeOK, WorkInv, CancelInv, Next, NEW w \in Updaters, cancelled[w], cancelled'[w]
  PROVE  Closer(w)
<1>1. ASSUME pc'[w] = pc[w], job'[w] = job[w] PROVE Distance(w)' <= Distance(w)
  <2>1. Distance(w)' = Distance(w)
    BY <1>1 DEF Distance
  <2>2. Distance(w) \in Int
    BY DEF Distance
  <2>. QED
    BY <2>1, <2>2
<1>2. ~Crash
  BY DEF Crash
<1>3. ASSUME Environment PROVE pc'[w] = pc[w] /\ job'[w] = job[w]
  BY <1>2, <1>3 DEF Environment, Tick, Publish, HotReload, updaterVars
<1>4. ASSUME NEW u \in Updaters, Step(u), u # w PROVE pc'[w] = pc[w] /\ job'[w] = job[w]
  BY <1>4, Others
<1>5. Distance(w) \in Int /\ Distance(w)' \in Int
  BY DEF Distance
<1>6. Advance(w) => Distance(w)' < Distance(w)
  BY AdvanceLeads
<1>7. Step(w) => TakeTick(w) \/ Distance(w)' <= Distance(w)
  BY <1>5, <1>6, StepLeads
<1>. QED
  BY <1>1, <1>3, <1>4, <1>6, <1>7 DEF Next, Closer

(* Stop never waits for a vendor: once the context is cancelled the updater *)
(* has a step that nobody else is needed for, every such step brings it     *)
(* closer to its exit, and nothing that happens meanwhile, answers, other   *)
(* updaters or the passing of time, takes it back; only a tick that is due  *)
(* may begin one more pass, which ends at once.  This is what StopReturns   *)
(* needs apart from fairness.                                               *)
THEOREM StopIsNear ==
  Safety => /\ [](\A u \in Updaters : cancelled[u] => StopGoesOn(u))
            /\ [][\A u \in Updaters : cancelled[u] /\ cancelled'[u] => Closer(u)]_vars
<1>1. Init => CancelInv
  BY DEF Init, CancelInv
<1>2. FilesInv /\ CancelInv /\ [Next]_vars => CancelInv'
  BY SoundWork, CancelStep DEF FilesInv
<1>3. ASSUME FilesInv, CancelInv, NEW u \in Updaters, cancelled[u] PROVE StopGoesOn(u)
  <2>1. pc[u] \in Phases /\ pc[u] \notin {"off", "created", "stopped", "dead"}
    BY <1>3 DEF FilesInv, TypeOK, CancelInv
  <2>. QED
    BY <1>3, <2>1 DEF StopGoesOn, Phases, InFlight, Online, Doomed
<1>4. FilesInv /\ CancelInv => \A u \in Updaters : cancelled[u] => StopGoesOn(u)
  BY <1>3
<1>5. FilesInv /\ CancelInv /\ [Next]_vars =>
        [\A u \in Updaters : cancelled[u] /\ cancelled'[u] => Closer(u)]_vars
  BY SoundWork, ComesCloser DEF FilesInv
<1>. QED
  BY <1>1, <1>2, <1>4, <1>5, FilesInvariant, PTL DEF Safety

=============================================================================
