------------------------ MODULE UpdaterFreshProofs ------------------------
(***************************************************************************)
(* More proofs about module Updater: a download writes the latest version   *)
(* there was when it was asked for, however many updaters write the file,   *)
(* and "up to date" is said only of the latest version, under named         *)
(* conditions on when vendors publish.                                      *)
(***************************************************************************)
EXTENDS UpdaterProofs

(* The versions of f after x were all published at time a or later. *)
NewerSince(f, x, a) == \A w \in Published(f) : w > x => released[f][w] >= a

(* What the vendors have published. *)
ReleasedByNow == \A f \in Files : \A v \in Published(f) : released[f][v] <= now
HasLatest ==
  \A f \in Files : VendorOf[f] # "dbip" =>
    \E v \in Published(f) : \A w \in Published(f) : w <= v
MonthsByNow == \A f \in Files : VendorOf[f] = "dbip" => \A v \in Published(f) : v <= MonthAt(now)
VendorInv == ReleasedByNow /\ HasLatest /\ MonthsByNow

(* What a download may still write: the month it asks for, or what it has   *)
(* received.                                                                *)
Fresh(u) ==
  /\ pc[u] \in Busy => Asked(u) <= now
  /\ pc[u] = "request" /\ VendorOf[job[u].file] = "dbip" =>
       NewerSince(job[u].file, job[u].month, Asked(u))
  /\ pc[u] \in Received /\ job[u].body \in Versions =>
       NewerSince(job[u].file, job[u].body, Asked(u))

(* A download has no outcome before it ends. *)
Undecided(u) == pc[u] # "closing" => outcome[u] = "none"

FreshInv == \A u \in Updaters : Fresh(u) /\ Undecided(u)

-----------------------------------------------------------------------------
(* The vendors.  Months pass with time. *)
LEMMA MonthsPass ==
  ASSUME NEW t \in Nat
  PROVE  MonthAt(t) \in Int /\ MonthAt(t + 1) \in Int /\ MonthAt(t) <= MonthAt(t + 1)
<1>1. Month \in Nat /\ Month > 0
  BY UpdaterAssumption
<1> DEFINE p == t \div Month
           q == (t + 1) \div Month
<1>2. p \in Int /\ q \in Int
  BY <1>1
<1>3. Month * p <= t /\ t < Month * p + Month
  BY <1>1
<1>4. Month * q <= t + 1 /\ t + 1 < Month * q + Month
  BY <1>1
<1>5. p <= q
  <2> HIDE DEF p, q
  <2>1. SUFFICES ASSUME q + 1 <= p PROVE FALSE
    BY <1>2
  <2>2. Month * (q + 1) <= Month * p
    BY <1>1, <1>2, <2>1
  <2>3. Month * (q + 1) = Month * q + Month
    BY <1>1, <1>2
  <2>4. Month * q \in Int /\ Month * p \in Int
    BY <1>1, <1>2
  <2>. QED
    BY <1>1, <1>3, <1>4, <2>2, <2>3, <2>4
<1>. QED
  BY <1>2, <1>5 DEF MonthAt

LEMMA LatestIs ==
  ASSUME HasLatest, NEW f \in Files, VendorOf[f] # "dbip"
  PROVE  Latest(f) \in Published(f) /\ \A w \in Published(f) : w <= Latest(f)
  BY DEF HasLatest, Latest

(* Only Publish publishes. *)
LEMMA OnlyPublish ==
  ASSUME NEW u \in Updaters, Step(u)
  PROVE  released' = released /\ now' = now
  BY DEF Step, New, Start, TakeTick, BeginPass, EndPass, Stop, Exit, Skip, Download, NotModified,
         NotFound, Receive, Progress, Extract, CopyEnds, Rename, Fail, Finish, Conclude, diskVars

(* One version more, and now. *)
LEMMA Publication ==
  ASSUME TypeOK, NEW f \in Files, NEW v \in Versions, Publish(f, v)
  PROVE  /\ \A g \in Files : Published(g)' = Published(g) \cup (IF g = f THEN {v} ELSE {})
         /\ \A g \in Files : \A w \in Published(g) : released'[g][w] = released[g][w]
         /\ released'[f][v] = now /\ v \notin Published(f)
<1>1. now # Never /\ released \in [Files -> [Versions -> Nat \cup {Never}]]
  BY UpdaterAssumption DEF TypeOK
<1>2. released' = [released EXCEPT ![f] = [released[f] EXCEPT ![v] = now]] /\ released[f][v] = Never
  BY DEF Publish
<1>3. released[f] \in [Versions -> Nat \cup {Never}]
  BY <1>1
<1>4. \A g \in Files : released'[g] = IF g = f THEN [released[f] EXCEPT ![v] = now] ELSE released[g]
  BY <1>1, <1>2
<1>5. \A g \in Files, w \in Versions :
        released'[g][w] = IF g = f /\ w = v THEN now ELSE released[g][w]
  BY <1>3, <1>4
<1>. QED
  BY <1>1, <1>2, <1>5 DEF Published

LEMMA VendorStep ==
  ASSUME TypeOK, VendorInv, [Next]_vars
  PROVE  VendorInv'
<1>0. now \in Nat /\ Versions \subseteq Nat /\ \A f \in Files : \A v \in Published(f) : v \in Versions /\ v \in Nat
  BY DEF TypeOK, Versions, Published
<1>1. CASE Tick
  <2>1. now' = now + 1 /\ released' = released
    BY <1>1 DEF Tick
  <2>2. \A f \in Files : Published(f)' = Published(f)
    BY <2>1 DEF Published
  <2>3. \A f \in Files : \A v \in Published(f) : released[f][v] \in Nat
    BY <1>0 DEF TypeOK, Published
  <2>4. ReleasedByNow'
    BY <1>0, <2>1, <2>2, <2>3 DEF VendorInv, ReleasedByNow
  <2>5. HasLatest'
    BY <2>2 DEF VendorInv, HasLatest
  <2>6. MonthAt(now)' = MonthAt(now + 1)
    BY <2>1 DEF MonthAt
  <2>7. ASSUME NEW f \in Files, VendorOf[f] = "dbip", NEW v \in Published(f)
        PROVE  v <= MonthAt(now + 1)
    <3>1. v <= MonthAt(now)
      BY <2>7 DEF VendorInv, MonthsByNow
    <3>2. MonthAt(now) \in Int /\ MonthAt(now + 1) \in Int /\ MonthAt(now) <= MonthAt(now + 1)
      BY <1>0, MonthsPass
    <3>3. v \in Int
      BY <1>0, <2>7
    <3>. QED
      BY <3>1, <3>2, <3>3
  <2>8. MonthsByNow'
    BY <2>2, <2>6, <2>7 DEF MonthsByNow
  <2>. QED
    BY <2>4, <2>5, <2>8 DEF VendorInv
<1>2. ASSUME NEW f \in Files, NEW v \in Versions, Publish(f, v) PROVE VendorInv'
  <2>1. /\ \A g \in Files : Published(g)' = Published(g) \cup (IF g = f THEN {v} ELSE {})
        /\ \A g \in Files : \A w \in Published(g) : released'[g][w] = released[g][w]
        /\ released'[f][v] = now /\ v \notin Published(f)
    BY <1>2, Publication
  <2>2. now' = now
    BY <1>2 DEF Publish
  <2>3. ReleasedByNow'
    BY <1>0, <2>1, <2>2 DEF VendorInv, ReleasedByNow
  <2>4. HasLatest'
    <3>. SUFFICES ASSUME NEW g \in Files, VendorOf[g] # "dbip"
                  PROVE  \E x \in Published(g)' : \A w \in Published(g)' : w <= x
      BY DEF HasLatest
    <3>1. CASE g = f
      <4>1. v = Latest(f) + 1
        BY <1>2, <3>1 DEF Publish
      <4>2. Latest(f) \in Nat /\ \A w \in Published(f) : w \in Nat /\ w <= Latest(f)
        BY <1>0, <3>1, LatestIs DEF VendorInv
      <4>3. \A w \in Published(f) : w <= v
        BY <4>1, <4>2
      <4>4. v \in Published(g)' /\ \A w \in Published(g)' : w <= v
        BY <1>0, <2>1, <3>1, <4>3
      <4>. QED
        BY <4>4
    <3>2. CASE g # f
      BY <2>1, <3>2 DEF VendorInv, HasLatest
    <3>. QED
      BY <3>1, <3>2
  <2>5. MonthsByNow'
    <3>1. MonthAt(now)' = MonthAt(now)
      BY <2>2 DEF MonthAt
    <3>2. VendorOf[f] = "dbip" => v = MonthAt(now)
      BY <1>2 DEF Publish
    <3>3. v <= v
      BY <1>0
    <3>. QED
      BY <2>1, <3>1, <3>2, <3>3 DEF VendorInv, MonthsByNow
  <2>. QED
    BY <2>3, <2>4, <2>5 DEF VendorInv
<1>3. ASSUME now' = now, released' = released PROVE VendorInv'
  <2>1. /\ \A f \in Files : Published(f)' = Published(f)
        /\ MonthAt(now)' = MonthAt(now)
    BY <1>3 DEF Published, MonthAt
  <2>. QED
    BY <1>3, <2>1 DEF VendorInv, ReleasedByNow, HasLatest, MonthsByNow
<1>4. ASSUME NEW u \in Updaters, NEW f \in Files, HotReload(u, f) PROVE VendorInv'
  BY <1>3, <1>4 DEF HotReload
<1>5. CASE Crash
  BY <1>3, <1>5 DEF Crash
<1>6. ASSUME NEW u \in Updaters, Step(u) PROVE VendorInv'
  BY <1>3, <1>6, OnlyPublish
<1>7. CASE UNCHANGED vars
  BY <1>3, <1>7 DEF vars, vendorVars
<1>. QED
  BY <1>1, <1>2, <1>4, <1>5, <1>6, <1>7 DEF Next, Environment

-----------------------------------------------------------------------------
(* A download in flight. *)
LEMMA AskedIs ==
  ASSUME TypeOK, NEW u \in Updaters, job[u] \in Jobs
  PROVE  /\ Asked(u) = job[u].deadline - (IF job[u].fallback THEN Timeout[u] + Timeout[u] ELSE Timeout[u])
         /\ Asked(u) \in Int /\ job[u].deadline \in Nat /\ Timeout[u] \in Nat
<1>1. Timeout[u] \in Nat /\ job[u].deadline \in Nat /\ job[u].fallback \in BOOLEAN
  BY UpdaterAssumption DEF Jobs
<1>. QED
  BY <1>1 DEF Asked

(* What was published later is newer than what was asked for. *)
LEMMA NewerStays ==
  ASSUME TypeOK, NEW g \in Files, NEW x \in Int, NEW a \in Int, a <= now, NewerSince(g, x, a),
         NEW f \in Files, NEW v \in Versions, Publish(f, v)
  PROVE  NewerSince(g, x, a)'
<1>1. /\ Published(g)' = Published(g) \cup (IF g = f THEN {v} ELSE {})
      /\ \A w \in Published(g) : released'[g][w] = released[g][w]
      /\ released'[f][v] = now
  BY Publication
<1>. QED
  BY <1>1 DEF NewerSince

(* It keeps to this while it stays where it is. *)
LEMMA FreshStays ==
  ASSUME TypeOK, NEW u \in Updaters, Fresh(u), now' = now, pc'[u] = pc[u], job'[u] = job[u],
         released' = released
  PROVE  Fresh(u)'
<1>1. Asked(u)' = Asked(u) /\ \A f \in Files : Published(f)' = Published(f)
  BY DEF Asked, Published
<1>2. \A f, x : NewerSince(f, x, Asked(u))' <=> NewerSince(f, x, Asked(u))
  BY <1>1 DEF NewerSince, Published
<1>. QED
  BY <1>1, <1>2 DEF Fresh

LEMMA FreshIdle ==
  ASSUME NEW u \in Updaters, pc'[u] \notin Busy
  PROVE  Fresh(u)'
  BY DEF Fresh, Busy, Received
(* The steps of a download's own updater. *)
LEMMA FreshRequest ==
  ASSUME TypeOK, VendorInv, NEW u \in Updaters, NEW f \in Files, Download(u, f)
  PROVE  Fresh(u)'
<1>1. PICK md5 \in Versions, month \in Int :
        Ask(u, f, md5, month, FALSE) /\ (VendorOf[f] = "dbip" => month = MonthAt(now))
  <2>1. 1 \in Versions /\ MonthAt(now) \in Int /\ 0 \in Int
    BY UpdaterAssumption, MonthsPass DEF Versions, TypeOK
  <2>2. todo[u] \in Rests
    BY DEF TypeOK, Rests
  <2>3. todo[u][f] \in Versions
    BY <2>2, RestHas DEF Download
  <2>4. VendorOf[f] \in Vendors
    BY UpdaterAssumption
  <2>5. CASE VendorOf[f] = "maxmind"
    <3>1. Ask(u, f, todo[u][f], 0, FALSE)
      BY <2>5 DEF Download
    <3>. QED
      BY <2>1, <2>3, <2>5, <3>1
  <2>6. CASE VendorOf[f] = "dbip"
    <3>1. Ask(u, f, 1, MonthAt(now), FALSE)
      BY <2>6 DEF Download
    <3>. QED
      BY <2>1, <3>1
  <2>7. CASE VendorOf[f] = "ip2location"
    <3>1. Ask(u, f, 1, 0, FALSE)
      BY <2>7 DEF Download
    <3>. QED
      BY <2>1, <2>7, <3>1
  <2>. QED
    BY <2>4, <2>5, <2>6, <2>7 DEF Vendors
<1>2. /\ job'[u].file = f /\ job'[u].month = month /\ ~job'[u].fallback
      /\ job'[u].deadline = now + Timeout[u]
  BY <1>1 DEF Ask, TypeOK
<1>3. Timeout[u] \in Nat /\ now \in Nat /\ now' = now /\ released' = released /\ pc'[u] = "request"
  BY UpdaterAssumption DEF TypeOK, Download
<1>4. Asked(u)' = now
  BY <1>2, <1>3 DEF Asked
<1>5. VendorOf[f] = "dbip" => NewerSince(f, month, now)'
  <2>. SUFFICES ASSUME VendorOf[f] = "dbip", NEW w \in Published(f), w > month
                PROVE  FALSE
    BY <1>3 DEF NewerSince, Published
  <2>1. w <= MonthAt(now) /\ month = MonthAt(now)
    BY <1>1 DEF VendorInv, MonthsByNow
  <2>2. w \in Int
    BY DEF Published, Versions
  <2>. QED
    BY <2>1, <2>2
<1>. QED
  BY <1>2, <1>3, <1>4, <1>5 DEF Fresh, Busy, Received, NewerSince
(* The month before is asked for if this one has not been published.        *)
LEMMA FreshFallback ==
  ASSUME TypeOK, WorkInv, NEW u \in Updaters, Timely(u), Fresh(u), NotFound(u), ~job[u].fallback
  PROVE  Fresh(u)'
<1>1. /\ pc[u] = "request" /\ Offered(u) = {} /\ pc' = pc /\ now' = now /\ released' = released
      /\ Ask(u, job[u].file, job[u].md5, job[u].month - 1, TRUE)
  BY DEF NotFound
<1>2. job[u] \in Jobs
  BY <1>1 DEF WorkInv, Busy
<1>3. PICK f \in Files, month \in Int, a \in Int, d \in Nat :
        f = job[u].file /\ month = job[u].month /\ a = Asked(u) /\ d = job[u].deadline
  BY <1>2, AskedIs DEF Jobs
<1>4. /\ job'[u].file = f /\ job'[u].month = month - 1 /\ job'[u].fallback
      /\ job'[u].deadline = now + Timeout[u]
  BY <1>1, <1>3 DEF Ask, TypeOK
<1>5. Timeout[u] \in Nat /\ now \in Nat /\ now < d /\ a = d - Timeout[u]
  BY <1>1, <1>2, <1>3, UpdaterAssumption, AskedIs DEF TypeOK, Timely, Online
<1>6. Asked(u)' = now - Timeout[u]
  BY <1>1, <1>4, <1>5 DEF Asked
<1>7. ASSUME VendorOf[f] = "dbip", NEW w \in Published(f), w > month - 1
      PROVE  released[f][w] >= now - Timeout[u]
  <2>1. w \in Versions /\ w \in Int /\ released[f][w] \in Nat
    <3>1. w \in Versions /\ released[f][w] # Never
      BY <1>7 DEF Published
    <3>2. released[f] \in [Versions -> Nat \cup {Never}]
      BY DEF TypeOK
    <3>3. w \in Int
      BY <3>1 DEF Versions
    <3>. QED
      BY <3>1, <3>2, <3>3
  <2>2. w # month
    BY <1>1, <1>3, <1>7 DEF Offered
  <2>3. w > month
    BY <1>3, <1>7, <2>1, <2>2
  <2>4. released[f][w] >= a
    BY <1>1, <1>3, <1>7, <2>3 DEF Fresh, NewerSince
  <2>. QED
    BY <1>3, <1>5, <2>1, <2>4
<1>8. VendorOf[f] = "dbip" => NewerSince(f, month - 1, Asked(u))'
  BY <1>1, <1>6, <1>7 DEF NewerSince, Published
<1>9. Asked(u)' <= now' /\ pc'[u] = "request"
  BY <1>1, <1>5, <1>6
<1>. QED
  BY <1>4, <1>8, <1>9 DEF Fresh, Received, NewerSince

(* What is received is the version that was offered, or damaged.            *)
LEMMA FreshAnswer ==
  ASSUME TypeOK, VendorInv, WorkInv, NEW u \in Updaters, Fresh(u), Receive(u)
  PROVE  Fresh(u)'
<1>1. PICK v \in Offered(u) : \E b \in Payloads(job[u].file, v) : job' = [job EXCEPT ![u].body = b]
  BY DEF Receive
<1>2. PICK b \in Payloads(job[u].file, v) : job' = [job EXCEPT ![u].body = b]
  BY <1>1
<1>3. /\ pc[u] = "request" /\ pc'[u] \in Received /\ now' = now /\ released' = released
      /\ job[u] \in Jobs
  BY DEF Receive, TypeOK, Received, WorkInv, Busy
<1>4. /\ job'[u].file = job[u].file /\ job'[u].body = b /\ Asked(u)' = Asked(u)
  <2>1. job'[u] = [job[u] EXCEPT !.body = b]
    BY <1>2 DEF TypeOK
  <2>2. /\ job'[u].file = job[u].file /\ job'[u].body = b
        /\ job'[u].deadline = job[u].deadline /\ job'[u].fallback = job[u].fallback
    BY <1>3, <2>1 DEF Jobs
  <2>. QED
    BY <2>2 DEF Asked
<1>5. b \in Versions => b = v
  BY UpdaterAssumption DEF Payloads, Versions
<1>6. NewerSince(job[u].file, v, Asked(u))
  <2>1. CASE VendorOf[job[u].file] = "dbip"
    BY <1>3, <2>1 DEF Fresh, Offered
  <2>2. CASE VendorOf[job[u].file] # "dbip"
    <3>1. job[u].file \in Files
      BY <1>3 DEF Jobs
    <3>2. v = Latest(job[u].file) /\ \A w \in Published(job[u].file) : w <= Latest(job[u].file)
      BY <2>2, <3>1, LatestIs DEF Offered, VendorInv
    <3>3. v \in Int /\ \A w \in Published(job[u].file) : w \in Int
      BY DEF Offered, Published, Versions
    <3>. QED
      BY <3>2, <3>3 DEF NewerSince
  <2>. QED
    BY <2>1, <2>2
<1>7. pc'[u] # "request" /\ Asked(u) <= now
  BY <1>3 DEF Fresh, Busy, Received
<1>. QED
  BY <1>3, <1>4, <1>5, <1>6, <1>7 DEF Fresh, NewerSince, Published

(* Its own updater's other steps leave a download its job, or end it. *)
LEMMA FreshOwn ==
  ASSUME TypeOK, VendorInv, WorkInv, NEW u \in Updaters, Timely(u), Fresh(u), Step(u)
  PROVE  Fresh(u)'
<1>0. pc \in [Updaters -> Phases] /\ now' = now /\ released' = released
  BY OnlyPublish DEF TypeOK
<1>1. ASSUME NEW f \in Files, Download(u, f) PROVE Fresh(u)'
  BY <1>1, FreshRequest
<1>2. ASSUME NotFound(u) PROVE Fresh(u)'
  <2>1. CASE job[u].fallback
    <3>1. pc'[u] \notin Busy
      BY <1>0, <1>2, <2>1 DEF NotFound, Conclude, Busy, Received
    <3>. QED
      BY <3>1, FreshIdle
  <2>. QED
    BY <1>2, <2>1, FreshFallback
<1>3. ASSUME Receive(u) PROVE Fresh(u)'
  BY <1>3, FreshAnswer
<1>4. ASSUME Extract(u) \/ CopyEnds(u) PROVE Fresh(u)'
  <2>1. job' = job /\ pc[u] \in Received /\ pc'[u] \in Received
    BY <1>0, <1>4 DEF Extract, CopyEnds, Received
  <2>2. Asked(u)' = Asked(u) /\ (\A f : Published(f)' = Published(f)) /\ pc'[u] # "request"
    BY <1>0, <2>1 DEF Asked, Published, Received
  <2>. QED
    BY <1>0, <2>1, <2>2 DEF Fresh, Busy, NewerSince
<1>5. ASSUME Stop(u) \/ Progress(u) \/ \E f \in Files : Skip(u, f) PROVE Fresh(u)'
  <2>1. pc' = pc /\ job' = job
    BY <1>5 DEF Stop, Progress, Skip, updaterVars
  <2>. QED
    BY <1>0, <2>1, FreshStays
<1>6. ASSUME \/ New(u) \/ Start(u) \/ TakeTick(u) \/ EndPass(u) \/ Exit(u) \/ NotModified(u)
             \/ Rename(u) \/ Fail(u) \/ Finish(u)
      PROVE  Fresh(u)'
  <2>1. pc'[u] \in {"created", "pass", "wait", "stopped", "closing"}
    BY <1>0, <1>6 DEF New, Start, TakeTick, BeginPass, EndPass, Exit, NotModified, Rename, Fail,
                      Finish, Conclude
  <2>2. pc'[u] \notin Busy
    BY <2>1 DEF Busy, Received
  <2>. QED
    BY <2>2, FreshIdle
<1>. QED
  BY <1>1, <1>2, <1>3, <1>4, <1>5, <1>6 DEF Step
LEMMA FreshStep ==
  ASSUME TypeOK, SoundInv, VendorInv, \A u \in Updaters : Fresh(u), [Next]_vars
  PROVE  \A u \in Updaters : Fresh(u)'
<1>0. WorkInv /\ \A u \in Updaters : Timely(u)
  BY SoundWork DEF SoundInv
<1>. SUFFICES ASSUME NEW w \in Updaters PROVE Fresh(w)'
  OBVIOUS
<1>1. CASE Tick
  <2>1. /\ now' = now + 1 /\ pc' = pc /\ job' = job /\ released' = released
        /\ \A f : Published(f)' = Published(f)
    BY <1>1 DEF Tick, Published
  <2>2. Asked(w)' = Asked(w)
    BY <2>1 DEF Asked
  <2>3. pc[w] \in Busy => Asked(w) <= now'
    <3>. SUFFICES ASSUME pc[w] \in Busy PROVE Asked(w) <= now'
      OBVIOUS
    <3>1. Asked(w) \in Int /\ now \in Nat /\ Asked(w) <= now
      BY <1>0, AskedIs DEF WorkInv, TypeOK, Fresh
    <3>. QED
      BY <2>1, <3>1
  <2>. QED
    BY <2>1, <2>2, <2>3 DEF Fresh, NewerSince
<1>2. ASSUME NEW f \in Files, NEW v \in Versions, Publish(f, v) PROVE Fresh(w)'
  <2>1. now' = now /\ pc' = pc /\ job' = job
    BY <1>2 DEF Publish, updaterVars
  <2>. SUFFICES ASSUME pc[w] \in Busy PROVE Fresh(w)'
    BY <2>1, FreshIdle
  <2>2. job[w] \in Jobs /\ Asked(w) \in Int /\ Asked(w) <= now
    BY <1>0, AskedIs DEF WorkInv, Fresh
  <2>3. PICK g \in Files, month \in Int, body \in Contents, a \in Int :
          /\ g = job[w].file /\ month = job[w].month /\ body = job[w].body /\ a = Asked(w)
    BY <2>2 DEF Jobs
  <2>4. /\ job'[w].file = g /\ job'[w].month = month /\ job'[w].body = body /\ Asked(w)' = a
    BY <2>1, <2>3 DEF Asked
  <2>5. \A x \in Int : NewerSince(g, x, a) => NewerSince(g, x, a)'
    BY <1>2, <2>2, <2>3, NewerStays
  <2>6. body \in Versions => body \in Int
    BY DEF Versions
  <2>7. pc[w] = "request" /\ VendorOf[g] = "dbip" => NewerSince(g, month, a)'
    BY <2>3, <2>5 DEF Fresh
  <2>8. pc[w] \in Received /\ body \in Versions => NewerSince(g, body, a)'
    BY <2>3, <2>5, <2>6 DEF Fresh
  <2>. QED
    BY <2>1, <2>2, <2>3, <2>4, <2>7, <2>8 DEF Fresh, NewerSince
<1>3. ASSUME NEW u \in Updaters, NEW f \in Files, HotReload(u, f) PROVE Fresh(w)'
  BY <1>3, FreshStays DEF HotReload
<1>4. CASE Crash
  <2>1. pc'[w] \notin Busy
    BY <1>4 DEF Crash, Alive, Busy, Received
  <2>. QED
    BY <2>1, FreshIdle
<1>5. ASSUME NEW u \in Updaters, Step(u) PROVE Fresh(w)'
  <2>1. CASE w = u
    BY <1>0, <1>5, <2>1, FreshOwn
  <2>2. CASE w # u
    <3>1. now' = now /\ pc'[w] = pc[w] /\ job'[w] = job[w] /\ released' = released
      BY <1>0, <1>5, <2>2, Others, OnlyPublish
    <3>. QED
      BY <3>1, FreshStays
  <2>. QED
    BY <2>1, <2>2
<1>6. CASE UNCHANGED vars
  BY <1>6, FreshStays DEF vars, vendorVars, updaterVars
<1>. QED
  BY <1>1, <1>2, <1>3, <1>4, <1>5, <1>6 DEF Next, Environment

-----------------------------------------------------------------------------
(* Outcomes: a download is busy until it has one. *)
LEMMA UndecidedStep ==
  ASSUME TypeOK, NEW w \in Updaters, Undecided(w), [Next]_vars
  PROVE  Undecided(w)'
<1>0. /\ pc \in [Updaters -> Phases]
      /\ outcome \in [Updaters -> {"none", "unchanged", "unpublished", "updated", "failed"}]
  BY DEF TypeOK
<1>1. CASE Environment \/ UNCHANGED vars
  BY <1>1 DEF Environment, Tick, Publish, HotReload, Crash, Undecided, vars, updaterVars
<1>2. ASSUME NEW u \in Updaters, NotModified(u) \/ Rename(u) \/ Fail(u) PROVE Undecided(w)'
  BY <1>0, <1>2 DEF NotModified, Rename, Fail, Conclude, Undecided
<1>3. ASSUME NEW u \in Updaters, NotFound(u) PROVE Undecided(w)'
  BY <1>0, <1>3 DEF NotFound, Conclude, Undecided
<1>4. ASSUME NEW u \in Updaters, Finish(u) PROVE Undecided(w)'
  BY <1>0, <1>4 DEF Finish, Undecided
<1>5. ASSUME NEW u \in Updaters,
             \/ New(u) \/ Start(u) \/ TakeTick(u) \/ EndPass(u) \/ Stop(u) \/ Exit(u)
             \/ (\E f \in Files : Skip(u, f) \/ Download(u, f))
             \/ Receive(u) \/ Progress(u) \/ Extract(u) \/ CopyEnds(u)
      PROVE  Undecided(w)'
  <2>1. outcome' = outcome
    BY <1>5 DEF New, Start, TakeTick, BeginPass, EndPass, Stop, Exit, Skip, Download, Receive,
                Progress, Extract, CopyEnds, updaterVars
  <2>2. pc'[w] # "closing" => pc[w] # "closing"
    BY <1>0, <1>5 DEF New, Start, TakeTick, BeginPass, EndPass, Stop, Exit, Skip, Download, Receive,
                      Progress, Extract, CopyEnds, Online, updaterVars
  <2>. QED
    BY <2>1, <2>2 DEF Undecided
<1>. QED
  BY <1>1, <1>2, <1>3, <1>4, <1>5 DEF Next, Step

(* "updated" is the outcome of a rename, and of nothing else.               *)
LEMMA UpdatedIsRenamed ==
  ASSUME TypeOK, NEW w \in Updaters, Undecided(w), pc[w] = "renaming", outcome'[w] = "updated",
         [Next]_vars
  PROVE  Rename(w)
<1>0. /\ pc \in [Updaters -> Phases] /\ outcome[w] = "none"
      /\ outcome \in [Updaters -> {"none", "unchanged", "unpublished", "updated", "failed"}]
  BY DEF TypeOK, Undecided
<1>1. ~UNCHANGED vars /\ ~Environment
  BY <1>0 DEF Environment, Tick, Publish, HotReload, Crash, vars, updaterVars
<1>2. PICK u \in Updaters : Step(u)
  BY <1>1 DEF Next
<1>3. NotModified(u) \/ NotFound(u) \/ Rename(u) \/ Fail(u) \/ Finish(u)
  <2>. SUFFICES ASSUME outcome' = outcome PROVE FALSE
    BY <1>2 DEF Step, New, Start, TakeTick, BeginPass, EndPass, Stop, Exit, Skip, Download, Receive,
                Progress, Extract, CopyEnds, updaterVars
  <2>. QED
    BY <1>0
<1>. QED
  BY <1>0, <1>3 DEF NotModified, NotFound, Rename, Fail, Finish, Conclude

-----------------------------------------------------------------------------
(* The theorem. *)
FreshFilesInv == FilesInv /\ VendorInv /\ FreshInv

LEMMA FreshInitially == Init => VendorInv /\ FreshInv
<1>. SUFFICES ASSUME Init PROVE VendorInv /\ FreshInv
  OBVIOUS
<1>1. 1 \in Versions /\ Versions \subseteq Nat /\ 0 # Never /\ Month \in Nat /\ Month > 0
  BY UpdaterAssumption DEF Versions
<1>2. \A f \in Files : Published(f) = {1} /\ released[f][1] = 0
  BY <1>1 DEF Init, Published
<1>3. now = 0 /\ MonthAt(now) = 1
  <2>1. now = 0
    BY DEF Init
  <2>2. 0 \div Month = 0
    BY <1>1
  <2>. QED
    BY <2>1, <2>2 DEF MonthAt
<1>4. VendorInv
  BY <1>2, <1>3 DEF VendorInv, ReleasedByNow, HasLatest, MonthsByNow
<1>5. FreshInv
  BY DEF Init, FreshInv, Fresh, Undecided, Busy, Received
<1>. QED
  BY <1>4, <1>5

LEMMA FreshInvariant == Safety => []FreshFilesInv
<1>1. Init => FreshFilesInv
  BY Initially, FreshInitially DEF FreshFilesInv, FilesInv
<1>2. FreshFilesInv /\ [Next]_vars => FreshFilesInv'
  <2>. SUFFICES ASSUME FreshFilesInv, [Next]_vars PROVE FreshFilesInv'
    OBVIOUS
  <2>1. FilesInv'
    BY SoundWork, TypeStep, SoundStep, OwnedStep, WholeStep DEF FreshFilesInv, FilesInv
  <2>2. VendorInv'
    BY VendorStep DEF FreshFilesInv, FilesInv
  <2>3. FreshInv'
    BY FreshStep, UndecidedStep DEF FreshFilesInv, FilesInv, FreshInv
  <2>. QED
    BY <2>1, <2>2, <2>3 DEF FreshFilesInv
<1>. QED
  BY <1>1, <1>2, PTL DEF Safety

(* A download brings the latest version there was when it was asked for, or *)
(* a later one, however many updaters write the file and whenever vendors   *)
(* publish (downloadMaxMind, downloadDBIP, downloadIP2Location).            *)
THEOREM LatestWhenAsked == Safety => WrittenAsAsked
<1>1. ASSUME FreshFilesInv, [Next]_vars
      PROVE  \A u \in Updaters : pc[u] = "renaming" /\ outcome'[u] = "updated" =>
               LET f == job[u].file
                   v == target'[f].content
               IN v \in Versions => \A w \in Published(f) : w > v => released[f][w] >= Asked(u)
  <2>. SUFFICES ASSUME NEW u \in Updaters, pc[u] = "renaming", outcome'[u] = "updated",
                       target'[job[u].file].content \in Versions
                PROVE  \A w \in Published(job[u].file) : w > target'[job[u].file].content =>
                         released[job[u].file][w] >= Asked(u)
    OBVIOUS
  <2>1. TypeOK /\ Undecided(u) /\ Fresh(u) /\ job[u] \in Jobs
    BY <1>1, SoundWork DEF FreshFilesInv, FilesInv, FreshInv, WorkInv, Busy, Received
  <2>2. Rename(u)
    BY <1>1, <2>1, UpdatedIsRenamed
  <2>3. target'[job[u].file].content = job[u].body
    BY <2>1, <2>2 DEF Rename, TypeOK, Jobs
  <2>. QED
    BY <2>1, <2>3 DEF Fresh, Received, NewerSince
<1>. QED
  BY <1>1, FreshInvariant, PTL DEF Safety, WrittenAsAsked

-----------------------------------------------------------------------------
(* "up to date".  Only MaxMind's downloads may be overtaken by a newer       *)
(* version, or bring a damaged file, and only if there is one updater.       *)
Undisturbed ==
  /\ PublishAnytime \subseteq {"maxmind"} /\ BadPayloads \subseteq {"maxmind"}
  /\ (\A u, w \in Updaters : u = w) \/ PublishAnytime = {}

Newest(f, x) == \A w \in Published(f) : w <= x
Good(f) == target[f] # NoFile /\ target[f].content \in Versions

(* What is loaded is no newer than the file; the file of a vendor that is   *)
(* asked by time is older than every newer version.                         *)
Filed(f) ==
  /\ 1 \in Published(f)
  /\ \A u \in Updaters : loaded[u][f] \in Published(f)
  /\ target[f] # NoFile => target[f].mtime <= now
  /\ Good(f) => target[f].content \in Published(f) /\ \A u \in Updaters : loaded[u][f] <= target[f].content
  /\ target[f] # NoFile /\ VendorOf[f] # "maxmind" =>
       /\ Good(f)
       /\ \A w \in Published(f) : w > target[f].content => released[f][w] > target[f].mtime

(* What was received is no older than the file and what is loaded.          *)
Answered(u) ==
  pc[u] \in Received /\ job[u].body \in Versions =>
    /\ job[u].body \in Published(job[u].file)
    /\ VendorOf[job[u].file] \notin PublishAnytime => Newest(job[u].file, job[u].body)
    /\ \A w \in Updaters : loaded[w][job[u].file] <= job[u].body
    /\ Good(job[u].file) => target[job[u].file].content <= job[u].body

(* The month, the md5 sum and the time that are sent are no newer than what *)
(* they stand for.                                                          *)
Asking(u) ==
  pc[u] = "request" =>
    /\ VendorOf[job[u].file] = "dbip" => Newest(job[u].file, job[u].month)
    /\ VendorOf[job[u].file] = "maxmind" => job[u].md5 <= loaded[u][job[u].file]
    /\ job[u].since # Gone =>
         target[job[u].file] # NoFile /\ job[u].since <= target[job[u].file].mtime

Working(u) == pc[u] \in {"pass", "closing"} \cup Busy
Queued(u) == Working(u) => \A f \in DOMAIN todo[u] : todo[u][f] <= loaded[u][f]

Hands(u) == Answered(u) /\ Asking(u) /\ Queued(u)
CurrentInv == (\A f \in Files : Filed(f)) /\ (\A u \in Updaters : Hands(u))

(* What an Ops serves changes to the content of the file, or is let go.     *)
Reloads ==
  \A u \in Updaters, f \in Files :
    \/ loaded'[u][f] \in {loaded[u][f], 1}
    \/ Good(f) /\ loaded'[u][f] = target[f].content

LEMMA FiledReload ==
  ASSUME TypeOK, NEW f \in Files, Filed(f), now' \in Nat, now <= now', released' = released,
         target' = target, Reloads
  PROVE  Filed(f)'
<1>1. Published(f)' = Published(f) /\ (Good(f)' <=> Good(f)) /\ Published(f) \subseteq Versions
  BY DEF Published, Good
<1>2. /\ now \in Nat /\ loaded \in [Updaters -> [Files -> Versions]]
      /\ target[f] # NoFile => target[f].mtime \in Nat
      /\ \A v \in Versions : v \in Nat /\ 1 <= v
  BY DEF TypeOK, Database, Versions
<1>3. \A u \in Updaters : loaded'[u][f] \in Published(f)
  BY DEF Reloads, Filed
<1>4. Good(f) => \A u \in Updaters : loaded'[u][f] <= target[f].content
  BY <1>2 DEF Reloads, Filed, Good
<1>5. target[f] # NoFile => target[f].mtime <= now'
  BY <1>2 DEF Filed
<1>. QED
  BY <1>1, <1>3, <1>4, <1>5 DEF Filed

LEMMA HandsStay ==
  ASSUME TypeOK, \A f \in Files : Filed(f), WorkInv, NEW u \in Updaters, Hands(u),
         released' = released, target' = target, Reloads,
         pc'[u] = pc[u], job'[u] = job[u], todo'[u] = todo[u],
         Working(u) => \A f \in Files : loaded[u][f] <= loaded'[u][f]
  PROVE  Hands(u)'
<1>1. \A f \in Files : Published(f)' = Published(f) /\ (Good(f)' <=> Good(f))
  BY DEF Published, Good
<1>2. /\ \A v \in Versions : v \in Int /\ 1 <= v
      /\ \A w \in Updaters, f \in Files : loaded[w][f] \in Int /\ loaded'[w][f] \in Int
  <2>1. \A v \in Versions : v \in Int /\ 1 <= v
    BY DEF Versions
  <2>2. \A w \in Updaters, f \in Files : loaded[w][f] \in Versions
    BY DEF TypeOK
  <2>. QED
    BY <2>1, <2>2 DEF Reloads, Good
<1>3. Queued(u)'
  <2>1. todo[u] \in Rests
    BY DEF TypeOK, Rests
  <2>2. ASSUME Working(u), NEW f \in DOMAIN todo[u] PROVE todo[u][f] <= loaded'[u][f]
    <3>1. f \in Files /\ todo[u][f] \in Int
      BY <1>2, <2>1, <2>2, RestHas
    <3>2. todo[u][f] <= loaded[u][f] /\ loaded[u][f] <= loaded'[u][f]
      BY <2>2, <3>1 DEF Hands, Queued
    <3>. QED
      BY <1>2, <3>1, <3>2
  <2>. QED
    BY <2>2 DEF Queued, Working
<1>. SUFFICES ASSUME pc[u] \in Busy PROVE Answered(u)' /\ Asking(u)'
  BY <1>3 DEF Hands, Answered, Asking, Busy
<1>4. job[u] \in Jobs /\ Working(u)
  BY DEF WorkInv, Working
<1>5. PICK f \in Files, md5 \in Versions : f = job[u].file /\ md5 = job[u].md5
  BY <1>4 DEF Jobs
<1>6. Answered(u)'
  <2>. SUFFICES ASSUME pc[u] \in Received, job[u].body \in Versions, NEW w \in Updaters
                PROVE  loaded'[w][f] <= job[u].body
    BY <1>1, <1>5 DEF Hands, Answered, Newest, Good
  <2>1. loaded[w][f] <= job[u].body /\ (Good(f) => target[f].content <= job[u].body)
    BY <1>5 DEF Hands, Answered
  <2>. QED
    BY <1>2, <2>1 DEF Reloads
<1>7. Asking(u)'
  <2>1. pc[u] = "request" /\ VendorOf[f] = "maxmind" => md5 <= loaded'[u][f]
    BY <1>2, <1>4, <1>5 DEF Hands, Asking
  <2>. QED
    BY <1>1, <1>5, <2>1 DEF Hands, Asking, Newest
<1>. QED
  BY <1>6, <1>7
(* A publication, which no download is in the way of. *)
LEMMA FiledPublish ==
  ASSUME TypeOK, NEW g \in Files, Filed(g), NEW f \in Files, NEW v \in Versions, Publish(f, v)
  PROVE  Filed(g)'
<1>1. /\ Published(g)' = Published(g) \cup (IF g = f THEN {v} ELSE {})
      /\ \A w \in Published(g) : released'[g][w] = released[g][w]
      /\ released'[f][v] = now
  BY Publication
<1>2. /\ now' = now /\ target' = target /\ loaded' = loaded /\ (Good(g)' <=> Good(g))
      /\ ~(target[f] # NoFile /\ target[f].mtime >= now)
  BY DEF Publish, diskVars, updaterVars, Good
<1>3. now \in Nat /\ (target[f] # NoFile => target[f].mtime \in Nat)
  BY DEF TypeOK, Database
<1>. QED
  BY <1>1, <1>2, <1>3 DEF Filed

LEMMA HandsPublish ==
  ASSUME TypeOK, Undisturbed, WorkInv, NEW u \in Updaters, Hands(u),
         NEW f \in Files, NEW v \in Versions, Publish(f, v)
  PROVE  Hands(u)'
<1>1. /\ target' = target /\ loaded' = loaded /\ pc' = pc /\ job' = job /\ todo' = todo
      /\ \A g \in Files : Good(g)' <=> Good(g)
  BY DEF Publish, diskVars, updaterVars, Good
<1>2. Queued(u)'
  BY <1>1 DEF Hands, Queued, Working
<1>. SUFFICES ASSUME pc[u] \in Busy PROVE Answered(u)' /\ Asking(u)'
  BY <1>1, <1>2 DEF Hands, Answered, Asking, Busy
<1>3. PICK g \in Files : g = job[u].file
  BY DEF WorkInv, Jobs
<1>4. Published(g) \subseteq Published(g)' /\ (g # f => Published(g)' = Published(g))
  BY Publication
<1>5. VendorOf[g] \notin PublishAnytime => g # f
  BY <1>3 DEF Publish, InFlight, Online, Busy, Received
<1>6. \A x : VendorOf[g] \notin PublishAnytime /\ Newest(g, x) => \A w \in Published(g)' : w <= x
  BY <1>4, <1>5 DEF Newest
<1>7. Answered(u)'
  <2>. SUFFICES ASSUME pc[u] \in Received, job[u].body \in Versions
                PROVE  /\ job[u].body \in Published(g)'
                       /\ VendorOf[g] \notin PublishAnytime => \A w \in Published(g)' : w <= job[u].body
                       /\ \A w \in Updaters : loaded[w][g] <= job[u].body
                       /\ Good(g) => target[g].content <= job[u].body
    BY <1>1, <1>3 DEF Answered, Newest
  <2>. QED
    BY <1>3, <1>4, <1>6 DEF Hands, Answered
<1>8. Asking(u)'
  <2>1. "dbip" \notin PublishAnytime
    BY DEF Undisturbed
  <2>2. pc[u] = "request" /\ VendorOf[g] = "dbip" => \A w \in Published(g)' : w <= job[u].month
    BY <1>3, <1>6, <2>1 DEF Hands, Asking
  <2>. QED
    BY <1>1, <1>3, <2>2 DEF Hands, Asking, Newest
<1>. QED
  BY <1>7, <1>8

(* A rename: what is written is no older than the file. *)
LEMMA RenameWrites ==
  ASSUME TypeOK, SoundInv, NEW u \in Updaters, Rename(u)
  PROVE  /\ now' = now /\ released' = released /\ loaded' = loaded /\ todo' = todo /\ job' = job
         /\ job[u] \in Jobs /\ pc[u] \in Received /\ pc'[u] = "closing"
         /\ target'[job[u].file] # NoFile
         /\ target'[job[u].file].content = job[u].body /\ target'[job[u].file].mtime = now
         /\ \A g \in Files : g # job[u].file => target'[g] = target[g]
<1>1. /\ now' = now /\ released' = released /\ loaded' = loaded /\ todo' = todo /\ job' = job
      /\ pc[u] = "renaming" /\ pc'[u] = "closing" /\ out[u] # Gone
      /\ target' = [target EXCEPT ![job[u].file] = [content |-> job[u].body, mtime |-> out[u]]]
  BY DEF Rename, Conclude, TypeOK
<1>2. job[u] \in Jobs /\ out[u] = now
  BY <1>1 DEF SoundInv, Sound, Timely, Online, Busy, Received
<1>3. [content |-> job[u].body, mtime |-> now] \in Database /\ job[u].file \in Files
  BY <1>2 DEF Jobs, Database, TypeOK
<1>4. target'[job[u].file] = [content |-> job[u].body, mtime |-> now]
  BY <1>1, <1>2, <1>3 DEF TypeOK
<1>5. target'[job[u].file] # NoFile
  BY <1>3, <1>4, NothingAssumption
<1>. QED
  BY <1>1, <1>2, <1>4, <1>5 DEF Received, TypeOK

LEMMA FiledRename ==
  ASSUME TypeOK, Undisturbed, SoundInv, NEW g \in Files, Filed(g), NEW u \in Updaters, Rename(u),
         Hands(u)
  PROVE  Filed(g)'
<1>1. PICK f, b : f = job[u].file /\ b = job[u].body
  OBVIOUS
<1>2. /\ now' = now /\ released' = released /\ loaded' = loaded /\ pc[u] \in Received
      /\ target'[f] # NoFile /\ target'[f].content = b /\ target'[f].mtime = now
      /\ Published(g)' = Published(g)
  BY <1>1, RenameWrites DEF Published
<1>3. CASE g # f
  <2>1. target'[g] = target[g] /\ (Good(g)' <=> Good(g))
    BY <1>1, <1>3, RenameWrites DEF Good
  <2>. QED
    BY <1>2, <2>1 DEF Filed
<1>4. CASE g = f
  <2>1. now \in Nat /\ now <= now
    BY DEF TypeOK
  <2>2. Good(g)' <=> b \in Versions
    BY <1>2, <1>4 DEF Good
  <2>3. b \in Versions => b \in Published(g) /\ \A w \in Updaters : loaded[w][g] <= b
    BY <1>1, <1>2, <1>4 DEF Hands, Answered
  <2>4. VendorOf[g] # "maxmind" => b \in Versions /\ \A w \in Published(g) : ~(w > b)
    <3>. SUFFICES ASSUME VendorOf[g] # "maxmind"
                  PROVE  b \in Versions /\ \A w \in Published(g) : ~(w > b)
      OBVIOUS
    <3>1. VendorOf[g] \notin BadPayloads /\ VendorOf[g] \notin PublishAnytime
      BY DEF Undisturbed
    <3>2. b \in Versions
      BY <1>1, <1>2, <1>4, <3>1 DEF SoundInv, Sound
    <3>3. \A w \in Published(g) : w <= b /\ w \in Int /\ b \in Int
      BY <1>1, <1>2, <1>4, <3>1, <3>2 DEF Hands, Answered, Newest, Published, Versions
    <3>. QED
      BY <3>2, <3>3
  <2>. QED
    BY <1>2, <1>4, <2>1, <2>2, <2>3, <2>4 DEF Filed
<1>. QED
  BY <1>3, <1>4

LEMMA HandsRename ==
  ASSUME TypeOK, Undisturbed, SoundInv, \A f \in Files : Filed(f), NEW u \in Updaters, Rename(u),
         Hands(u), NEW w \in Updaters, w # u, Hands(w)
  PROVE  Hands(w)'
<1>1. PICK f, b : f = job[u].file /\ b = job[u].body
  OBVIOUS
<1>0. pc'[w] = pc[w]
  BY DEF Rename, Conclude, TypeOK
<1>2. /\ now' = now /\ released' = released /\ loaded' = loaded /\ todo' = todo /\ job' = job
      /\ pc[u] \in Received
      /\ target'[f] # NoFile /\ target'[f].content = b /\ target'[f].mtime = now
      /\ \A g \in Files : Published(g)' = Published(g) /\ (g # f => target'[g] = target[g])
  BY <1>1, RenameWrites DEF Published
<1>3. PublishAnytime = {}
  BY DEF Undisturbed
<1>4. Queued(w)'
  BY <1>0, <1>2 DEF Hands, Queued, Working
<1>. SUFFICES ASSUME pc[w] \in Busy PROVE Answered(w)' /\ Asking(w)'
  BY <1>0, <1>2, <1>4 DEF Hands, Answered, Asking, Busy
<1>5. PICK g \in Files, since \in Nat \cup {Gone} : g = job[w].file /\ since = job[w].since
  BY SoundWork DEF WorkInv, Jobs
<1>6. pc[w] \in Received /\ job[w].body \in Versions /\ Good(g)' => target'[g].content <= job[w].body
  <2>1. CASE g = f
    <3>. SUFFICES ASSUME pc[w] \in Received, job[w].body \in Versions, b \in Versions
                  PROVE  b <= job[w].body
      BY <1>2, <2>1 DEF Good
    <3>1. b \in Published(g)
      BY <1>1, <1>2, <2>1 DEF Hands, Answered
    <3>. QED
      BY <1>3, <1>5, <3>1 DEF Hands, Answered, Newest
  <2>2. CASE g # f
    BY <1>2, <1>5, <2>2 DEF Hands, Answered, Good
  <2>. QED
    BY <2>1, <2>2
<1>7. pc[w] = "request" /\ since # Gone => target'[g] # NoFile /\ since <= target'[g].mtime
  <2>. SUFFICES ASSUME pc[w] = "request", since # Gone
                PROVE  target'[g] # NoFile /\ since <= target'[g].mtime
    OBVIOUS
  <2>1. target[g] # NoFile /\ since <= target[g].mtime /\ target[g].mtime <= now
    BY <1>5 DEF Hands, Asking, Filed
  <2>2. target[g].mtime \in Nat /\ since \in Nat /\ now \in Nat
    BY <2>1 DEF TypeOK, Database
  <2>. QED
    BY <1>2, <2>1, <2>2
<1>8. Answered(w)'
  BY <1>0, <1>2, <1>5, <1>6 DEF Hands, Answered, Newest
<1>9. Asking(w)'
  BY <1>0, <1>2, <1>5, <1>7 DEF Hands, Asking, Newest
<1>. QED
  BY <1>8, <1>9
(* The steps of an updater. *)
LEMMA StepReloads ==
  ASSUME TypeOK, NEW u \in Updaters, Step(u)
  PROVE  Reloads
<1>1. CASE New(u)
  <2>1. /\ loaded' = [loaded EXCEPT ![u] =
             [f \in Files |-> IF target[f] = NoFile THEN loaded[u][f] ELSE target[f].content]]
        /\ \A f \in Files : target[f] # NoFile => Good(f)
    BY <1>1 DEF New, Good
  <2>. QED
    BY <2>1 DEF Reloads, TypeOK
<1>2. CASE Exit(u)
  BY <1>2 DEF Exit, Reloads, TypeOK
<1>3. CASE ~New(u) /\ ~Exit(u)
  <2>1. loaded' = loaded
    BY <1>3 DEF Step, Start, TakeTick, BeginPass, EndPass, Stop, Skip, Download, NotModified, NotFound,
                Receive, Progress, Extract, CopyEnds, Rename, Fail, Finish, Conclude, updaterVars
  <2>. QED
    BY <2>1 DEF Reloads
<1>. QED
  BY <1>1, <1>2, <1>3

LEMMA HandsIdle ==
  ASSUME NEW u \in Updaters, ~Working(u)'
  PROVE  Hands(u)'
  BY DEF Hands, Answered, Asking, Queued, Working, Busy

(* Less is left of the pass, or nothing has changed in it. *)
LEMMA QueuedRest ==
  ASSUME TypeOK, NEW u \in Updaters, Hands(u), Working(u), loaded' = loaded,
         todo'[u] = todo[u] \/ \E f \in Files : todo'[u] = Without(todo[u], f)
  PROVE  Queued(u)'
  BY DEF Hands, Queued, Without

(* What is asked for. *)
LEMMA AskGives ==
  ASSUME TypeOK, NEW u \in Updaters, NEW f \in Files, NEW md5, NEW month, NEW fallback,
         Ask(u, f, md5, month, fallback)
  PROVE  /\ job'[u].file = f /\ job'[u].md5 = md5 /\ job'[u].month = month
         /\ job'[u].since # Gone => target[f] # NoFile /\ job'[u].since <= target[f].mtime
<1>1. /\ job'[u].file = f /\ job'[u].md5 = md5 /\ job'[u].month = month
      /\ job'[u].since = IF target[f] = NoFile THEN Gone ELSE target[f].mtime
  BY DEF Ask, TypeOK
<1>2. target[f] # NoFile => target[f].mtime \in Nat
  BY DEF TypeOK, Database
<1>. QED
  BY <1>1, <1>2

LEMMA HandsRequest ==
  ASSUME TypeOK, VendorInv, \A f \in Files : Filed(f), NEW u \in Updaters, Hands(u),
         NEW f \in Files, Download(u, f)
  PROVE  Hands(u)'
<1>1. PICK md5, month : /\ Ask(u, f, md5, month, FALSE)
                        /\ VendorOf[f] = "dbip" => month = MonthAt(now)
                        /\ VendorOf[f] = "maxmind" => md5 = todo[u][f]
  BY UpdaterAssumption DEF Download, Vendors
<1>2. /\ pc[u] = "pass" /\ f \in DOMAIN todo[u] /\ pc'[u] = "request"
      /\ todo'[u] = Without(todo[u], f)
      /\ released' = released /\ target' = target /\ loaded' = loaded
  BY DEF Download, TypeOK, diskVars
<1>3. Queued(u)'
  <2>1. Working(u)
    BY <1>2 DEF Working
  <2>. QED
    BY <1>2, <2>1, QueuedRest
<1>4. VendorOf[f] = "dbip" => \A w \in Published(f)' : w <= month
  BY <1>1, <1>2 DEF VendorInv, MonthsByNow, Published
<1>5. VendorOf[f] = "maxmind" => md5 <= loaded[u][f]
  BY <1>1, <1>2 DEF Hands, Queued, Working
<1>6. /\ job'[u].file = f /\ job'[u].md5 = md5 /\ job'[u].month = month
      /\ job'[u].since # Gone => target[f] # NoFile /\ job'[u].since <= target[f].mtime
  BY <1>1, AskGives
<1>7. Asking(u)'
  BY <1>1, <1>2, <1>4, <1>5, <1>6 DEF Asking, Newest
<1>8. Answered(u)'
  BY <1>2 DEF Answered, Received
<1>. QED
  BY <1>3, <1>7, <1>8 DEF Hands

LEMMA HandsFallback ==
  ASSUME TypeOK, WorkInv, NEW u \in Updaters, Hands(u), NotFound(u), ~job[u].fallback
  PROVE  Hands(u)'
<1>1. /\ pc[u] = "request" /\ Offered(u) = {} /\ pc' = pc /\ todo' = todo
      /\ released' = released /\ target' = target /\ loaded' = loaded
      /\ Ask(u, job[u].file, job[u].md5, job[u].month - 1, TRUE)
  BY DEF NotFound, diskVars
<1>2. PICK f \in Files, month \in Int, md5 \in Versions :
        f = job[u].file /\ month = job[u].month /\ md5 = job[u].md5
  BY <1>1 DEF WorkInv, Jobs, Busy
<1>3. Queued(u)'
  BY <1>1 DEF Hands, Queued, Working
<1>4. VendorOf[f] = "dbip" => \A w \in Published(f)' : w <= month - 1
  <2>. SUFFICES ASSUME VendorOf[f] = "dbip", NEW w \in Published(f) PROVE w <= month - 1
    BY <1>1 DEF Published
  <2>1. w <= month /\ w # month
    BY <1>1, <1>2 DEF Hands, Asking, Newest, Offered
  <2>2. w \in Int
    BY DEF Published, Versions
  <2>. QED
    BY <1>2, <2>1, <2>2
<1>5. /\ job'[u].file = f /\ job'[u].md5 = md5 /\ job'[u].month = month - 1
      /\ job'[u].since # Gone => target[f] # NoFile /\ job'[u].since <= target[f].mtime
  <2>1. Ask(u, f, md5, month - 1, TRUE)
    BY <1>1, <1>2
  <2>. QED
    BY <2>1, AskGives
<1>6. VendorOf[f] = "maxmind" => md5 <= loaded[u][f]
  BY <1>1, <1>2 DEF Hands, Asking
<1>7. Asking(u)'
  BY <1>1, <1>2, <1>4, <1>5, <1>6 DEF Asking, Newest
<1>8. Answered(u)'
  BY <1>1 DEF Answered, Received
<1>. QED
  BY <1>3, <1>7, <1>8 DEF Hands

LEMMA HandsAnswer ==
  ASSUME TypeOK, VendorInv, WorkInv, \A f \in Files : Filed(f), NEW u \in Updaters, Hands(u), Receive(u)
  PROVE  Hands(u)'
<1>1. PICK v \in Offered(u) : \E b \in Payloads(job[u].file, v) : job' = [job EXCEPT ![u].body = b]
  BY DEF Receive
<1>2. PICK b \in Payloads(job[u].file, v) : job' = [job EXCEPT ![u].body = b]
  BY <1>1
<1>3. /\ pc[u] = "request" /\ pc'[u] \in Received /\ todo' = todo /\ released' = released
      /\ target' = target /\ loaded' = loaded /\ job[u] \in Jobs
  BY DEF Receive, TypeOK, Received, WorkInv, Busy
<1>4. PICK f \in Files : f = job[u].file
  BY <1>3 DEF Jobs
<1>5. job'[u].file = f /\ job'[u].body = b
  <2>1. job'[u] = [job[u] EXCEPT !.body = b]
    BY <1>2 DEF TypeOK
  <2>. QED
    BY <1>3, <1>4, <2>1 DEF Jobs
<1>6. b \in Versions => b = v
  BY UpdaterAssumption DEF Payloads, Versions
<1>7. v \in Published(f) /\ Newest(f, v)
  BY <1>3, <1>4, LatestIs DEF Offered, VendorInv, Hands, Asking, Newest
<1>8. /\ \A w \in Updaters : loaded[w][f] <= v
      /\ Good(f) => target[f].content <= v
  BY <1>7 DEF Filed, Newest
<1>9. Answered(u)'
  BY <1>3, <1>5, <1>6, <1>7, <1>8 DEF Answered, Newest, Published, Good
<1>10. Queued(u)' /\ Asking(u)'
  BY <1>3 DEF Hands, Queued, Asking, Working, Received, Busy
<1>. QED
  BY <1>9, <1>10 DEF Hands

LEMMA HandsOwn ==
  ASSUME TypeOK, VendorInv, WorkInv, \A f \in Files : Filed(f), NEW u \in Updaters, Hands(u), Step(u)
  PROVE  Hands(u)'
<1> DEFINE Goal == Hands(u)'
<1>0. pc \in [Updaters -> Phases] /\ released' = released
  BY OnlyPublish DEF TypeOK
<1>1. ASSUME NEW f \in Files, Download(u, f) PROVE Goal
  BY <1>1, HandsRequest
<1>2. ASSUME NotFound(u), ~job[u].fallback PROVE Goal
  BY <1>2, HandsFallback
<1>3. ASSUME Receive(u) PROVE Goal
  BY <1>3, HandsAnswer
<1>4. ASSUME Start(u) \/ TakeTick(u) PROVE Goal
  <2>1. pc'[u] = "pass" /\ todo'[u] = loaded[u] /\ loaded' = loaded
    BY <1>0, <1>4 DEF Start, TakeTick, BeginPass, TypeOK
  <2>2. \A f \in Files : loaded[u][f] <= loaded[u][f]
    BY DEF TypeOK, Versions
  <2>3. DOMAIN loaded[u] = Files
    BY DEF TypeOK
  <2>. QED
    BY <2>1, <2>2, <2>3 DEF Hands, Answered, Asking, Queued, Received
<1>5. ASSUME Stop(u) \/ Progress(u) PROVE Goal
  <2>1. pc' = pc /\ job' = job /\ todo' = todo /\ target' = target /\ loaded' = loaded
    BY <1>5 DEF Stop, Progress, updaterVars, diskVars
  <2>2. \A f \in Files : loaded[u][f] <= loaded[u][f]
    BY DEF TypeOK, Versions
  <2>. QED
    BY <1>0, <2>1, <2>2, HandsStay DEF Reloads
<1>6. ASSUME Extract(u) \/ CopyEnds(u) PROVE Goal
  <2>1. /\ pc[u] \in Received /\ pc'[u] \in Received
        /\ job' = job /\ todo' = todo /\ target' = target /\ loaded' = loaded
    BY <1>0, <1>6 DEF Extract, CopyEnds, Received
  <2>2. (\A f : Published(f)' = Published(f)) /\ pc'[u] # "request" /\ Working(u)
    BY <1>0, <2>1 DEF Published, Received, Working, Busy
  <2>. QED
    BY <2>1, <2>2 DEF Hands, Answered, Asking, Queued, Newest, Good
<1>7. ASSUME \/ \E f \in Files : Skip(u, f)
             \/ NotModified(u)
             \/ (NotFound(u) /\ job[u].fallback)
             \/ Rename(u) \/ Fail(u) \/ Finish(u)
      PROVE  Goal
  <2>1. /\ pc[u] \in {"pass", "closing"} \cup Busy /\ pc'[u] \in {"pass", "closing"}
        /\ loaded' = loaded
    BY <1>0, <1>7 DEF Skip, NotModified, NotFound, Rename, Fail, Finish, Conclude, Busy, Received,
                      InFlight, Online
  <2>2. todo'[u] = todo[u] \/ \E f \in Files : todo'[u] = Without(todo[u], f)
    BY <1>7 DEF Skip, NotModified, NotFound, Rename, Fail, Finish, Conclude, TypeOK
  <2>3. Queued(u)'
    BY <2>1, <2>2, QueuedRest DEF Working
  <2>. QED
    BY <2>1, <2>3 DEF Hands, Answered, Asking, Received
<1>8. ASSUME New(u) \/ EndPass(u) \/ Exit(u) PROVE Goal
  <2>1. pc'[u] \in {"created", "wait", "stopped"}
    BY <1>0, <1>8 DEF New, EndPass, Exit
  <2>2. ~Working(u)'
    BY <2>1 DEF Working, Busy, Received
  <2>. QED
    BY <2>2, HandsIdle
<1> HIDE DEF Goal
<1>9. Goal
  BY <1>1, <1>2, <1>3, <1>4, <1>5, <1>6, <1>7, <1>8 DEF Step
<1>. QED
  BY <1>9 DEF Goal
(* What another updater does leaves a pass and its download alone. *)
LEMMA OthersPass ==
  ASSUME TypeOK, NEW u \in Updaters, Step(u), NEW w \in Updaters, w # u
  PROVE  todo'[w] = todo[w] /\ loaded'[w] = loaded[w]
<1>1. /\ todo' = todo \/ (\E x : todo' = [todo EXCEPT ![u] = x])
      /\ loaded' = loaded \/ (\E x : loaded' = [loaded EXCEPT ![u] = x])
  BY DEF Step, New, Start, TakeTick, BeginPass, EndPass, Stop, Exit, Skip, Download, NotModified,
         NotFound, Receive, Progress, Extract, CopyEnds, Rename, Fail, Finish, Conclude, updaterVars
<1>. QED
  BY <1>1 DEF TypeOK

LEMMA CurrentStep ==
  ASSUME TypeOK, Undisturbed, SoundInv, VendorInv, CurrentInv, [Next]_vars
  PROVE  CurrentInv'
<1>0. /\ WorkInv /\ now \in Nat /\ now <= now
      /\ \A f \in Files : Filed(f)
      /\ \A u \in Updaters : Hands(u)
      /\ \A u \in Updaters, f \in Files : loaded[u][f] <= loaded[u][f]
  BY SoundWork DEF CurrentInv, TypeOK, Versions
<1>1. CASE Tick
  <2>1. /\ now' = now + 1 /\ Reloads /\ UNCHANGED <<released, target, loaded, pc, job, todo>>
    BY <1>1 DEF Tick, Reloads
  <2>2. now' \in Nat /\ now <= now'
    BY <1>0, <2>1
  <2>. QED
    BY <1>0, <2>1, <2>2, FiledReload, HandsStay DEF CurrentInv
<1>2. ASSUME NEW f \in Files, NEW v \in Versions, Publish(f, v) PROVE CurrentInv'
  BY <1>0, <1>2, FiledPublish, HandsPublish DEF CurrentInv
<1>3. ASSUME NEW u \in Updaters, NEW f \in Files, HotReload(u, f) PROVE CurrentInv'
  <2>1. /\ UNCHANGED <<now, released, target, pc, job, todo>> /\ Good(f)
        /\ loaded' = [loaded EXCEPT ![u] = [loaded[u] EXCEPT ![f] = target[f].content]]
    BY <1>3 DEF HotReload, diskVars, Good
  <2>2. \A w \in Updaters, g \in Files :
          loaded'[w][g] = IF w = u /\ g = f THEN target[f].content ELSE loaded[w][g]
    BY <2>1 DEF TypeOK
  <2>3. Reloads
    BY <2>1, <2>2 DEF Reloads
  <2>4. \A w \in Updaters, g \in Files : loaded[w][g] <= loaded'[w][g]
    BY <1>0, <2>1, <2>2 DEF Filed
  <2>. QED
    BY <1>0, <2>1, <2>3, <2>4, FiledReload, HandsStay DEF CurrentInv
<1>4. CASE Crash
  <2>1. UNCHANGED <<now, released, target>> /\ Reloads
    BY <1>4 DEF Crash, diskVars, Reloads
  <2>2. \A w \in Updaters : ~Working(w)'
    BY <1>4 DEF Crash, Alive, Working, Busy, Received
  <2>. QED
    BY <1>0, <2>1, <2>2, FiledReload, HandsIdle DEF CurrentInv
<1>5. ASSUME NEW u \in Updaters, Rename(u) PROVE CurrentInv'
  <2>1. Step(u)
    BY <1>5 DEF Step
  <2>2. \A f \in Files : Filed(f)'
    BY <1>0, <1>5, FiledRename
  <2>3. ASSUME NEW w \in Updaters PROVE Hands(w)'
    BY <1>0, <1>5, <2>1, HandsRename, HandsOwn
  <2>. QED
    BY <2>2, <2>3 DEF CurrentInv
<1>6. ASSUME NEW u \in Updaters, Step(u), ~Rename(u) PROVE CurrentInv'
  <2>1. UNCHANGED <<now, released, target>> /\ Reloads
    BY <1>6, OnlyPublish, OnlyRenameWrites, StepReloads
  <2>2. \A f \in Files : Filed(f)'
    BY <1>0, <2>1, FiledReload
  <2>3. ASSUME NEW w \in Updaters, w # u PROVE Hands(w)'
    <3>1. pc'[w] = pc[w] /\ job'[w] = job[w] /\ todo'[w] = todo[w] /\ loaded'[w] = loaded[w]
      BY <1>0, <1>6, <2>3, Others, OthersPass
    <3>2. \A f \in Files : loaded[w][f] <= loaded'[w][f]
      BY <1>0, <3>1
    <3>. QED
      BY <1>0, <2>1, <3>1, <3>2, HandsStay
  <2>4. Hands(u)'
    BY <1>0, <1>6, HandsOwn
  <2>. QED
    BY <2>2, <2>3, <2>4 DEF CurrentInv
<1>7. CASE UNCHANGED vars
  <2>1. Reloads /\ UNCHANGED <<now, released, target, loaded, pc, job, todo>>
    BY <1>7 DEF vars, vendorVars, diskVars, updaterVars, Reloads
  <2>. QED
    BY <1>0, <2>1, FiledReload, HandsStay DEF CurrentInv
<1>. QED
  BY <1>1, <1>2, <1>3, <1>4, <1>5, <1>6, <1>7 DEF Next, Environment

LEMMA CurrentInitially == Init => CurrentInv
<1>. SUFFICES ASSUME Init PROVE CurrentInv
  OBVIOUS
<1>1. 1 \in Versions /\ \A f \in Files : Published(f) = {1}
  <2>1. 1 \in Versions /\ 0 # Never
    BY UpdaterAssumption DEF Versions
  <2>. QED
    BY <2>1 DEF Init, Published
<1>2. \A f \in Files : target[f] # NoFile => target[f].content = 1 /\ target[f].mtime = 0
  BY DEF Init
<1>3. \A f \in Files : Filed(f)
  BY <1>1, <1>2 DEF Init, Filed, Good
<1>4. \A u \in Updaters : Hands(u)
  BY DEF Init, Hands, Answered, Asking, Queued, Working, Busy, Received
<1>. QED
  BY <1>3, <1>4 DEF CurrentInv

LEMMA CurrentInvariant == ASSUME Undisturbed PROVE Safety => [](FreshFilesInv /\ CurrentInv)
<1>1. FreshFilesInv /\ CurrentInv /\ [Next]_vars => CurrentInv'
  BY CurrentStep DEF FreshFilesInv, FilesInv
<1>. QED
  BY <1>1, CurrentInitially, FreshInvariant, PTL DEF Safety

(* "unchanged" is what the vendor answers, and nothing else. *)
LEMMA UnchangedIsAnswered ==
  ASSUME TypeOK, NEW w \in Updaters, outcome[w] = "none", outcome'[w] = "unchanged", [Next]_vars
  PROVE  NotModified(w)
<1>0. outcome \in [Updaters -> {"none", "unchanged", "unpublished", "updated", "failed"}]
  BY DEF TypeOK
<1>1. ~UNCHANGED vars /\ ~Environment
  BY DEF Environment, Tick, Publish, HotReload, Crash, vars, updaterVars
<1>2. PICK u \in Updaters : Step(u)
  BY <1>1 DEF Next
<1>3. NotModified(u) \/ NotFound(u) \/ Rename(u) \/ Fail(u) \/ Finish(u)
  <2>. SUFFICES ASSUME outcome' = outcome PROVE FALSE
    BY <1>2 DEF Step, New, Start, TakeTick, BeginPass, EndPass, Stop, Exit, Skip, Download, Receive,
                Progress, Extract, CopyEnds, updaterVars
  <2>. QED
    OBVIOUS
<1>. QED
  BY <1>0, <1>3 DEF NotModified, NotFound, Rename, Fail, Finish, Conclude

(* "database is up to date" is logged only of the latest version, if vendors *)
(* asked with If-Modified-Since neither publish during a download nor serve  *)
(* damaged files, and MaxMind does so only while there is one updater        *)
(* (isModified, downloadMaxMind's client).                                   *)
THEOREM UpToDateIsLatest == ASSUME Undisturbed PROVE Safety => UnchangedIsCurrent
<1>1. ASSUME FreshFilesInv, CurrentInv, [Next]_vars
      PROVE  \A u \in Updaters : outcome[u] = "none" /\ outcome'[u] = "unchanged"
                                 => Held(u, job[u].file) = Latest(job[u].file)
  <2>. SUFFICES ASSUME NEW u \in Updaters, outcome[u] = "none", outcome'[u] = "unchanged"
                PROVE  Held(u, job[u].file) = Latest(job[u].file)
    OBVIOUS
  <2>1. TypeOK /\ VendorInv /\ NotModified(u)
    BY <1>1, UnchangedIsAnswered DEF FreshFilesInv, FilesInv
  <2>2. pc[u] = "request" /\ job[u] \in Jobs
    BY <1>1, <2>1, SoundWork DEF NotModified, FreshFilesInv, FilesInv, WorkInv, Busy
  <2>3. PICK v \in Offered(u) : UpToDate(u, v)
    BY <2>1 DEF NotModified
  <2>4. PICK f \in Files : f = job[u].file
    BY <2>2 DEF Jobs
  <2>5. Filed(f) /\ Asking(u)
    BY <1>1 DEF CurrentInv, Hands
  <2>6. v \in Published(f) /\ \A w \in Published(f) : w <= v
    BY <2>1, <2>2, <2>3, <2>4, <2>5, LatestIs DEF Offered, VendorInv, Asking, Newest
  <2>7. \A w \in Published(f) : w \in Int
    BY DEF Published, Versions
  <2>8. \A w \in Published(f) : (\A x \in Published(f) : x <= w) => w = v
    BY <2>6, <2>7
  <2>9. Latest(f) = v
    BY <2>6, <2>8 DEF Latest
  <2>10. CASE VendorOf[f] = "maxmind"
    <3>1. job[u].md5 = v /\ job[u].md5 <= loaded[u][f]
      BY <2>2, <2>3, <2>4, <2>5, <2>10 DEF UpToDate, Asking
    <3>2. loaded[u][f] \in Published(f)
      BY <2>5 DEF Filed
    <3>3. loaded[u][f] = v
      BY <2>6, <2>7, <3>1, <3>2
    <3>. QED
      BY <2>4, <2>9, <2>10, <3>3 DEF Held
  <2>11. CASE VendorOf[f] # "maxmind"
    <3>1. /\ released[f][v] <= job[u].since
          /\ target[f] # NoFile /\ job[u].since <= target[f].mtime /\ job[u].since # Gone
      BY <2>2, <2>3, <2>4, <2>5, <2>11 DEF UpToDate, Asking
    <3>2. target[f].content \in Published(f) /\ (v > target[f].content => released[f][v] > target[f].mtime)
      BY <2>5, <2>6, <2>11, <3>1 DEF Filed
    <3>3. released[f][v] \in Nat /\ job[u].since \in Nat /\ target[f].mtime \in Nat
      <4>1. released[f] \in [Versions -> Nat \cup {Never}] /\ v \in Versions /\ released[f][v] # Never
        BY <2>1, <2>6 DEF TypeOK, Published
      <4>2. target[f] \in Database
        BY <2>1, <3>1 DEF TypeOK
      <4>. QED
        BY <2>2, <3>1, <4>1, <4>2 DEF Jobs, Database
    <3>4. target[f].content = v
      BY <2>6, <2>7, <3>1, <3>2, <3>3
    <3>. QED
      BY <2>4, <2>9, <2>11, <3>1, <3>4 DEF Held
  <2>. QED
    BY <2>10, <2>11
<1>. QED
  BY <1>1, CurrentInvariant, PTL DEF Safety, UnchangedIsCurrent

=============================================================================
