------------------------------ MODULE Requests ------------------------------
(***************************************************************************)
(* Packages handler, matcher and internal/clientip: what requests are told *)
(* of their client's location while databases come and go.  Each matcher   *)
(* and each handler that a request passes makes a LookupAll of its own,    *)
(* with what it does next in later steps.  The registry is the abstract    *)
(* one, which module Ops implements.                                       *)
(*                                                                         *)
(* A placeholder key {geo.<db>.<path>}, which without "geo." is also a     *)
(* matcher's field, is the pair of the database and the path.              *)
(***************************************************************************)
EXTENDS Naturals, Registry

CONSTANTS
  Fields,      \* [Versions -> [paths -> STRING]]: a version's record of the
               \* client's address, flattened
  Keys,        \* the placeholders that the configuration uses
  Conditions,  \* the matchers' conditions, [keys -> sets of allowed values]
  NoMap,       \* no placeholders registered
  NotRead,     \* not read so far
  Unknown,     \* not a placeholder that anybody has registered
  NoMatch,     \* no matcher called so far
  MaxChanges   \* bound: how often the registry changes

VARIABLES
  origin,   \* has the request a client IP, and a replacer?
  stage,    \* where each reader is with its request
  asking,   \* the conditions of the matcher that is running
  verdict,  \* the last matcher's conditions and answer
  map,      \* the placeholders registered on the request's replacer
  shown,    \* what each placeholder was replaced by when last read
  seen,     \* history: the contents of the registry since the request came
  changes   \* how often the registry has changed

reqVars == <<origin, stage, asking, verdict, map, shown>>
vars == <<regVars, reqVars, seen, changes>>

Snapshots == [Databases -> Versions \cup {NoDB}]
Origins == [addr : BOOLEAN, replacer : BOOLEAN]

Nobody == [addr |-> FALSE, replacer |-> FALSE]

(* New has loaded what the directory held. *)
Init ==
  /\ served \in Snapshots
  /\ shut = FALSE
  /\ call = [r \in Readers |-> "none"]
  /\ answer = [r \in Readers |-> Nothing]
  /\ origin = [r \in Readers |-> Nobody]
  /\ stage = [r \in Readers |-> "none"]
  /\ asking = [r \in Readers |-> NoMatch]
  /\ verdict = [r \in Readers |-> NoMatch]
  /\ map = [r \in Readers |-> NoMap]
  /\ shown = [r \in Readers |-> [k \in Keys |-> NotRead]]
  /\ seen = [r \in Readers |-> {}]
  /\ changes = 0

-----------------------------------------------------------------------------
(* The keys and values that LookupAll merges from its databases; the        *)
(* database is part of the key.                                             *)
Merged(view) ==
  LET keys == UNION {{<<d, p>> : p \in IF view[d] = NoDB THEN {} ELSE DOMAIN Fields[view[d]]} :
                       d \in Databases}
  IN [k \in keys |-> Fields[view[k[1]]][k[2]]]

(* Validate rejects a matcher without conditions. *)
ASSUME RequestAssumption ==
  /\ NoDB \notin Versions /\ Undecodable \subseteq Versions
  /\ \A k \in Keys : k[1] \in Databases /\ k = <<k[1], k[2]>>
  /\ \A c \in Conditions : DOMAIN c # {} /\ DOMAIN c \subseteq Keys
  /\ NoMatch \notin Conditions \cup [conditions : Conditions, matched : BOOLEAN]
  /\ \A s \in Snapshots : Merged(s) # NoMap
  /\ MaxChanges \in Nat

(* FromRequest. *)
HasAddr(r) == origin[r].addr

-----------------------------------------------------------------------------
(* The registry changes, and answers. *)
Recorded ==
  /\ changes < MaxChanges
  /\ changes' = changes + 1
  /\ seen' = [r \in Readers |-> IF stage[r] = "none" THEN {} ELSE seen[r] \cup {served'}]
  /\ UNCHANGED reqVars

Change ==
  /\ \E d \in Databases : Remove(d) \/ \E v \in Versions : Install(d, v)
  /\ Recorded

Close == Shut /\ Recorded

LookupAll(r) == Answer(r) /\ UNCHANGED <<reqVars, seen, changes>>

-----------------------------------------------------------------------------
(* A request comes, with a context of its own. *)
Arrive(r, o) ==
  /\ stage[r] = "none"
  /\ stage' = [stage EXCEPT ![r] = "routing"]
  /\ origin' = [origin EXCEPT ![r] = o]
  /\ seen' = [seen EXCEPT ![r] = {served}]
  /\ UNCHANGED <<regVars, asking, verdict, map, shown, changes>>

Finish(r) ==
  /\ stage[r] = "routing"
  /\ stage' = [stage EXCEPT ![r] = "none"]
  /\ origin' = [origin EXCEPT ![r] = Nobody]
  /\ verdict' = [verdict EXCEPT ![r] = NoMatch]
  /\ map' = [map EXCEPT ![r] = NoMap]
  /\ shown' = [shown EXCEPT ![r] = [k \in Keys |-> NotRead]]
  /\ seen' = [seen EXCEPT ![r] = {}]
  /\ UNCHANGED <<regVars, asking, changes>>

(* MatchWithError, as far as its call of LookupAll ... *)
MatchNobody(r, c) ==
  /\ stage[r] = "routing" /\ ~HasAddr(r)
  /\ verdict' = [verdict EXCEPT ![r] = [conditions |-> c, matched |-> FALSE]]
  /\ UNCHANGED <<regVars, origin, stage, asking, map, shown, seen, changes>>

MatchBegins(r, c) ==
  /\ stage[r] = "routing" /\ HasAddr(r)
  /\ Ask(r, "LookupAll")
  /\ stage' = [stage EXCEPT ![r] = "matching"]
  /\ asking' = [asking EXCEPT ![r] = c]
  /\ UNCHANGED <<origin, verdict, map, shown, seen, changes>>

(* Mutant of Satisfied: a field without data passes. *)
SatisfiedIfMissing(c, data) == \A k \in DOMAIN c : k \in DOMAIN data => data[k] \in c[k]

Satisfied(c, data) == \A k \in DOMAIN c : k \in DOMAIN data /\ data[k] \in c[k]

(* ... and from there. *)
MatchEnds(r) ==
  /\ stage[r] = "matching" /\ call[r] = "none"
  /\ verdict' = [verdict EXCEPT ![r] =
       [conditions |-> asking[r], matched |-> Satisfied(asking[r], Merged(answer[r]))]]
  /\ stage' = [stage EXCEPT ![r] = "routing"]
  /\ asking' = [asking EXCEPT ![r] = NoMatch]
  /\ UNCHANGED <<regVars, origin, map, shown, seen, changes>>

(* Mutant of ServeBegins: it goes on without a valid address. *)
ServeBeginsAnyway(r) ==
  /\ stage[r] = "routing" /\ origin[r].replacer
  /\ Ask(r, "LookupAll")
  /\ stage' = [stage EXCEPT ![r] = "serving"]
  /\ UNCHANGED <<origin, asking, verdict, map, shown, seen, changes>>

(* ServeHTTP, which without an address or a replacer does nothing. *)
ServeBegins(r) ==
  /\ stage[r] = "routing" /\ HasAddr(r) /\ origin[r].replacer
  /\ Ask(r, "LookupAll")
  /\ stage' = [stage EXCEPT ![r] = "serving"]
  /\ UNCHANGED <<origin, asking, verdict, map, shown, seen, changes>>

(* Mutant of ServeEnds: of two handlers the last one wins. *)
ServeEndsLast(r) ==
  /\ stage[r] = "serving" /\ call[r] = "none"
  /\ map' = [map EXCEPT ![r] = Merged(answer[r])]
  /\ stage' = [stage EXCEPT ![r] = "routing"]
  /\ UNCHANGED <<regVars, origin, asking, verdict, shown, seen, changes>>

(* repl.Map: Caddy asks the functions of a replacer in the order in which   *)
(* they were registered, and the first of ours answers for all of geo.*     *)
ServeEnds(r) ==
  /\ stage[r] = "serving" /\ call[r] = "none"
  /\ map' = [map EXCEPT ![r] = IF @ = NoMap THEN Merged(answer[r]) ELSE @]
  /\ stage' = [stage EXCEPT ![r] = "routing"]
  /\ UNCHANGED <<regVars, origin, asking, verdict, shown, seen, changes>>

(* The function that is registered. *)
Resolve(data, k) == IF k \in DOMAIN data THEN data[k] ELSE ""

(* Mutant of Read: the function looks the address up when it is called. *)
ReadLive(r, k) ==
  /\ stage[r] = "routing" /\ origin[r].replacer
  /\ shown' = [shown EXCEPT ![r][k] =
       IF map[r] = NoMap THEN Unknown
       ELSE Resolve(Merged([d \in Databases |-> Yield("LookupAll", served[d])]), k)]
  /\ UNCHANGED <<regVars, origin, stage, asking, verdict, map, seen, changes>>

Read(r, k) ==
  /\ stage[r] = "routing" /\ origin[r].replacer
  /\ shown' = [shown EXCEPT ![r][k] = IF map[r] = NoMap THEN Unknown ELSE Resolve(map[r], k)]
  /\ UNCHANGED <<regVars, origin, stage, asking, verdict, map, seen, changes>>

-----------------------------------------------------------------------------
Request(r) ==
  \/ \E o \in Origins : Arrive(r, o)
  \/ \E c \in Conditions : MatchNobody(r, c) \/ MatchBegins(r, c)
  \/ MatchEnds(r) \/ ServeBegins(r) \/ ServeEnds(r) \/ LookupAll(r)
  \/ \E k \in Keys : Read(r, k)
  \/ Finish(r)

Next == Change \/ Close \/ \E r \in Readers : Request(r)

Spec == Init /\ [][Next]_vars

-----------------------------------------------------------------------------
Stages == {"none", "routing", "matching", "serving"}

TypeOK ==
  /\ served \in Snapshots
  /\ call \in [Readers -> {"none", "LookupAll"}]
  /\ origin \in [Readers -> Origins]
  /\ stage \in [Readers -> Stages]
  /\ asking \in [Readers -> Conditions \cup {NoMatch}]
  /\ verdict \in [Readers -> [conditions : Conditions, matched : BOOLEAN] \cup {NoMatch}]
  /\ changes \in 0 .. MaxChanges
  /\ \A r \in Readers :
       /\ call[r] # "none" => stage[r] \in {"matching", "serving"}
       /\ stage[r] = "matching" <=> asking[r] # NoMatch
       /\ map[r] # NoMap => HasAddr(r) /\ origin[r].replacer

(* What the registry holds of a field, or "" of one without data: that is   *)
(* what the documentation promises of a placeholder.                        *)
HasData(s, k) ==
  /\ s[k[1]] \notin Undecodable \cup {NoDB}
  /\ k[2] \in DOMAIN Fields[s[k[1]]]

Held(s, k) == IF HasData(s, k) THEN Fields[s[k[1]]][k[2]] ELSE ""

(* All that a request is shown, from whatever handlers it passes, is what   *)
(* the registry held at one instant since the request came, although        *)
(* databases are reloaded, removed and closed meanwhile; and a damaged      *)
(* record in one database costs only the placeholders of that one.          *)
Told(r) == {k \in Keys : shown[r][k] \notin {NotRead, Unknown}}

OneInstant ==
  \A r \in Readers : stage[r] # "none" =>
    \E s \in seen[r] : \A k \in Told(r) : shown[r][k] = Held(s, k)

(* A matcher answers for one instant too, whatever the order of its fields: *)
(* every field has data, equal to one of the values allowed.                *)
VerdictOfOneInstant ==
  \A r \in Readers : stage[r] # "none" /\ verdict[r] # NoMatch =>
    \E s \in seen[r] :
      LET c == verdict[r].conditions IN
      verdict[r].matched <=>
        origin[r].addr /\ \A k \in DOMAIN c : HasData(s, k) /\ \E v \in c[k] : v = Held(s, k)

(* The placeholders are there for the rest of the request: one that has     *)
(* been replaced by a value is never unknown or different later.            *)
PlaceholdersStay ==
  [][\A r \in Readers : stage'[r] # "none" /\ stage[r] # "none" =>
       \A k \in Told(r) : shown'[r][k] = shown[r][k]]_vars

(* Matchers and handlers look up on their own, but a request during which   *)
(* no database changes is routed by what it is shown.                       *)
MatchedAsShown ==
  \A r \in Readers :
    stage[r] # "none" /\ seen[r] = {served} /\ verdict[r] # NoMatch =>
      LET c == verdict[r].conditions IN
      /\ verdict[r].matched => \A k \in Told(r) \cap DOMAIN c : shown[r][k] \in c[k]
      /\ ~verdict[r].matched /\ DOMAIN c \subseteq Told(r) =>
           \E k \in DOMAIN c : shown[r][k] = "" \/ shown[r][k] \notin c[k]

=============================================================================
