--------------------------- MODULE RequestsProofs ---------------------------
(***************************************************************************)
(* Proofs about module Requests, for any databases, records, conditions    *)
(* and number of requests and changes: whatever a request is told is what  *)
(* the registry held at one instant.                                       *)
(***************************************************************************)
EXTENDS Requests, TLAPS

(* What a LookupAll at an instant returns. *)
View(s) == [d \in Databases |-> Yield("LookupAll", s[d])]

Maps == {Merged(s) : s \in Snapshots} \cup {NoMap}
Shows == {Resolve(m, k) : m \in Maps \ {NoMap}, k \in Keys} \cup {NotRead, Unknown}
Verdicts == [conditions : Conditions, matched : BOOLEAN]

TypeInv ==
  /\ TypeOK
  /\ answer \in [Readers -> Snapshots]
  /\ map \in [Readers -> Maps]
  /\ shown \in [Readers -> [Keys -> Shows]]
  /\ seen \in [Readers -> SUBSET Snapshots]

(* Between requests nothing is left; the history holds the present; what a  *)
(* lookup has returned and a handler has registered is of an instant in it; *)
(* and what is shown is what is registered.                                 *)
InstantInv(r) ==
  /\ stage[r] = "none" => map[r] = NoMap /\ verdict[r] = NoMatch /\ Told(r) = {}
  /\ stage[r] # "none" => served \in seen[r]
  /\ stage[r] \in {"matching", "serving"} =>
       /\ HasAddr(r)
       /\ stage[r] = "serving" => origin[r].replacer
       /\ call[r] = "none" => \E s \in seen[r] : answer[r] = View(s)
  /\ map[r] # NoMap => \E s \in seen[r] : map[r] = Merged(View(s))
  /\ \A k \in Told(r) : map[r] # NoMap /\ shown[r][k] = Resolve(map[r], k)

VerdictInv(r) ==
  verdict[r] # NoMatch =>
    \E s \in seen[r] :
      verdict[r].matched <=>
        origin[r].addr /\ Satisfied(verdict[r].conditions, Merged(View(s)))

Inv == TypeInv /\ \A r \in Readers : InstantInv(r) /\ VerdictInv(r)

-----------------------------------------------------------------------------
(* What LookupAll merges. *)
LEMMA ViewType == \A s \in Snapshots : View(s) \in Snapshots
BY DEF View, Yield, Snapshots

LEMMA MergedHas ==
  ASSUME NEW s \in Snapshots, NEW d \in Databases, NEW p
  PROVE  /\ <<d, p>> \in DOMAIN Merged(s) <=> s[d] # NoDB /\ p \in DOMAIN Fields[s[d]]
         /\ <<d, p>> \in DOMAIN Merged(s) => Merged(s)[<<d, p>>] = Fields[s[d]][p]
<1> DEFINE part(e) == {<<e, q>> : q \in IF s[e] = NoDB THEN {} ELSE DOMAIN Fields[s[e]]}
           keys == UNION {part(e) : e \in Databases}
<1>1. <<d, p>> \in keys <=> s[d] # NoDB /\ p \in DOMAIN Fields[s[d]]
  <2>1. ASSUME <<d, p>> \in keys PROVE s[d] # NoDB /\ p \in DOMAIN Fields[s[d]]
    <3>1. PICK e \in Databases : <<d, p>> \in part(e)
      BY <2>1
    <3>. QED
      BY <3>1
  <2>2. ASSUME s[d] # NoDB, p \in DOMAIN Fields[s[d]] PROVE <<d, p>> \in keys
    <3>1. <<d, p>> \in part(d)
      BY <2>2
    <3>. QED
      BY <3>1
  <2>. QED
    BY <2>1, <2>2
<1>2. Merged(s) = [k \in keys |-> Fields[s[k[1]]][k[2]]]
  BY DEF Merged
<1> HIDE DEF keys
<1>. QED
  BY <1>1, <1>2

(* Looking a key up in the answer of LookupAll is looking it up in the      *)
(* registry as it was.                                                      *)
LEMMA MergedHolds ==
  ASSUME NEW s \in Snapshots, NEW k \in Keys
  PROVE  /\ k \in DOMAIN Merged(View(s)) <=> HasData(s, k)
         /\ Resolve(Merged(View(s)), k) = Held(s, k)
         /\ HasData(s, k) => Merged(View(s))[k] = Held(s, k)
<1>1. k[1] \in Databases /\ k = <<k[1], k[2]>>
  BY RequestAssumption
<1>2. View(s)[k[1]] = IF s[k[1]] \in Undecodable THEN NoDB ELSE s[k[1]]
  BY <1>1 DEF View, Yield
<1>3. View(s) \in Snapshots
  BY ViewType
<1>4. /\ k \in DOMAIN Merged(View(s)) <=>
           View(s)[k[1]] # NoDB /\ k[2] \in DOMAIN Fields[View(s)[k[1]]]
      /\ k \in DOMAIN Merged(View(s)) => Merged(View(s))[k] = Fields[View(s)[k[1]]][k[2]]
  BY <1>1, <1>3, MergedHas
<1>5. k \in DOMAIN Merged(View(s)) <=> HasData(s, k)
  BY <1>2, <1>4 DEF HasData
<1>6. HasData(s, k) => Merged(View(s))[k] = Held(s, k)
  BY <1>2, <1>4, <1>5 DEF HasData, Held
<1>. QED
  BY <1>5, <1>6 DEF Resolve, Held

(* A matcher's answer about what a LookupAll returned is one about the      *)
(* registry.                                                                *)
LEMMA SatisfiedHolds ==
  ASSUME NEW s \in Snapshots, NEW c \in Conditions
  PROVE  Satisfied(c, Merged(View(s))) <=>
           \A k \in DOMAIN c : HasData(s, k) /\ Held(s, k) \in c[k]
<1>1. \A k \in DOMAIN c : k \in Keys
  BY RequestAssumption
<1>. QED
  BY <1>1, MergedHolds DEF Satisfied

-----------------------------------------------------------------------------
(* What does not concern a request leaves it as it is: the history it looks *)
(* back on can only grow.                                                   *)
Untouched(r) ==
  /\ origin'[r] = origin[r] /\ stage'[r] = stage[r] /\ asking'[r] = asking[r]
  /\ verdict'[r] = verdict[r] /\ map'[r] = map[r] /\ shown'[r] = shown[r]
  /\ call'[r] = call[r] /\ answer'[r] = answer[r]

Remembers(r) ==
  stage[r] # "none" => seen[r] \subseteq seen'[r] /\ served' \in seen'[r]

LEMMA UntouchedInv ==
  ASSUME NEW r \in Readers, InstantInv(r), VerdictInv(r), Untouched(r), Remembers(r)
  PROVE  InstantInv(r)' /\ VerdictInv(r)'
<1>1. Told(r)' = Told(r)
  BY DEF Untouched, Told
<1>2. CASE stage[r] = "none"
  BY <1>1, <1>2 DEF InstantInv, VerdictInv, Untouched, HasAddr
<1>3. CASE stage[r] # "none"
  BY <1>1, <1>3 DEF InstantInv, VerdictInv, Untouched, Remembers, HasAddr
<1>. QED
  BY <1>2, <1>3

LEMMA InitInv == Init => Inv
<1>. SUFFICES ASSUME Init PROVE Inv
  OBVIOUS
<1>1. Nothing \in Snapshots
  BY DEF Nothing, Snapshots
<1>2. TypeInv
  BY <1>1, RequestAssumption DEF Init, TypeInv, TypeOK, Nobody, Origins, Stages, Maps, Shows
<1>3. \A r \in Readers : InstantInv(r) /\ VerdictInv(r)
  BY DEF Init, InstantInv, VerdictInv, Told
<1>. QED
  BY <1>2, <1>3 DEF Inv

-----------------------------------------------------------------------------
(* The registry. *)
LEMMA ChangeKeeps ==
  ASSUME Inv, Change \/ Close
  PROVE  Inv'
<1>. USE DEF Inv
<1>1. served' \in Snapshots /\ UNCHANGED <<call, answer>>
  <2>1. CASE Shut
    BY <2>1 DEF Shut, Nothing, Snapshots
  <2>2. ASSUME NEW d \in Databases, Remove(d) PROVE served' \in Snapshots /\ UNCHANGED <<call, answer>>
    BY <2>2 DEF Remove, Snapshots, TypeInv, TypeOK
  <2>3. ASSUME NEW d \in Databases, NEW v \in Versions, Install(d, v)
        PROVE  served' \in Snapshots /\ UNCHANGED <<call, answer>>
    BY <2>3 DEF Install, Snapshots, TypeInv, TypeOK
  <2>. QED
    BY <2>1, <2>2, <2>3 DEF Change, Close
<1>2. /\ seen' = [r \in Readers |-> IF stage[r] = "none" THEN {} ELSE seen[r] \cup {served'}]
      /\ UNCHANGED reqVars /\ changes' \in 0 .. MaxChanges
  BY RequestAssumption DEF Change, Close, Recorded, TypeInv, TypeOK
<1>3. TypeInv'
  BY <1>1, <1>2 DEF TypeInv, TypeOK, reqVars, HasAddr
<1>4. ASSUME NEW r \in Readers PROVE InstantInv(r)' /\ VerdictInv(r)'
  <2>1. Untouched(r) /\ Remembers(r)
    BY <1>1, <1>2 DEF Untouched, Remembers, reqVars
  <2>. QED
    BY <2>1, UntouchedInv
<1>. QED
  BY <1>3, <1>4

LEMMA LookupAllKeeps ==
  ASSUME Inv, NEW r \in Readers, LookupAll(r)
  PROVE  Inv'
<1>. USE DEF Inv
<1>1. call[r] = "LookupAll" /\ stage[r] \in {"matching", "serving"}
  BY DEF LookupAll, Answer, TypeInv, TypeOK
<1>2. /\ answer' = [answer EXCEPT ![r] = View(served)] /\ call' = [call EXCEPT ![r] = "none"]
      /\ UNCHANGED <<reqVars, served, seen, changes>>
  BY <1>1 DEF LookupAll, Answer, View
<1>3. View(served) \in Snapshots
  BY ViewType DEF TypeInv, TypeOK
<1>4. TypeInv'
  BY <1>2, <1>3 DEF TypeInv, TypeOK, reqVars, HasAddr
<1>5. ASSUME NEW q \in Readers, q # r PROVE InstantInv(q)' /\ VerdictInv(q)'
  <2>1. Untouched(q) /\ Remembers(q)
    BY <1>2, <1>5 DEF Untouched, Remembers, reqVars, InstantInv, TypeInv, TypeOK
  <2>. QED
    BY <2>1, UntouchedInv
<1>6. InstantInv(r)' /\ VerdictInv(r)'
  <2>1. answer'[r] = View(served) /\ served \in seen[r]
    BY <1>1, <1>2 DEF InstantInv, TypeInv
  <2>2. Told(r)' = Told(r) /\ HasAddr(r)' = HasAddr(r)
    BY <1>2 DEF Told, HasAddr, reqVars
  <2>. QED
    BY <1>1, <1>2, <2>1, <2>2 DEF InstantInv, VerdictInv, reqVars
<1>. QED
  BY <1>4, <1>5, <1>6

-----------------------------------------------------------------------------
(* Requests.  A step of one leaves the others alone. *)
LEMMA OneRequest ==
  ASSUME Inv, NEW r \in Readers, TypeInv', InstantInv(r)', VerdictInv(r)',
         UNCHANGED served,
         \A q \in Readers : q # r => Untouched(q) /\ seen'[q] = seen[q]
  PROVE  Inv'
<1>1. ASSUME NEW q \in Readers, q # r PROVE InstantInv(q)' /\ VerdictInv(q)'
  <2>1. Untouched(q) /\ Remembers(q)
    BY <1>1 DEF Inv, InstantInv, Remembers
  <2>. QED
    BY <2>1, UntouchedInv DEF Inv
<1>. QED
  BY <1>1 DEF Inv

LEMMA ArriveKeeps ==
  ASSUME Inv, NEW r \in Readers, NEW o \in Origins, Arrive(r, o)
  PROVE  Inv'
<1>. USE DEF Inv
<1>1. /\ stage[r] = "none" /\ stage' = [stage EXCEPT ![r] = "routing"]
      /\ origin' = [origin EXCEPT ![r] = o] /\ seen' = [seen EXCEPT ![r] = {served}]
      /\ UNCHANGED <<regVars, asking, verdict, map, shown, changes>>
  BY DEF Arrive
<1>2. map[r] = NoMap /\ verdict[r] = NoMatch /\ Told(r) = {}
  BY <1>1 DEF InstantInv
<1>3. TypeInv'
  BY <1>1, <1>2 DEF TypeInv, TypeOK, regVars, Stages, HasAddr
<1>4. InstantInv(r)' /\ VerdictInv(r)'
  <2>1. stage'[r] = "routing" /\ seen'[r] = {served}
    BY <1>1 DEF TypeInv, TypeOK
  <2>2. Told(r)' = {}
    BY <1>1, <1>2 DEF Told
  <2>. QED
    BY <1>1, <1>2, <2>1, <2>2 DEF InstantInv, VerdictInv, regVars
<1>5. \A q \in Readers : q # r => Untouched(q) /\ seen'[q] = seen[q]
  BY <1>1 DEF Untouched, regVars, TypeInv, TypeOK
<1>. QED
  BY <1>1, <1>3, <1>4, <1>5, OneRequest DEF regVars

LEMMA FinishKeeps ==
  ASSUME Inv, NEW r \in Readers, Finish(r)
  PROVE  Inv'
<1>. USE DEF Inv
<1> DEFINE unread == [k \in Keys |-> NotRead]
<1>1. /\ stage[r] = "routing" /\ stage' = [stage EXCEPT ![r] = "none"]
      /\ origin' = [origin EXCEPT ![r] = Nobody] /\ verdict' = [verdict EXCEPT ![r] = NoMatch]
      /\ map' = [map EXCEPT ![r] = NoMap] /\ shown' = [shown EXCEPT ![r] = unread]
      /\ seen' = [seen EXCEPT ![r] = {}] /\ UNCHANGED <<regVars, asking, changes>>
  BY DEF Finish
<1>2. unread \in [Keys -> Shows] /\ Nobody \in Origins /\ NoMap \in Maps
  BY DEF Shows, Nobody, Origins, Maps
<1> HIDE DEF unread
<1>3. TypeInv'
  <2>1. TypeOK'
    BY <1>1, <1>2 DEF TypeInv, TypeOK, regVars, Stages, HasAddr
  <2>. QED
    BY <1>1, <1>2, <2>1 DEF TypeInv, regVars
<1>4. InstantInv(r)' /\ VerdictInv(r)'
  <2>1. stage'[r] = "none" /\ map'[r] = NoMap /\ verdict'[r] = NoMatch /\ shown'[r] = unread
    BY <1>1 DEF TypeInv, TypeOK
  <2>2. Told(r)' = {}
    BY <2>1 DEF Told, unread
  <2>. QED
    BY <2>1, <2>2 DEF InstantInv, VerdictInv
<1>5. \A q \in Readers : q # r => Untouched(q) /\ seen'[q] = seen[q]
  BY <1>1 DEF Untouched, regVars, TypeInv, TypeOK
<1>. QED
  BY <1>1, <1>3, <1>4, <1>5, OneRequest DEF regVars

LEMMA MatchNobodyKeeps ==
  ASSUME Inv, NEW r \in Readers, NEW c \in Conditions, MatchNobody(r, c)
  PROVE  Inv'
<1>. USE DEF Inv
<1> DEFINE no == [conditions |-> c, matched |-> FALSE]
<1>1. /\ stage[r] = "routing" /\ ~HasAddr(r) /\ verdict' = [verdict EXCEPT ![r] = no]
      /\ UNCHANGED <<regVars, origin, stage, asking, map, shown, seen, changes>>
  BY DEF MatchNobody
<1>2. no \in Verdicts /\ no.matched = FALSE
  BY DEF Verdicts
<1> HIDE DEF no
<1>3. TypeInv'
  BY <1>1, <1>2 DEF TypeInv, TypeOK, regVars, Verdicts, HasAddr
<1>4. InstantInv(r)' /\ VerdictInv(r)'
  <2>1. verdict'[r] = no /\ served \in seen[r] /\ Told(r)' = Told(r) /\ HasAddr(r)' = HasAddr(r)
    BY <1>1 DEF TypeInv, TypeOK, InstantInv, Told, HasAddr
  <2>2. InstantInv(r)'
    BY <1>1, <2>1 DEF InstantInv, regVars
  <2>3. VerdictInv(r)'
    BY <1>1, <1>2, <2>1 DEF VerdictInv, HasAddr, regVars
  <2>. QED
    BY <2>2, <2>3
<1>5. \A q \in Readers : q # r => Untouched(q) /\ seen'[q] = seen[q]
  BY <1>1 DEF Untouched, regVars, TypeInv, TypeOK
<1>. QED
  BY <1>1, <1>3, <1>4, <1>5, OneRequest DEF regVars

(* The call of LookupAll, by either of them. *)
LEMMA AskKeeps ==
  ASSUME Inv, NEW r \in Readers, MatchBegins(r, asking'[r]) \/ ServeBegins(r),
         asking'[r] \in Conditions \cup {NoMatch},
         asking'[r] # NoMatch <=> stage'[r] = "matching"
  PROVE  Inv'
<1>. USE DEF Inv
<1> DEFINE next == IF stage'[r] = "matching" THEN "matching" ELSE "serving"
<1>1. /\ stage[r] = "routing" /\ HasAddr(r) /\ call' = [call EXCEPT ![r] = "LookupAll"]
      /\ UNCHANGED <<served, shut, answer, origin, verdict, map, shown, seen, changes>>
  BY DEF MatchBegins, ServeBegins, Ask
<1>2. /\ \/ stage' = [stage EXCEPT ![r] = "matching"]
         \/ stage' = [stage EXCEPT ![r] = "serving"] /\ origin[r].replacer
      /\ asking' = [asking EXCEPT ![r] = asking'[r]]
  BY DEF MatchBegins, ServeBegins, TypeInv, TypeOK
<1>3. /\ stage'[r] \in {"matching", "serving"} /\ call'[r] = "LookupAll"
      /\ stage'[r] = "serving" => origin[r].replacer
  BY <1>1, <1>2 DEF TypeInv, TypeOK
<1>4. \A q \in Readers : q # r => Untouched(q) /\ seen'[q] = seen[q]
  BY <1>1, <1>2 DEF Untouched, TypeInv, TypeOK
<1>5. TypeInv'
  <2>1. /\ stage' \in [Readers -> Stages] /\ call' \in [Readers -> {"none", "LookupAll"}]
        /\ asking' \in [Readers -> Conditions \cup {NoMatch}]
    BY <1>1, <1>2 DEF TypeInv, TypeOK, Stages
  <2>2. \A q \in Readers :
          /\ call'[q] # "none" => stage'[q] \in {"matching", "serving"}
          /\ stage'[q] = "matching" <=> asking'[q] # NoMatch
    BY <1>3, <1>4 DEF Untouched, TypeInv, TypeOK
  <2>. QED
    BY <1>1, <2>1, <2>2 DEF TypeInv, TypeOK, HasAddr
<1>6. InstantInv(r)' /\ VerdictInv(r)'
  <2>1. Told(r)' = Told(r) /\ HasAddr(r)'
    BY <1>1 DEF Told, HasAddr
  <2>. QED
    BY <1>1, <1>3, <2>1 DEF InstantInv, VerdictInv
<1>. QED
  BY <1>1, <1>4, <1>5, <1>6, OneRequest

LEMMA MatchBeginsKeeps ==
  ASSUME Inv, NEW r \in Readers, NEW c \in Conditions, MatchBegins(r, c)
  PROVE  Inv'
<1>1. asking'[r] = c /\ stage'[r] = "matching"
  BY DEF MatchBegins, Inv, TypeInv, TypeOK
<1>2. c # NoMatch
  BY RequestAssumption
<1>. QED
  BY <1>1, <1>2, AskKeeps

LEMMA ServeBeginsKeeps ==
  ASSUME Inv, NEW r \in Readers, ServeBegins(r)
  PROVE  Inv'
<1>1. /\ asking'[r] = asking[r] /\ stage'[r] = "serving" /\ stage[r] = "routing"
  BY DEF ServeBegins, Inv, TypeInv, TypeOK
<1>2. asking[r] = NoMatch
  BY <1>1 DEF Inv, TypeInv, TypeOK
<1>. QED
  BY <1>1, <1>2, AskKeeps

(* What LookupAll returned is matched or registered. *)
LEMMA MatchEndsKeeps ==
  ASSUME Inv, NEW r \in Readers, MatchEnds(r)
  PROVE  Inv'
<1>. USE DEF Inv
<1> DEFINE found == [conditions |-> asking[r], matched |-> Satisfied(asking[r], Merged(answer[r]))]
<1>1. /\ stage[r] = "matching" /\ call[r] = "none"
      /\ verdict' = [verdict EXCEPT ![r] = found]
      /\ stage' = [stage EXCEPT ![r] = "routing"] /\ asking' = [asking EXCEPT ![r] = NoMatch]
      /\ UNCHANGED <<regVars, origin, map, shown, seen, changes>>
  BY DEF MatchEnds
<1>2. asking[r] \in Conditions /\ HasAddr(r) /\ served \in seen[r]
  BY <1>1 DEF TypeInv, TypeOK, InstantInv
<1>3. PICK s \in seen[r] : answer[r] = View(s)
  BY <1>1 DEF InstantInv
<1>4. /\ found \in Verdicts /\ found.conditions = asking[r]
      /\ found.matched <=> Satisfied(found.conditions, Merged(View(s)))
  BY <1>2, <1>3 DEF Verdicts, Satisfied
<1> HIDE DEF found
<1>5. verdict'[r] = found /\ stage'[r] = "routing" /\ asking'[r] = NoMatch
  BY <1>1 DEF TypeInv, TypeOK
<1>6. \A q \in Readers : q # r => Untouched(q) /\ seen'[q] = seen[q]
  BY <1>1 DEF Untouched, regVars, TypeInv, TypeOK
<1>7. TypeInv'
  <2>1. /\ stage' \in [Readers -> Stages] /\ verdict' \in [Readers -> Verdicts \cup {NoMatch}]
        /\ asking' \in [Readers -> Conditions \cup {NoMatch}]
    BY <1>1, <1>4 DEF TypeInv, TypeOK, Stages, Verdicts
  <2>2. \A q \in Readers :
          /\ call'[q] # "none" => stage'[q] \in {"matching", "serving"}
          /\ stage'[q] = "matching" <=> asking'[q] # NoMatch
    BY <1>1, <1>5, <1>6 DEF Untouched, TypeInv, TypeOK, regVars
  <2>. QED
    BY <1>1, <2>1, <2>2 DEF TypeInv, TypeOK, HasAddr, regVars, Verdicts
<1>8. InstantInv(r)'
  <2>1. Told(r)' = Told(r)
    BY <1>1 DEF Told
  <2>. QED
    BY <1>1, <1>2, <1>5, <2>1 DEF InstantInv, regVars
<1>9. VerdictInv(r)'
  <2>1. origin'[r].addr /\ s \in seen'[r]
    BY <1>1, <1>2 DEF HasAddr
  <2>. QED
    BY <1>4, <1>5, <2>1 DEF VerdictInv
<1>. QED
  BY <1>1, <1>6, <1>7, <1>8, <1>9, OneRequest DEF regVars

LEMMA ServeEndsKeeps ==
  ASSUME Inv, NEW r \in Readers, ServeEnds(r)
  PROVE  Inv'
<1>. USE DEF Inv
<1> DEFINE first == IF map[r] = NoMap THEN Merged(answer[r]) ELSE map[r]
<1>1. /\ stage[r] = "serving" /\ call[r] = "none"
      /\ map' = [map EXCEPT ![r] = first] /\ stage' = [stage EXCEPT ![r] = "routing"]
      /\ UNCHANGED <<regVars, origin, asking, verdict, shown, seen, changes>>
  BY DEF ServeEnds
<1>2. HasAddr(r) /\ origin[r].replacer /\ served \in seen[r]
  BY <1>1 DEF InstantInv
<1>3. PICK s \in seen[r] : answer[r] = View(s)
  BY <1>1 DEF InstantInv
<1>4. /\ first \in Maps /\ first # NoMap
      /\ map[r] # NoMap => first = map[r]
      /\ \E t \in seen[r] : first = Merged(View(t))
  <2>1. View(s) \in Snapshots
    BY <1>3, ViewType DEF TypeInv
  <2>2. Merged(View(s)) \in Maps /\ Merged(View(s)) # NoMap
    BY <2>1, RequestAssumption DEF Maps
  <2>. QED
    BY <1>3, <2>2 DEF InstantInv, TypeInv
<1> HIDE DEF first
<1>5. map'[r] = first /\ stage'[r] = "routing"
  BY <1>1 DEF TypeInv, TypeOK
<1>6. \A q \in Readers : q # r => Untouched(q) /\ seen'[q] = seen[q]
  BY <1>1 DEF Untouched, regVars, TypeInv, TypeOK
<1>7. TypeInv'
  <2>1. stage' \in [Readers -> Stages] /\ map' \in [Readers -> Maps]
    BY <1>1, <1>4 DEF TypeInv, TypeOK, Stages
  <2>2. \A q \in Readers :
          /\ call'[q] # "none" => stage'[q] \in {"matching", "serving"}
          /\ stage'[q] = "matching" <=> asking'[q] # NoMatch
          /\ map'[q] # NoMap => origin'[q].addr /\ origin'[q].replacer
    BY <1>1, <1>2, <1>5, <1>6 DEF Untouched, TypeInv, TypeOK, regVars, HasAddr
  <2>. QED
    BY <1>1, <2>1, <2>2 DEF TypeInv, TypeOK, HasAddr, regVars
<1>8. InstantInv(r)'
  <2>1. Told(r)' = Told(r)
    BY <1>1 DEF Told
  <2>2. \A k \in Told(r)' : map'[r] # NoMap /\ shown'[r][k] = Resolve(map'[r], k)
    BY <1>1, <1>4, <1>5, <2>1 DEF InstantInv
  <2>. QED
    BY <1>1, <1>2, <1>4, <1>5, <2>2 DEF InstantInv, regVars
<1>9. VerdictInv(r)'
  BY <1>1 DEF VerdictInv
<1>. QED
  BY <1>1, <1>6, <1>7, <1>8, <1>9, OneRequest DEF regVars

LEMMA ReadKeeps ==
  ASSUME Inv, NEW r \in Readers, NEW k \in Keys, Read(r, k)
  PROVE  Inv'
<1>. USE DEF Inv
<1> DEFINE text == IF map[r] = NoMap THEN Unknown ELSE Resolve(map[r], k)
<1>1. /\ stage[r] = "routing" /\ shown' = [shown EXCEPT ![r][k] = text]
      /\ UNCHANGED <<regVars, origin, stage, asking, verdict, map, seen, changes>>
  BY DEF Read
<1>2. text \in Shows /\ (text # Unknown => map[r] # NoMap /\ text = Resolve(map[r], k))
  BY DEF Shows, TypeInv
<1> HIDE DEF text
<1>3. TypeInv'
  BY <1>1, <1>2 DEF TypeInv, TypeOK, regVars, HasAddr
<1>4. InstantInv(r)' /\ VerdictInv(r)'
  <2>1. /\ shown'[r][k] = text /\ \A j \in Keys : j # k => shown'[r][j] = shown[r][j]
    BY <1>1 DEF TypeInv
  <2>2. \A j \in Told(r)' : map'[r] # NoMap /\ shown'[r][j] = Resolve(map'[r], j)
    BY <1>1, <1>2, <2>1 DEF InstantInv, Told
  <2>. QED
    BY <1>1, <2>2 DEF InstantInv, VerdictInv, HasAddr, regVars
<1>5. \A q \in Readers : q # r => Untouched(q) /\ seen'[q] = seen[q]
  BY <1>1 DEF Untouched, regVars, TypeInv, TypeOK
<1>. QED
  BY <1>1, <1>3, <1>4, <1>5, OneRequest DEF regVars

-----------------------------------------------------------------------------
LEMMA NextKeeps == Inv /\ [Next]_vars => Inv'
<1>. SUFFICES ASSUME Inv, [Next]_vars PROVE Inv'
  OBVIOUS
<1>1. CASE Change \/ Close
  BY <1>1, ChangeKeeps
<1>2. ASSUME NEW r \in Readers, Request(r) PROVE Inv'
  <2>1. ASSUME NEW o \in Origins, Arrive(r, o) PROVE Inv'
    BY <2>1, ArriveKeeps
  <2>2. ASSUME NEW c \in Conditions, MatchNobody(r, c) PROVE Inv'
    BY <2>2, MatchNobodyKeeps
  <2>3. ASSUME NEW c \in Conditions, MatchBegins(r, c) PROVE Inv'
    BY <2>3, MatchBeginsKeeps
  <2>4. CASE MatchEnds(r)
    BY <2>4, MatchEndsKeeps
  <2>5. CASE ServeBegins(r)
    BY <2>5, ServeBeginsKeeps
  <2>6. CASE ServeEnds(r)
    BY <2>6, ServeEndsKeeps
  <2>7. CASE LookupAll(r)
    BY <2>7, LookupAllKeeps
  <2>8. ASSUME NEW k \in Keys, Read(r, k) PROVE Inv'
    BY <2>8, ReadKeeps
  <2>9. CASE Finish(r)
    BY <2>9, FinishKeeps
  <2>. QED
    BY <1>2, <2>1, <2>2, <2>3, <2>4, <2>5, <2>6, <2>7, <2>8, <2>9 DEF Request
<1>3. CASE UNCHANGED vars
  <2>1. TypeInv'
    BY <1>3 DEF Inv, TypeInv, TypeOK, vars, regVars, reqVars, HasAddr
  <2>2. ASSUME NEW r \in Readers PROVE InstantInv(r)' /\ VerdictInv(r)'
    <3>1. Untouched(r) /\ Remembers(r)
      BY <1>3 DEF Inv, InstantInv, Untouched, Remembers, vars, regVars, reqVars
    <3>. QED
      BY <3>1, UntouchedInv DEF Inv
  <2>. QED
    BY <2>1, <2>2 DEF Inv
<1>. QED
  BY <1>1, <1>2, <1>3 DEF Next

(* The inductive invariant of requests and the registry they ask. *)
THEOREM Invariance == Spec => []Inv
<1>. QED
  BY InitInv, NextKeeps, PTL DEF Spec

(* A reader's call of LookupAll, its matcher and its replacer go together:  *)
(* nothing is registered for a request without a client IP.                 *)
THEOREM TypeCorrect == Spec => []TypeOK
<1>1. Inv => TypeOK
  BY DEF Inv, TypeInv
<1>. QED
  BY <1>1, Invariance, PTL

(* The placeholders of a request show one instant of the registry, for any  *)
(* number of databases, handlers, requests and changes meanwhile.           *)
THEOREM ShownAtOnce == Spec => []OneInstant
<1>1. ASSUME Inv PROVE OneInstant
  <2>. SUFFICES ASSUME NEW r \in Readers, stage[r] # "none"
                PROVE  \E s \in seen[r] : \A k \in Told(r) : shown[r][k] = Held(s, k)
    BY DEF OneInstant
  <2>1. InstantInv(r) /\ seen[r] \subseteq Snapshots
    BY <1>1 DEF Inv, TypeInv
  <2>2. CASE map[r] = NoMap
    BY <2>1, <2>2 DEF InstantInv
  <2>3. CASE map[r] # NoMap
    <3>1. PICK s \in seen[r] : map[r] = Merged(View(s))
      BY <2>1, <2>3 DEF InstantInv
    <3>2. ASSUME NEW k \in Told(r) PROVE shown[r][k] = Held(s, k)
      <4>1. k \in Keys /\ s \in Snapshots
        BY <2>1 DEF Told
      <4>. QED
        BY <2>1, <3>1, <4>1, MergedHolds DEF InstantInv
    <3>. QED
      BY <3>2
  <2>. QED
    BY <2>2, <2>3
<1>. QED
  BY <1>1, Invariance, PTL

(* A matcher's answer is true of one instant, whatever the conditions. *)
THEOREM MatchedAtOnce == Spec => []VerdictOfOneInstant
<1>1. ASSUME Inv PROVE VerdictOfOneInstant
  <2>. SUFFICES ASSUME NEW r \in Readers, verdict[r] # NoMatch, NEW c, c = verdict[r].conditions
                PROVE  \E s \in seen[r] :
                         verdict[r].matched <=>
                           origin[r].addr /\ \A k \in DOMAIN c :
                             HasData(s, k) /\ \E v \in c[k] : v = Held(s, k)
    BY DEF VerdictOfOneInstant
  <2>1. VerdictInv(r) /\ seen[r] \subseteq Snapshots /\ c \in Conditions
    BY <1>1 DEF Inv, TypeInv, TypeOK
  <2>2. PICK s \in seen[r] :
          verdict[r].matched <=> origin[r].addr /\ Satisfied(c, Merged(View(s)))
    BY <2>1 DEF VerdictInv
  <2>3. Satisfied(c, Merged(View(s))) <=>
          \A k \in DOMAIN c : HasData(s, k) /\ Held(s, k) \in c[k]
    BY <2>1, SatisfiedHolds
  <2>. QED
    BY <2>2, <2>3
<1>. QED
  BY <1>1, Invariance, PTL

(* While no database changes, a request is routed by what it is shown. *)
THEOREM RoutedAsShown == Spec => []MatchedAsShown
<1>1. ASSUME Inv PROVE MatchedAsShown
  <2>. SUFFICES ASSUME NEW r \in Readers, seen[r] = {served}, verdict[r] # NoMatch,
                       NEW c, c = verdict[r].conditions
                PROVE  /\ verdict[r].matched => \A k \in Told(r) \cap DOMAIN c : shown[r][k] \in c[k]
                       /\ ~verdict[r].matched /\ DOMAIN c \subseteq Told(r) =>
                            \E k \in DOMAIN c : shown[r][k] = "" \/ shown[r][k] \notin c[k]
    BY DEF MatchedAsShown
  <2>1. /\ served \in Snapshots /\ c \in Conditions /\ Told(r) \subseteq Keys
        /\ InstantInv(r) /\ VerdictInv(r)
    BY <1>1 DEF Inv, TypeInv, TypeOK, Told
  <2>2. \A k \in Told(r) : map[r] # NoMap /\ shown[r][k] = Held(served, k)
    BY <2>1, MergedHolds DEF InstantInv
  <2>3. verdict[r].matched <=>
          origin[r].addr /\ \A k \in DOMAIN c : HasData(served, k) /\ Held(served, k) \in c[k]
    BY <2>1, SatisfiedHolds DEF VerdictInv
  <2>4. ASSUME ~verdict[r].matched, DOMAIN c \subseteq Told(r)
        PROVE  \E k \in DOMAIN c : shown[r][k] = "" \/ shown[r][k] \notin c[k]
    <3>1. PICK k \in DOMAIN c : TRUE
      BY <2>1, RequestAssumption
    <3>2. origin[r].addr
      BY <1>1, <2>2, <2>4, <3>1 DEF Inv, TypeInv, TypeOK, HasAddr
    <3>3. PICK j \in DOMAIN c : ~HasData(served, j) \/ Held(served, j) \notin c[j]
      BY <2>3, <2>4, <3>2
    <3>4. shown[r][j] = Held(served, j)
      BY <2>2, <2>4
    <3>. QED
      BY <3>3, <3>4 DEF Held
  <2>5. ASSUME verdict[r].matched PROVE \A k \in Told(r) \cap DOMAIN c : shown[r][k] \in c[k]
    BY <2>2, <2>3, <2>5
  <2>. QED
    BY <2>4, <2>5
<1>. QED
  BY <1>1, Invariance, PTL

(* A placeholder that has had a value keeps it for the rest of the request, *)
(* although later handlers look up again.                                   *)
THEOREM Stay == Spec => PlaceholdersStay
<1>1. ASSUME Inv, [Next]_vars, NEW r \in Readers, stage'[r] # "none", stage[r] # "none",
             NEW k \in Told(r)
      PROVE  shown'[r][k] = shown[r][k]
  <2>1. /\ map[r] # NoMap /\ shown[r][k] = Resolve(map[r], k) /\ k \in Keys
        /\ shown \in [Readers -> [Keys -> Shows]] /\ stage \in [Readers -> Stages]
    BY <1>1 DEF Inv, InstantInv, Told, TypeInv, TypeOK
  <2>2. CASE shown' = shown
    BY <2>2
  <2>3. ASSUME NEW q \in Readers, Finish(q) PROVE shown'[r][k] = shown[r][k]
    <3>1. q # r
      BY <1>1, <2>1, <2>3 DEF Finish
    <3>. QED
      BY <2>1, <2>3, <3>1 DEF Finish
  <2>4. ASSUME NEW q \in Readers, NEW j \in Keys, Read(q, j) PROVE shown'[r][k] = shown[r][k]
    BY <2>1, <2>4 DEF Read
  <2>5. shown' = shown \/ \E q \in Readers : Finish(q) \/ \E j \in Keys : Read(q, j)
    <3>1. CASE Change \/ Close
      BY <3>1 DEF Change, Close, Recorded, reqVars
    <3>2. CASE UNCHANGED vars
      BY <3>2 DEF vars, reqVars
    <3>3. ASSUME NEW q \in Readers, Request(q)
          PROVE  shown' = shown \/ Finish(q) \/ \E j \in Keys : Read(q, j)
      BY <3>3 DEF Request, Arrive, MatchNobody, MatchBegins, MatchEnds, ServeBegins, ServeEnds,
                  LookupAll, reqVars
    <3>. QED
      BY <1>1, <3>1, <3>2, <3>3 DEF Next
  <2>. QED
    BY <2>2, <2>3, <2>4, <2>5
<1>2. Inv /\ [Next]_vars =>
        \A r \in Readers : stage'[r] # "none" /\ stage[r] # "none" =>
          \A k \in Told(r) : shown'[r][k] = shown[r][k]
  BY <1>1
<1>. QED
  BY <1>2, Invariance, PTL DEF Spec, PlaceholdersStay

=============================================================================
