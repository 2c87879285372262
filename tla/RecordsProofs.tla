---------------------------- MODULE RecordsProofs ----------------------------
(***************************************************************************)
(* Proofs about modules Flatten and Records, for records nested in any way *)
(* and to any depth: what requests are shown is what the records hold.     *)
(***************************************************************************)
EXTENDS Records, RequestsProofs, WellFoundedInduction, SequenceTheorems

(* A nonempty set of numbers has a least one. *)
LEMMA LeastNumber ==
  ASSUME NEW T, T \subseteq Nat, T # {}
  PROVE  \E n \in T : \A m \in T : n <= m
<1>1. PICK n \in T : \A m \in T : ~ (<<m, n>> \in OpToRel(<, Nat))
  BY NatLessThanWellFounded, WFMin, Zenon
<1>2. ASSUME NEW m \in T PROVE n <= m
  <2>1. ~ (<<m, n>> \in {ss \in Nat \X Nat : ss[1] < ss[2]})
    BY <1>1, Zenon DEF OpToRel
  <2>. QED
    BY <2>1
<1>. QED
  BY <1>2

LEMMA LeastDepth ==
  ASSUME NEW S, S \subseteq Decoded, S # {}
  PROVE  \E value \in S : \A other \in S : Depth[value] <= Depth[other]
<1>1. {Depth[value] : value \in S} \subseteq Nat
  BY DecodedAssumption
<1>2. PICK n \in {Depth[value] : value \in S} : \A m \in {Depth[value] : value \in S} : n <= m
  BY <1>1, LeastNumber
<1>. QED
  BY <1>2

(* Induction over values: what holds of a value if it holds of its          *)
(* children holds of all.                                                   *)
LEMMA ValueInduction ==
  ASSUME NEW S, \A value \in Decoded : Children(value) \subseteq S => value \in S
  PROVE  Decoded \subseteq S
<1>. SUFFICES ASSUME Decoded \ S # {} PROVE FALSE
  OBVIOUS
<1>1. PICK value \in Decoded \ S : \A other \in Decoded \ S : Depth[value] <= Depth[other]
  BY LeastDepth
<1>2. ASSUME NEW child \in Children(value) PROVE child \in S
  <2>1. child \in Decoded /\ Depth[child] < Depth[value]
        /\ Depth[child] \in Nat /\ Depth[value] \in Nat
    BY DecodedAssumption
  <2>. QED
    BY <1>1, <2>1
<1>. QED
  BY <1>1, <1>2

LEMMA NumberInduction ==
  ASSUME NEW S, 0 \in S, \A n \in Nat : n \in S => n + 1 \in S
  PROVE  Nat \subseteq S
<1>. SUFFICES ASSUME Nat \ S # {} PROVE FALSE
  OBVIOUS
<1>1. PICK n \in Nat \ S : \A m \in Nat \ S : n <= m
  BY LeastNumber
<1>2. n - 1 \in Nat /\ n - 1 \in S
  BY <1>1
<1>. QED
  BY <1>1, <1>2

(* Recursion over values: a step that looks at what its argument is for the *)
(* children of a value, and at nothing else, has a fixed point.             *)
ChildrenOnly(W, X) ==
  \A g, h \in [Decoded -> X], value \in Decoded :
    (\A child \in Children(value) : g[child] = h[child]) => W[g][value] = W[h][value]

LEMMA ValueRecursion ==
  ASSUME NEW X, NEW x \in X, NEW W \in [[Decoded -> X] -> [Decoded -> X]], ChildrenOnly(W, X)
  PROVE  \E f \in [Decoded -> X] : f = W[f]
<1> DEFINE Fcns == [Decoded -> X]
           Upto(n, g) == \A value \in Decoded : Depth[value] < n => g[value] = W[g][value]
<1> USE DEF ChildrenOnly
<1>1. \A value \in Decoded : Depth[value] \in Nat /\ \A child \in Children(value) :
         child \in Decoded /\ Depth[child] \in Nat /\ Depth[child] < Depth[value]
  BY DecodedAssumption
<1>2. \A g \in Fcns : W[g] \in Fcns
  OBVIOUS
<1>3. ASSUME NEW n \in Nat PROVE \E g \in Fcns : Upto(n, g)
  <2> DEFINE S == {i \in Nat : \E g \in Fcns : Upto(i, g)}
  <2>1. 0 \in S
    <3>1. [value \in Decoded |-> x] \in Fcns
      OBVIOUS
    <3>2. \A g \in Fcns : Upto(0, g)
      BY <1>1
    <3>. QED
      BY <3>1, <3>2
  <2>2. ASSUME NEW i \in Nat, i \in S PROVE i + 1 \in S
    <3>1. PICK g \in Fcns : Upto(i, g)
      BY <2>2
    <3>2. ASSUME NEW value \in Decoded, Depth[value] < i + 1
          PROVE  W[g][value] = W[W[g]][value]
      <4>1. ASSUME NEW child \in Children(value) PROVE g[child] = W[g][child]
        BY <3>1, <3>2, <1>1
      <4>. QED
        BY <4>1, <1>2
    <3>. QED
      BY <3>2, <1>2
  <2> HIDE DEF S
  <2>3. Nat \subseteq S
    BY <2>1, <2>2, NumberInduction
  <2>. QED
    BY <2>3 DEF S
<1>4. ASSUME NEW g \in Fcns, NEW h \in Fcns, NEW n \in Nat, NEW m \in Nat,
             Upto(n, g), Upto(m, h), NEW v \in Decoded, Depth[v] < n, Depth[v] < m
      PROVE  g[v] = h[v]
  <2> DEFINE S == {value \in Decoded : Depth[value] < n /\ Depth[value] < m => g[value] = h[value]}
  <2>1. ASSUME NEW value \in Decoded, Children(value) \subseteq S PROVE value \in S
    <3>. SUFFICES ASSUME Depth[value] < n, Depth[value] < m PROVE g[value] = h[value]
      OBVIOUS
    <3>1. \A child \in Children(value) : g[child] = h[child]
      BY <2>1, <1>1
    <3>2. W[g][value] = W[h][value]
      BY <3>1
    <3>. QED
      BY <3>2, <1>4
  <2> HIDE DEF S
  <2>2. Decoded \subseteq S
    BY <2>1, ValueInduction
  <2>. QED
    BY <2>2, <1>4 DEF S
<1> DEFINE A == [n \in Nat |-> CHOOSE g \in Fcns : Upto(n, g)]
           f == [value \in Decoded |-> A[Depth[value] + 1][value]]
<1> HIDE DEF Fcns, Upto
<1>5. \A n \in Nat : A[n] \in Fcns /\ Upto(n, A[n])
  BY <1>3
<1> HIDE DEF A
<1>6. f \in Fcns
  BY <1>1, <1>5 DEF Fcns
<1>7. ASSUME NEW value \in Decoded PROVE f[value] = W[f][value]
  <2> DEFINE n == Depth[value] + 1
             g == A[n]
  <2>1. n \in Nat /\ Depth[value] < n /\ g \in Fcns /\ Upto(n, g)
    BY <1>1, <1>5
  <2>2. f[value] = g[value] /\ g[value] = W[g][value]
    BY <2>1 DEF Upto
  <2>3. ASSUME NEW child \in Children(value) PROVE f[child] = g[child]
    <3>1. child \in Decoded /\ Depth[child] + 1 \in Nat /\ Depth[child] < Depth[child] + 1
          /\ Depth[child] < n
      BY <1>1
    <3>2. A[Depth[child] + 1] \in Fcns /\ Upto(Depth[child] + 1, A[Depth[child] + 1])
      BY <3>1, <1>5
    <3>3. A[Depth[child] + 1][child] = g[child]
      BY <3>1, <3>2, <2>1, <1>4
    <3>. QED
      BY <3>1, <3>3
  <2> HIDE DEF n, g, f
  <2>4. W[f][value] = W[g][value]
    BY <2>1, <2>3, <1>6 DEF Fcns
  <2>. QED
    BY <2>2, <2>4
<1>. QED
  <2> HIDE DEF f
  <2>1. W[f] \in [Decoded -> X]
    BY <1>6 DEF Fcns
  <2>2. f = W[f]
    BY <1>6, <1>7, <2>1 DEF Fcns
  <2>. QED
    BY <1>6, <2>2 DEF Fcns

-----------------------------------------------------------------------------
(* The recursive functions are what their equations say. *)

Texts == UNION {ScalarToString(value) : value \in Decoded}

FlatSets == [Seq(STRING) -> SUBSET (Seq(STRING) \X Texts)]

LEMMA EntriesTyped ==
  ASSUME NEW flatten \in [Decoded -> FlatSets], NEW value \in Decoded, NEW prefix \in Seq(STRING)
  PROVE  Entries(flatten, value, prefix) \in SUBSET (Seq(STRING) \X Texts)
<1>1. CASE value.kind = "map"
  <2>1. ASSUME NEW key \in DOMAIN value.fields
        PROVE  flatten[value.fields[key]][Append(prefix, key)] \in SUBSET (Seq(STRING) \X Texts)
    <3>1. key \in STRING /\ value.fields[key] \in Decoded
      BY <1>1, DecodedAssumption DEF Children
    <3>2. flatten[value.fields[key]] \in FlatSets /\ Append(prefix, key) \in Seq(STRING)
      BY <3>1
    <3>. QED
      BY <3>2 DEF FlatSets
  <2>2. Entries(flatten, value, prefix) =
          UNION {flatten[value.fields[key]][Append(prefix, key)] : key \in DOMAIN value.fields}
    BY <1>1 DEF Entries
  <2>. QED
    BY <2>1, <2>2
<1>2. CASE value.kind = "slice"
  <2>1. ASSUME NEW i \in DOMAIN value.items
        PROVE  flatten[value.items[i]][Append(prefix, Segment(i))] \in SUBSET (Seq(STRING) \X Texts)
    <3>1. Segment(i) \in STRING /\ value.items[i] \in Decoded
      BY <1>2, DecodedAssumption DEF Children
    <3>2. flatten[value.items[i]] \in FlatSets /\ Append(prefix, Segment(i)) \in Seq(STRING)
      BY <3>1
    <3>. QED
      BY <3>2 DEF FlatSets
  <2>2. Entries(flatten, value, prefix) =
          UNION {flatten[value.items[i]][Append(prefix, Segment(i))] : i \in DOMAIN value.items}
    BY <1>2 DEF Entries
  <2>. QED
    BY <2>1, <2>2
<1>3. CASE value.kind \in Scalars
  <2>1. Entries(flatten, value, prefix) = {<<prefix, s>> : s \in ScalarToString(value)}
    BY <1>3 DEF Entries, Scalars
  <2>2. \A s \in ScalarToString(value) : s \in Texts
    BY DEF Texts
  <2>. QED
    BY <2>1, <2>2
<1>. QED
  BY <1>1, <1>2, <1>3, DecodedAssumption

LEMMA EntriesLocal ==
  ASSUME NEW g, NEW h, NEW value \in Decoded, NEW prefix,
         \A child \in Children(value) : g[child] = h[child]
  PROVE  Entries(g, value, prefix) = Entries(h, value, prefix)
<1>1. CASE value.kind = "map"
  <2>1. \A key \in DOMAIN value.fields : g[value.fields[key]] = h[value.fields[key]]
    BY <1>1 DEF Children
  <2>. QED
    BY <1>1, <2>1 DEF Entries
<1>2. CASE value.kind = "slice"
  <2>1. \A i \in DOMAIN value.items : g[value.items[i]] = h[value.items[i]]
    BY <1>2 DEF Children
  <2>. QED
    BY <1>2, <2>1 DEF Entries
<1>3. CASE value.kind \in Scalars
  BY <1>3 DEF Entries, Scalars
<1>. QED
  BY <1>1, <1>2, <1>3, DecodedAssumption

LEMMA FlattenEquation ==
  Flatten = [value \in Decoded |-> [prefix \in Seq(STRING) |-> Entries(Flatten, value, prefix)]]
<1> DEFINE Step(g) == [value \in Decoded |-> [prefix \in Seq(STRING) |-> Entries(g, value, prefix)]]
           W == [g \in [Decoded -> FlatSets] |-> Step(g)]
<1>1. ASSUME NEW g \in [Decoded -> FlatSets] PROVE Step(g) \in [Decoded -> FlatSets]
  <2>1. ASSUME NEW value \in Decoded
        PROVE  [prefix \in Seq(STRING) |-> Entries(g, value, prefix)] \in FlatSets
    BY EntriesTyped DEF FlatSets
  <2>. QED
    BY <2>1
<1>2. ASSUME NEW g, NEW h, NEW value \in Decoded,
             \A child \in Children(value) : g[child] = h[child]
      PROVE  Step(g)[value] = Step(h)[value]
  <2>1. \A prefix \in Seq(STRING) : Entries(g, value, prefix) = Entries(h, value, prefix)
    BY <1>2, EntriesLocal
  <2>. QED
    BY <2>1
<1> HIDE DEF Step
<1>3. W \in [[Decoded -> FlatSets] -> [Decoded -> FlatSets]]
  BY <1>1
<1>4. ChildrenOnly(W, FlatSets)
  BY <1>2 DEF ChildrenOnly
<1>5. PICK x \in FlatSets : x = [prefix \in Seq(STRING) |-> {}]
  BY DEF FlatSets
<1> HIDE DEF W
<1>6. \E f \in [Decoded -> FlatSets] : f = W[f]
  BY <1>3, <1>4, <1>5, ValueRecursion
<1>7. PICK f \in [Decoded -> FlatSets] : f = Step(f)
  BY <1>6 DEF W
<1>. QED
  BY <1>7 DEF Flatten, Step

LEMMA FlattenUnfolds ==
  ASSUME NEW value \in Decoded, NEW prefix \in Seq(STRING)
  PROVE  Flatten[value][prefix] = Entries(Flatten, value, prefix)
<1>1. Flatten[value] = [p \in Seq(STRING) |-> Entries(Flatten, value, p)]
  BY FlattenEquation
<1>. QED
  BY <1>1

Walks == [Seq(STRING) -> SUBSET Decoded]

LEMMA OnwardTyped ==
  ASSUME NEW at \in [Decoded -> Walks], NEW value \in Decoded, NEW path \in Seq(STRING)
  PROVE  Onward(at, value, path) \in SUBSET Decoded
<1>1. CASE path = <<>>
  BY <1>1 DEF Onward
<1>2. CASE path # <<>> /\ value.kind = "map"
  <2>1. ASSUME NEW key \in {k \in DOMAIN value.fields : k = Head(path)}
        PROVE  at[value.fields[key]][Tail(path)] \in SUBSET Decoded
    <3>1. at[value.fields[key]] \in Walks /\ Tail(path) \in Seq(STRING)
      BY <1>2, DecodedAssumption DEF Children
    <3>. QED
      BY <3>1 DEF Walks
  <2>2. Onward(at, value, path) =
          UNION {at[value.fields[key]][Tail(path)] : key \in {k \in DOMAIN value.fields : k = Head(path)}}
    BY <1>2 DEF Onward
  <2>. QED
    BY <2>1, <2>2
<1>3. CASE path # <<>> /\ value.kind = "slice"
  <2>1. ASSUME NEW i \in {j \in DOMAIN value.items : Segment(j) = Head(path)}
        PROVE  at[value.items[i]][Tail(path)] \in SUBSET Decoded
    <3>1. at[value.items[i]] \in Walks /\ Tail(path) \in Seq(STRING)
      BY <1>3, DecodedAssumption DEF Children
    <3>. QED
      BY <3>1 DEF Walks
  <2>2. Onward(at, value, path) =
          UNION {at[value.items[i]][Tail(path)] : i \in {j \in DOMAIN value.items : Segment(j) = Head(path)}}
    BY <1>3 DEF Onward
  <2>. QED
    BY <2>1, <2>2
<1>4. CASE path # <<>> /\ value.kind \in Scalars
  BY <1>4 DEF Onward, Scalars
<1>. QED
  BY <1>1, <1>2, <1>3, <1>4, DecodedAssumption

LEMMA OnwardLocal ==
  ASSUME NEW g, NEW h, NEW value \in Decoded, NEW path,
         \A child \in Children(value) : g[child] = h[child]
  PROVE  Onward(g, value, path) = Onward(h, value, path)
<1>1. CASE value.kind = "map"
  <2>1. \A key \in DOMAIN value.fields : g[value.fields[key]] = h[value.fields[key]]
    BY <1>1 DEF Children
  <2>. QED
    BY <1>1, <2>1 DEF Onward
<1>2. CASE value.kind = "slice"
  <2>1. \A i \in DOMAIN value.items : g[value.items[i]] = h[value.items[i]]
    BY <1>2 DEF Children
  <2>. QED
    BY <1>2, <2>1 DEF Onward
<1>3. CASE value.kind \in Scalars
  BY <1>3 DEF Onward, Scalars
<1>. QED
  BY <1>1, <1>2, <1>3, DecodedAssumption

LEMMA AtEquation ==
  At = [value \in Decoded |-> [path \in Seq(STRING) |-> Onward(At, value, path)]]
<1> DEFINE Step(g) == [value \in Decoded |-> [path \in Seq(STRING) |-> Onward(g, value, path)]]
           W == [g \in [Decoded -> Walks] |-> Step(g)]
<1>1. ASSUME NEW g \in [Decoded -> Walks] PROVE Step(g) \in [Decoded -> Walks]
  <2>1. ASSUME NEW value \in Decoded
        PROVE  [path \in Seq(STRING) |-> Onward(g, value, path)] \in Walks
    BY OnwardTyped DEF Walks
  <2>. QED
    BY <2>1
<1>2. ASSUME NEW g, NEW h, NEW value \in Decoded,
             \A child \in Children(value) : g[child] = h[child]
      PROVE  Step(g)[value] = Step(h)[value]
  <2>1. \A path \in Seq(STRING) : Onward(g, value, path) = Onward(h, value, path)
    BY <1>2, OnwardLocal
  <2>. QED
    BY <2>1
<1> HIDE DEF Step
<1>3. W \in [[Decoded -> Walks] -> [Decoded -> Walks]]
  BY <1>1
<1>4. ChildrenOnly(W, Walks)
  BY <1>2 DEF ChildrenOnly
<1>5. PICK x \in Walks : x = [path \in Seq(STRING) |-> {}]
  BY DEF Walks
<1> HIDE DEF W
<1>6. \E f \in [Decoded -> Walks] : f = W[f]
  BY <1>3, <1>4, <1>5, ValueRecursion
<1>7. PICK f \in [Decoded -> Walks] : f = Step(f)
  BY <1>6 DEF W
<1>. QED
  BY <1>7 DEF At, Step

LEMMA AtUnfolds ==
  ASSUME NEW value \in Decoded, NEW path \in Seq(STRING)
  PROVE  At[value][path] = Onward(At, value, path)
<1>1. At[value] = [p \in Seq(STRING) |-> Onward(At, value, p)]
  BY AtEquation
<1>. QED
  BY <1>1

-----------------------------------------------------------------------------
(* Flatten against the walk. *)

LEMMA PathsJoin ==
  ASSUME NEW S, NEW prefix \in Seq(S), NEW path \in Seq(S)
  PROVE  /\ prefix \o <<>> = prefix /\ <<>> \o path = path
         /\ path # <<>> =>
              /\ Head(path) \in S /\ Tail(path) \in Seq(S)
              /\ prefix \o path = Append(prefix, Head(path)) \o Tail(path)
         /\ \A s \in S : /\ <<s>> \o path \in Seq(S) /\ <<s>> \o path # <<>>
                         /\ Head(<<s>> \o path) = s /\ Tail(<<s>> \o path) = path
<1>1. prefix \o <<>> = prefix /\ <<>> \o path = path
  OBVIOUS
<1>2. ASSUME path # <<>>
      PROVE  /\ Head(path) \in S /\ Tail(path) \in Seq(S)
             /\ prefix \o path = Append(prefix, Head(path)) \o Tail(path)
  <2>1. Head(path) \in S /\ Tail(path) \in Seq(S)
    BY <1>2
  <2> DEFINE a == prefix \o path
             b == Append(prefix, Head(path)) \o Tail(path)
  <2>2. a \in Seq(S) /\ b \in Seq(S) /\ Len(a) = Len(b)
    BY <1>2, <2>1
  <2>3. \A i \in 1 .. Len(a) : a[i] = b[i]
    BY <1>2, <2>1
  <2> HIDE DEF a, b
  <2>4. a = b
    BY <2>2, <2>3, SeqEqual
  <2>. QED
    BY <2>1, <2>4 DEF a, b
<1>3. ASSUME NEW s \in S
      PROVE  /\ <<s>> \o path \in Seq(S) /\ <<s>> \o path # <<>>
             /\ Head(<<s>> \o path) = s /\ Tail(<<s>> \o path) = path
  <2>1. <<s>> \in Seq(S) /\ Len(<<s>>) = 1 /\ <<s>>[1] = s
    OBVIOUS
  <2> DEFINE q == <<s>> \o path
  <2>2. /\ q \in Seq(S) /\ Len(q) = Len(path) + 1 /\ q[1] = s
        /\ \A i \in 1 .. Len(path) : q[i + 1] = path[i]
    BY <2>1
  <2> HIDE DEF q
  <2>3. q # <<>> /\ Head(q) = s /\ Tail(q) \in Seq(S) /\ Len(Tail(q)) = Len(path)
    BY <2>2
  <2>4. \A i \in 1 .. Len(path) : Tail(q)[i] = path[i]
    BY <2>2, <2>3
  <2>5. Tail(q) = path
    BY <2>3, <2>4, SeqEqual
  <2>. QED
    BY <2>2, <2>3, <2>5 DEF q
<1>. QED
  BY <1>1, <1>2, <1>3

(* A path with a value's leaf at its end. *)
Leads(value, prefix, entry) ==
  \E path \in Seq(STRING) : \E x \in Leaves(value, path) : entry = <<prefix \o path, Printed(x)>>

LEMMA ScalarLeads ==
  ASSUME NEW value \in Decoded, value.kind \in Scalars, NEW prefix \in Seq(STRING), NEW entry
  PROVE  entry \in Flatten[value][prefix] <=> Leads(value, prefix, entry)
<1>1. Flatten[value][prefix] = {<<prefix, s>> : s \in ScalarToString(value)}
  BY FlattenUnfolds DEF Entries, Scalars
<1>2. \A path \in Seq(STRING) : At[value][path] = IF path = <<>> THEN {value} ELSE {}
  BY AtUnfolds DEF Onward, Scalars
<1>3. \A path \in Seq(STRING) :
        Leaves(value, path) = IF path = <<>> /\ value.kind # "nil" THEN {value} ELSE {}
  BY <1>2 DEF Leaves
<1>4. ScalarToString(value) = IF value.kind = "nil" THEN {} ELSE {Printed(value)}
  BY DEF ScalarToString, Printed, Scalars
<1>5. prefix \o <<>> = prefix /\ <<>> \in Seq(STRING)
  BY PathsJoin
<1>6. Leads(value, prefix, entry) <=> value.kind # "nil" /\ entry = <<prefix, Printed(value)>>
  BY <1>3, <1>5 DEF Leads
<1>. QED
  BY <1>1, <1>4, <1>6

Faithful(value, entry) ==
  \A prefix \in Seq(STRING) : entry \in Flatten[value][prefix] <=> Leads(value, prefix, entry)

(* A map or slice: its children by their positions, and the segments that   *)
(* stand for these in paths.                                                *)
Nests(value, Positions, child, segment) ==
  /\ value.kind \notin Scalars
  /\ \A i \in Positions : segment[i] \in STRING /\ child[i] \in Decoded
  /\ \A prefix \in Seq(STRING) :
       Flatten[value][prefix] =
         UNION {Flatten[child[i]][Append(prefix, segment[i])] : i \in Positions}
  /\ \A path \in Seq(STRING) \ {<<>>} :
       At[value][path] =
         UNION {At[child[i]][Tail(path)] : i \in {j \in Positions : segment[j] = Head(path)}}
  /\ At[value][<<>>] = {value}

LEMMA NestedFaithful ==
  ASSUME NEW value \in Decoded, NEW entry, NEW Positions, NEW child, NEW segment,
         Nests(value, Positions, child, segment),
         \A i \in Positions : Faithful(child[i], entry)
  PROVE  Faithful(value, entry)
<1>. SUFFICES ASSUME NEW prefix \in Seq(STRING)
              PROVE  entry \in Flatten[value][prefix] <=> Leads(value, prefix, entry)
  BY DEF Faithful
<1> USE DEF Nests, Faithful
<1>1. ASSUME entry \in Flatten[value][prefix] PROVE Leads(value, prefix, entry)
  <2>1. PICK i \in Positions : entry \in Flatten[child[i]][Append(prefix, segment[i])]
    BY <1>1
  <2>2. segment[i] \in STRING /\ Append(prefix, segment[i]) \in Seq(STRING)
    OBVIOUS
  <2>3. Leads(child[i], Append(prefix, segment[i]), entry)
    BY <2>1, <2>2
  <2>4. PICK rest \in Seq(STRING) : \E x \in Leaves(child[i], rest) :
          entry = <<Append(prefix, segment[i]) \o rest, Printed(x)>>
    BY <2>3 DEF Leads
  <2>5. PICK x \in Leaves(child[i], rest) :
          entry = <<Append(prefix, segment[i]) \o rest, Printed(x)>>
    BY <2>4
  <2> DEFINE path == <<segment[i]>> \o rest
  <2>6. /\ path \in Seq(STRING) /\ path # <<>>
        /\ Head(path) = segment[i] /\ Tail(path) = rest
    BY <2>2, PathsJoin
  <2> HIDE DEF path
  <2>7. prefix \o path = Append(prefix, segment[i]) \o rest
    <3>1. prefix \o path = Append(prefix, Head(path)) \o Tail(path)
      BY <2>6, PathsJoin
    <3>. QED
      BY <2>6, <3>1
  <2>8. x \in At[value][path]
    <3>1. x \in At[child[i]][Tail(path)]
      BY <2>5, <2>6 DEF Leaves
    <3>. QED
      BY <2>6, <3>1
  <2>9. x \in Leaves(value, path)
    BY <2>5, <2>8 DEF Leaves
  <2>. QED
    BY <2>5, <2>6, <2>7, <2>9 DEF Leads
<1>2. ASSUME Leads(value, prefix, entry) PROVE entry \in Flatten[value][prefix]
  <2>0. PICK path \in Seq(STRING) : \E x \in Leaves(value, path) :
          entry = <<prefix \o path, Printed(x)>>
    BY <1>2 DEF Leads
  <2>1. PICK x \in Leaves(value, path) : entry = <<prefix \o path, Printed(x)>>
    BY <2>0
  <2>2. path # <<>>
    BY <2>1 DEF Leaves
  <2>3. PICK i \in Positions : segment[i] = Head(path) /\ x \in At[child[i]][Tail(path)]
    BY <2>1, <2>2 DEF Leaves
  <2>4. Tail(path) \in Seq(STRING) /\ prefix \o path = Append(prefix, segment[i]) \o Tail(path)
    BY <2>2, <2>3, PathsJoin
  <2>5. x \in Leaves(child[i], Tail(path)) /\ Append(prefix, segment[i]) \in Seq(STRING)
    BY <2>1, <2>3 DEF Leaves
  <2>6. Leads(child[i], Append(prefix, segment[i]), entry)
    BY <2>1, <2>4, <2>5 DEF Leads
  <2>7. entry \in Flatten[child[i]][Append(prefix, segment[i])]
    BY <2>5, <2>6
  <2>. QED
    BY <2>7
<1>. QED
  BY <1>1, <1>2

LEMMA RootIsValue ==
  ASSUME NEW value \in Decoded
  PROVE  At[value][<<>>] = {value}
<1>1. <<>> \in Seq(STRING)
  OBVIOUS
<1>2. At[value][<<>>] = Onward(At, value, <<>>)
  BY <1>1, AtUnfolds
<1>. QED
  BY <1>2 DEF Onward

LEMMA MapNests ==
  ASSUME NEW value \in Decoded, value.kind = "map"
  PROVE  Nests(value, DOMAIN value.fields, value.fields, [key \in DOMAIN value.fields |-> key])
<1> DEFINE segment == [key \in DOMAIN value.fields |-> key]
<1>1. \A key \in DOMAIN value.fields :
        segment[key] = key /\ key \in STRING /\ value.fields[key] \in Decoded
  BY DecodedAssumption DEF Children
<1>2. ASSUME NEW prefix \in Seq(STRING)
      PROVE  Flatten[value][prefix] =
               UNION {Flatten[value.fields[key]][Append(prefix, key)] : key \in DOMAIN value.fields}
  BY FlattenUnfolds DEF Entries
<1>3. ASSUME NEW path \in Seq(STRING) \ {<<>>}
      PROVE  At[value][path] = UNION {At[value.fields[key]][Tail(path)] :
                                 key \in {k \in DOMAIN value.fields : k = Head(path)}}
  BY AtUnfolds DEF Onward
<1>4. At[value][<<>>] = {value} /\ value.kind \notin Scalars
  BY RootIsValue DEF Scalars
<1> HIDE DEF segment
<1>5. Nests(value, DOMAIN value.fields, value.fields, segment)
  BY <1>1, <1>2, <1>3, <1>4 DEF Nests
<1>. QED
  BY <1>5 DEF segment

LEMMA SliceNests ==
  ASSUME NEW value \in Decoded, value.kind = "slice"
  PROVE  Nests(value, DOMAIN value.items, value.items, [i \in DOMAIN value.items |-> Segment(i)])
<1> DEFINE segment == [i \in DOMAIN value.items |-> Segment(i)]
<1>1. \A i \in DOMAIN value.items :
        segment[i] = Segment(i) /\ Segment(i) \in STRING /\ value.items[i] \in Decoded
  BY DecodedAssumption DEF Children
<1>2. ASSUME NEW prefix \in Seq(STRING)
      PROVE  Flatten[value][prefix] =
               UNION {Flatten[value.items[i]][Append(prefix, Segment(i))] : i \in DOMAIN value.items}
  BY FlattenUnfolds DEF Entries
<1>3. ASSUME NEW path \in Seq(STRING) \ {<<>>}
      PROVE  At[value][path] = UNION {At[value.items[i]][Tail(path)] :
                                 i \in {j \in DOMAIN value.items : Segment(j) = Head(path)}}
  BY AtUnfolds DEF Onward
<1>4. At[value][<<>>] = {value} /\ value.kind \notin Scalars
  BY RootIsValue DEF Scalars
<1> HIDE DEF segment
<1>5. Nests(value, DOMAIN value.items, value.items, segment)
  BY <1>1, <1>2, <1>3, <1>4 DEF Nests
<1>. QED
  BY <1>5 DEF segment

(* No two leaves of a record have one path, so that the flat map does not   *)
(* depend on the order in which Go ranges over maps.                        *)
THEOREM OneLeafPerPath ==
  \A record \in Decoded, path \in Seq(STRING) :
    \A x, y \in Leaves(record, path) : x = y
<1> DEFINE Single == {value \in Decoded : \A path \in Seq(STRING) : \A x, y \in At[value][path] : x = y}
<1>1. ASSUME NEW value \in Decoded, Children(value) \subseteq Single,
             NEW path \in Seq(STRING), NEW x \in At[value][path], NEW y \in At[value][path]
      PROVE  x = y
  <2>1. CASE path = <<>>
    BY <1>1, <2>1, RootIsValue
  <2>2. CASE path # <<>> /\ value.kind \in Scalars
    BY <1>1, <2>2, AtUnfolds DEF Onward, Scalars
  <2>3. CASE path # <<>> /\ value.kind = "map"
    <3>1. At[value][path] = UNION {At[value.fields[key]][Tail(path)] :
                              key \in {k \in DOMAIN value.fields : k = Head(path)}}
      BY <2>3, AtUnfolds DEF Onward
    <3>2. PICK key \in DOMAIN value.fields :
            x \in At[value.fields[key]][Tail(path)] /\ y \in At[value.fields[key]][Tail(path)]
      BY <1>1, <3>1
    <3>3. value.fields[key] \in Single /\ Tail(path) \in Seq(STRING)
      BY <1>1, <2>3 DEF Children
    <3>. QED
      BY <3>2, <3>3
  <2>4. CASE path # <<>> /\ value.kind = "slice"
    <3>1. At[value][path] = UNION {At[value.items[i]][Tail(path)] :
                              i \in {j \in DOMAIN value.items : Segment(j) = Head(path)}}
      BY <2>4, AtUnfolds DEF Onward
    <3>2. \A i, j \in DOMAIN value.items : Segment(i) = Segment(j) => i = j
      BY <2>4, DecodedAssumption
    <3>3. PICK i \in DOMAIN value.items :
            x \in At[value.items[i]][Tail(path)] /\ y \in At[value.items[i]][Tail(path)]
      BY <1>1, <3>1, <3>2
    <3>4. value.items[i] \in Single /\ Tail(path) \in Seq(STRING)
      BY <1>1, <2>4 DEF Children
    <3>. QED
      BY <3>3, <3>4
  <2>. QED
    BY <2>1, <2>2, <2>3, <2>4, DecodedAssumption
<1>2. Decoded \subseteq Single
  <2>1. \A value \in Decoded : Children(value) \subseteq Single => value \in Single
    BY <1>1
  <2> HIDE DEF Single
  <2>. QED
    BY <2>1, ValueInduction
<1>. QED
  BY <1>2 DEF Leaves

(* Flatten gives a value's leaves with the paths that lead to them, and     *)
(* nothing else.                                                            *)
THEOREM FlattenIsWalk ==
  ASSUME NEW entry
  PROVE  \A value \in Decoded : Faithful(value, entry)
<1> DEFINE Right == {value \in Decoded : Faithful(value, entry)}
<1>1. ASSUME NEW value \in Decoded, Children(value) \subseteq Right
      PROVE  Faithful(value, entry)
  <2>1. CASE value.kind \in Scalars
    BY <2>1, ScalarLeads DEF Faithful
  <2>2. CASE value.kind = "map"
    <3>1. \A key \in DOMAIN value.fields : Faithful(value.fields[key], entry)
      BY <1>1, <2>2 DEF Children
    <3>. QED
      BY <2>2, <3>1, MapNests, NestedFaithful
  <2>3. CASE value.kind = "slice"
    <3>1. \A i \in DOMAIN value.items : Faithful(value.items[i], entry)
      BY <1>1, <2>3 DEF Children
    <3>. QED
      BY <2>3, <3>1, SliceNests, NestedFaithful
  <2>. QED
    BY <2>1, <2>2, <2>3, DecodedAssumption
<1>2. Decoded \subseteq Right
  <2>1. \A value \in Decoded : Children(value) \subseteq Right => value \in Right
    BY <1>1
  <2> HIDE DEF Right
  <2>. QED
    BY <2>1, ValueInduction
<1>. QED
  BY <1>2

(* The flat map of a record: a field for each path with a leaf at its end.  *)
THEOREM FieldsAreLeaves ==
  ASSUME NEW record \in Decoded, NEW path \in Seq(STRING)
  PROVE  /\ path \in DOMAIN FieldsOf(record) <=> Leaves(record, path) # {}
         /\ Leaves(record, path) # {} =>
              \E x \in Leaves(record, path) : FieldsOf(record)[path] = Printed(x)
<1> DEFINE entries == Flatten[record][<<>>]
<1>1. <<>> \in Seq(STRING) /\ \A q \in Seq(STRING) : <<>> \o q = q
  BY PathsJoin
<1>2. ASSUME NEW e
      PROVE  e \in entries <=> \E q \in Seq(STRING) : \E x \in Leaves(record, q) : e = <<q, Printed(x)>>
  <2>1. e \in entries <=> Leads(record, <<>>, e)
    BY <1>1, FlattenIsWalk DEF Faithful
  <2>. QED
    BY <2>1, <1>1 DEF Leads
<1> HIDE DEF entries
<1>3. FieldsOf(record) = [q \in {e[1] : e \in entries} |-> (CHOOSE e \in entries : e[1] = q)[2]]
  BY DEF FieldsOf, entries
<1>4. path \in {e[1] : e \in entries} <=> Leaves(record, path) # {}
  <2>1. ASSUME NEW e \in entries, e[1] = path PROVE Leaves(record, path) # {}
    BY <1>2, <2>1
  <2>2. ASSUME NEW x \in Leaves(record, path) PROVE \E e \in entries : e[1] = path
    <3>1. <<path, Printed(x)>> \in entries
      BY <1>2
    <3>. QED
      BY <3>1
  <2>. QED
    BY <2>1, <2>2
<1>5. ASSUME Leaves(record, path) # {}
      PROVE  \E x \in Leaves(record, path) : FieldsOf(record)[path] = Printed(x)
  <2> DEFINE chosen == CHOOSE e \in entries : e[1] = path
  <2>1. \E e \in entries : e[1] = path
    BY <1>4, <1>5
  <2>2. chosen \in entries /\ chosen[1] = path
    BY <2>1
  <2>3. FieldsOf(record)[path] = chosen[2]
    BY <1>3, <1>4, <1>5
  <2> HIDE DEF chosen
  <2>4. PICK q \in Seq(STRING) : \E x \in Leaves(record, q) : chosen = <<q, Printed(x)>>
    BY <1>2, <2>2
  <2>5. q = path
    BY <2>2, <2>4
  <2>. QED
    BY <2>3, <2>4, <2>5
<1>. QED
  BY <1>3, <1>4, <1>5

LEMMA HeldIsFound ==
  ASSUME NEW s \in Snapshots, NEW k \in Keys
  PROVE  /\ HasData(s, k) <=> Found(s, k) # {}
         /\ Found(s, k) = {} => Held(s, k) = ""
         /\ Found(s, k) # {} => \E x \in Found(s, k) : Held(s, k) = Printed(x)
<1>1. k[1] \in Databases /\ k[2] \in Seq(STRING)
  BY RequestAssumption, RecordAssumption
<1>2. CASE s[k[1]] \in Undecodable \cup {NoDB}
  BY <1>2 DEF HasData, Held, Found
<1>3. CASE s[k[1]] \notin Undecodable \cup {NoDB}
  <2>1. s[k[1]] \in Versions
    BY <1>1, <1>3 DEF Snapshots
  <2>2. RecordOf[s[k[1]]] \in Decoded /\ Fields[s[k[1]]] = FieldsOf(RecordOf[s[k[1]]])
    BY <2>1, RecordAssumption
  <2>3. Found(s, k) = Leaves(RecordOf[s[k[1]]], k[2])
    BY <1>3 DEF Found
  <2>4. HasData(s, k) <=> k[2] \in DOMAIN FieldsOf(RecordOf[s[k[1]]])
    BY <1>3, <2>2 DEF HasData
  <2>5. HasData(s, k) <=> Found(s, k) # {}
    BY <1>1, <2>2, <2>3, <2>4, FieldsAreLeaves
  <2>6. CASE Found(s, k) = {}
    BY <2>5, <2>6 DEF Held
  <2>7. CASE Found(s, k) # {}
    <3>1. Held(s, k) = FieldsOf(RecordOf[s[k[1]]])[k[2]]
      BY <2>2, <2>5, <2>7 DEF Held
    <3> DEFINE record == RecordOf[s[k[1]]]
               path == k[2]
    <3>2. record \in Decoded /\ path \in Seq(STRING) /\ Leaves(record, path) # {}
      BY <1>1, <2>2, <2>3, <2>7
    <3>3. \E x \in Leaves(record, path) : FieldsOf(record)[path] = Printed(x)
      <4> HIDE DEF record, path
      <4>. QED
        BY <3>2, FieldsAreLeaves
    <3>. QED
      BY <2>3, <2>5, <2>7, <3>1, <3>3
  <2>. QED
    BY <2>5, <2>6, <2>7
<1>. QED
  BY <1>2, <1>3

-----------------------------------------------------------------------------
(* A placeholder shows the leaf of the nested record that its path leads    *)
(* to, and nothing if there is none; and a matcher matches only if every    *)
(* one of its fields leads to a leaf.                                       *)
THEOREM ShownFromRecords == Spec => []ShownAsStored
<1>1. ASSUME Inv, OneInstant, VerdictOfOneInstant PROVE ShownAsStored
  <2>. SUFFICES ASSUME NEW r \in Readers, stage[r] # "none"
       PROVE  /\ \E s \in seen[r] : \A k \in Told(r) :
                   \/ Found(s, k) = {} /\ shown[r][k] = ""
                   \/ \E x \in Found(s, k) : shown[r][k] = Printed(x)
              /\ verdict[r] # NoMatch /\ verdict[r].matched =>
                   \E s \in seen[r] : \A k \in DOMAIN verdict[r].conditions : Found(s, k) # {}
    BY DEF ShownAsStored
  <2>1. seen[r] \subseteq Snapshots /\ Told(r) \subseteq Keys
    BY <1>1 DEF Inv, TypeInv, Told
  <2>2. \E s \in seen[r] : \A k \in Told(r) :
          \/ Found(s, k) = {} /\ shown[r][k] = ""
          \/ \E x \in Found(s, k) : shown[r][k] = Printed(x)
    <3>1. PICK s \in seen[r] : \A k \in Told(r) : shown[r][k] = Held(s, k)
      BY <1>1 DEF OneInstant
    <3>2. ASSUME NEW k \in Told(r)
          PROVE  \/ Found(s, k) = {} /\ shown[r][k] = ""
                 \/ \E x \in Found(s, k) : shown[r][k] = Printed(x)
      BY <2>1, <3>1, HeldIsFound
    <3>. QED
      BY <3>2
  <2>3. ASSUME verdict[r] # NoMatch, verdict[r].matched
        PROVE  \E s \in seen[r] : \A k \in DOMAIN verdict[r].conditions : Found(s, k) # {}
    <3>1. DOMAIN verdict[r].conditions \subseteq Keys
      <4>1. verdict[r] \in [conditions : Conditions, matched : BOOLEAN]
        BY <1>1, <2>3 DEF Inv, TypeInv, TypeOK
      <4>2. verdict[r].conditions \in Conditions
        BY <4>1
      <4>. QED
        BY <4>2, RequestAssumption
    <3>2. PICK s \in seen[r] : \A k \in DOMAIN verdict[r].conditions : HasData(s, k)
      BY <1>1, <2>3 DEF VerdictOfOneInstant
    <3>. QED
      BY <2>1, <3>1, <3>2, HeldIsFound
  <2>. QED
    BY <2>2, <2>3
<1>. QED
  BY <1>1, Invariance, ShownAtOnce, MatchedAtOnce, PTL

=============================================================================
