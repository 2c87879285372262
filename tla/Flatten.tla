------------------------------- MODULE Flatten -------------------------------
(***************************************************************************)
(* Package internal/replacers: the record that an mmdb file holds for an   *)
(* address, maps and slices nested at will, becomes a flat map from paths  *)
(* to strings.  A path is a sequence of segments, which the code joins     *)
(* with dots; the keys of the editions' records hold none.                 *)
(***************************************************************************)
EXTENDS Integers, Sequences, TLC

CONSTANTS
  Decoded,  \* the values that records are made of
  Depth     \* [Decoded -> Nat]: how deep each one is nested

(* A decoded value: a map by its keys, a slice by position; an integer; a   *)
(* string (text, bytes, floats and big.Int print as they are); a Boolean;   *)
(* or anything else, of which nil is the one that occurs.                   *)
Map(fields) == [kind |-> "map", fields |-> fields]
Slice(items) == [kind |-> "slice", items |-> items]
Int64(n) == [kind |-> "int", number |-> n]
Text(s) == [kind |-> "string", text |-> s]
Bool(b) == [kind |-> "bool", truth |-> b]
Nil == [kind |-> "nil"]

Scalars == {"int", "string", "bool", "nil"}

(* A segment of a path: a key, or what strconv.Itoa makes of a position.    *)
Segment(i) == ToString(i - 1)

Children(value) ==
  CASE value.kind = "map" -> {value.fields[key] : key \in DOMAIN value.fields}
    [] value.kind = "slice" -> {value.items[i] : i \in DOMAIN value.items}
    [] OTHER -> {}

(* The decoder builds values from the leaves up, so none contains itself.   *)
ASSUME DecodedAssumption ==
  /\ Depth \in [Decoded -> Nat]
  /\ \A value \in Decoded :
       /\ value.kind \in Scalars \cup {"map", "slice"}
       /\ value.kind = "map" => DOMAIN value.fields \subseteq STRING
       /\ value.kind = "slice" =>
            \A i, j \in DOMAIN value.items :
              Segment(i) \in STRING /\ (Segment(i) = Segment(j) => i = j)
       /\ \A child \in Children(value) : child \in Decoded /\ Depth[child] < Depth[value]

-----------------------------------------------------------------------------
(* The string of a scalar, none for nil. *)
ScalarToString(v) ==
  CASE v.kind = "string" -> {v.text}
    [] v.kind = "int" -> {ToString(v.number)}
    [] v.kind = "bool" -> {IF v.truth THEN "true" ELSE "false"}
    [] v.kind = "nil" -> {}

(* Mutant of Entries: slices are indexed from one. *)
EntriesFromOne(flatten, value, prefix) ==
  CASE value.kind = "map" ->
         UNION {flatten[value.fields[key]][Append(prefix, key)] : key \in DOMAIN value.fields}
    [] value.kind = "slice" ->
         UNION {flatten[value.items[i]][Append(prefix, Segment(i + 1))] : i \in DOMAIN value.items}
    [] OTHER -> {<<prefix, s>> : s \in ScalarToString(value)}

(* The entries, pairs of a path and a string, that value adds to dst, given *)
(* those that its children add.                                             *)
Entries(flatten, value, prefix) ==
  CASE value.kind = "map" ->
         UNION {flatten[value.fields[key]][Append(prefix, key)] : key \in DOMAIN value.fields}
    [] value.kind = "slice" ->
         UNION {flatten[value.items[i]][Append(prefix, Segment(i))] : i \in DOMAIN value.items}
    [] OTHER -> {<<prefix, s>> : s \in ScalarToString(value)}

Flatten[value \in Decoded] == [prefix \in Seq(STRING) |-> Entries(Flatten, value, prefix)]

(* dst, which was empty. *)
FieldsOf(record) ==
  LET entries == Flatten[record][<<>>]
  IN [path \in {e[1] : e \in entries} |-> (CHOOSE e \in entries : e[1] = path)[2]]

=============================================================================
