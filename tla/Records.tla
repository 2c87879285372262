------------------------------- MODULE Records -------------------------------
(***************************************************************************)
(* Requests over databases whose records are nested values: the flat maps  *)
(* that requests are shown are what package internal/replacers makes of    *)
(* them.                                                                   *)
(***************************************************************************)
EXTENDS Requests, Flatten

CONSTANT RecordOf  \* [Versions -> Decoded]: the record of the client's address

ASSUME RecordAssumption ==
  /\ RecordOf \in [Versions -> Decoded]
  /\ \A k \in Keys : k[2] \in Seq(STRING)
  /\ Fields = [v \in Versions |-> FieldsOf(RecordOf[v])]

-----------------------------------------------------------------------------
(* A walk through the record, the reference for Flatten: what a path leads  *)
(* to from a value, given where its tail leads to from the children.        *)
Onward(at, value, path) ==
  CASE path = <<>> -> {value}
    [] path # <<>> /\ value.kind = "map" ->
         UNION {at[value.fields[key]][Tail(path)] :
                  key \in {k \in DOMAIN value.fields : k = Head(path)}}
    [] path # <<>> /\ value.kind = "slice" ->
         UNION {at[value.items[i]][Tail(path)] :
                  i \in {j \in DOMAIN value.items : Segment(j) = Head(path)}}
    [] OTHER -> {}

At[value \in Decoded] == [path \in Seq(STRING) |-> Onward(At, value, path)]

Leaves(value, path) == {x \in At[value][path] : x.kind \in Scalars \ {"nil"}}

Printed(x) ==
  CASE x.kind = "string" -> x.text
    [] x.kind = "int" -> ToString(x.number)
    [] x.kind = "bool" -> IF x.truth THEN "true" ELSE "false"

(* A placeholder shows the leaf of the record that its path leads to, list  *)
(* elements counted from zero, and the matcher finds a field exactly when   *)
(* its path leads to a leaf: null, absent and nested values do not count.   *)
Found(s, k) ==
  IF s[k[1]] \in Undecodable \cup {NoDB} THEN {} ELSE Leaves(RecordOf[s[k[1]]], k[2])

ShownAsStored ==
  \A r \in Readers : stage[r] # "none" =>
    /\ \E s \in seen[r] : \A k \in Told(r) :
         \/ Found(s, k) = {} /\ shown[r][k] = ""
         \/ \E x \in Found(s, k) : shown[r][k] = Printed(x)
    /\ verdict[r] # NoMatch /\ verdict[r].matched =>
         \E s \in seen[r] : \A k \in DOMAIN verdict[r].conditions : Found(s, k) # {}

=============================================================================
