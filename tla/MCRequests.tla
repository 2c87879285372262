----------------------------- MODULE MCRequests -----------------------------
(* A small instance of Records for TLC, with values of every shape. *)
EXTENDS Records, FiniteSetsExt

CONSTANTS city, asn, v1, v2, bad

Place(iso) == Map([iso_code |-> iso])

(* Two versions of a record, and a damaged one. *)
MCRecordOf ==
  v1 :> Map([subdivisions |-> Slice(<<Place(Text("ENG")), Place(Text("WLS"))>>),
             is_anonymous |-> Bool(FALSE)])
  @@ v2 :> Map([subdivisions |-> Slice(<<Nil, Place(Int64(7))>>), is_anonymous |-> Nil])
  @@ bad :> Map(<<>>)

WithChildren(S) == S \cup UNION {Children(value) : value \in S}

(* Records, places, their codes. *)
MCDecoded == WithChildren(WithChildren(WithChildren({MCRecordOf[v] : v \in Versions})))

MCDepth[value \in MCDecoded] == Max({0} \cup {1 + MCDepth[child] : child \in Children(value)})

FlatRecords == [v \in Versions |-> FieldsOf(RecordOf[v])]

Second == <<city, <<"subdivisions", "1", "iso_code">>>>
Anonymous == <<asn, <<"is_anonymous">>>>

MCKeys == {Second, Anonymous}

(* OR within a field, AND across fields, and a field that must be empty,    *)
(* which no field without data is.                                          *)
MCConditions ==
  {Second :> {"ENG", "WLS"} @@ Anonymous :> {"false"},
   Anonymous :> {"", "true"}}

=============================================================================
