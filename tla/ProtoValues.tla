----------------------------- MODULE ProtoValues -----------------------------
(***************************************************************************)
(* The conversion of job arguments to google.protobuf.Value and back       *)
(* (src/src/transport/grpc.ts).  A scalar is its type and whether it is    *)
(* the type's zero value ("", 0 or false); the values of an object are     *)
(* kept in the order of its keys.                                          *)
(***************************************************************************)
EXTENDS Integers, SequencesExt

CONSTANTS
  MaxDepth,  \* bound: how deep arrays and objects nest
  MaxItems   \* bound: their length

ASSUME ProtoValuesAssumption == {MaxDepth, MaxItems} \subseteq Nat

Null    == [kind |-> "null", zero |-> FALSE]
Scalars == [kind : {"string", "number", "boolean"}, zero : BOOLEAN]

\* The values that nest at most n deep.
Level[n \in 0..MaxDepth] ==
  IF n = 0 THEN {Null} \cup Scalars
  ELSE Level[n - 1] \cup [kind : {"array", "object"}, items : BoundedSeq(Level[n - 1], MaxItems)]

Values == Level[MaxDepth]

Field == [null   |-> "nullValue",
          string |-> "stringValue",
          number |-> "numberValue",
          boolean |-> "boolValue",
          array  |-> "listValue",
          object |-> "structValue"]

toProtoValue[v \in Values] ==
  IF v.kind \in {"array", "object"}
  THEN [field |-> Field[v.kind], items |-> [i \in DOMAIN v.items |-> toProtoValue[v.items[i]]]]
  ELSE [field |-> Field[v.kind], zero |-> v.zero]

\* The arguments as they are sent.
WireValues == {toProtoValue[v] : v \in Values}

\* The kind of value whose field is set.
KindOf(p) == CHOOSE k \in DOMAIN Field : Field[k] = p.field

\* A scalar that is the zero value of its type passes for an unset one.
fromProtoValue[p \in WireValues] ==
  IF KindOf(p) \in {"array", "object"}
  THEN [kind |-> KindOf(p), items |-> [i \in DOMAIN p.items |-> fromProtoValue[p.items[i]]]]
  ELSE IF KindOf(p) = "null" \/ p.zero
       THEN Null
       ELSE [kind |-> KindOf(p), zero |-> FALSE]

\* A value with its zeros blanked out.  Two values that differ in zeros and
\* nulls only are the same when blanked; one without zeros stays what it is.
Blanked[v \in Values] ==
  IF v.kind \in {"array", "object"}
  THEN [kind |-> v.kind, items |-> [i \in DOMAIN v.items |-> Blanked[v.items[i]]]]
  ELSE IF v.zero THEN Null ELSE v
=============================================================================
