----------------------------- MODULE JsonValue -----------------------------
(***************************************************************************)
(* How the parsers read JSON: an object is a function from its keys, a key *)
(* whose value has not the type asked for is taken for absent, and an      *)
(* Option is a sequence of at most one value, None (null in a payload) is  *)
(* <<>>.                                                                   *)
(***************************************************************************)
EXTENDS Integers, FiniteSets, Sequences

get(object, key) == IF key \in DOMAIN object THEN <<object[key]>> ELSE <<>>

unwrap_or(option, default) == IF option = <<>> THEN default ELSE Head(option)

or_else(option, other) == IF option = <<>> THEN other ELSE option

(* The value of a key of an object that may be absent.                     *)
and_get(option, key) == IF option = <<>> THEN <<>> ELSE get(Head(option), key)

(* An object with one field, and the fields of an object with those of     *)
(* another that it lacks (@@ of TLC, which the provers do not know).       *)
Field(key, value) == [k \in {key} |-> value]

object ++ other ==
  [key \in DOMAIN object \cup DOMAIN other |->
     IF key \in DOMAIN object THEN object[key] ELSE other[key]]

(* The numbers of a set, ascending, and the elements at some places.       *)
Ascending(numbers) ==
  [k \in 1 .. Cardinality(numbers) |->
     CHOOSE n \in numbers : Cardinality({m \in numbers : m <= n}) = k]

At(elements, places) ==
  [k \in DOMAIN Ascending(places) |-> elements[Ascending(places)[k]]]

Each(elements, Extract(_)) == [i \in DOMAIN elements |-> Extract(elements[i])]

(* A table of payload fields, each with the key it is copied from and what *)
(* it is when the key is absent.                                           *)
From(key, default) == [key |-> key, default |-> default, all |-> FALSE]
Num(key) == From(key, 0)
Text(key) == From(key, "")
List(key) == [key |-> key, default |-> <<>>, all |-> TRUE]

Copied(object, fields) ==
  [name \in DOMAIN fields |->
     unwrap_or(get(object, fields[name].key), fields[name].default)]

(* Fields that are there only if the source has them.                      *)
CopiedIfPresent(object, fields) ==
  Copied(object, [name \in {n \in DOMAIN fields : fields[n].key \in DOMAIN object}
                    |-> fields[name]])
=============================================================================
