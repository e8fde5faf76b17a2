------------------------------ MODULE NotBson -------------------------------
(***************************************************************************)
(* The binary form of a value in a file (src/cppsrc/dom_node.cpp,          *)
(* to_not_bson and from_not_bson).                                         *)
(*                                                                         *)
(* A file is a sequence of fields: the byte of a type, a name with its     *)
(* terminator, or the bytes of a scalar.  A zero byte is the type "invalid"*)
(* and closes an object or an array.  A scalar is a record [type, n], an   *)
(* object [type, members] and an array [type, elements].                   *)
(***************************************************************************)
EXTENDS Integers, Sequences, SequencesExt, Maps

CONSTANTS
  NameOrder,  \* the names of members, in strcmp order
  Garbled     \* what is read for a name that the end of the file cuts off

Byte(type) == [is |-> "type", v |-> type]

Name(name) == [is |-> "name", v |-> name]

Scalar(n) == [is |-> "scalar", v |-> n]

Zero == Byte("invalid")

\* A member as it is written: a null has no bytes.
EncodeMember(name, v) ==
  <<Byte(v.type), Name(name)>> \o (IF v.type = "null" THEN <<>> ELSE <<Scalar(v.n)>>)

\* to_not_bson of an object: its members in the order of its std::map, and a zero byte.
Encode(members) ==
  FlattenSeq([i \in DOMAIN NameOrder |->
    IF NameOrder[i] \in DOMAIN members
    THEN EncodeMember(NameOrder[i], members[NameOrder[i]])
    ELSE <<>>]) \o <<Zero>>
-----------------------------------------------------------------------------
(***************************************************************************)
(* from_not_bson of an object, field by field: the members it has so far,  *)
(* what it reads next, and what it knows of the member it is reading.      *)
(***************************************************************************)
Unread == [members |-> <<>>, expects |-> "type", type |-> "invalid", name |-> Garbled]

\* Variant: the case of a signed integer sets the type of an unsigned one.
ScalarReadUnsigned(type, n) == [type |-> IF type = "int" THEN "uint" ELSE type, n |-> n]

ScalarRead(type, n) == [type |-> type, n |-> n]

\* std::map::insert keeps the member that is there.
Inserted(o, name, n) ==
  [o EXCEPT !.members = IF name \in DOMAIN @ THEN @ ELSE With(@, name, ScalarRead(o.type, n)),
            !.expects = "type"]

ReadField(o, x) ==
  CASE o.expects = "type" ->
         IF x = Zero THEN [o EXCEPT !.expects = "nothing"]
         ELSE [o EXCEPT !.type = x.v, !.expects = "name"]
    [] o.expects = "name" ->
         IF o.type = "null" THEN Inserted(o, x.v, 0)
         ELSE [o EXCEPT !.name = x.v, !.expects = "scalar"]
    [] o.expects = "scalar" -> Inserted(o, o.name, x.v)

\* What the end of the file leaves of a scalar: the byte of a bool is then EOF.
Missing(type) == IF type = "bool" THEN 1 ELSE 0

\* The members of an object in which the file ends.
CutOff(o) ==
  CASE o.expects = "name"   -> Inserted(o, Garbled, Missing(o.type)).members
    [] o.expects = "scalar" -> Inserted(o, o.name, Missing(o.type)).members
    [] OTHER -> o.members
=============================================================================
