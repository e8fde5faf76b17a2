------------------------------- MODULE DocTrees -------------------------------
(***************************************************************************)
(* What the document nodes of the GObject binding promise                  *)
(* (docs/api/docnode.md): every SpinoDocNode is a value of its own.  There *)
(* are no nodes here, no pointers and no owners; what one document takes   *)
(* from another is moved or copied, never shared.                          *)
(***************************************************************************)
EXTENDS Sequences, SequencesExt

CONSTANTS
  Handles,  \* the SpinoDocNodes a client has
  Names,    \* the names of members
  Scalar,   \* the content of a node that is neither object, array nor null
  Texts     \* the JSON texts a client parses

VARIABLE doc  \* the value of each SpinoDocNode

Absent == [type |-> "absent"]

Null == [type |-> "null"]

Object(members) == [type |-> "object", members |-> members]

Array(elements) == [type |-> "array", elements |-> elements]

\* The first member of a name stays: a second one is not added.
WithMember(v, k, w) ==
  IF k \in DOMAIN v.members THEN v
  ELSE Object([x \in DOMAIN v.members \cup {k} |-> IF x = k THEN w ELSE v.members[x]])

\* The object w merged into the object v: objects meet as objects, else w has its way.
RECURSIVE Merged(_, _)
Merged(v, w) ==
  Object([x \in DOMAIN v.members \cup DOMAIN w.members |->
            IF x \notin DOMAIN w.members THEN v.members[x]
            ELSE IF /\ x \in DOMAIN v.members
                    /\ v.members[x].type = "object" /\ w.members[x].type = "object"
                 THEN Merged(v.members[x], w.members[x])
                 ELSE w.members[x]])

(***************************************************************************)
(* The value a JSON text stands for.  The text of an object is the         *)
(* sequence of its pairs, so that a name can come twice.                   *)
(***************************************************************************)
RECURSIVE Meaning(_)
Meaning(text) ==
  CASE text.type = "array" ->
         Array([i \in DOMAIN text.elements |-> Meaning(text.elements[i])])
    [] text.type = "object" ->
         FoldLeft(LAMBDA v, pair : WithMember(v, pair[1], Meaning(pair[2])),
                  Object(<<>>), text.pairs)
    [] OTHER -> text

\* A value and all that is inside it.
RECURSIVE Parts(_)
Parts(v) ==
  {v} \cup CASE v.type = "array" -> UNION {Parts(v.elements[i]) : i \in DOMAIN v.elements}
             [] v.type = "object" -> UNION {Parts(v.members[k]) : k \in DOMAIN v.members}
             [] OTHER -> {}
-----------------------------------------------------------------------------
Init == doc = [h \in Handles |-> Absent]

Live(h) == doc[h] # Absent

Becomes(h, v) == doc' = [doc EXCEPT ![h] = v]

\* The value of g goes into h, and g is left null.
Moves(g, h, v) == doc' = [doc EXCEPT ![h] = v, ![g] = Null]

Lifetime ==
  \E h \in Handles : \/ ~Live(h) /\ Becomes(h, Null)
                     \/ Live(h) /\ Becomes(h, Absent)

Set ==
  \E h \in Handles, v \in {Null, Scalar, Object(<<>>), Array(<<>>)} :
    Live(h) /\ Becomes(h, v)

AddMember ==
  \E h \in Handles, k \in Names :
    /\ doc[h].type = "object"
    /\ \/ Becomes(h, WithMember(doc[h], k, Scalar))
       \/ \E g \in Handles :
            /\ Live(g)
            /\ Moves(g, h, WithMember(doc[h], k, doc[g]))

RemoveMember ==
  \E h \in Handles, k \in Names :
    /\ doc[h].type = "object"
    /\ Becomes(h, Object([x \in DOMAIN doc[h].members \ {k} |-> doc[h].members[x]]))

AppendElement ==
  \E h, g \in Handles :
    /\ Live(h) /\ Live(g)
    /\ Moves(g, h, IF doc[h].type = "array" THEN Array(Append(doc[h].elements, doc[g]))
                   ELSE doc[h])

RemoveElement ==
  \E h \in Handles :
    /\ doc[h].type = "array"
    /\ \E i \in DOMAIN doc[h].elements : Becomes(h, Array(RemoveAt(doc[h].elements, i)))

\* From a part of another document; from the document itself it is null.
FromView ==
  \E h, g \in Handles :
    /\ Live(h) /\ Live(g)
    /\ \/ g # h /\ \E v \in Parts(doc[g]) : Becomes(h, v)
       \/ g = h /\ Becomes(h, Null)

\* The patch is used up, whether a document is found for it or not.
Update ==
  \E h, g \in Handles :
    /\ doc[h].type = "object" /\ doc[g].type = "object" /\ g # h
    /\ Moves(g, h, Merged(doc[h], doc[g])) \/ Becomes(g, Null)

\* A text that cannot be parsed leaves null.
FromJson ==
  \E h \in Handles :
    /\ Live(h)
    /\ \/ \E text \in Texts : Becomes(h, Meaning(text))
       \/ Becomes(h, Null)

Next ==
  \/ Lifetime \/ Set \/ AddMember \/ RemoveMember
  \/ AppendElement \/ RemoveElement \/ FromView \/ Update \/ FromJson

Spec == Init /\ [][Next]_doc
=============================================================================
