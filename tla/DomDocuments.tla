---------------------------- MODULE DomDocuments ----------------------------
(***************************************************************************)
(* What the nodes of Dom and the events of its texts stand for: documents  *)
(* that are values.                                                        *)
(***************************************************************************)
EXTENDS Dom

CONSTANT
  JsonTexts  \* the JSON texts behind Texts, as trees

(***************************************************************************)
(* The events of a text.                                                   *)
(***************************************************************************)
RECURSIVE Events(_)
Events(text) ==
  CASE text.type = "array" ->
         <<[kind |-> "make", content |-> Array(<<>>)]>>
         \o FlattenSeq([i \in DOMAIN text.elements |-> Events(text.elements[i])])
         \o <<[kind |-> "EndArray", count |-> Len(text.elements)]>>
    [] text.type = "object" ->
         <<[kind |-> "make", content |-> Object(<<>>)]>>
         \o FlattenSeq([i \in DOMAIN text.pairs |->
              <<[kind |-> "make", content |-> String(text.pairs[i][1])]>>
              \o Events(text.pairs[i][2])])
         \o <<[kind |-> "EndObject", count |-> Len(text.pairs)]>>
    [] OTHER -> <<[kind |-> "make", content |-> text]>>

ASSUME JsonTextsAssumption == Texts = {Events(text) : text \in JsonTexts}

(***************************************************************************)
(* The value below a node.                                                 *)
(***************************************************************************)
RECURSIVE ValueOf(_)
ValueOf(n) ==
  CASE heap[n].type = "array" ->
         Array([i \in DOMAIN heap[n].elements |-> ValueOf(heap[n].elements[i])])
    [] heap[n].type = "object" ->
         Object([k \in DOMAIN heap[n].members |-> ValueOf(heap[n].members[k])])
    [] OTHER -> heap[n]

Trees == INSTANCE DocTrees WITH
  Texts <- JsonTexts,
  doc <- [h \in Handles |-> IF priv[h] = NoNode THEN [type |-> "absent"]
                            ELSE ValueOf(priv[h])]

(***************************************************************************)
(* Nodes, pointers and the parser's stack implement documents that are     *)
(* values: a call changes the documents it names and no other, and a text  *)
(* that is parsed event by event becomes the value it stands for.          *)
(***************************************************************************)
RefinesDocTrees == Trees!Spec
=============================================================================
