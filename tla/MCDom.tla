-------------------------------- MODULE MCDom --------------------------------
(***************************************************************************)
(* An instance of Dom for TLC.                                             *)
(***************************************************************************)
EXTENDS DomDocuments, TLC

CONSTANTS d1, d2

TwoHandles == {d1, d2}

Symmetry == Permutations(TwoHandles)

Number == [type |-> "int"]

ObjectText(pairs) == [type |-> "object", pairs |-> pairs]

ArrayText(elements) == [type |-> "array", elements |-> elements]

\* A name that comes twice, and objects and arrays in one another.
FewTexts ==
  {ArrayText(<<Number, ObjectText(<<<<"b", Number>>, <<"b", Null>>>>)>>),
   ObjectText(<<<<"a", ObjectText(<<<<"b", Number>>>>)>>>>)}

FewEvents == {Events(text) : text \in FewTexts}
=============================================================================
