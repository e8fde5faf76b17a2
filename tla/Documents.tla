----------------------------- MODULE Documents ------------------------------
(***************************************************************************)
(* Documents, the queries that select them, the patches that change them   *)
(* and the journal commands that record a change.                          *)
(*                                                                         *)
(* A document is a function from the names of its members to their values. *)
(* A query is a record [op, field, v, hi]: the forms of one field, which   *)
(* are the ones that reach an index.                                       *)
(***************************************************************************)
EXTENDS DomValue, Maps

CONSTANTS
  Fields,       \* the names of members other than "_id"
  Refs,         \* the list nodes (std::list<DomNode*>) there can be
  Inputs,       \* what clients append: documents, and values that are not
  NotAnObject,  \* a JSON value other than an object
  Patches,      \* what clients merge into documents
  Queries,      \* the queries clients ask
  Limits,       \* the limits clients give to drop
  IntHalf,      \* 2^31: from it on a limit is negative as an int
  MaxId         \* bound: the counter of a collection stops here (in the code at 2^64)

Id == "_id"

Names == Fields \cup {Id}

IsDocument(d) == DOMAIN d \subseteq Names /\ d \in [DOMAIN d -> Values]

QueryOps == {"all", "eq", "ne", "gt", "lt", "range", "malformed"}

QueryRecords == [op : QueryOps, field : Names, v : Values, hi : Values]

ASSUME DocumentsAssumption ==
  /\ Id \notin Fields
  /\ \A d \in Inputs : d # NotAnObject => IsDocument(d)
  /\ \A patch \in Patches : patch # NotAnObject => IsDocument(patch)
  /\ Queries \subseteq QueryRecords
  /\ Limits \subseteq Nat
  /\ IntHalf \in Nat \ {0}
  /\ MaxId \in Nat

\* A drop that is given no limit takes one document; upsert relies on it.
DefaultLimit == 1

Uint(n) == [type |-> "uint", n |-> n]

\* The parser throws parse_error on these.
Malformed(q) == q.op = "malformed"

(***************************************************************************)
(* What the stack machine answers for the instructions of a query when no  *)
(* index has taken instructions away.                                      *)
(***************************************************************************)
Satisfies(d, q) ==
  LET x == Member(d, q.field)
  IN  CASE q.op = "all"       -> TRUE
        [] q.op = "eq"        -> Eq(x, q.v)
        [] q.op = "ne"        -> ~Eq(x, q.v)
        [] q.op = "gt"        -> Greater(x, q.v)
        [] q.op = "lt"        -> Less(x, q.v)
        [] q.op = "range"     -> AtLeast(x, q.v) /\ AtMost(x, q.hi)
        [] q.op = "malformed" -> FALSE

\* append takes objects, and an "_id" of theirs only as an unsigned integer.
Accepted(d) == d # NotAnObject /\ (Id \in DOMAIN d => d[Id].type = "uint")

\* Variant: the counter is taken after it has gone up.
NumberedAhead(d, n) == IF Id \in DOMAIN d THEN d ELSE With(d, Id, Uint(n + 1))

\* A document as it is stored: with the "_id" n unless it brought its own.
Numbered(d, n) == IF Id \in DOMAIN d THEN d ELSE With(d, Id, Uint(n))

\* Variant: a member the patch does not have is overwritten as well.
MergedBlindly(d, patch) == [x \in DOMAIN d \cup DOMAIN patch |-> Member(patch, x)]

\* merge_docs for patches whose members are not objects themselves.
Merged(d, patch) == Overlaid(d, patch)

\* A size_t written with Writer::Int.
AsInt(n) == LET m == n % (2 * IntHalf) IN IF m < IntHalf THEN m ELSE m - 2 * IntHalf

AppendCommand(d) == [cmd |-> "append", document |-> d]

UpdateCommand(q, patch) == [cmd |-> "update", query |-> q, document |-> patch]

DropCommand(q, limit) == [cmd |-> "drop", query |-> q, limit |-> AsInt(limit)]
=============================================================================
