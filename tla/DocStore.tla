------------------------------ MODULE DocStore ------------------------------
(***************************************************************************)
(* What the code of a collection comes to, with no index, no cursor and no *)
(* counter: a bag of documents on which every call takes effect at once,   *)
(* and a log that records each call but clear while logging is on.  It is  *)
(* less than the documentation says: there update changes every match,     *)
(* upsert replaces every match, and every change is recorded.              *)
(***************************************************************************)
EXTENDS Documents, Sequences, FiniteSets

VARIABLES
  store,     \* the documents, by the node each lives in
  logging,   \* whether the client has turned the journal on
  log        \* the commands recorded so far

vars == <<store, logging, log>>

Init ==
  /\ store = <<>>
  /\ logging = FALSE
  /\ log = <<>>

Recorded(command) == IF logging THEN Append(log, command) ELSE log

Matching(q) == {r \in DOMAIN store : Satisfies(store[r], q)}

UsedIds == {store[r][Id] : r \in DOMAIN store}

(***************************************************************************)
(* A document that is taken gets an "_id" no stored document has, unless   *)
(* it brought its own.                                                     *)
(***************************************************************************)
Put(d) ==
  /\ Accepted(d)
  /\ \E r \in Refs \ DOMAIN store, n \in 0 .. MaxId :
       /\ Id \in DOMAIN d \/ Uint(n) \notin UsedIds
       /\ store' = With(store, r, Numbered(d, n))
       /\ log' = Recorded(AppendCommand(Numbered(d, n)))
  /\ UNCHANGED logging

\* One matching document, any of them, is changed; the others stay as they are.
Amend(q, patch) ==
  /\ patch # NotAnObject
  /\ \E r \in Matching(q) :
       store' = [store EXCEPT ![r] = Merged(@, patch)]
  /\ log' = Recorded(UpdateCommand(q, patch))
  /\ UNCHANGED logging

\* As many matching documents as there are, but no more than the limit, go.
Remove(q, limit) ==
  /\ \E gone \in SUBSET Matching(q) :
       /\ \/ Cardinality(gone) = limit
          \/ Cardinality(gone) < limit /\ gone = Matching(q)
       /\ store' = [r \in DOMAIN store \ gone |-> store[r]]
  /\ log' = Recorded(DropCommand(q, limit))
  /\ UNCHANGED logging

\* Emptying the collection is the one change that is never logged.
Empty ==
  /\ store' = <<>>
  /\ UNCHANGED <<logging, log>>

SetLogging(on) ==
  /\ logging' = on
  /\ UNCHANGED <<store, log>>

Next ==
  \/ \E d \in Inputs : Put(d)
  \/ \E q \in Queries, patch \in Patches : Amend(q, patch)
  \/ \E q \in Queries, limit \in Limits \cup {DefaultLimit} : Remove(q, limit)
  \/ Empty
  \/ \E on \in BOOLEAN : SetLogging(on)

Spec == Init /\ [][Next]_vars
=============================================================================
