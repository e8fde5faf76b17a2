------------------------------- MODULE Cursor -------------------------------
(***************************************************************************)
(* A cursor a client holds open while it goes on using the collection      *)
(* (src/cppsrc/cursor.h).                                                  *)
(*                                                                         *)
(* A cursor keeps iterators into the index it walks.  An iterator is       *)
(* written as the list node its entry refers to, or AtEnd; the cursor is   *)
(* dangling when the entry or the index of one that next needs is gone.    *)
(* next_dom looks one match ahead, so the document it returns is behind    *)
(* the cursor already.                                                     *)
(***************************************************************************)
EXTENDS Collection

CONSTANTS
  AtEnd,          \* the end() of the index a cursor walks
  SizeMax,        \* the limit of a cursor that was given none
  CursorLimits,   \* the limits clients give to a cursor
  MaxDelivered    \* bound: n_results counts no further, and no limit is larger

ASSUME CursorAssumption ==
  /\ AtEnd \notin Refs
  /\ MaxDelivered \in Nat
  /\ CursorLimits \subseteq 0 .. MaxDelivered
  /\ SizeMax \in Nat
  /\ SizeMax > MaxDelivered

VARIABLES
  cursor,   \* the cursor the client holds
  abused    \* history: what the client did wrong, to the open cursor and to the collection

cursorVars == <<vars, cursor, abused>>

NoCursor == [open |-> FALSE, dangling |-> FALSE]

Dangling == [open |-> TRUE, dangling |-> TRUE]

Held == cursor.open /\ ~cursor.dangling

\* After undefined behaviour nothing is known of the cursor.
Forgotten ==
  /\ wild' = TRUE
  /\ cursor' = NoCursor
  /\ abused' = abused \ {"cursor"}
  /\ UNCHANGED <<data, jw, journal, asked, call>>

CursorInit == Init /\ cursor = NoCursor /\ abused = {}

Matching(q) == {r \in DOMAIN doc : Satisfies(doc[r], q)}

IteratorTo(es, p) == IF p \in DOMAIN es THEN es[p].ref ELSE AtEnd

\* The cursor at entry p of its plan.
OpenAt(pl, q, p) ==
  [open |-> TRUE, dangling |-> FALSE, query |-> q, test |-> pl.test, index |-> WalkedIndex(q),
   first |-> IteratorTo(pl.entries, pl.lo + 1), at |-> IteratorTo(pl.entries, p),
   last |-> IteratorTo(pl.entries, pl.hi + 1),
   headless |-> FALSE, limit |-> SizeMax, delivered |-> 0,
   seen |-> {}, owed |-> IF Stray(pl) \/ abused # {} THEN {} ELSE Matching(q)]

Opens(q, pl, p) ==
  /\ cursor' = OpenAt(pl, q, p)
  /\ abused' = abused \cup {x \in {"cursor"} : Stray(pl)}
  /\ UNCHANGED vars

CanFind ==
  /\ Command("find")
  /\ ~cursor.open

\* Variant: the constructor does not look for the first match.
FindStaysAtFirst(q) ==
  /\ CanFind
  /\ \E pl \in Plans(q) : ~GoesWild(doc, pl, q) /\ Opens(q, pl, pl.lo + 1)

\* The constructor walks to the first match, or to the end of its range.
Find(q) ==
  /\ CanFind
  /\ \E pl \in Plans(q) :
       /\ ~GoesWild(doc, pl, q)
       /\ LET stop == StopAt(doc, pl, q)
          IN  Opens(q, pl, IF stop = 0 THEN pl.hi + 1 ELSE stop)

FindGoesWild(q) ==
  /\ Command("find")
  /\ CanGoWild(q)
  /\ Forgotten

Close ==
  /\ Command("find")
  /\ cursor.open
  /\ cursor' = NoCursor
  /\ abused' = abused \ {"cursor"}
  /\ UNCHANGED vars
-----------------------------------------------------------------------------
Walked == indices[cursor.index].entries

HasNext == cursor.delivered < cursor.limit /\ cursor.at # cursor.last

\* Where ++iter ends up: the next match or range.second, if it comes to either.
Ahead ==
  LET here == SelectInSeq(Walked, LAMBDA e : e.ref = cursor.at)
  IN  {p \in here + 1 .. Len(Walked) :
         \/ Walked[p].ref = cursor.last
         \/ cursor.test => Satisfies(doc[Walked[p].ref], cursor.query)}

RunsOff == Ahead = {} /\ cursor.last # AtEnd

Counted == Min({cursor.delivered + 1, MaxDelivered})

\* History: what the client has been given, as long as it does no harm.
Given == IF abused = {} THEN {cursor.at} ELSE {}

Next_dom ==
  /\ Command("next")
  /\ Held
  /\ HasNext
  /\ ~RunsOff

\* Variant: the cursor stays at the document it delivers and moves on at the next call.
DeliverAndStay ==
  /\ Next_dom
  /\ cursor' = [cursor EXCEPT !.delivered = Counted, !.seen = @ \cup Given,
                              !.owed = @ \ {cursor.at}]
  /\ UNCHANGED <<vars, abused>>

\* Variant: the cursor passes over a document in front of the next match.
DeliverAndSkip ==
  /\ Next_dom
  /\ cursor' = [cursor EXCEPT !.delivered = Counted, !.seen = @ \cup Given,
                              !.owed = @ \ {cursor.at}, !.at = cursor.last]
  /\ UNCHANGED <<vars, abused>>

Deliver ==
  /\ Next_dom
  /\ cursor' = [cursor EXCEPT !.delivered = Counted, !.seen = @ \cup Given,
                              !.owed = @ \ {cursor.at},
                              !.at = IF Ahead = {} THEN AtEnd ELSE Walked[Min(Ahead)].ref]
  /\ UNCHANGED <<vars, abused>>

\* A freed iterator is compared or followed, or range.second is never met.
CursorGoesWild ==
  /\ Command("next")
  /\ cursor.open
  /\ ~cursor.dangling => HasNext /\ RunsOff
  /\ Forgotten

\* count walks once more from range.first to range.second, whatever the limit.
CountGoesWild ==
  /\ Command("count")
  /\ cursor.open
  /\ ~cursor.dangling => cursor.headless
  /\ Forgotten

SetLimit(limit) ==
  /\ Command("setLimit")
  /\ Held
  /\ cursor' = [cursor EXCEPT !.limit = limit]
  /\ UNCHANGED <<vars, abused>>
-----------------------------------------------------------------------------
(***************************************************************************)
(* What the other calls do to an open cursor: they erase the index entries *)
(* that the iterators `freed` refer to, and `harm` says whether a client   *)
(* with a cursor should have refrained.  The history of a cursor ends with *)
(* the first harm.                                                         *)
(***************************************************************************)
Outlived(freed) ==
  IF ~Held THEN cursor
  ELSE IF {cursor.at, cursor.last} \cap freed # {} THEN Dangling
  ELSE [cursor EXCEPT !.headless = @ \/ cursor.first \in freed,
                      !.seen = @ \cap DOMAIN doc',
                      !.owed = {r \in @ \cap DOMAIN doc' : Satisfies(doc'[r], cursor.query)}]

Follows(freed, harm) ==
  /\ abused' = abused \cup {x \in {"cursor"} : cursor.open /\ harm}
  /\ LET left == Outlived(freed)
     IN  cursor' = IF left.open /\ ~left.dangling /\ abused' # {}
                   THEN [left EXCEPT !.seen = {}, !.owed = {}]
                   ELSE left

\* $lt and $range do not run on a document again that gets in before range.second.
Unguarded == Held /\ ~cursor.test /\ cursor.query.op # "gt"

AppendsUnder ==
  /\ \/ \E d \in Inputs : AppendDocument(d)
     \/ UpsertAppends
  /\ Follows({}, Unguarded)

\* The entry of r is erased and comes back under its new key, behind its equals.
OutOfPlace(r) == Held /\ (r \notin cursor.seen \/ indices'[cursor.index].entries # Walked)

UpdatesUnder ==
  \E q \in Queries, patch \in Patches : \E r \in FirstMatches(q) :
    /\ UpdateDocument(q, patch)
    /\ doc' = [doc EXCEPT ![r] = Merged(@, patch)]
    /\ Follows({r}, OutOfPlace(r))

\* The document is in no index any more: no query finds it again.
ThrowsUnder ==
  /\ \E q \in Queries : \E r \in FirstMatches(q) :
       /\ UpdateThrows(q)
       /\ indices' \in RemoveIndexEntries(indices, r, doc[r])
       /\ cursor' = Outlived({r})
  /\ abused' = abused \cup {"collection"} \cup {x \in {"cursor"} : cursor.open}

DropsUnder ==
  /\ DropOne
  /\ LET gone == DOMAIN doc \ DOMAIN doc'
     IN  Follows(gone, Held /\ ~(gone \subseteq cursor.seen))

ClearsUnder == Clear /\ Follows(DOMAIN doc \cup {AtEnd}, TRUE)

\* The vector of indices may move, and with it the end of every multimap.
CreatesIndexUnder ==
  /\ \E f \in IndexFields : CreateIndex(f)
  /\ Follows({}, TRUE) \/ Follows({AtEnd}, TRUE)

\* The walked index is destroyed, or takes the place of an earlier one.
DropsIndexUnder ==
  \E f \in IndexFields :
    /\ DropIndex(f)
    /\ LET dropped == FirstIndexOn(f)
       IN  cursor' = IF ~Held \/ dropped > cursor.index THEN cursor
                     ELSE IF dropped = cursor.index THEN Dangling
                     ELSE LET left == Outlived({AtEnd})
                          IN  IF left.dangling THEN left ELSE [left EXCEPT !.index = @ - 1]
    /\ abused' = abused \cup {x \in {"cursor"} : cursor.open} \cup {x \in {"collection"} : f = Id}

CallsBeside ==
  /\ \/ \E q \in Queries : UpdateGoesWild(q)
     \/ \E q \in Queries, limit \in Limits : Drop(q, limit)
     \/ \E q \in Queries, d \in Inputs : Upsert(q, d)
     \/ DropReturns
     \/ DropThrows
     \/ DropGoesWild
     \/ IndexNode
     \/ CreateIndexReturns
     \/ EnableJournal
     \/ DisableJournal
  /\ UNCHANGED <<cursor, abused>>

CursorCalls ==
  \/ \E q \in Queries : Find(q)
  \/ \E q \in Queries : FindGoesWild(q)
  \/ Deliver
  \/ CursorGoesWild
  \/ CountGoesWild
  \/ \E limit \in CursorLimits : SetLimit(limit)
  \/ Close

CursorNext ==
  \/ CursorCalls
  \/ AppendsUnder
  \/ UpdatesUnder
  \/ ThrowsUnder
  \/ DropsUnder
  \/ ClearsUnder
  \/ CreatesIndexUnder
  \/ DropsIndexUnder
  \/ CallsBeside

CursorSpec == CursorInit /\ [][CursorNext]_cursorVars
-----------------------------------------------------------------------------
CursorRecords ==
  [open : {TRUE}, dangling : {FALSE}, query : Queries, test : BOOLEAN, index : DOMAIN indices,
   first : Refs \cup {AtEnd}, at : Refs \cup {AtEnd}, last : Refs \cup {AtEnd},
   headless : BOOLEAN, limit : CursorLimits \cup {SizeMax}, delivered : 0 .. MaxDelivered,
   seen : SUBSET Refs, owed : SUBSET Refs]

\* A cursor that is not dangling walks an index there is.
CursorTypeOK ==
  /\ cursor \in {NoCursor, Dangling} \cup CursorRecords
  /\ abused \subseteq {"cursor", "collection"}

Orderly == cursor.open /\ abused = {}

(***************************************************************************)
(* A client with a cursor may append, drop documents it has been given,    *)
(* and update them as long as their entries come back to their places in   *)
(* the index of the cursor: what next needs is still there.  Documents     *)
(* that do not match count as well: one of them is range.second.           *)
(***************************************************************************)
CursorHoldsOn == Orderly => ~cursor.dangling

(***************************************************************************)
(* Meanwhile no document is looked ahead to that the client has been given *)
(* before, and each one satisfies the query at the moment it is next.      *)
(***************************************************************************)
DeliversOnce ==
  Orderly /\ Held /\ cursor.at # cursor.last =>
    /\ cursor.at \notin cursor.seen
    /\ cursor.at \in DOMAIN doc
    /\ Satisfies(doc[cursor.at], cursor.query)

(***************************************************************************)
(* When the cursor is at its end, every document that has matched all the  *)
(* time since it was opened has been delivered.                            *)
(***************************************************************************)
DeliversAll ==
  Orderly /\ Held /\ cursor.at = cursor.last => cursor.owed = {}
=============================================================================
