--------------------------------- MODULE Dom ---------------------------------
(***************************************************************************)
(* Documents as trees of nodes out of the object pool: DomNode, DomObject  *)
(* and DomArray (src/cppsrc/dom_*.cpp), the handler that builds them from  *)
(* JSON (src/cppsrc/parser.h), and SpinoDocNode, through which clients own *)
(* and change them (src/spino_gobject/src/document_node.cpp).              *)
(*                                                                         *)
(* A node is the block it lives in, one that no living node has            *)
(* (ObjectPoolProofs); which of them alloc returns nobody can see.  Who    *)
(* frees a node is decided by who points to it: a SpinoDocNode, a          *)
(* container, or, during a call, the stack of the parser.                  *)
(***************************************************************************)
EXTENDS Integers, Sequences, FiniteSets, SequencesExt, FiniteSetsExt, Maps

CONSTANTS
  Handles,   \* the SpinoDocNodes a client has
  Names,     \* the names of members clients use
  Scalar,    \* the content of a node that is neither object, array nor null
  Texts,     \* the JSON texts a client parses, each as the events RapidJSON makes of it
  MaxNodes,  \* bound: fewer are alive where a client makes a node, no more where it
             \* parses a text or copies a view, and up to two more at an update
  MaxLost    \* bound: nodes lost, where a client makes nodes

ASSUME ScalarAssumption == Scalar.type \notin {"null", "object", "array", "string"}

VARIABLES
  heap,  \* the content of each node that is alive
  priv   \* SpinoDocNode::priv

vars == <<heap, priv>>

NoNode == 0

Null == [type |-> "null"]

String(k) == [type |-> "string", name |-> k]

Object(members) == [type |-> "object", members |-> members]

Array(elements) == [type |-> "array", elements |-> elements]

(***************************************************************************)
(* What RapidJSON makes of a text: an event for each value that is no      *)
(* container, each name, and the start and the end of each container.      *)
(* Shape has, from the bottom, what is not yet inside something that is    *)
(* complete.                                                               *)
(***************************************************************************)
Part(content) == IF content.type \in {"object", "array"} THEN content.type
                 ELSE IF content.type = "string" THEN "name" ELSE "value"

Reshaped(shape, event) ==
  IF event.kind = "make" THEN Append(shape, Part(event.content))
  ELSE LET above == IF event.kind = "EndObject" THEN 2 * event.count ELSE event.count
       IN  Append(SubSeq(shape, 1, Len(shape) - above - 1), "value")

Shape(text, n) ==
  LET after[i \in Nat] == IF i = 0 THEN <<>> ELSE Reshaped(after[i - 1], text[i])
  IN  after[n]

Follows(event, shape) ==
  \/ /\ event.kind = "make"
     /\ \/ event.content \in {Null, Scalar, Object(<<>>), Array(<<>>)}
        \/ event.content.type = "string" /\ event.content = String(event.content.name)
  \/ /\ event.kind = "EndObject" /\ event.count \in Nat
     /\ LET start == Len(shape) - 2 * event.count
        IN  /\ start > 0 /\ shape[start] = "object"
            /\ \A j \in 1 .. event.count :
                 shape[start + 2 * j - 1] = "name" /\ shape[start + 2 * j] = "value"
  \/ /\ event.kind = "EndArray" /\ event.count \in Nat
     /\ LET start == Len(shape) - event.count
        IN  /\ start > 0 /\ shape[start] = "array"
            /\ \A j \in 1 .. event.count : shape[start + j] = "value"

ASSUME TextsAssumption ==
  \A text \in Texts :
    /\ Len(text) \in Nat
    /\ \A n \in 1 .. Len(text) : Follows(text[n], Shape(text, n - 1))
    /\ Shape(text, Len(text)) = <<"value">>

Init ==
  /\ heap = <<>>
  /\ priv = [h \in Handles |-> NoNode]
-----------------------------------------------------------------------------
(***************************************************************************)
(* Nodes.  s is a heap: the nodes alive and what is in them.               *)
(***************************************************************************)
Alive == DOMAIN heap

\* The node MakeNode makes.
NewNode(s) == CHOOSE n \in 1 .. Cardinality(DOMAIN s) + 1 : n \notin DOMAIN s

MakeNode(s, content) == With(s, NewNode(s), content)

\* The pointers in a content, by place of the element or name of the member.
Links(content) ==
  CASE content.type = "array" -> content.elements
    [] content.type = "object" -> content.members
    [] OTHER -> <<>>

Children(content) == Range(Links(content))

WithChildren(s, D) == D \cup UNION {Children(s[m]) : m \in D}

(***************************************************************************)
(* The node n and all that is below it: what the destructor of n goes      *)
(* through, since that of a container deletes each child.  No path is      *)
(* longer than there are nodes.                                            *)
(***************************************************************************)
Below(s, n) ==
  LET level[i \in Nat] == IF i = 0 THEN {n} ELSE WithChildren(s, level[i - 1])
  IN  level[Cardinality(DOMAIN s)]

AllBelow(s, D) == UNION {Below(s, n) : n \in D}

Freed(s, D) == [m \in DOMAIN s \ D |-> s[m]]

\* delete_object of a node.
DeleteNode(s, n) == Freed(s, Below(s, n))

\* What n holds is deleted, and n is null.
Destroy(s, n) == With(DeleteNode(s, n), n, Null)

\* The setters but set_null.
SetContent(s, n, content) == [Destroy(s, n) EXCEPT ![n] = content]

\* Variant: a member with the name of another takes its place, as operator[] would do.
AddToReplaces(s, n, k, m) ==
  LET t == IF k \in DOMAIN s[n].members THEN DeleteNode(s, s[n].members[k]) ELSE s
  IN  [t EXCEPT ![n].members = With(@, k, m)]

\* DomObject::append: std::map::insert keeps the member that is there.
AddTo(s, n, k, m) ==
  IF k \in DOMAIN s[n].members THEN s
  ELSE [s EXCEPT ![n].members = With(@, k, m)]

PushTo(s, n, m) ==
  IF s[n].type = "array" THEN [s EXCEPT ![n].elements = Append(@, m)]
  ELSE s

\* A content with other nodes in the place of those it points to.
Relinked(content, place) ==
  CASE content.type = "array" ->
         Array([i \in DOMAIN content.elements |-> place[content.elements[i]]])
    [] content.type = "object" ->
         Object([k \in DOMAIN content.members |-> place[content.members[k]]])
    [] OTHER -> content

\* A new node for each node in D.
NewNodes(s, D) ==
  CHOOSE place \in [D -> (1 .. Cardinality(DOMAIN s) + Cardinality(D)) \ DOMAIN s] :
    IsInjective(place)

\* Each node x of DOMAIN place is copied into place[x].
Copied(s, place) ==
  [m \in DOMAIN s \cup Range(place) |->
     IF m \in Range(place)
     THEN Relinked(s[CHOOSE x \in DOMAIN place : place[x] = m], place)
     ELSE s[m]]

\* DomNode::copy into n of what m shows, m being read after n is destroyed.
CopyInto(s, n, m) ==
  LET t == Destroy(s, n)
  IN  Copied(t, With(NewNodes(t, Below(t, m) \ {m}), m, n))

\* DomObject::remove of a member that is there.
RemoveFrom(s, n, k) ==
  [DeleteNode(s, s[n].members[k]) EXCEPT ![n].members = Without(@, k)]

(***************************************************************************)
(* Collection::merge_docs of the object m into the object n: the pairs of  *)
(* objects it is called with.  A member of m that is an object is merged   *)
(* into the member n has of that name.                                     *)
(***************************************************************************)
MergedMembers(s, p) ==
  {k \in DOMAIN s[p[1]].members \cap DOMAIN s[p[2]].members :
     s[s[p[2]].members[k]].type = "object"}

WithMembers(s, P) ==
  P \cup UNION {{<<s[p[1]].members[k], s[p[2]].members[k]>> : k \in MergedMembers(s, p)} :
                  p \in {x \in P : s[x[1]].type = "object"}}

Merging(s, n, m) ==
  LET level[i \in Nat] == IF i = 0 THEN {<<n, m>>} ELSE WithMembers(s, level[i - 1])
  IN  level[Cardinality(DOMAIN s)]

\* Every other member of m takes, as a copy, the place of the one n has, if it has one.
CopiedMembers(s, p) == DOMAIN s[p[2]].members \ MergedMembers(s, p)

Replaced(s, P) ==
  UNION {{s[p[1]].members[k] : k \in CopiedMembers(s, p) \cap DOMAIN s[p[1]].members} : p \in P}

Sources(s, P) == UNION {{s[p[2]].members[k] : k \in CopiedMembers(s, p)} : p \in P}

Into(s, p, place) ==
  Overlaid(s[p[1]].members, [k \in CopiedMembers(s, p) |-> place[s[p[2]].members[k]]])

MergeDocs(s, n, m) ==
  LET pairs == Merging(s, n, m)
      kept == Freed(s, AllBelow(s, Replaced(s, pairs)))
      place == NewNodes(kept, AllBelow(s, Sources(s, pairs)))
      copied == Copied(kept, place)
      From(x) == {p \in pairs : p[1] = x}
  IN  [x \in DOMAIN copied |->
         IF From(x) = {} THEN copied[x]
         ELSE Object(Into(s, CHOOSE p \in From(x) : TRUE, place))]

\* Wherever the object m has an object, the object n has one or nothing.
Mergeable(n, m) == \A p \in Merging(heap, n, m) : heap[p[1]].type = "object"

\* The nodes that nobody can reach any more.
Lost ==
  Alive \ AllBelow(heap, {priv[h] : h \in Handles} \ {NoNode})
-----------------------------------------------------------------------------
(***************************************************************************)
(* SpinoDocNode.                                                           *)
(***************************************************************************)
Live(h) == priv[h] # NoNode

\* Bound: there is room for a call that needs some.
Room(nodes) == Cardinality(Alive) <= nodes /\ Cardinality(Lost) <= MaxLost

MayGrow == Room(MaxNodes - 1)

IsObject(h) == Live(h) /\ heap[priv[h]].type = "object"

IsArray(h) == Live(h) /\ heap[priv[h]].type = "array"

New(h) ==
  /\ priv[h] = NoNode /\ MayGrow
  /\ heap' = MakeNode(heap, Null)
  /\ priv' = [priv EXCEPT ![h] = NewNode(heap)]

Finalize(h) ==
  /\ Live(h)
  /\ heap' = DeleteNode(Destroy(heap, priv[h]), priv[h])
  /\ priv' = [priv EXCEPT ![h] = NoNode]

\* set_object, set_array, and the setters of a scalar.
Set(h, content) ==
  /\ Live(h)
  /\ heap' = SetContent(heap, priv[h], content)
  /\ UNCHANGED priv

\* set_null only changes the type.
SetNull(h) ==
  /\ Live(h)
  /\ heap' = [heap EXCEPT ![priv[h]] = Null]
  /\ UNCHANGED priv

AddScalarMember(h, k) ==
  /\ IsObject(h) /\ MayGrow
  /\ heap' = AddTo(MakeNode(heap, Scalar), priv[h], k, NewNode(heap))
  /\ UNCHANGED priv

\* Variant: g keeps the node as well.
AddMemberShares(h, k, g) ==
  /\ IsObject(h) /\ Live(g) /\ MayGrow
  /\ heap' = AddTo(heap, priv[h], k, priv[g])
  /\ UNCHANGED priv

\* The node of g goes into the object, and g gets a new one.
AddMember(h, k, g) ==
  /\ IsObject(h) /\ Live(g) /\ MayGrow
  /\ LET added == AddTo(heap, priv[h], k, priv[g])
     IN  /\ heap' = MakeNode(added, Null)
         /\ priv' = [priv EXCEPT ![g] = NewNode(added)]

RemoveMember(h, k) ==
  /\ IsObject(h) /\ k \in DOMAIN heap[priv[h]].members
  /\ heap' = RemoveFrom(heap, priv[h], k)
  /\ UNCHANGED priv

\* The node of g goes to the end, if h is an array; g gets a new one if not, too.
AppendNode(h, g) ==
  /\ Live(h) /\ Live(g) /\ MayGrow
  /\ LET added == PushTo(heap, priv[h], priv[g])
     IN  /\ heap' = MakeNode(added, Null)
         /\ priv' = [priv EXCEPT ![g] = NewNode(added)]

\* pop_back, and remove with an iterator that stands on element i.
RemoveElement(h, i) ==
  /\ IsArray(h) /\ i \in DOMAIN heap[priv[h]].elements
  /\ LET n == priv[h]
         s == DeleteNode(heap, heap[n].elements[i])
     IN  heap' = [s EXCEPT ![n].elements = RemoveAt(@, i)]
  /\ UNCHANGED priv

(***************************************************************************)
(* from_view, of any node of another document or of the whole of its own.  *)
(* Of a part of its own it would read freed nodes: clients do not do that. *)
(***************************************************************************)
FromView(h, g, m) ==
  /\ Live(h) /\ Live(g) /\ Room(MaxNodes)
  /\ m \in Below(heap, priv[g])
  /\ g # h \/ m = priv[h]
  /\ heap' = CopyInto(Destroy(heap, priv[h]), priv[h], m)
  /\ UNCHANGED priv

(***************************************************************************)
(* spino_collection_update_node with the document of g as the patch.  A    *)
(* collection owns its documents as a SpinoDocNode does: h stands for one, *)
(* which the query finds or not.  Then g gets a new node, as if the other  *)
(* had been taken.  Where an object is to be merged into a scalar the code *)
(* reads the scalar as a pointer: clients do not do that.  An exception of *)
(* update is caught before the new node is made: a malformed query changes *)
(* no node, and is no step.                                                *)
(***************************************************************************)
UpdateNode(h, g) ==
  /\ IsObject(h) /\ IsObject(g) /\ g # h /\ Room(MaxNodes + 2)
  /\ Mergeable(priv[h], priv[g])
  /\ \E merged \in {heap, MergeDocs(heap, priv[h], priv[g])} :
       /\ heap' = MakeNode(merged, Null)
       /\ priv' = [priv EXCEPT ![g] = NewNode(merged)]
-----------------------------------------------------------------------------
(***************************************************************************)
(* from_json.  RapidJSON turns the text into events, which may end with an *)
(* error at any place; the handler keeps the nodes it has made on a stack. *)
(***************************************************************************)
\* The handler has heap s and the stack.
Handler(s, stack) == [heap |-> s, stack |-> stack]

\* Null, Bool, Int ... String, StartObject, Key and StartArray: a node more.
Push(p, content) ==
  Handler(MakeNode(p.heap, content), Append(p.stack, NewNode(p.heap)))

\* Where the container lies on the stack whose content are the last `above` nodes.
Position(p, above) == Len(p.stack) - above

\* The members and their names lie above the object, each member above its name.
MembersAbove(p, count) ==
  LET NameAt(j) == p.heap[p.stack[Position(p, 2 * count) + 2 * j - 1]].name
      First(k) == Min({j \in 1 .. count : NameAt(j) = k})
  IN  [k \in {NameAt(j) : j \in 1 .. count} |-> p.stack[Position(p, 2 * count) + 2 * First(k)]]

NamesAbove(p, count) ==
  {p.stack[Position(p, 2 * count) + 2 * j - 1] : j \in 1 .. count}

\* Variant: the nodes of the names are not deleted.
EndObjectKeepsNames(p, count) ==
  LET object == p.stack[Position(p, 2 * count)]
  IN  Handler([p.heap EXCEPT ![object].members = Overlaid(MembersAbove(p, count), @)],
              SubSeq(p.stack, 1, Position(p, 2 * count)))

\* Of the members of one name the first is kept, as in AddTo; the names are deleted.
EndObject(p, count) ==
  LET object == p.stack[Position(p, 2 * count)]
      kept == Freed(p.heap, NamesAbove(p, count))
  IN  Handler([kept EXCEPT ![object].members = Overlaid(MembersAbove(p, count), @)],
              SubSeq(p.stack, 1, Position(p, 2 * count)))

\* Variant: the elements are taken from the top of the stack.
EndArrayFromTop(p, count) ==
  LET array == p.stack[Position(p, count)]
      above == SubSeq(p.stack, Position(p, count) + 1, Len(p.stack))
  IN  Handler([p.heap EXCEPT ![array].elements = @ \o Reverse(above)],
              SubSeq(p.stack, 1, Position(p, count)))

EndArray(p, count) ==
  LET array == p.stack[Position(p, count)]
      above == SubSeq(p.stack, Position(p, count) + 1, Len(p.stack))
  IN  Handler([p.heap EXCEPT ![array].elements = @ \o above],
              SubSeq(p.stack, 1, Position(p, count)))

Handle(p, event) ==
  CASE event.kind = "make" -> Push(p, event.content)
    [] event.kind = "EndObject" -> EndObject(p, event.count)
    [] event.kind = "EndArray" -> EndArray(p, event.count)

\* The handler after the first n events.
Parsed(events, n) ==
  LET after[i \in Nat] ==
        IF i = 0 THEN Handler(heap, <<>>) ELSE Handle(after[i - 1], events[i])
  IN  after[n]

\* The document that h had is replaced by the one at the bottom of the stack.
FromJson(h, text) ==
  /\ Live(h) /\ Room(MaxNodes)
  /\ LET p == Parsed(text, Len(text))
     IN  /\ heap' = DeleteNode(Destroy(p.heap, priv[h]), priv[h])
         /\ priv' = [priv EXCEPT ![h] = p.stack[1]]

\* Variant: an error leaves the nodes on the stack alive.
FromJsonFailsKeepsStack(h, text) ==
  /\ Live(h) /\ Room(MaxNodes)
  /\ \E n \in 0 .. Len(text) :
       LET p == Parsed(text, n)
       IN  /\ heap' = MakeNode(p.heap, Null)
           /\ priv' = [priv EXCEPT ![h] = NewNode(p.heap)]

\* An error after some of the events: the stack is freed, and h gets a new node.
FromJsonFails(h, text) ==
  /\ Live(h) /\ Room(MaxNodes)
  /\ \E n \in 0 .. Len(text) :
       LET p == Parsed(text, n)
           freed == Freed(p.heap, AllBelow(p.heap, Range(p.stack)))
       IN  /\ heap' = MakeNode(freed, Null)
           /\ priv' = [priv EXCEPT ![h] = NewNode(freed)]
-----------------------------------------------------------------------------
Adding ==
  \/ \E h \in Handles : New(h)
  \/ \E h \in Handles, k \in Names : AddScalarMember(h, k)
  \/ \E h, g \in Handles, k \in Names : AddMember(h, k, g)
  \/ \E h, g \in Handles : AppendNode(h, g)

Replacing ==
  \/ \E h \in Handles : Finalize(h)
  \/ \E h \in Handles, content \in {Scalar, Object(<<>>), Array(<<>>)} : Set(h, content)
  \/ \E h \in Handles : SetNull(h)
  \/ \E h \in Handles, k \in Names : RemoveMember(h, k)
  \/ \E h \in Handles : \E i \in 1 .. Cardinality(Alive) : RemoveElement(h, i)
  \/ \E h, g \in Handles : \E m \in Alive : FromView(h, g, m)
  \/ \E h, g \in Handles : UpdateNode(h, g)

Parsing ==
  \/ \E h \in Handles, text \in Texts : FromJson(h, text)
  \/ \E h \in Handles, text \in Texts : FromJsonFails(h, text)

Next == Adding \/ Replacing \/ Parsing

Spec == Init /\ [][Next]_vars
-----------------------------------------------------------------------------
IsContent(content) ==
  \/ content \in {Null, Scalar}
  \/ /\ content.type = "array" /\ content = Array(content.elements)
     /\ content.elements \in Seq(Nat)
  \/ /\ content.type = "object" /\ content = Object(content.members)
     /\ content.members \in [DOMAIN content.members -> Nat]

\* Nodes of the types there are; no node of a name outlives the parse it was made in.
TypeOK ==
  /\ \A n \in Alive : n \in Nat \ {NoNode} /\ IsContent(heap[n])
  /\ priv \in [Handles -> Nat]

(***************************************************************************)
(* Every pointer leads to a living node, and no two lead to the same one,  *)
(* so that none is freed twice or used after it is freed, whatever         *)
(* documents are moved into one another and wherever a text turns out      *)
(* malformed.                                                              *)
(***************************************************************************)
OneOwner ==
  /\ \A c \in Alive : Children(heap[c]) \subseteq Alive
  /\ \A c, d \in Alive : \A i \in DOMAIN Links(heap[c]), j \in DOMAIN Links(heap[d]) :
       Links(heap[c])[i] = Links(heap[d])[j] => c = d /\ i = j
  /\ \A h \in Handles : Live(h) =>
       /\ priv[h] \in Alive
       /\ \A c \in Alive : priv[h] \notin Children(heap[c])
       /\ \A g \in Handles : priv[g] = priv[h] => g = h

\* In the text an object has two members of one name.
RepeatsName(text) ==
  \E e \in DOMAIN text :
    /\ text[e].kind = "EndObject"
    /\ LET p == Parsed(text, e - 1)
       IN  Cardinality(DOMAIN MembersAbove(p, text[e].count)) < text[e].count

\* The calls that forget the document of h: each has a line in the code to answer for it.
ForgetsDocument(h) ==
  \/ SetNull(h)
  \/ \E text \in Texts : FromJsonFails(h, text)
  \/ \E g \in Handles :
       \/ UpdateNode(g, h)
       \/ AppendNode(g, h) /\ (g = h \/ ~IsArray(g))
       \/ \E k \in Names : /\ AddMember(g, k, h)
                           /\ g = h \/ k \in DOMAIN heap[priv[g]].members

\* The calls that forget nodes they have made themselves: a name comes twice.
ForgetsNew ==
  \/ \E h \in Handles, text \in Texts :
       RepeatsName(text) /\ (FromJson(h, text) \/ FromJsonFails(h, text))
  \/ \E h \in Handles, k \in Names :
       AddScalarMember(h, k) /\ k \in DOMAIN heap[priv[h]].members

(***************************************************************************)
(* No node is forgotten but by the calls above, and no other nodes by      *)
(* them: the stack of a parse that fails is freed, and replacing, removing *)
(* and copying free all that they take away.                               *)
(***************************************************************************)
ForgetsNothing ==
  [][\A n \in Lost' \ Lost :
       IF n \in Alive
       THEN \E h \in Handles : Live(h) /\ n \in Below(heap, priv[h]) /\ ForgetsDocument(h)
       ELSE ForgetsNew]_vars

(***************************************************************************)
(* Adding to a document and moving one into another leave every node where *)
(* it is, with what it has: the views of it, and of the document that was  *)
(* moved, stay valid.                                                      *)
(***************************************************************************)
ViewsOutliveAdding ==
  [][Adding =>
       \A n \in Alive :
         /\ n \in Alive'
         /\ heap'[n].type = heap[n].type
         /\ \A i \in DOMAIN Links(heap[n]) :
              /\ i \in DOMAIN Links(heap'[n])
              /\ Links(heap'[n])[i] = Links(heap[n])[i]]_vars
=============================================================================
