# SpinoDB in TLA+

SpinoDB is an embedded, in-memory document database: collections of JSON
documents, secondary indices, a small query language, a journal and a snapshot
file. It has no threads of its own. What is hard about it is not interleaving
but *state that exists several times*: a document is in the list of its
collection, in every index that has its field and, as a command, in the journal;
every call has to change all of them in an order that never reads what it has
just freed, and a query answered by an index has to give the answer it would
have given without.

All paths are relative to the repository, whose sources are under `src/`.

## Inventory

| Component | Source | State | Operations |
|---|---|---|---|
| Collection | `cppsrc/collection.cpp` | list of documents, indices, `_id` counter, reference to the journal writer | `append`, `update`, `drop`, `upsert`, `find`, `find_one`, `create_index`, `drop_index`, `clear`, `size`, `to_not_bson` |
| Index | `cppsrc/query_parser.h`, `std::multimap` | entries (value, list node) in the order of `operator<` | insert, `equal_range`, `lower_bound`, `upper_bound`, erase |
| Value comparison | `cppsrc/dom_node.cpp` (`DomView`) | - | `==`, `<`, `>`, `<=`, `>=` |
| Query parser | `cppsrc/query_parse.cpp` | token position, instructions, chosen index range | `parse_query` |
| Query executor | `cppsrc/query_executor.cpp` | instructions, value stack | `execute_query` |
| Cursor | `cppsrc/cursor.h` | iterator one match ahead, range, limit, result count | `has_next`, `next`, `count`, `set_limit` |
| Journal writer | `cppsrc/journal.h` | enabled flag, path; the file | `append`, `set_enabled` |
| Database | `cppsrc/database.cpp` | collections by name, key-value collection, journal writer | `get_collection`, `drop_collection`, `set_*_value`, `execute`, `enable_journal` |
| Persistence | `cppsrc/database.cpp` | snapshot file, journal file | `save`, `load`, `consolidate` |
| Document nodes | `cppsrc/dom_node.cpp`, `dom_obj.cpp`, `dom_arr.cpp` | tree of owned nodes | setters, `copy`, `destroy`, `add_member`, `remove_member` |
| NotBson | `cppsrc/dom_node.cpp` | - | `to_not_bson`, `from_not_bson` |
| Object pool | `cppsrc/objpool.h` | free list, buffers, allocation count | `make`, `delete_object`, `alloc`, `free` |
| JSON parser | `cppsrc/parser.h` | stack of open containers | one handler per SAX event |
| Scripting | `cppsrc/spino_squirrel.cpp` | - | conversion of values |
| GObject binding | `spino_gobject/` | `SpinoDocNode` owns a document; the rest wraps | `new`, setters, `add_member`, `append`, `from_json`, `from_view`, finalizer |
| Node.js binding | `spino_node/` | wrappers | one per call of the library |

How they interact. A caller reaches a Collection through the Database, directly
or as a JSON command of `execute`. A query is given to a QueryParser together
with the indices; it returns instructions and a range of *one* index, and the
caller - `update`, or a Cursor for `find` and `drop` - walks that range and runs
the instructions on every document in it. A change goes to the list first or last
depending on the call, to every index with the field, and to the journal writer,
which every collection of a database shares. `drop` switches that shared writer
off while it runs. `save` writes all collections and truncates the journal;
`load` appends what the file holds; `consolidate` executes the journal.

What makes each correct:

* **Collection** - the list holds each document once; each index holds exactly
  the documents with its field under their present values; a new `_id` is new;
  a query answers the same with any set of indices; calls return.
* **Journal** - it is on when the client asked for it, and records each
  change of a document once, with the document as it was stored.
* **Query** - parser and executor agree on the number of operands, and a
  restricted range loses no match, for nested `$and`, `$or`, `$not` as well.
* **Cursor** - each match once, never a freed document.
* **Persistence** - snapshot and journal together give back the state at the
  last completed call, whatever step a crash falls between.
* **Nodes and pool** - each node has one owner; a block is free or in use.

The hazards, each at its line and with the properties that watch it, are listed
in `PROJECT.json`.

## Modules

| Module | Models |
|---|---|
| `Maps` | finite maps: a document by member name, the documents by list node |
| `DomValue` | the values of members and the five comparisons of `DomView`, conversion of large integers to double included |
| `OrderedIndex` | one `std::multimap`, by every answer a search tree can give; what a coherent index is |
| `TreeIndex` | the same `std::multimap` as the red-black tree of libstdc++, for a collection that grows |
| `Documents` | documents, queries of one field and what the executor answers for them, patches, journal commands |
| `Indexing` | the vector of indices: what an append or removal does to it, the stretch of an index a query is answered from, and the walk over it |
| `Collection` | `collection.cpp`, step by step inside its calls, and the switch of `journal.h` |
| `Cursor` | extends `Collection` with a cursor a client keeps open (`cursor.h`) |
| `Tables` | a collection as a value, each call one step: what `Database` needs of it |
| `NotBson` | the binary form of a document: writing, and reading it field by field from a file that may end anywhere |
| `Persistence` | the two files: what `save` writes, what `load` reads, what `execute` replays |
| `Database` | a process with a database: start, calls, `save`, crashes and restarts |
| `Dom` | documents as trees of nodes: `DomNode`, `DomObject`, `DomArray`, the parser's handler, `SpinoDocNode` |
| `DomDocuments` | what those trees and the events of a text stand for: values; the refinement of `DocTrees` |
| `ObjectPool` | `objpool.h` |
| `Query` | `parse_query` and `execute_query`: expressions of any depth to instructions and an index range, call by call, and the stack machine that runs them |
| `DocStore` | abstract, implemented by `Collection`: a bag of documents and a log, every call atomic |
| `DocTrees` | abstract, implemented by `Dom` (`DomDocuments` has the mapping): each document is a value |
| `BlockStore` | abstract, implemented by `ObjectPool`: make hands out a block nobody has |
| `MCCollection`, `MCCursor`, `MCDatabase`, `MCDom`, `MCQuery`, `MCTreeIndex` | the instances TLC checks |
| `IndexingProofs` | lemmas about indices and their plans, for the proofs about `Collection` and `Database` |
| `CollectionProofs` | the proofs about `Collection` |
| `CursorProofs` | the proofs about `Cursor`, building on `CollectionProofs` |
| `DatabaseProofs` | what can be in the files of `Database`, and the types of its memory |
| `RecoveryProofs` | what the files of `Database` give back, building on `DatabaseProofs` |
| `DomProofs` | the proofs about `Dom` |
| `QueryProofs` | the proofs about `Query` |
| `ObjectPoolProofs` | the proofs about `ObjectPool` |

`Collection` and `Tables` both stand on `Indexing`; `Cursor` extends `Collection`,
`Database` extends `Persistence`, which joins `Tables` and `NotBson`. `TreeIndex` extends
`OrderedIndex`.

### Values and indices

A value is a type and an integer. The integer is the number itself, or the place
of a string in `strcmp` order. Objects, arrays and null have only an identity,
since no comparison of the code looks into them. `AsDouble` follows
`get_numeric_as_double`: `MaxExact` stands for 2^53, and odd integers beyond it
round to a neighbour, so that two unsigned integers can be one key of an index
and still be unequal to `$eq`. Integers from 2^54 on are left out. A string is
taken to be stored in the value (the code does so up to 14 characters). A longer
one is a pointer into its document: `IndexCoherent` says that every key is the
present value of a live document, so that pointer is good wherever it holds.

The multimap is external. It compares keys only along the path from its root, so
where its order is broken the answer depends on the shape of the tree. The model
gives every answer some tree could give: a *cut* between two entries at which the
answers of `operator<` change as `lower_bound` or `upper_bound` require. For an
ordered index there is exactly one. For a broken one it may offer an answer the tree at hand
would not give. That costs nothing where a property holds: it then holds for more than the
code can do. A violation has to be one of the tree itself: `TreeIndex` is the tree as
libstdc++ builds it - `Grown` descends, hangs a red node and `Mended` recolours or rotates on
the way up - and `mixed_values` is checked there. Its shortest trace has eight
appends, with the values 4, "x", "x", 2 and four more "x", after which a lookup of 4 finds
nothing. Entries are not erased there.

### Collection

| Variable | Code |
|---|---|
| `nodes` | `Collection::nodes`, in list order |
| `doc` | the document of each list node |
| `indices` | `Collection::indices`; the first one is created on `_id` |
| `id` | `Collection::id` |
| `jw` | `JournalWriter::enabled` |
| `journal` | the commands in the journal file |
| `asked` | history: the last `enable_journal` or `disable_journal` |
| `call` | the running `drop`, `upsert` or `createIndex` with its locals |
| `wild` | undefined behaviour has happened: the run ends |

The constant `Overwriting` is the set of patches that bring a text for which the
allocator hands out the block of an index entry that was just erased.

The library runs on the caller's thread, so calls do not interleave. `append`,
`update`, `dropIndex`, `clear` and the journal switch are one action each.
`drop`, `upsert` and `createIndex` have a loop over documents and take a step per
document. `drop` can leave in the middle by an exception (`DropThrows`), and
`upsert` is a `drop` of one document followed by an `append`. `update` with a patch
that is no object throws after it has taken the document out of its indices
(`UpdateThrows`), and reads a freed entry in any case, which is harmless until its
block has been handed out again (`UpdateGoesWild`). A `find` changes nothing; its
result is the set of walks of its plans.

A *plan* of `Indexing` is what `parse_query` returns: a stretch of one index, and whether
instructions are left to run. `$gt`, `$lt` and `$range` leave none when an index
answers them; a comparison with a bool or `$ne` uses no index; anything else
walks the first index of the collection, which is the one on `_id`. A malformed
query has no plan. The walk reads each document it passes: it goes `wild` if one
is freed or if the end of its range lies before its start.

`Journalled` leaves out a journal file that cannot be opened, the names of
collections and the text of commands. `Merged` covers patches whose members are
not objects.

### Cursor

A cursor is a snapshot of iterators: `first`, `at` (one match ahead of what the
client was given) and `last`. An iterator is written as the list node of its entry,
or `AtEnd`. A call on the collection that erases an entry leaves the cursor
`dangling` if it was `at` or `last`, and `headless` if it was `first`, which only
`count` uses. `Next_dom` on a dangling cursor, or one whose `last` lies behind it,
goes wild, as does a `count` of a headless one.

The code does not say what a client may do with a cursor open, so the model lets it
do everything and records in `abused` what no walk survives. What remains is what a
client can rely on: append (unless an index answers `$lt` or `$range`, whose end a new
document may slip in before), drop documents it has been given, and update documents
it has been given as long as each entry comes back to its place in the index of the
cursor - an update takes the entry out and puts it in behind its equals, so on a
walk along `_id` it always does. Documents that do not match are not to be touched
either: one of them may be `last`. As long as the client does only that,
`CursorHoldsOn` says the iterators stay good, `DeliversOnce` that nothing comes
twice or without matching, and `DeliversAll` that whatever has matched since the
cursor was opened was delivered by its end. Whatever it does, a cursor that does not
dangle walks an index there is (`CursorTypeOK`): `dropIndex` moves the indices behind
the dropped one, and a cursor on one of them goes along. `seen` and `owed` are history.

### Database and Persistence

| Variable | Code |
|---|---|
| `db` | the collections in memory, the one of the key-value pairs first |
| `jw`, `prior` | `JournalWriter::enabled`, and what `consolidate` found it to be |
| `snapshot` | the fields of the data file |
| `journal` | the lines of the journal file |
| `pc` | where the process is: down, in one of the steps of its start or of `save`, ready, hung in `load`, or failed |
| `changes` | of a running call, or of `consolidate`, what is still to be done |
| `line` | a change that is in memory and not yet in the journal |
| `committed`, `excuses`, `crashes` | history |

A process starts as `docs/overview.md` has it: `load`, `enable_journal`,
`consolidate`, and the model steps through the three. A call is a sequence of
changes (`upsert` and the setters of key-value pairs are two) and a change alters the
memory before its line is written, so a crash can fall between. `save` opens the
data file, which empties it; writes it; and empties the journal. A crash while it
writes leaves any beginning of the file; one while a line is written leaves a torn
line. The data file or the journal may fail to open, and a full disk may cut the data file
short while `save` goes on to empty the journal, since it never asks its stream
(`SaveFallsShort`).

The data file is a sequence of fields - a type byte, a name, a scalar - cut between
any two of them. A cut inside a scalar reads as a wrong number in the last document,
which a missing scalar stands for; one inside a name reads as `Garbled`. `load`
never comes back from a file that ends where the name of a collection should be
(`getline` fails and the loop goes on); `hung` is that state.

`LoadField` is what `load` does with one more field of the file, and `ReadField` what
`from_not_bson` does: what is expected next, the members so far, the name that was read. The
documents of clients have no objects or arrays in them here, so that reading needs no recursion
(`PlainMembers`).

The files cannot always give back what the client had. `excuses` collects why, and
the properties hold as long as there is none:

* `cut` - the data file is a beginning of what it should be: a crash in `save`, which
  empties it before it writes it, or a full disk;
* `repeated` - a crash between `save` and the truncation of the journal, after which replay
  repeats what the data file has already;
* `torn` - a crash cut the last line, on which `consolidate` throws;
* `unwritten` - the journal could not be opened, or was left off by a `drop` that threw;
* `unemptied` - `save` ran with the journal off, and the journal still has lines;
* `diverges` - a command whose replay does something else: it took some of its matches in
  the order of an index that replay does not have, its limit does not survive as an
  int, or its query is malformed and was never looked at;
* `lost` - with one of the above on record the process died, and memory with it. The
  reasons stay on record beside it.

Each of these is a step of the model with its line in `hazards`; the histories keep
`FilesHoldCommitted` and `ClientSeesCommitted` from asking the impossible after it.
With an excuse the client makes no further call but `save`: one that writes the whole file
clears `cut`, and one that empties the journal clears the others, but not `lost`.
`StartsFailForAReason` speaks of the time after an excuse, and keeps the reasons apart: `load`
hangs only if the data file is `cut`, `consolidate` fails only with a reason other than `lost`
on record. These reasons do occur, with no fault or with the least one, and were seen in the
C++ library: a drop with limit 0 takes nothing, and its replay takes every match; if its
query is malformed, it is recorded all the same and throws at replay, at this start and every
later one, with no file torn; so does a last line that was cut short. The run `database`
reaches all of these. That the order of an index diverges is `replay_needs_no_index`.
`Content` compares documents by collection and in list order,
integers by value: the journal is text and has no unsigned type.

### Dom

`heap` maps the blocks in use to nodes; `priv` is what each `SpinoDocNode` owns. A
handler of the parser is an operator on the heap and its stack; `from_json` is one
action, since it runs on the caller's thread and nothing sees it halfway, but it may
end with an error after any event. `delete_object` frees what is below a node first,
`AddTo` keeps the member that is there, as `std::map::insert` does - the new one is
then owned by nobody. Deallocation needs no order here: which block `alloc`
returns cannot be seen, given that it is one nobody has, and that is
`NeverHandsOutTwice` of `ObjectPoolProofs`.

The code recurs over trees: the destructor, `copy` and `merge_docs` call themselves for
what is below. `Dom` says instead which nodes such a call goes through, level by level
(`Below`), and which pairs of objects `merge_docs` meets (`Merging`), and then what becomes of
all of them at once; nothing can run in between. A text is the sequence of events
RapidJSON makes of it (`Texts`), of which `TextsAssumption` says only that they nest: what an
`EndObject` or `EndArray` counts lies on the stack as it says. `Events` of `DomDocuments`
makes such a sequence from a tree, and `ValueOf` reads a tree of nodes back as a value; these
two are recursive and stay out of `Dom`, which is proved about.

A `SpinoDocNode` is never given a view of a part of its own document (`FromView`):
the code destroys the target first and would then copy freed nodes. Nor does it
update with a patch that has an object where the document has something else
(`Mergeable`): `merge_docs` would take the scalar for a pointer. `MergeDocs` is the
merge of nested objects that `Collection` leaves out; `UpdateNode` applies it to the
document of a handle, which stands for one of a collection. The binding catches what
`update` throws before it gives the patch its new node; a malformed query or a scalar patch
thus changes no node (what the latter does to indices is `UpdateThrows` of `Collection`).

`ForgetsNothing` names the calls that leave nodes to nobody: `set_null` on a
container, a text with an error (the former document is dropped unfreed), `add_member`
under a name that is taken, `append` to what is no array or to itself, an update with a
`SpinoDocNode` (which gets a new node as if the collection had taken the old one),
and a repeated name in a text. `RefinesDocTrees` maps each document to the value below its node:
sharing of nodes, which would let one document change another, would break it.

### ObjectPool

The free list is a sequence, a block the pair of its buffer and place. A client
may give back what it holds. Its state is infinite in depth and its properties are
proved, not checked by a run.

### Query

`Collection` needs of the query language only which stretch of which index a
query of one field walks, and so has it in `Indexing` and `Satisfies`. `Query` has
the language itself, as one state machine: first the parser, then the machine.

| Variable | Code |
|---|---|
| `query` | the text of the query, as a tree |
| `phase` | whether `parse_query` has returned |
| `open` | the calls of `parse_query` and `parse_expression` that are running, each a *frame*: its operator, its operands, the next one, and its local `ir` |
| `code` | `instructions`, `tokens` |
| `resolved`, `by` | `index_resolved`, and the comparison whose range was taken |
| `met`, `balanced` | history: see below |
| `todo`, `found` | the documents of the range still to be tested, and those that passed |
| `pc`, `stack` | the instruction that is next, and `QueryExecutor::stack` |
| `wild` | the stack was too short, or the range ran off its index |

`EnterJunction` and `EnterNot` are a recursive call of `parse_expression`,
`LeaveJunction` and `LeaveNot` what follows its loop, `ParseComparison` and
`ParseEmpty` a call that makes none, and `LeaveQuery` the end of `parse_query`.
`Execute` is one instruction, `Finish` the end of `execute_query`, and `RunsShort`
an instruction that finds too few operands, which in the code reads in front of a
vector. The documents of the range are tested in an arbitrary order: the answer is a
set, and each test begins with an empty stack. `Fits` stands for prefixes and regular
expressions. The literals of `$range` are numbers, as the parser demands, and the pattern of
`$startsWith` is a string, which it does not demand: the executor would read any other as a
null pointer.

`Means` is the meaning of an expression by its tree alone, with each comparison as the code
has it: `$gt` and `$lt` order strings and bools as well (`Holds`), though the documentation
(query_language.md, lines 31 and 37) says that they match numeric fields only: in the C++
library `{a: {$lt: "c"}}` finds `{a: "b"}`, and `{a: {$gt: 0}}` finds `{a: true}`. So
`AnswersAreMeaning` speaks of the queries in which the two cannot differ
(`ComparesNumbers`): every `$gt` and `$lt` compares a number, with a field that is never a bool. Where
parser, index and machine agree with it is what `balanced` records while the query is parsed:

* an index is used for the whole query, or for an equality that is an operand of
  `$and` (of nested `$and`s too) and of no `$or`,
* a `$range` on an index has its bounds in order, and the field holds numbers,
* `{}` is not an operand.

Everything else in the language may be combined freely. Outside of it the code
does go wrong, and the library was seen to do so: `$or` over an indexed field
returns the matches of that operand only, also in the example of query_language.md, line 97; `$gt`, `$lt` or `$range` on an indexed
field crashes inside `$and` or `$or` (`query_junctions`); `{$not: {}}` crashes; a reversed
`$range` on an index returns a document or crashes. `$regex` never matches, as its second
instruction tests the answer of the first.

### DocStore

`DocStore` is what the code of `Collection` comes to without indices and cursors: append adds
a document under a new `_id`, update changes one matching document, drop removes as many
matching documents as there are up to the limit and *only* those, upsert is a drop of one
and an append, and each of these is logged once if logging is on; clear is never logged. It
is less than the documentation says, and `RefinesDocStore` does not claim more. That update
changes every match (overview.md, line 73, and api/collection.md, line 69) is a property of its
own in `Collection`, violated by `update_one_match`. api/collection.md, line 84, has upsert
remove every match, and overview.md, line 21, has every change recorded; the code does neither,
as `DocStore` has it: upsert drops one, and clear, which only the C++ interface has, writes no
line. Both were seen in the C++ library. The refinement maps
`store` to the documents, but while a drop runs to the documents it began with:
a drop takes effect when it returns, and it is then that it writes to the journal.

## Runs

| Run | Configuration | Result |
|---|---|---|
| `collection` | 3 list nodes, fields `a` (numbers) and `b` (strings), 2 indices, all calls, 10 queries, limits 1 and 9; 91 767 states | type invariant, list, coherent indices, transparent indices, fresh `_id`, no undefined behaviour, refinement of `DocStore`: hold |
| `collection_journal` | 2 list nodes, journaling on and off, journal of 2 commands, limits 0 and 12, a reversed range; 63 928 states | journal on as asked, each change but `clear` logged once, every call returns unless it leaves its index: hold |
| `collection_any_use` | `CursorSpec`: one cursor, 3 list nodes, an index on `a` that comes and goes; `$gt`, `$lt` and a reversed range, each by a scan as well; a patch that is no object; 200 911 states | list and documents stay together, a cursor walks an index there is, stays valid and delivers each match once and all of them: hold |
| `database` | 1 collection and key-value pairs, all calls, 2 documents, limits 0 and 17, 2 journal lines, 2 crashes anywhere, lines torn or unwritten, a data file cut short by a full disk; 477 090 states | files hold what is recorded, the client sees it, keys unique, torn file is a beginning, a start fails for a reason on record only, every start without one ends ready: hold |
| `dom` | 2 `SpinoDocNode`s, 2 names, 2 texts, 3 nodes; 72 878 states | one owner, nothing forgotten but by the calls listed, views stay valid while adding, refinement of `DocTrees`: hold |
| `query` | 1016 expressions of up to three levels over 5 documents, indices on a field of numbers and one of strings, an unindexed field with every type and one without bools; 42 430 states | enough operands for every instruction, one verdict at the end, and the answer is the meaning, for `balanced` queries: hold |
| `mixed_values` | all sequences of up to 8 appends of 2 numbers and a string | a lookup by value misses a match: violated |
| `update_one_match` | two documents that match an update | one is left as it was: violated |
| `journal_after_throw` | a malformed query | the journal stays off after `drop`: violated |
| `update_freed_entry` | a patch that takes the block of an erased entry | `update` goes to freed memory: violated |
| `replay_needs_no_index` | two documents that swap places in an index, no crash | the restarted process has another document changed: violated |
| `query_junctions` | the documented example of `$and`, with an index on the field of its `$gt` | the stack runs short: violated |

The violations are disagreements between code and documentation, listed as
findings in `PROJECT.json` with the line of the document. All of them were also
seen in the C++ library.

Bounds and why they are enough:

* **Three list nodes.** The three entries of an index can be one equal pair and
  another key, an entry can be first, last or between, and a freed node can be
  reused while an older one remains. Nodes are interchangeable - nothing
  compares them - so they form a symmetry set in the runs without liveness.
* **Two indices**: the one on `_id` and another, or two on one field.
  `MaxIndices` limits `createIndex` only.
* **Values.** `MaxExact` is 4, so the integers 4 and 5 of the documents are one
  double. The queries ask for values below, at, between and above the stored ones.
* **`MaxId`** caps the counter at 2 or 3, where a document that brings `_id` 1
  may find the counter below, at or above it. The code's 2^64 is not reached.
* **`MaxJournal`** caps the journal. Its guard stands where a call begins and
  keeps room for all the call may write, so no call stops for want of room.
* **Expressions.** Every operator is a leaf, those that can use an index on indexed
  and unindexed fields; all pairs of ten leaves are joined by `$and` and `$or`,
  alone and under `$not`, and pairs of eight with pairs of four. An operand too
  many or too few shows at two levels, an index flag that is not restored at three.
* **`IntHalf`** is 8 for 2^31, so limit 12 is recorded as the int -4; the
  setters' UINT32_MAX, 15 here, as -1; 17 wraps around to 1. A limit of 0 is in
  `collection_journal` and `database`, where it is replayed as none at all.
* **The reversed range** of `collection_journal` (5 to 3) leaves its index exactly
  when a 4 is stored, that of `collection_any_use` (4 to 2) when a 3 is.
* **The cursor.** `SizeMax` (9) stands for `SIZE_MAX` and exceeds every count.
  `MaxDelivered` is 0: of the number of results only its comparison with the limit
  matters, and the one limit of the run is 0, so a cursor has either no limit or
  one that ends it at once.
* **Crashes.** Two: the second may fall into the recovery from the first. With
  `MaxJournal` 2 a crash finds the journal empty, in the middle of the two lines of an
  `upsert`, and full; `replay_needs_no_index` needs four lines. Two documents are
  two matches of one query, of which a call may take one.
* **Faults** are a constant, so that a run can do without: saving (a crash in
  `save`), short (a full disk), torn (a crash in a line), unwritten. `database` has all of
  these, with one bound (`Strikes`): a fault strikes a `save` only while no reason is on
  record. Behind a reason only `TypeOK` and `StartsFailForAReason` claim anything; the theorems
  hold without that bound (`"again"`).
* **Appends to the tree.** No seven entries make a lookup fail; eight do.
* **`MaxNodes`** is 3: with that many alive a client makes no single node, but may still
  parse a text or copy a view, and update with two more, which is what a nested object
  merged into another needs. `MaxLost` is 0: once a document is forgotten, nothing
  is made any more. The handles are interchangeable and form a symmetry set.
* `ObjectPool` has no bound: it is proved.

`CHECK_DEADLOCK FALSE` stands in `collection_journal` and `collection_any_use`, where
undefined behaviour is reachable and the model stops at it; in `database` and
`replay_needs_no_index`, where a process may be hung or failed, or ready with nothing more to
do, once the bounds on crashes and journal are used up; in `mixed_values`, where the index is
full in the end;
and in `dom`, where a document may be lost and the handles finalized. The other
runs check for deadlock. `Query` rests after its answer.

**Fairness.** `FairSpec` of `Collection` adds weak fairness of `CallSteps`, the steps
of a call that has begun: it runs on the caller's thread and nothing else of the
library can hold it up. `Fairness` of `Database` is weak fairness of the steps of a
process, the start of a new one included: whoever uses a database that has died
starts it again. Which states have such a step is spelled out in `Running`. Nothing is
assumed of clients, which need never call again, nor of crashes.

## Proofs

TLAPS proves the following for every set of fields, list nodes, documents,
queries, patches and limits, expressions of every depth, documents of every shape,
every size of buffer, and every bound.

| Theorem | States |
|---|---|
| `TypeCorrect` | `Spec => []TypeOK` |
| `NodesStayDocuments` | `Spec => []NodesAreDocuments`, for any use |
| `IdsStayBelowCounter` | `Spec => []IdsBelowCounter` if no patch has an unsigned `_id` |
| `JournalStaysAsAsked` | `Spec => []JournalAsAsked` if no query is malformed |
| `IndicesStayCoherent` | `Spec => []IndexCoherent` if every field holds values of one kind |
| `IndicesAnswerAlike` | `Spec => []IndexTransparent` if, besides, ranges have bounds of that kind and in order and the index on `_id` is not dropped |
| `NothingGoesWild` | `Spec => []StaysDefined` if, besides, no patch takes the block of an erased entry |
| `ImplementsDocStore` | `Spec => RefinesDocStore` under the conditions of `IndicesAnswerAlike`, with no malformed query and no patch with an unsigned `_id` |
| `CursorTypeCorrect` | `CursorSpec => []CursorTypeOK`, for any use |
| `CursorStaysValid` | `CursorSpec => []CursorHoldsOn` if every field holds values of one kind and ranges have bounds of that kind |
| `CursorDeliversOnce` | `CursorSpec => []DeliversOnce` under the same conditions |
| `CursorDeliversAll` | `CursorSpec => []DeliversAll` under the same conditions |
| `QueryStaysInBounds` | `Query!Spec => []StaysInBounds`: a `balanced` query never reads in front of the stack nor walks off its range |
| `QueryLeavesOneVerdict` | `Query!Spec => []OneVerdict`: it leaves one bool on the stack |
| `QueryAnswersItsMeaning` | `Query!Spec => []AnswersAreMeaning`: without `$regex`, and with `$gt` and `$lt` of numbers only, it is answered with what it means |
| `InsertKeepsCoherence`, `EraseKeepsCoherence` | the two steps of index maintenance on one index |
| `DomTypeCorrect` | `Dom!Spec => []TypeOK` |
| `EveryNodeHasOneOwner` | `Dom!Spec => []OneOwner`: every pointer leads to a living node, no two to one |
| `AddingMovesNothing` | `Dom!Spec => ViewsOutliveAdding`: adding leaves every node where it is, with what it has |
| `DatabaseTypeCorrect` | `Database!Spec => []TypeOK`: whatever is left of the files, the list of every collection has each document once |
| `FilesHoldWhatIsCommitted` | `Database!Spec => []FilesHoldCommitted`: outside of `save`, data file and journal give back the documents of the last line |
| `ClientsSeeWhatIsCommitted` | `Database!Spec => []ClientSeesCommitted`: between calls memory is what is recorded, after every restart too |
| `KeysStayUnique` | `Database!Spec => []KeysAreUnique`: a key has one value, in memory and by replay |
| `NeverHandsOutTwice` | `PoolSpec => Store!Spec`: `make` returns a block nobody has |
| `BlocksStayApart` | a carved block is in use or once in the free list, never both or neither |
| `CountIsExact` | `n_allocated` is the number of living objects |

The conditions are not conveniences: `mixed_values`, `journal_after_throw` and
`update_freed_entry` show what happens without one kind of value, without well-formed
queries and with a patch of the wrong size; `collection_any_use` and
`collection_journal` reach the walk of a reversed range; merging an `_id` is the one
way round the counter; and a scan without the index on `_id` walks whatever index is
first. Values of one kind are `KeepsSchema`; `Uniform` adds that no patch is a scalar,
which `update` rejects too late. The theorems about a cursor need `KeepsSchema` only:
scalar patches, `dropIndex` of `_id` and reversed ranges may occur there, and what
they break is in `abused`.

The argument. `Inv` of `CollectionProofs` is `TypeOK` with `NodesAreDocuments`
and the bounds of an index build (`createIndex` works on the last index and never
points beyond the list). `TypeOK` alone is not inductive: `IndexNode` reads the
document of a list node, which is one only because the list holds live documents.
`IdsBelowCounter` is then inductive on top of `Inv`, `JournalAsAsked` needs that a
running drop carries the client's setting in `jwenabled` (`JournalHeld`), and
`IndicesStayCoherent` is proved together with the fact that documents keep the
kinds of their fields (`StoreConforms`). Its heart is in `IndexingProofs`: within
one kind `operator<` orders by rank (`OneKindIsOrdered`), so in a coherent index
the cuts of `equal_range` enclose the entry of the document
(`EraseFindsTheEntry`), and erasing and inserting keep the index sorted. Mixed
kinds break exactly that lemma.

Transparency follows state by state (in `CollectionProofs`): in a coherent index of one
kind every cut divides the keys, those before it below the bound and those behind it
not, so the stretch of a plan is exactly the entries whose values satisfy the
comparison; a scan reads the index on `_id`, which stays first (`Scannable`) and
which every document is in, as append gives it an `_id` and no step takes it away.
A walk that reads only entries of living documents within bounds in order never
goes wild.

The refinement (the end of `CollectionProofs`) maps the steps of a running `drop` to stutters
and its return to the drop of `DocStore`. It needs what the loop has done so far
(`Dropped`): what is left of the documents the drop began with, that each one gone
satisfied the query, and that their number is what the count says. That no document
satisfies the query any more when the loop ends before the limit is `IndexTransparent`
again (`NoneLeft`). `RoomKept` says that the bound on `_id` leaves room for the
document an `upsert` appends after its drop.

The cursor (`CursorProofs`) needs more than its three properties, which say nothing
of the entries between the ends of its walk: that the next match is a new one does
not follow from the present one being new. `InOrder` adds the walk itself. The index
the cursor walks, `es`, has its entry `at` at a place `a` and `last` at a place
`l >= a` (one behind the last entry for `AtEnd`). `WalksFrom` says that what was delivered lies
before `a`, that what is owed lies from `a` on and before `l`, and, for a query that
an index answers without instructions, that every entry from `a` on and before `l` satisfies
it; otherwise the one at `a` does. It holds when the cursor opens because in a coherent index of one kind the range
of the plan is exactly the entries that match (`FindIsInOrder`).
Then there are three kinds of change to `es`. An entry that goes in before `a` moves
both places, one between them moves `l` and, without instructions, must match: of the queries
an index answers only `$gt`, whose range runs to the end, admits appends (`WalkTakesAnEntry`). An entry that is erased was delivered, so it lies
before `a` and moves both back (`WalkLosesAnEntry`). An update that leaves `es` as it is
may at most make its document match no longer (`UpdatesKeepOrder`). `InOrder` is stated for a
client that has refrained (`Orderly`), so every call that is abuse keeps it at once;
what remains are the calls that touch other indices and those that only move the vector.
`SoundInOrder` joins it with `Inv`, the cursor's type, and - unless the collection
itself was abused - the coherence of its indices.

The query language (`QueryProofs`) is a compiler and its machine, and the proof is
that of a compiler. `Leaves(c, d, s)` says that the code `c` runs on document `d` from
an empty stack without reading below it, and leaves `s`; it is shown by the stacks
before each instruction (`Trace`). One lemma for each form of expression says
what its code adds to that stack: a comparison its verdict (`ComparisonRuns`), `$and`
and `$or` one verdict for as many as they count (`JunctionRuns`), `$not` one for one (`NotRuns`).
Parsing is then an invariant over the open calls. `Nests` says that each call was made
by the one before it for the operand it read last. `Holding`, and `Emitted` with it,
says that the code so far leaves the verdicts on exactly the operands the open calls have
read, those of the outermost call at the bottom: a call that begins adds none
(`HoldsOnEntry`), a comparison adds one (`HoldsOneMore`), and a call that ends has its verdicts on
top and puts one in their place (`HoldsOnExit`). `Settles` explains
`index_resolved`: it is set once an index was used and while a `$not` is open, and each
open `$not` holds what it will put back. `Pins`, and `Ranged` with it, says that the range
holds every match of some operand that was read under nothing but `$and`, hence in the end
every match of the query. `RangeAlone` is the one exception to `Emitted`: a
query that is a single `$gt`, `$lt` or `$range` on an index, or `{}`, has no code, and its
range is the answer (`RangeIsMeaning`). When the parser has returned, one call is open and
one operand read, so each document has a run that ends with one verdict; `Ran` says
that the machine is on that run. `Means` is a recursive function: that it exists and unfolds
(`MeansUnfolds`) is proved by induction on `Depth`, as a least counterexample
(`LeastNatural`), since the induction rules of the library cannot be instantiated. `Shaped`, `Ranged`,
`Coded` and `Ran` together are the inductive invariant; TLC has checked its parts
on the states of the run `query`.

The nodes (`DomProofs`) are the one place where a pointer is all that holds a structure
together. `Owned`, the inductive invariant, is three things: `Solid` - every pointer in a
container leads to a living node and no two to the same one, so that each node has one place
or none; `Typed` - a node is what its type says; and every handle owns a `Root`, a node no
container points to, and no other handle's. It says nothing of rings, and must not: a
document appended to itself is one. `Below` is the least set that has a node and is closed
under its pointers (`BelowIsInside`, `BelowIsLeast`), which a level for each living node is
enough to reach (`LevelsStayFull`). From one owner each it follows that what is below two different roots is
apart, and that what is below a member goes with it: so freeing all that is below a root, or
below a member that is taken out, leaves no pointer that leads nowhere (`FreedFrees`).
A copy of such a set points only into itself. `MergeDocs` does both to many places at once.
`Pairing` says of the pairs of `Merging` that each is where one of them leads by a name: hence no
object of either side is met twice (`PairsApart`), what is replaced is below no other
replaced member, and what is copied is apart from what is freed, as it is below another root. For the parser the invariant is one over events, `Building`: of the nodes
that lie on the stack each is a new root, in the shape the events so far have given it
(`Shape`), and the rest of the heap is as it was; only there a name may be a node. So an
error after any event may free the stack and nothing else (`StackIsFreed`), and what a
complete text leaves is one value. `TypeOK`, `OneOwner` and, with the actions of
`Adding`, `ViewsOutliveAdding` follow. Recursive functions are unfolded from a least counterexample, as
`Means` is.

The types of `Database` (`DatabaseProofs`) depend on what the files can hold: a node of a list is
a document only if `load` appended one for it, and what `load` makes of a file is a question of
the file. `TypeInvariant` says so of every file a process can leave: the data file is a beginning
of what some `save` would have written (`IsFile`), and each line of the journal is torn or a
command that `execute` knows (`IsJournal`). `Leads` gives for each field what may come next; an `Image` leads from its
first field to its last (`ImagePasses`), so does any beginning of it (`PrefixIsFile`), and `load`
follows (`LoadFieldsKeeps`), whatever it makes of a document that is cut off (`CutOffIsFlat`). That a
journal has no more lines than its bound needs `CallFits`: what a call has still to change and
to write fits, since each change writes one line at most.

That the files give back what is recorded (`RecoveryProofs`) is no invariant of two variables but
of two histories: what clients did to memory, with their own indices and limits, and what a
replay will do to the collections `load` makes of the data file. `RecoveryInvariant` compares them
while they are apart. `GoodDb` says that the collections are `Sound` - each list is in the order of
its `_id`s, none of which is repeated, the indices are coherent - and that no key has two pairs. Of
a sound collection the documents as text has them (`RowsOf`) determine all that counts:
their order (`ViewsAlike`), what a query matches (`MatchesOfRows`), which of them `update` finds
(`FirstAlike`) and which a `drop` takes (`TakenAlike`). The last two hold only if one or all are
meant, or both collections find them by `_id`, as replay does: that is `ReplaysAlike`, and a change
without it has its excuse. So a line does on a database with the same rows what its change did
(`LineReplays`), and a change that leaves no line changed no row (`NoTraceReplays`). `HeldBy`
follows from step to step: memory is `Alike` to what the files give or, while a line is to
be written, to what they will give with it; while lines are replayed, what is left of them gives
the same. With a line at its end a journal gives what the line makes of what it gave before
(`ReplayedOneMore`).

`save` empties the journal because the data file has its lines: this rests on `ImageLoads`, that
`load` reads what `save` wrote. `MemberLoads`, `DocumentLoads` and `CollectionLoads` climb
from a member to a file, each with the state of the loader before and behind its part of the file
(`InMember`, `InObjects`, `InArrays`), and `LoadSplit` joins the parts. A document keeps its `_id`, since
`append` leaves one alone, and its place, since the `_id`s ascend in the file; the counter is then
beyond all of them. The pairs of a key stay one because their `drop` comes first in the call
(`Replaces`) and its limit, lost by replay, does not matter for one pair (`OnePair`).

A data file that a full disk has cut short does not end this: `CutIsHarmless` says that the client
has made no call since, so that memory still has what is recorded, and the next `save` that writes the whole
file brings it back.

What no theorem speaks of is named by the excuses: a crash while `save` has the data file open or a
line is being written, a line that could not be written, a journal that is not emptied, and changes that find their
documents by an index replay does not have or whose limit it reads otherwise. `ReplayGivesBack` grants none of
the last, and is violated (`replay_needs_no_index`).

For the pool the free list and the carving of buffers must agree: `PoolInvariant` says
that free and used blocks are together those carved so far, that none is twice in
the list, and that without a buffer nothing is carved. Its one assumption is
that a buffer holds at least one block (`GrowSizeAssumption`); clients give
back only what they hold, which is `OneOwner` of `Dom`: with `EveryNodeHasOneOwner` both
halves of that argument are proved.

The assumptions on constants are `MaxExactAssumption`, `DocumentsAssumption`,
`CollectionAssumption` and `CursorAssumption`: inputs and patches are documents,
queries are of the modelled forms, limits are naturals, `AtEnd` is no list node and the
limit of a cursor that was given none exceeds every count. `ExpressionsAssumption`
says that expressions are finite trees of the modelled forms, and `StoredAssumption` that an
indexed field holds one kind of value: `mixed_values` shows an index that does not answer
otherwise. `ScalarAssumption` says that a scalar is none of the other types, and `TextsAssumption`
that the events of a text nest. `DatabaseAssumption` says what a text and a file give back as it
was: documents without objects in them, whose integers are doubles of their own, and that indexed
fields hold values of one kind. It takes list nodes to be numbers, `NotAnObject` to be no
document, and indices to be on fields that documents have, as the modules leave open what these
are. TLC evaluates them in every run of the module that states them.

Only model-checked: `CallsReturn` and `Recovers`, which are liveness; of `Dom`,
`RefinesDocTrees`, whose mapping `ValueOf` follows a tree by recursion, and `ForgetsNothing`; and
of `Database` `TornFileIsBeginning` and `StartsFailForAReason`, about files that no theorem but
`DatabaseTypeCorrect` speaks of; and all of `TreeIndex`, whose operators are recursive.

## Not modelled

* **RapidJSON and Squirrel** are vendored: they are nearly four fifths of
  the C and C++ lines of the repository and third-party code, tested where they come from. Nothing of the
  database's logic is in them, and they are left out deliberately. RapidJSON is seen
  from its SAX events only.
* **Scripting** converts values for the script engine and keeps nothing. **The Node.js
  binding** and the wrappers of the GObject binding other than `SpinoDocNode` pass
  calls on.
* **Text**: the lexer, JSON, escapes, the wording of commands and messages, prefixes
  and regular expressions themselves.
* **Of Collection**: the destructor; and `merge_docs` of nested objects is in `Dom`, apart
  from indices and journal.
* **Of Database**: the commands of `execute` that only read, and those the journal
  never holds; a caller that keeps the pointer to a collection that was dropped or
  loaded over. There is one journal file: the client is taken
  to give `enable_journal` the same path each time.
* **Of documents**: buffers of long strings, the blocks of `DomObject` itself,
  the text of names; for `NotBson`, nested documents and a name longer than its buffer.
* **Of the pool**: its destructor, which runs as the process ends.
* Integers from 2^54 on, the wrap of the `_id` counter at 2^64, inputs beyond memory.

Hazards of these parts are listed in `PROJECT.json` with a note instead of properties.

## Where to go on

For `Database` it would be `TornFileIsBeginning`, and with it the half of
`StartsFailForAReason` about `load`: `DocumentLoads` and `CollectionLoads` of
`RecoveryProofs` say what the whole parts of a torn file load as, `CutOffIsFlat` of
`DatabaseProofs` what a cut document can be. For `Dom` it is what each call makes of `Lost`, for
`ForgetsNothing`. The index of `Query` is a range of a sorted sequence; that a coherent
multimap gives that range is proved in `IndexingProofs`, and the two could be joined.

Runs are few on purpose: one for each question above, and one for each
disagreement with the documentation that the model confirms.
