-------------------------------- MODULE Query --------------------------------
(***************************************************************************)
(* The query language: parse_query translates an expression to postfix     *)
(* instructions and the range of an index (src/cppsrc/query_parse.cpp),    *)
(* and execute_query runs the instructions on a stack of values for each   *)
(* document in the range (src/cppsrc/query_executor.cpp).                  *)
(*                                                                         *)
(* An expression is a record: {} is [op |-> "all"], $and and $or have the  *)
(* sequence `of` of their operands, $not has its operand `of`, and the     *)
(* comparisons have a field and their literals.  "is" is the short form    *)
(* {field: literal}.                                                       *)
(***************************************************************************)
EXTENDS DomValue, FiniteSets, Sequences, SequencesExt

CONSTANTS
  Asked,        \* the queries asked
  Expressions,  \* they and all their parts
  Depth(_),     \* how deep an expression is nested
  Stored,       \* the documents of the collection, in list order
  Indexed,      \* the fields with an index
  Fits          \* the pairs <<p, s>> of a pattern and a string it matches

Junctions == {"and", "or"}

Members == {"in", "nin"}

Binaries == {"eq", "ne", "gt", "lt", "startsWith", "exists", "type"}

Comparisons == {"is", "range", "regex"} \cup Members \cup Binaries

Operands(e) ==
  CASE e.op \in Junctions -> e.of
    [] e.op = "not"       -> <<e.of>>
    [] OTHER              -> <<>>

\* The literal of $type, by its position here.
TypeNames == <<"bool", "number", "string", "array", "object">>

IsComparison(e) ==
  /\ e.op \in Comparisons
  /\ IF e.op \in Members THEN e.vs \in Seq(Values) ELSE e.v \in Values
  /\ e.op = "range" => e.hi \in Values /\ IsNumeric(e.v) /\ IsNumeric(e.hi)
  /\ e.op \in {"regex", "startsWith"} => IsString(e.v)
  /\ e.op = "exists" => e.v.type = "bool"
  /\ e.op = "type" => IsString(e.v) /\ e.v.n \in DOMAIN TypeNames

(***************************************************************************)
(* The parser takes finite trees only, literals are values, and those of   *)
(* $range, $regex, $exists and $type are of the kind it demands.  It takes *)
(* any literal after $startsWith; one that is no string would be read as a *)
(* null pointer (query_executor.cpp, line 331) and is left out.            *)
(***************************************************************************)
ASSUME ExpressionsAssumption ==
  /\ Asked \subseteq Expressions
  /\ \A e \in Expressions :
       /\ e.op \in Junctions \cup {"all", "not"} \/ IsComparison(e)
       /\ Operands(e) \in Seq(Expressions)
       /\ Depth(e) \in Nat
       /\ \A k \in DOMAIN Operands(e) : Depth(Operands(e)[k]) < Depth(e)

\* An index orders its keys, as all of them are of one kind.
ASSUME StoredAssumption ==
  /\ \A i \in DOMAIN Stored : Stored[i] \in [DOMAIN Stored[i] -> Values]
  /\ \A f \in Indexed : \A i, j \in DOMAIN Stored :
       f \in DOMAIN Stored[i] \cap DOMAIN Stored[j]
         => Kind(Stored[i][f]) = Kind(Stored[j][f])

VARIABLES
  query,     \* the query being answered
  phase,     \* "parse", and "run" once there are instructions
  open,      \* the calls of parse_query and parse_expression that are running
  code,      \* QueryParser::instructions, then QueryExecutor::tokens
  resolved,  \* QueryParser::index_resolved
  by,        \* the comparison - none or one - whose range of an index is walked
  met,       \* history: a comparison with an index has been met outside of $not
  balanced,  \* history: the query is one that an index answers rightly
  todo,      \* the places of the documents of the range still to be tested
  pc,        \* the instruction that is next
  stack,     \* QueryExecutor::stack
  found,     \* the places of the documents that passed
  wild       \* undefined behaviour: the stack was too short, or the range ran off

parsing == <<open, code, resolved, by, met, balanced>>

running == <<todo, pc, stack, found, wild>>

vars == <<query, phase, parsing, running>>

Bool(b) == [type |-> "bool", n |-> IF b THEN 1 ELSE 0]

AsBool(v) == v.n = 1

Number(n) == [type |-> "double", n |-> n]

-----------------------------------------------------------------------------
(***************************************************************************)
(* What the parser emits for a comparison.                                 *)
(***************************************************************************)
Instruction(ins, arg) == [ins |-> ins, arg |-> arg]

Push(v) == Instruction("push", v)

Do(ins) == Instruction(ins, Invalid)

Pushes(vs) == [k \in DOMAIN vs |-> Push(vs[k])]

\* $regex is emitted twice, with its pattern and without.
Comparison(e) ==
  LET field == Instruction("field", e.field)
  IN  CASE e.op = "is" ->
             (IF e.v.type = "bool" THEN <<field, Push(e.v)>> ELSE <<Push(e.v), field>>)
               \o <<Do("eq")>>
        [] e.op = "range"   -> <<field, Push(e.v), Push(e.hi), Do("range")>>
        [] e.op = "regex"   -> <<field, Instruction("regex", e.v), Do("regex")>>
        [] e.op \in Members -> <<field>> \o Pushes(e.vs) \o <<Push(Number(Len(e.vs))), Do(e.op)>>
        [] OTHER            -> <<field, Push(e.v), Do(e.op)>>

Indexable(e) ==
  /\ \/ e.op = "is" /\ e.v.type # "bool"
     \/ e.op \in {"gt", "lt", "range"}
  /\ e.field \in Indexed

\* Whether the entry of document d lies in the range of comparison e.
InRange(e, d) ==
  /\ e.field \in DOMAIN d
  /\ LET key == d[e.field]
     IN  CASE e.op = "is"    -> ~Less(key, e.v) /\ ~Less(e.v, key)
           [] e.op = "gt"    -> Less(e.v, key)
           [] e.op = "lt"    -> Less(key, e.v)
           [] e.op = "range" -> ~Less(key, e.v) /\ ~Less(e.hi, key)

Keys(f) == {i \in DOMAIN Stored : f \in DOMAIN Stored[i]}

\* lower_bound of the lower end lies behind upper_bound of the upper end.
Reversed(e) ==
  /\ e.op = "range"
  /\ Cardinality({i \in Keys(e.field) : Less(Stored[i][e.field], e.v)})
       > Cardinality({i \in Keys(e.field) : ~Less(e.hi, Stored[i][e.field])})
-----------------------------------------------------------------------------
(***************************************************************************)
(* The parser.  A call of parse_expression is a frame: its operator, its   *)
(* operands, the one it reads next, and the index_resolved it restores.    *)
(* The first frame is the call of parse_query.                             *)
(***************************************************************************)
Frame(op, of) == [op |-> op, of |-> of, next |-> 1, kept |-> resolved]

Init ==
  /\ query \in Asked
  /\ phase = "parse"
  /\ resolved = FALSE
  /\ open = <<Frame("query", <<query>>)>>
  /\ code = <<>>
  /\ by = <<>>
  /\ met = FALSE
  /\ balanced = TRUE
  /\ todo = {}
  /\ pc = 1
  /\ stack = <<>>
  /\ found = {}
  /\ wild = FALSE

Inner == Last(open)

\* The expression that is read next.
Operand == Inner.of[Inner.next]

Reads(ops) ==
  /\ phase = "parse"
  /\ Inner.next <= Len(Inner.of)
  /\ Operand.op \in ops

HasRead(ops) ==
  /\ phase = "parse"
  /\ Inner.next > Len(Inner.of)
  /\ Inner.op \in ops

Advanced == [open EXCEPT ![Len(open)].next = @ + 1]

Within(op) == \E k \in DOMAIN open : open[k].op = op

\* {} leaves no operand behind for the expression it is in.
ParseEmpty ==
  /\ Reads({"all"})
  /\ open' = Advanced
  /\ balanced' = (balanced /\ Len(open) = 1)
  /\ UNCHANGED <<query, phase, code, resolved, by, met, running>>

(***************************************************************************)
(* History.  The comparison that gets the index - the first one outside of *)
(* $not that could use one - has to be the whole query, or an equality     *)
(* under nothing but $and: under $or the range hides documents from the    *)
(* other operands, and $gt, $lt and $range leave no operand behind for     *)
(* $and and $or to count.  The bounds of a $range must not be reversed,    *)
(* and the field must hold numbers.                                        *)
(***************************************************************************)
FirstUse(e) == Indexable(e) /\ ~met /\ ~Within("not")

RangeSuits(e) ==
  e.op = "range" => ~Reversed(e) /\ \A i \in Keys(e.field) : IsNumeric(Stored[i][e.field])

SuitsIndex(e) == IF Len(open) = 1 THEN RangeSuits(e) ELSE e.op = "is" /\ ~Within("or")

\* The first comparison with an index settles the range; all but "is" then need no code.
Emit(e) ==
  IF Indexable(e) /\ ~resolved
  THEN /\ code' = IF e.op = "is" THEN code \o Comparison(e) ELSE code
       /\ resolved' = TRUE
       /\ by' = <<e>>
  ELSE /\ code' = code \o Comparison(e)
       /\ UNCHANGED <<resolved, by>>

ParseComparison ==
  /\ Reads(Comparisons)
  /\ open' = Advanced
  /\ Emit(Operand)
  /\ met' = (met \/ FirstUse(Operand))
  /\ balanced' = (balanced /\ (FirstUse(Operand) => SuitsIndex(Operand)))
  /\ UNCHANGED <<query, phase, running>>

EnterJunction ==
  /\ Reads(Junctions)
  /\ open' = Append(Advanced, Frame(Operand.op, Operand.of))
  /\ UNCHANGED <<query, phase, code, resolved, by, met, balanced, running>>

LeaveJunction ==
  /\ HasRead(Junctions)
  /\ code' = code \o <<Push(Number(Len(Inner.of))), Do(Inner.op)>>
  /\ open' = Front(open)
  /\ UNCHANGED <<query, phase, resolved, by, met, balanced, running>>

\* Variant: inside $not an index is used as anywhere else.
ResolvedInNotAsBefore == resolved

\* A $not needs the documents outside the range of its operand, so none is used in it.
ResolvedInNot == TRUE

EnterNot ==
  /\ Reads({"not"})
  /\ open' = Append(Advanced, Frame("not", <<Operand.of>>))
  /\ resolved' = ResolvedInNot
  /\ UNCHANGED <<query, phase, code, by, met, balanced, running>>

LeaveNot ==
  /\ HasRead({"not"})
  /\ code' = Append(code, Do("not"))
  /\ resolved' = Inner.kept
  /\ open' = Front(open)
  /\ UNCHANGED <<query, phase, by, met, balanced, running>>

\* parse_query returns the range: of the index, or of all documents.
LeaveQuery ==
  /\ HasRead({"query"})
  /\ phase' = "run"
  /\ todo' = {i \in DOMAIN Stored : by # <<>> => InRange(by[1], Stored[i])}
  /\ wild' = (by # <<>> /\ Reversed(by[1]))
  /\ UNCHANGED <<query, parsing, pc, stack, found>>
-----------------------------------------------------------------------------
(***************************************************************************)
(* The stack machine: what one instruction i does to the stack s, testing  *)
(* document d.                                                             *)
(***************************************************************************)
\* The k-th value from the top, which is the first.
Top(s, k) == s[Len(s) + 1 - k]

\* The number of operands that $and, $or, $in and $nin find on the stack.
Count(s) == IF s = <<>> THEN 0 ELSE Top(s, 1).n

\* How many values an instruction takes from the stack.
Taken(i, s) ==
  CASE i.ins \in {"push", "field"} -> 0
    [] i.ins \in {"not", "regex"}  -> 1
    [] i.ins \in Binaries          -> 2
    [] i.ins = "range"             -> 3
    [] i.ins \in Junctions         -> 1 + Count(s)
    [] i.ins \in Members           -> 2 + Count(s)

OfType(v, name) ==
  CASE name = "bool"   -> v.type = "bool"
    [] name = "number" -> IsNumeric(v) /\ v.type # "bool"
    [] OTHER           -> v.type = name

Matches(pattern, v) == IsString(v) /\ <<pattern.n, v.n>> \in Fits

\* $gt and $lt order strings with strings and bools with numbers, as operator> and
\* operator< do; the documentation has them match numeric fields only.
Holds(ins, v, literal) ==
  CASE ins = "eq"         -> Eq(v, literal)
    [] ins = "ne"         -> ~Eq(v, literal)
    [] ins = "gt"         -> Greater(v, literal)
    [] ins = "lt"         -> Less(v, literal)
    [] ins = "startsWith" -> Matches(literal, v)
    [] ins = "exists"     -> (v # Invalid) = AsBool(literal)
    [] ins = "type"       -> OfType(v, TypeNames[literal.n])

Between(v, low, high) == AtLeast(v, low) /\ AtMost(v, high)

\* Variant: the first literal of the list is not compared.
AmongAllButFirst(s) == \E k \in 2 .. Count(s) : Eq(Top(s, Count(s) + 2), Top(s, k))

\* The field lies below the literals, and these below their number.
Among(s) == \E k \in 2 .. Count(s) + 1 : Eq(Top(s, Count(s) + 2), Top(s, k))

Joined(op, s) ==
  IF op = "and" THEN \A k \in 2 .. Count(s) + 1 : AsBool(Top(s, k))
  ELSE \E k \in 2 .. Count(s) + 1 : AsBool(Top(s, k))

Result(i, s, d) ==
  CASE i.ins = "push"        -> i.arg
    [] i.ins = "field"       -> Member(d, i.arg)
    [] i.ins = "not"         -> Bool(~AsBool(Top(s, 1)))
    [] i.ins = "regex"       -> Bool(Matches(i.arg, Top(s, 1)))
    [] i.ins \in Binaries    -> Bool(Holds(i.ins, Top(s, 2), Top(s, 1)))
    [] i.ins = "range"       -> Bool(Between(Top(s, 3), Top(s, 2), Top(s, 1)))
    [] i.ins \in Junctions   -> Bool(Joined(i.ins, s))
    [] i.ins \in Members     -> Bool(Among(s) = (i.ins = "in"))

Enough(i, s) == Len(s) >= Taken(i, s)

\* Variant: the field is left under the answer of $in and $nin.
AfterAboveField(i, s, d) ==
  LET kept == IF i.ins \in Members THEN 1 ELSE 0
  IN  Append(SubSeq(s, 1, Len(s) - Taken(i, s) + kept), Result(i, s, d))

After(i, s, d) == Append(SubSeq(s, 1, Len(s) - Taken(i, s)), Result(i, s, d))

Tests == phase = "run" /\ ~wild /\ todo # {}

\* The document that is tested: the order does not matter to the answer.
Tested == CHOOSE i \in todo : TRUE

\* One turn of the loop over the instructions.
Execute ==
  /\ Tests
  /\ pc <= Len(code)
  /\ Enough(code[pc], stack)
  /\ stack' = After(code[pc], stack, Stored[Tested])
  /\ pc' = pc + 1
  /\ UNCHANGED <<query, phase, parsing, todo, found, wild>>

\* The code reads in front of its vector.
RunsShort ==
  /\ Tests
  /\ IF pc <= Len(code) THEN ~Enough(code[pc], stack) ELSE code # <<>> /\ stack = <<>>
  /\ wild' = TRUE
  /\ UNCHANGED <<query, phase, parsing, todo, pc, stack, found>>

\* Without instructions every document passes, and the stack is left alone.
Finish ==
  /\ Tests
  /\ pc > Len(code)
  /\ code # <<>> => stack # <<>>
  /\ found' = IF code = <<>> \/ AsBool(Top(stack, 1)) THEN found \cup {Tested} ELSE found
  /\ todo' = todo \ {Tested}
  /\ pc' = 1
  /\ stack' = <<>>
  /\ UNCHANGED <<query, phase, parsing, wild>>

Answered == phase = "run" /\ todo = {} /\ ~wild

\* After the answer, or undefined behaviour, nothing more is asked.
Rest ==
  /\ Answered \/ wild
  /\ UNCHANGED vars

Next ==
  \/ ParseEmpty
  \/ ParseComparison
  \/ EnterJunction
  \/ LeaveJunction
  \/ EnterNot
  \/ LeaveNot
  \/ LeaveQuery
  \/ Execute
  \/ RunsShort
  \/ Finish
  \/ Rest

Spec == Init /\ [][Next]_vars
-----------------------------------------------------------------------------
(***************************************************************************)
(* What an expression means, by its tree and with no index and no stack:   *)
(* the places of the documents it selects, given those of its parts.       *)
(***************************************************************************)
Compares(e, d) ==
  LET x == Member(d, e.field)
  IN  CASE e.op = "is"    -> Eq(x, e.v)
        [] e.op = "range" -> Between(x, e.v, e.hi)
        [] e.op = "in"    -> \E k \in DOMAIN e.vs : Eq(x, e.vs[k])
        [] e.op = "nin"   -> \A k \in DOMAIN e.vs : ~Eq(x, e.vs[k])
        [] e.op = "regex" -> Matches(e.v, x)
        [] OTHER          -> Holds(e.op, x, e.v)

Meaning(parts, e) ==
  CASE e.op = "all" -> DOMAIN Stored
    [] e.op = "and" -> {i \in DOMAIN Stored : \A k \in DOMAIN e.of : i \in parts[e.of[k]]}
    [] e.op = "or"  -> {i \in DOMAIN Stored : \E k \in DOMAIN e.of : i \in parts[e.of[k]]}
    [] e.op = "not" -> DOMAIN Stored \ parts[e.of]
    [] OTHER        -> {i \in DOMAIN Stored : Compares(e, Stored[i])}

Means[e \in Expressions] == Meaning(Means, e)

(***************************************************************************)
(* Every instruction finds its operands on the stack, and no range runs    *)
(* off its index: the parser and the machine agree on what each expression *)
(* leaves behind, whether an index answered a part of it or not.           *)
(***************************************************************************)
StaysInBounds == wild => ~balanced

(***************************************************************************)
(* At the end of the instructions the stack holds the verdict and nothing  *)
(* else, so the one taken from its top is the verdict of the whole query.  *)
(***************************************************************************)
OneVerdict ==
  balanced /\ phase = "run" /\ todo # {} /\ code # <<>> /\ pc > Len(code) =>
    Len(stack) = 1 /\ stack[1].type = "bool"

HasRegex == \E k \in DOMAIN code : code[k].ins = "regex"

\* Every $gt and $lt of the query compares a number, with a field that is never a bool.
ComparesNumbers[e \in Expressions] ==
  /\ e.op \in {"gt", "lt"} =>
       /\ OfType(e.v, "number")
       /\ \A i \in DOMAIN Stored : Member(Stored[i], e.field).type # "bool"
  /\ \A k \in DOMAIN Operands(e) : ComparesNumbers[Operands(e)[k]]

(***************************************************************************)
(* The answer is what the query means, for every document stored: neither  *)
(* the index that was used nor the order of the stack changes it.  Left    *)
(* out is what the documentation says otherwise than the code does: $regex,*)
(* which is never true, and $gt and $lt of strings and bools, which are to *)
(* match numeric fields only.                                              *)
(***************************************************************************)
AnswersAreMeaning ==
  Answered /\ balanced /\ ~HasRegex /\ ComparesNumbers[query] => found = Means[query]

(***************************************************************************)
(* The same of every query: that it is answered, and with its meaning.     *)
(***************************************************************************)
EveryAnswerIsMeaning == ~wild /\ (Answered => found = Means[query])
=============================================================================
