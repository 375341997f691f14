------------------------------ MODULE QueryPlan ------------------------------
(***************************************************************************)
(* The Query compiler and the plan it produces (query/compiler.c,          *)
(* query/plan.c, query/program_internal.h): an operator-precedence parse   *)
(* of the token sequence into a postfix array of instructions, the guards  *)
(* that tie every step to its path prefix and every predicate to its       *)
(* candidate, type analysis, the optimiser, the choice of the execution    *)
(* level, and the structural checks that plan_open repeats on the image.   *)
(*                                                                         *)
(* Tokens are abstract: Lexicon gives every lexeme its kind, and what the  *)
(* lexer and the payload keep of it.  An axis with its test, and a         *)
(* function name with its opening parenthesis, are one lexeme each.        *)
(* Instruction numbers start at 1 and None is the missing operand.         *)
(* This module is for model checking only.                                 *)
(***************************************************************************)
EXTENDS Integers, Sequences, SequencesExt, FiniteSets

CONSTANTS
  Lexicon,      \* lexeme -> [k, axis, fn, any, data, mask, num, type]
  MaxNesting,   \* options.max_nesting
  MaxStates,    \* options.max_states
  MaxPattern    \* options.max_pattern

None == 0

\* A definition of its own: TLC evaluates it once.
Dictionary == Lexicon

Tok(t) == Dictionary[t]

\* The same sequence as a tuple, which TLC evaluates once.
Explicit(s) == s \o <<>>

Comparisons == {"eq", "ne", "lt", "le", "gt", "ge"}

\* Precedence of an infix token; 0 for every other token.
precedence(k) ==
  CASE k = "comma" -> 1
    [] k = "union" -> 2
    [] k = "or" -> 3
    [] k = "and" -> 4
    [] k \in Comparisons -> 5
    [] k \in {"intersect", "except"} -> 6
    [] k \in {"child", "desc"} -> 7
    [] OTHER -> 0

\* Nearest-first axes.
query_reverse_axis(axis) ==
  axis \in {"ancestor", "ancestor-or-self", "preceding-sibling", "preceding"}

-----------------------------------------------------------------------------
(* Parsing: a stack of open operators and a stack of operand instructions. *)

Low(nodes, own, left, right) ==
  LET lows == {own} \cup {nodes[c].low : c \in {left, right} \ {None}}
  IN  CHOOSE l \in lows : \A m \in lows : l <= m

add_node(p, op, left, right, tok) ==
  [p EXCEPT
    !.nodes = Append(@,
      [op |-> op, left |-> left, right |-> right, tok |-> tok, axis |-> "child",
       low |-> Low(p.nodes, Len(p.nodes) + 1, left, right),
       anchor |-> 0, scalar |-> FALSE, grouped |-> FALSE, nested |-> FALSE,
       pguard |-> None, path |-> None, kind |-> "none", reuse |-> None,
       type |-> "node", folded |-> FALSE, fn |-> "none"]),
    !.vals = Append(@, Len(p.nodes) + 1)]

Fail(p, code) == [p EXCEPT !.rc = code]

PopVals(p, n) == [p EXCEPT !.vals = SubSeq(@, 1, Len(@) - n)]

PopOp(p) == [p EXCEPT !.ops = Front(@)]

\* Replace the two topmost operands by their operation.
reduce(p) ==
  LET n == Len(p.vals)
      op == Last(p.ops)
  IN  IF n < 2 THEN Fail(p, "SYNTAX")
      ELSE add_node(PopVals(PopOp(p), 2), op.k, p.vals[n - 1], p.vals[n], op.tok)

RECURSIVE ReduceTo(_, _)
ReduceTo(p, prec) ==
  IF p.rc = "OK" /\ p.ops # <<>> /\ precedence(Last(p.ops).k) >= prec
  THEN ReduceTo(reduce(p), prec)
  ELSE p

\* "(", "[" and a function's "(": one more nesting level.
ParseOpen(p, t) ==
  IF (Tok(t).k = "popen") = p.expected THEN Fail(p, "SYNTAX")
  ELSE IF p.nesting = MaxNesting THEN Fail(p, "LIMIT")
  ELSE [p EXCEPT !.ops = Append(@, [k |-> Tok(t).k, tok |-> t, base |-> Len(p.vals),
                                    free |-> p.prev \notin {"child", "desc"}]),
                 !.nesting = @ + 1,
                 !.predicates = IF Tok(t).k = "popen" THEN @ + 1 ELSE @,
                 !.expected = TRUE, !.after = FALSE]

Closed(p) == [p EXCEPT !.expected = FALSE, !.after = FALSE]

\* A function call anchors at the query's context unless a path leads to it.
CloseCall(p, op, extra) ==
  IF extra # 0 /\ (p.expected \/ extra # 1) THEN Fail(p, "SYNTAX")
  ELSE LET args == IF extra = 0 THEN None ELSE Last(p.vals)
           q == add_node(PopVals(p, extra), "call", args, None, op.tok)
       IN  Closed([q EXCEPT !.nodes[Len(q.nodes)].anchor =
                     IF p.predicates = 0 /\ op.free THEN 1 ELSE 0,
                   !.nodes[Len(q.nodes)].fn = Tok(op.tok).fn])

ClosePredicate(p, op, extra) ==
  IF p.expected \/ extra # 1 \/ op.base = 0 THEN Fail(p, "SYNTAX")
  ELSE Closed([add_node(PopVals(p, 2), "filter", p.vals[op.base], Last(p.vals), op.tok)
                 EXCEPT !.predicates = @ - 1])

CloseGroup(p, extra) ==
  IF p.expected \/ extra # 1 THEN Fail(p, "SYNTAX")
  ELSE Closed([p EXCEPT !.nodes[Last(p.vals)].grouped = TRUE])

ParseClose(reduced, t) ==
  IF reduced.rc # "OK" THEN reduced
  ELSE IF reduced.ops = <<>> THEN Fail(reduced, "SYNTAX")
  ELSE LET op == Last(reduced.ops)
           p == [PopOp(reduced) EXCEPT !.nesting = @ - 1]
           extra == Len(p.vals) - op.base
       IN  IF (Tok(t).k = "pclose") # (op.k = "popen") THEN Fail(p, "SYNTAX")
           ELSE CASE op.k = "call" -> CloseCall(p, op, extra)
                  [] op.k = "popen" -> ClosePredicate(p, op, extra)
                  [] OTHER -> CloseGroup(p, extra)

\* An infix operator; a leading "/" or "//" starts at the virtual root.
ParseInfix(p, t) ==
  LET k == Tok(t).k
      q == IF p.expected THEN add_node(p, "root", None, None, t) ELSE p
      r == ReduceTo(q, precedence(k))
  IN  IF p.expected /\ k \notin {"child", "desc"} THEN Fail(p, "SYNTAX")
      ELSE IF r.rc # "OK" THEN r
      ELSE [r EXCEPT !.ops = Append(@, [k |-> k, tok |-> t, base |-> 0, free |-> TRUE]),
                     !.expected = TRUE, !.after = k \in {"child", "desc"}]

\* A step, a literal, metadata or a variable.
ParseOperand(p, t) ==
  LET local == p.predicates = 0 /\ ~p.after
      op == CASE Tok(t).k = "dot" -> IF local THEN "root" ELSE "self"
              [] Tok(t).k \in {"word", "ddot"} -> "test"
              [] OTHER -> Tok(t).k
      q == add_node(p, op, None, None, t)
      n == Len(q.nodes)
  IN  IF ~p.expected THEN Fail(p, "SYNTAX")
      ELSE IF n > MaxStates THEN Fail(p, "LIMIT")
      ELSE [q EXCEPT !.nodes[n].axis = Tok(t).axis,
                     !.nodes[n].anchor = IF local THEN 1 ELSE 0,
                     !.nodes[n].scalar = p.predicates # 0,
                     !.nodes[n].fn = IF op = "meta" THEN Tok(t).fn ELSE @,
                     !.expected = FALSE, !.after = FALSE]

ParseToken(p, t) ==
  LET k == Tok(t).k IN
  CASE k \in {"open", "popen", "call"} -> ParseOpen(p, t)
    [] k \in {"close", "pclose"} -> ParseClose(ReduceTo(p, 1), t)
    [] precedence(k) > 0 -> ParseInfix(p, t)
    [] OTHER -> ParseOperand(p, t)

RECURSIVE ParseFrom(_, _, _)
ParseFrom(p, tokens, i) ==
  IF i > Len(tokens) \/ p.rc # "OK" THEN p
  ELSE ParseFrom([ParseToken(p, tokens[i]) EXCEPT !.prev = Tok(tokens[i]).k], tokens, i + 1)

ParseEnd(p) ==
  IF p.rc # "OK" THEN p
  ELSE IF p.expected \/ p.nesting # 0 THEN Fail(p, "SYNTAX")
  ELSE LET q == ReduceTo(p, 1)
       IN  IF q.rc # "OK" THEN q
           ELSE IF Len(q.vals) # 1 THEN Fail(q, "SYNTAX")
           ELSE IF Len(q.nodes) > MaxStates THEN Fail(q, "LIMIT")
           ELSE q

parse(tokens) ==
  ParseEnd(ParseFrom([nodes |-> <<>>, ops |-> <<>>, vals |-> <<>>, nesting |-> 0,
                      predicates |-> 0, expected |-> TRUE, after |-> FALSE,
                      prev |-> "none", rc |-> "OK"], tokens, 1))

-----------------------------------------------------------------------------
(* Guards.                                                                 *)

Span(nodes, i) == nodes[i].low .. i

NodeTest(s) ==
  \/ s.op \in {"test", "self"}
  \/ s.op = "root" /\ s.anchor = 1
  \/ s.op = "call" /\ s.fn \in {"mask", "range"}

\* How a step reaches its prefix: child, descendant or the same node.
StepKind(parent, s) ==
  IF parent = "desc" THEN "desc"
  ELSE IF s.op \in {"self", "root"} \/ s.axis = "self" THEN "self"
  ELSE IF s.axis = "descendant" THEN "desc"
  ELSE "child"

GuardStep(s, n) ==
  LET m == IF s.op = "root" /\ s.anchor = 0 /\ Tok(s.tok).k \in {"child", "desc"}
           THEN [s EXCEPT !.nested = TRUE] ELSE s
  IN  IF m.pguard # None \/ m.path # None \/ ~NodeTest(m) THEN m
      ELSE [m EXCEPT !.op = IF @ = "root" THEN "self" ELSE @,
                     !.path = n.left, !.kind = StepKind(n.op, m), !.anchor = 0]

GuardBy(nodes, n) ==
  CASE n.op = "filter" ->
         [j \in DOMAIN nodes |->
            IF j \in Span(nodes, n.right) THEN [nodes[j] EXCEPT !.pguard = n.left]
            ELSE nodes[j]]
    [] n.op \in {"child", "desc"} ->
         [j \in DOMAIN nodes |->
            IF j \in Span(nodes, n.right) THEN GuardStep(nodes[j], n) ELSE nodes[j]]
    [] OTHER -> nodes

RECURSIVE Guards(_, _)
Guards(nodes, i) == IF i > Len(nodes) THEN nodes ELSE Guards(Explicit(GuardBy(nodes, nodes[i])), i + 1)

-----------------------------------------------------------------------------
(* Analysis.                                                               *)

RECURSIVE ArgList(_, _)
ArgList(nodes, c) ==
  IF c = None THEN <<>>
  ELSE IF nodes[c].op = "comma" THEN Append(ArgList(nodes, nodes[c].left), nodes[c].right)
  ELSE <<c>>

\* The operands of a call, in order; more than three are refused.
call_args(nodes, n) == ArgList(nodes, n.left)

\* A decimal word is a number next to a comparison, as a whole predicate and
\* as a substring bound, and a tag everywhere else.
LiteralHere(nodes, j) ==
  \E i \in DOMAIN nodes :
    \/ nodes[i].op \in Comparisons /\ j \in {nodes[i].left, nodes[i].right}
    \/ nodes[i].op = "filter" /\ j = nodes[i].right
    \/ /\ nodes[i].op = "call" /\ nodes[i].fn = "substr"
       /\ j \in Range(Tail(call_args(nodes, nodes[i])))

Literals(nodes) ==
  [j \in DOMAIN nodes |->
    LET n == nodes[j] IN
    IF n.op # "test" THEN n
    ELSE IF Tok(n.tok).k = "word" /\ Tok(n.tok).num # {} /\ LiteralHere(nodes, j)
    THEN [n EXCEPT !.op = "literal",
                   !.anchor = IF \E i \in DOMAIN nodes : nodes[i].op = "filter" /\ nodes[i].right = j
                              THEN 2 ELSE @]
    ELSE IF Tok(n.tok).fn \in {"true", "false"}
    THEN [n EXCEPT !.op = "bool", !.folded = Tok(n.tok).fn = "true"]
    ELSE n]

CallType(fn) ==
  CASE fn \in {"value", "tag", "substr"} -> "bytes"
    [] fn \in {"len", "count", "position", "last"} -> "number"
    [] fn \in {"mask", "range"} -> "node"
    [] OTHER -> "bool"

Arity(fn) ==
  CASE fn \in {"value", "len", "tag", "constructed"} -> {0, 1}
    [] fn \in {"not", "count", "exists", "empty"} -> {1}
    [] fn \in {"position", "last"} -> {0}
    [] fn = "substr" -> {2, 3}
    [] OTHER -> {2}

RECURSIVE Before(_, _)
\* memcmp order with the shorter prefix first: -1, 0 or 1.
Before(a, b) ==
  IF a = <<>> THEN (IF b = <<>> THEN 0 ELSE -1)
  ELSE IF b = <<>> THEN 1
  ELSE IF Head(a) # Head(b) THEN (IF Head(a) < Head(b) THEN -1 ELSE 1)
  ELSE Before(Tail(a), Tail(b))

\* What a call requires of its operands: a verdict.
CallVerdict(nodes, n, args) ==
  LET type(j) == nodes[args[j]].type
      lit(j) == nodes[args[j]].op = "bytes"
      data(j) == Tok(nodes[args[j]].tok).data
      all(S) == \A j \in DOMAIN args : type(j) \in S
  IN CASE Len(args) \notin Arity(n.fn) -> "SYNTAX"
       [] n.fn \in {"value", "tag", "constructed", "count", "exists", "empty"} ->
            IF all({"node"}) THEN "OK" ELSE "TYPES"
       [] n.fn = "len" -> IF all({"bytes", "string"}) THEN "OK" ELSE "TYPES"
       [] n.fn = "not" -> IF all({"bool", "node"}) THEN "OK" ELSE "TYPES"
       [] n.fn = "substr" ->
            IF type(1) = "bytes" /\ \A j \in 2 .. Len(args) : type(j) = "number"
            THEN "OK" ELSE "TYPES"
       [] n.fn \in {"starts", "ends", "contains"} ->
            IF ~all({"bytes"}) THEN "TYPES"
            ELSE IF n.fn = "contains" /\ lit(2) /\ Len(data(2)) > MaxPattern THEN "LIMIT"
            ELSE "OK"
       [] n.fn \in {"mask", "range"} ->
            IF ~(all({"bytes"}) /\ lit(1) /\ lit(2)) THEN "TYPES"
            ELSE IF n.fn = "mask" /\ Len(data(1)) # Len(data(2)) THEN "SYNTAX"
            ELSE IF n.fn = "range" /\ Before(data(1), data(2)) > 0 THEN "SYNTAX"
            ELSE "OK"
       [] OTHER -> "OK"

Verdict(nodes, n) ==
  LET l == nodes[n.left].type
      r == nodes[n.right].type
      need(ok) == IF ok THEN "OK" ELSE "TYPES"
  IN CASE n.op = "call" -> CallVerdict(nodes, n, call_args(nodes, n))
       [] n.op = "test" -> IF Tok(n.tok).any \/ Tok(n.tok).data # <<>> THEN "OK" ELSE "SYNTAX"
       [] n.op \in {"child", "desc", "union", "intersect", "except"} ->
            need(l = "node" /\ r = "node")
       [] n.op = "filter" -> need(l = "node" /\ r \in {"bool", "node", "number"})
       [] n.op \in Comparisons -> need(l = r /\ l # "node")
       [] n.op \in {"and", "or"} -> need({l, r} \subseteq {"bool", "node"})
       [] OTHER -> "OK"

TypeOf(n) ==
  CASE n.op \in {"meta", "literal"} -> "number"
    [] n.op \in {"bytes", "string"} -> n.op
    [] n.op = "var" -> Tok(n.tok).type
    [] n.op \in Comparisons \cup {"and", "or", "bool"} -> "bool"
    [] n.op = "call" -> CallType(n.fn)
    [] OTHER -> "node"

\* A test that cannot be decided from the candidate and its ancestors.
DeferredTest(n) ==
  \/ n.axis \notin {"child", "self", "descendant", "ancestor", "preceding-sibling"}
  \/ n.axis = "preceding-sibling" /\ ~n.scalar
  \/ n.axis \in {"descendant", "child"} /\ n.scalar
  \/ n.axis = "ancestor" /\ ~n.scalar

LevelAfter_Forward(nodes, n, level) ==
  IF n.op = "test" /\ DeferredTest(n) THEN "D" ELSE level

\* The level after an instruction; "D" and "S2" overwrite what was there.
LevelAfter(nodes, n, level) ==
  CASE n.op = "test" /\ DeferredTest(n) -> "D"
    [] n.op = "literal" /\ n.anchor = 2 -> "D"
    [] n.op = "call" /\ n.fn \in {"count", "exists", "empty", "position", "last",
                                   "tag", "constructed"} -> "D"
    [] n.op = "call" /\ n.fn = "value" /\ n.left # None -> "D"
    [] n.op = "call" /\ n.fn \in {"mask", "range"} /\ n.pguard # None -> "S2"
    [] n.op = "filter" /\ query_reverse_axis(nodes[n.left].axis) -> "D"
    [] OTHER -> level

Truth(op, order) ==
  CASE op = "eq" -> order = 0
    [] op = "ne" -> order # 0
    [] op = "lt" -> order < 0
    [] op = "le" -> order <= 0
    [] op = "gt" -> order > 0
    [] OTHER -> order >= 0

IntOrder(a, b) == IF a < b THEN -1 ELSE IF a > b THEN 1 ELSE 0

Num(n) == CHOOSE v \in Tok(n.tok).num : TRUE

Bool(n, b) == [n EXCEPT !.op = "bool", !.left = None, !.right = None, !.folded = b]

\* Constant folding, the terminal dot, and reuse of an equal earlier test.
Optimized(nodes, i) ==
  LET n == nodes[i]
      a == nodes[n.left]
      b == nodes[n.right]
      ops == {a.op, b.op}
      same == {j \in 1 .. i - 1 :
                 \A f \in {"op", "axis", "anchor", "scalar", "pguard", "path", "kind", "tok"} :
                   nodes[j][f] = n[f]}
  IN CASE n.op \in Comparisons /\ ops = {"literal"} ->
            [nodes EXCEPT ![i] = Bool(n, Truth(n.op, IntOrder(Num(a), Num(b))))]
       [] n.op \in Comparisons /\ a.op = b.op /\ a.op \in {"bytes", "string"} ->
            [nodes EXCEPT ![i] = Bool(n, Truth(n.op, Before(Tok(a.tok).data, Tok(b.tok).data)))]
       [] n.op = "child" /\ b.op = "self" ->
            [nodes EXCEPT ![n.right] = [b EXCEPT !.op = "bool", !.type = "bool", !.folded = TRUE],
                          ![i].op = "filter"]
       [] n.op \in {"and", "or"} /\ ops = {"bool"} ->
            [nodes EXCEPT ![i] = Bool(n, IF n.op = "and" THEN a.folded /\ b.folded
                                         ELSE a.folded \/ b.folded)]
       [] n.op = "test" /\ same # {} ->
            [nodes EXCEPT ![i].reuse = CHOOSE j \in same : \A k \in same : j <= k]
       [] OTHER -> nodes

RECURSIVE AnalyzeFrom(_, _, _, _)
AnalyzeFrom(nodes, i, level, optimize) ==
  IF i > Len(nodes) THEN [nodes |-> nodes, level |-> level, rc |-> "OK"]
  ELSE LET typed == [nodes EXCEPT ![i].type = TypeOf(nodes[i])]
           rc == Verdict(typed, typed[i])
       IN  IF rc # "OK" THEN [nodes |-> typed, level |-> level, rc |-> rc]
           ELSE AnalyzeFrom(IF optimize THEN Optimized(typed, i) ELSE typed, i + 1,
                            LevelAfter(typed, typed[i], level), optimize)

\* The proven S1 shape: a root selector with one predicate of local evidence.
query_s1_filter(nodes, root) ==
  LET n == nodes[root]
      f == IF n.op = "child" /\ nodes[n.left].op = "root" /\ nodes[n.left].anchor = 0
           THEN n.right ELSE root
      s == nodes[nodes[f].left]
      Local(m) ==
        CASE m.op = "test" -> m.axis \in {"child", "descendant"}
          [] m.op = "literal" -> m.anchor # 2
          [] m.op = "call" ->
               /\ m.fn \in {"not", "count", "exists", "empty"}
               /\ m.fn # "not" => nodes[m.left].op = "test"
          [] OTHER -> m.op \in Comparisons \cup {"bool", "and", "or"}
  IN  IF /\ nodes[f].op = "filter"
         /\ s.op = "test" /\ s.axis = "child" /\ ~s.scalar
         /\ \A j \in Span(nodes, nodes[f].right) : Local(nodes[j])
      THEN f ELSE None

\* The level of the whole expression.
FinalLevel(nodes, root, level) ==
  LET deferred == \/ level = "D"
                  \/ nodes[root].type # "node"
                  \/ \E n \in Range(nodes) : n.op = "root" /\ n.nested
      global == \E n \in Range(nodes) : n.op = "test" /\ n.axis \in {"following", "preceding"}
      late == IF ~deferred THEN level ELSE IF global THEN "D" ELSE "S2"
  IN  IF late = "S2" /\ query_s1_filter(nodes, root) # None THEN "S1" ELSE late

Emitted(a, root) ==
  IF a.rc # "OK" THEN [rc |-> a.rc]
  ELSE [rc |-> "OK", nodes |-> a.nodes, root |-> root,
        level |-> FinalLevel(a.nodes, root, a.level)]

Analyzed(p, optimize) ==
  IF p.rc # "OK" THEN [rc |-> p.rc]
  ELSE Emitted(AnalyzeFrom(Explicit(Literals(Guards(p.nodes, 1))), 1, "S0", optimize), p.vals[1])

tlv_query_compile(tokens, optimize) == Analyzed(parse(tokens), optimize)

-----------------------------------------------------------------------------
(* What plan_open checks of an image.                                      *)

Backward(n, i) == \A r \in {n.left, n.right, n.pguard, n.path, n.reuse} : r = None \/ r < i

\* query_program_valid: shape, arity and types of single instructions.
query_program_valid(P) ==
  \A i \in DOMAIN P.nodes :
    LET n == P.nodes[i]
        binary == Comparisons \cup {"child", "desc", "filter", "union", "intersect", "except",
                                    "and", "or", "comma"}
    IN  /\ Backward(n, i) /\ n.low <= i
        /\ n.path # None => n.kind \in {"child", "desc", "self"}
        /\ n.op \in binary => n.left # None /\ n.right # None
        /\ n.op \notin binary => n.right = None /\ (n.op # "call" => n.left = None)
        /\ n.op = "call" => Len(call_args(P.nodes, n)) \in Arity(n.fn)
        /\ n.op # "comma" => n.type = TypeOf(n)

\* plan_types: types across instructions, and what the level promises.
plan_types(P) ==
  LET nodes == P.nodes
      Immediate(n) ==
        CASE n.op = "root" -> ~n.nested
          [] n.op = "literal" -> n.anchor # 2
          [] n.op = "test" -> ~DeferredTest(n)
          [] n.op = "filter" -> ~query_reverse_axis(nodes[n.left].axis)
          [] n.op = "call" ->
               /\ n.fn \notin {"count", "exists", "empty", "position", "last", "tag", "constructed"}
               /\ n.fn = "value" => n.left = None
               /\ n.fn \in {"mask", "range"} => n.pguard = None
          [] OTHER -> TRUE
  IN  /\ nodes[P.root].op # "comma"
      /\ \A n \in Range(nodes) :
           /\ \A g \in {n.pguard, n.path} \ {None} : nodes[g].type = "node"
           /\ n.left # None /\ nodes[n.left].op = "comma" => n.op \in {"call", "comma"}
           /\ n.right # None => nodes[n.right].op # "comma"
           /\ Verdict(nodes, n) = "OK"
           /\ n.op = "test" /\ n.axis \in {"following", "preceding"} => P.level = "D"
           /\ n.op = "test" /\ n.reuse # None =>
                \A f \in {"op", "axis", "anchor", "scalar", "pguard", "path", "kind", "tok"} :
                  nodes[n.reuse][f] = n[f]
      /\ P.level = "S0" => nodes[P.root].type = "node" /\ \A n \in Range(nodes) : Immediate(n)
      /\ P.level = "S1" => query_s1_filter(nodes, P.root) # None

tlv_query_plan_open(P) == query_program_valid(P) /\ plan_types(P)

=============================================================================
