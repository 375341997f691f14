------------------------------ MODULE QueryEval ------------------------------
(***************************************************************************)
(* The evaluators of a compiled Query: the immediate machine that decides  *)
(* every node when it is published (execute.c: evaluate), the scope        *)
(* machine that decides a root at its END (s1_feed, s1_decide) and the     *)
(* retained frame machine that runs once the input is complete             *)
(* (evaluation.c: query_retained_finish).                                  *)
(*                                                                         *)
(* A value is [k, n, d]: its kind, its number (truth, count or integer)    *)
(* and its bytes.  T is the tree the events describe: T.depth, T.tag,      *)
(* T.val and T.con are indexed by preorder identity 1, 2, ...  x is the    *)
(* execution (QueryExecution).  The work meter is not counted here.        *)
(* This module is for model checking only.                                 *)
(***************************************************************************)
EXTENDS QueryPlan

CONSTANT Bindings   \* variable lexeme -> the value bound to it

Value(k, n, d) == [k |-> k, n |-> n, d |-> d]

NoValue == Value("node", 0, <<>>)

AsBool(b) == Value("bool", IF b THEN 1 ELSE 0, <<>>)

AsNode(b) == Value("node", IF b THEN 1 ELSE 0, <<>>)

truth(v) == v.n # 0

Done(v) == [rc |-> "OK", v |-> v]

Error(code) == [rc |-> code, v |-> NoValue]

-----------------------------------------------------------------------------
(* Scalar operations shared by the machines.                               *)

Masked(t, m) == IF m = 0 THEN 0 ELSE t

\* Exact, per-byte wildcard, or any tag.
query_plan_tag(n, tag) ==
  LET w == Tok(n.tok)
  IN  w.any \/ (/\ Len(tag) = Len(w.data)
                /\ \A i \in DOMAIN tag : Masked(tag[i], w.mask[i]) = Masked(w.data[i], w.mask[i]))

compare(a, b) ==
  CASE a.k \in {"bytes", "string"} -> Before(a.d, b.d)
    [] OTHER -> IntOrder(a.n, b.n)

\* The longest border that c can extend, following the prefix links.
RECURSIVE Advance(_, _, _, _)
Advance(b, links, m, c) ==
  IF b[m + 1] = c THEN m + 1
  ELSE IF m = 0 THEN 0
  ELSE Advance(b, links, links[m], c)

RECURSIVE Links(_, _)
Links(b, links) ==
  IF Len(links) = Len(b) THEN links
  ELSE Links(b, Append(links, Advance(b, links, Last(links), b[Len(links) + 1])))

RECURSIVE Search(_, _, _, _, _)
Search(a, b, links, i, m) ==
  IF m = Len(b) THEN TRUE
  ELSE IF i > Len(a) THEN FALSE
  ELSE Search(a, b, links, i + 1, Advance(b, links, m, a[i]))

\* The cursor into the haystack only advances.
contains(a, b) ==
  \/ b = <<>>
  \/ Len(b) <= Len(a) /\ Search(a, b, Links(b, <<0>>), 1, 0)

substr(a, args) ==
  LET begin == IF args[2].n > Len(a) THEN Len(a) ELSE args[2].n
      rest == Len(a) - begin
      size == IF Len(args) = 3 /\ args[3].n < rest THEN args[3].n ELSE rest
  IN  SubSeq(a, begin + 1, begin + size)

InRange(tag, low, high) == Before(tag, low) >= 0 /\ Before(tag, high) <= 0

\* The scalar functions of one event; tag functions test that event's tag.
query_function_eval(n, args, tag, val, anchored) ==
  LET a == args[1].d
      b == args[2].d
  IN CASE n.fn = "value" -> Done(Value("bytes", 0, val))
       [] n.fn = "len" -> Done(Value("number", IF args = <<>> THEN Len(val) ELSE Len(a), <<>>))
       [] n.fn = "not" -> Done(AsBool(~truth(args[1])))
       [] n.fn = "substr" ->
            IF \E j \in 2 .. Len(args) : args[j].n < 0 THEN Error("INVALID")
            ELSE Done(Value("bytes", 0, substr(a, args)))
       [] n.fn = "mask" ->
            Done(AsNode(/\ ~anchored /\ Len(a) = Len(tag)
                        /\ \A i \in DOMAIN tag : Masked(tag[i], b[i]) = Masked(a[i], b[i])))
       [] n.fn = "range" -> Done(AsNode(~anchored /\ InRange(tag, a, b)))
       [] n.fn = "starts" -> Done(AsBool(IsPrefix(b, a)))
       [] n.fn = "ends" -> Done(AsBool(IsSuffix(b, a)))
       [] n.fn = "contains" -> IF Len(b) > MaxPattern THEN Error("LIMIT")
                               ELSE Done(AsBool(contains(a, b)))

-----------------------------------------------------------------------------
(* The immediate machine.  Per depth and instruction four bits survive:    *)
(* "here" (true for this node), "under" (for it or an ancestor), "raw"     *)
(* (its tag test holds for it or an ancestor) and "hist" (for an earlier   *)
(* sibling).                                                               *)

\* A path that starts at a root: the context or the virtual root.
root_prefix(x, root, depth, kind) ==
  IF root.anchor = 0 \/ x.context = None THEN kind = "desc" \/ depth = 0
  ELSE x.active /\ (IF kind = "desc" THEN depth > x.cdepth ELSE depth = x.cdepth + 1)

Prefix(P, x, n, depth, vals, parent) ==
  CASE n.path = None -> TRUE
    [] n.kind = "self" -> truth(vals[n.path])
    [] P.nodes[n.path].op = "root" -> root_prefix(x, P.nodes[n.path], depth, n.kind)
    [] OTHER -> (IF n.kind = "desc" THEN "under" ELSE "here") \in parent[n.path]

IsContext(x) == x.context # None /\ x.elements = x.context

\* Whether a test selects this node, given that its tag matches or not.
TestHolds(x, n, i, depth, raw, hist, parent) ==
  CASE n.axis = "preceding-sibling" -> hist
    [] n.axis = "ancestor" -> "raw" \in parent[i]
    [] n.axis = "self" /\ n.anchor = 1 -> raw /\ IsContext(x)
    [] n.axis = "descendant" ->
         raw /\ (n.anchor = 0 \/ x.context = None \/ (x.active /\ depth > x.cdepth))
    [] OTHER ->
         raw /\ (n.anchor = 0 \/ (IF x.context = None THEN depth = 0
                                  ELSE x.active /\ depth = x.cdepth + 1))

MetaValue(n, T, node, index) ==
  CASE n.fn = "len" -> Len(T.val[node])
    [] n.fn = "depth" -> T.depth[node]
    [] OTHER -> index

Operand(vals, c) == IF c = None THEN NoValue ELSE vals[c]

\* The value of an active instruction other than a test.
Compute(P, T, x, n, node, a, b, args) ==
  CASE n.op = "root" -> Done(AsNode(n.anchor = 1 /\ IsContext(x)))
    [] n.op = "self" -> Done(AsNode(TRUE))
    [] n.op \in {"child", "desc"} -> Done(AsNode(truth(b)))
    [] n.op = "filter" -> Done(AsNode(truth(a) /\ truth(b)))
    [] n.op = "union" -> Done(AsNode(truth(a) \/ truth(b)))
    [] n.op = "intersect" -> Done(AsNode(truth(a) /\ truth(b)))
    [] n.op = "except" -> Done(AsNode(truth(a) /\ ~truth(b)))
    [] n.op = "and" -> Done(AsBool(truth(a) /\ truth(b)))
    [] n.op = "or" -> Done(AsBool(truth(a) \/ truth(b)))
    [] n.op = "meta" ->
         Done(Value("number", MetaValue(n, T, node, x.index[T.depth[node] + 1]), <<>>))
    [] n.op = "literal" -> Done(Value("number", Num(n), <<>>))
    [] n.op \in {"bytes", "string"} -> Done(Value(n.op, 0, Tok(n.tok).data))
    [] n.op = "bool" -> Done(AsBool(n.folded))
    [] n.op = "var" -> Done(Bindings[n.tok])
    [] n.op \in Comparisons -> Done(AsBool(Truth(n.op, compare(a, b))))
    [] n.op = "comma" -> Done(b)
    [] OTHER -> query_function_eval(n, args, T.tag[node], T.val[node],
                                    n.anchor = 1 /\ T.depth[node] > 0)

Store(bits, v, up) ==
  bits \cup (IF truth(v) THEN {"here"} ELSE {})
       \cup (IF truth(v) \/ "under" \in up THEN {"under"} ELSE {})

\* Instruction i for this node: its value and its four bits.
Instruction(P, T, x, node, i, vals, row, old, parent) ==
  LET n == P.nodes[i]
      depth == T.depth[node]
      active == /\ n.pguard = None \/ truth(vals[n.pguard])
                /\ Prefix(P, x, n, depth, vals, parent)
      raw == query_plan_tag(n, T.tag[node])
      hist == "hist" \in old[i]
      bits == (IF raw \/ "raw" \in parent[i] THEN {"raw"} ELSE {})
              \cup (IF raw \/ hist THEN {"hist"} ELSE {})
      args == LET l == call_args(P.nodes, n) IN [j \in DOMAIN l |-> vals[l[j]]]
  IN  IF n.op = "test" THEN
        IF n.reuse # None THEN [rc |-> "OK", v |-> vals[n.reuse], bits |-> row[n.reuse]]
        ELSE [rc |-> "OK", bits |-> bits,
              v |-> AsNode(active /\ TestHolds(x, n, i, depth, raw, hist, parent))]
      ELSE IF ~active THEN [rc |-> "OK", v |-> NoValue, bits |-> old[i]]
      ELSE LET r == Compute(P, T, x, n, node, Operand(vals, n.left), Operand(vals, n.right), args)
           IN  [rc |-> r.rc, v |-> r.v, bits |-> old[i]]

RECURSIVE EvaluateFrom(_, _, _, _, _, _, _, _)
\* The remaining instructions after one that gave r.
EvaluateNext(P, T, x, node, old, parent, vals, row, r) ==
  IF r.rc # "OK" THEN [rc |-> r.rc, vals |-> vals, row |-> row]
  ELSE EvaluateFrom(P, T, x, node, old, parent, Append(vals, r.v),
                    Append(row, Store(r.bits, r.v, parent[Len(vals) + 1])))
EvaluateFrom(P, T, x, node, old, parent, vals, row) ==
  IF Len(vals) = Len(P.nodes) THEN [rc |-> "OK", vals |-> vals, row |-> row]
  ELSE EvaluateNext(P, T, x, node, old, parent, vals, row,
                    Instruction(P, T, x, node, Len(vals) + 1, vals, row, old, parent))

Blank(P) == [i \in DOMAIN P.nodes |-> {}]

Judged(P, r) ==
  [rc |-> r.rc, row |-> r.row, match |-> r.rc = "OK" /\ truth(r.vals[P.root])]

\* evaluate: the row of the node's depth, and whether the root holds.
evaluate(P, T, x, node) ==
  LET d == T.depth[node] + 1
      old == [i \in DOMAIN P.nodes |-> x.states[d][i] \cap {"hist"}]
  IN  Judged(P, EvaluateFrom(P, T, x, node, old, IF d = 1 THEN Blank(P) ELSE x.states[d - 1],
                             <<>>, <<>>))

can_prune_Axis(P, x, row) ==
  /\ x.pruning /\ x.context = None
  /\ \A i \in DOMAIN P.nodes : P.nodes[i].op # "desc" /\ "here" \notin row[i]

\* A subtree may be skipped when nothing in it can still match.
can_prune(P, x, row) ==
  /\ x.pruning /\ x.context = None
  /\ \A i \in DOMAIN P.nodes :
       LET n == P.nodes[i] IN
       /\ n.op # "desc"
       /\ ~(n.op = "test" /\ n.axis = "descendant")
       /\ n.type = "node" => "here" \notin row[i]

-----------------------------------------------------------------------------
(* The scope machine: counters of one root's evidence, decided at its END. *)

\* s1_decide for one instruction of the predicate.
ScopeValue(n, own, a, b) ==
  CASE n.op = "test" -> own
    [] n.op = "literal" -> Value("number", Num(n), <<>>)
    [] n.op = "bool" -> AsBool(n.folded)
    [] n.op = "call" -> IF n.fn = "count" THEN Value("number", a.n, <<>>)
                        ELSE AsBool(IF n.fn = "exists" THEN truth(a) ELSE ~truth(a))
    [] n.op \in {"and", "or"} ->
         AsBool(IF n.op = "and" THEN truth(a) /\ truth(b) ELSE truth(a) \/ truth(b))
    [] OTHER -> AsBool(Truth(n.op, compare(a, b)))

RECURSIVE DecideFrom(_, _, _, _)
DecideFrom(P, vals, i, last) ==
  IF i > last THEN vals
  ELSE LET n == P.nodes[i]
       IN  DecideFrom(P, [vals EXCEPT ![i] = ScopeValue(n, vals[i], Operand(vals, n.left),
                                                        Operand(vals, n.right))], i + 1, last)

s1_decide(P, x, filter) ==
  LET p == P.nodes[filter].right
  IN  x.selected /\ truth(DecideFrom(P, x.vals, P.nodes[p].low, p)[p])

\* Count the evidence a node inside the scope gives.
ScopeCount(P, T, x, node, filter) ==
  [i \in DOMAIN P.nodes |->
     IF /\ i \in Span(P.nodes, P.nodes[filter].right)
        /\ P.nodes[i].op = "test"
        /\ P.nodes[i].axis = "child" => T.depth[node] = 1
        /\ query_plan_tag(P.nodes[i], T.tag[node])
     THEN [x.vals[i] EXCEPT !.n = @ + 1] ELSE x.vals[i]]

\* s1_feed: the values and the delayed root after an event; match at its END.
s1_feed(P, T, x, ev) ==
  LET f == query_s1_filter(P.nodes, P.root)
      root == ev.depth = 0
      y == CASE ev.kind = "end" -> x
             [] root -> [x EXCEPT !.vals = [i \in DOMAIN P.nodes |-> NoValue],
                           !.selected = query_plan_tag(P.nodes[P.nodes[f].left], T.tag[ev.node]),
                           !.delayed = ev.node]
             [] x.selected -> [x EXCEPT !.vals = ScopeCount(P, T, x, ev.node, f)]
             [] OTHER -> x
      decide == root /\ ev.kind # "begin"
  IN  [x |-> IF decide THEN [y EXCEPT !.selected = FALSE] ELSE y,
       match |-> decide /\ s1_decide(P, y, f)]

-----------------------------------------------------------------------------
(* The retained machine: an explicit stack of frames over the collected    *)
(* nodes.  x.nodes[i] is [parent, end, sib] of a node; the virtual root is *)
(* the index after the capacity.  A completed child stays in the frame     *)
(* above the top until the next push.                                      *)

Virtual(x) == x.cap + 1

Frame(ins, ctx, pos, last) ==
  [ins |-> ins, ctx |-> ctx, pos |-> pos, last |-> last, sel |-> None, stage |-> 0,
   value |-> NoValue, args |-> <<>>, out |-> {}, saved |-> {}, cursor |-> 1, ord |-> 0]

push_frame(m, f, ins, ctx, pos, last) ==
  [m EXCEPT !.fs = Append(SubSeq([m.fs EXCEPT ![m.top] = f], 1, m.top), Frame(ins, ctx, pos, last)),
            !.top = @ + 1,
            !.high = IF m.top + 1 > @ THEN m.top + 1 ELSE @]

Abort(m, code) == [m EXCEPT !.rc = code]

\* Publish a frame's value and return to the frame below it.
Complete(m, f) ==
  LET g == IF f.value.k = "node" THEN [f EXCEPT !.value.n = IF f.out # {} THEN 1 ELSE 0] ELSE f
  IN  [m EXCEPT !.fs[m.top] = g, !.top = @ - 1]

AxisHolds(x, axis, c, i) ==
  LET nd == x.nodes
      inside == c # Virtual(x)
  IN CASE axis = "self" -> i = c
       [] axis = "child" -> nd[i].parent = c
       [] axis = "descendant" -> ~inside \/ (i > c /\ i < nd[c].end)
       [] axis = "descendant-or-self" -> ~inside \/ (i >= c /\ i < nd[c].end)
       [] axis = "parent" -> inside /\ i = nd[c].parent
       [] axis = "ancestor" -> inside /\ i < c /\ nd[i].end > c
       [] axis = "ancestor-or-self" -> inside /\ i <= c /\ nd[i].end > c
       [] axis = "following-sibling" -> inside /\ nd[i].parent = nd[c].parent /\ i > c
       [] axis = "preceding-sibling" -> inside /\ nd[i].parent = nd[c].parent /\ i < c
       [] axis = "following" -> inside /\ i >= nd[c].end
       [] OTHER -> inside /\ i < c /\ nd[i].end <= c

\* The nodes a test selects; ".." from a root reaches the virtual root.
TestSet(T, x, n, c) ==
  {i \in 1 .. x.elements : AxisHolds(x, n.axis, c, i) /\ query_plan_tag(n, T.tag[i])}
  \cup (IF Tok(n.tok).k = "ddot" /\ c # Virtual(x) /\ x.nodes[c].parent = Virtual(x)
        THEN {Virtual(x)} ELSE {})

\* A call whose operands are complete.
scalar_call(P, T, x, n, f) ==
  LET c == IF f.sel # None THEN f.sel ELSE f.ctx
      none == c = Virtual(x)
      tag == IF none THEN <<>> ELSE T.tag[c]
      val == IF none THEN <<>> ELSE T.val[c]
  IN CASE n.fn = "position" -> Done(Value("number", f.pos, <<>>))
       [] n.fn = "last" -> Done(Value("number", f.last, <<>>))
       [] n.fn \in {"count", "exists", "empty"} -> Done(f.args[1])
       [] none /\ (n.fn \in {"value", "tag", "constructed"} \/ (n.fn = "len" /\ f.args = <<>>)) ->
            Error("CARDINALITY")
       [] n.fn = "value" -> Done(Value("bytes", 0, val))
       [] n.fn = "tag" -> Done(Value("bytes", 0, tag))
       [] n.fn = "constructed" -> Done(AsBool(T.con[c]))
       [] OTHER -> query_function_eval(n, f.args, tag, val, FALSE)

CallSet(T, x, n, f) ==
  IF n.fn \notin {"mask", "range"} THEN {}
  ELSE {i \in 1 .. x.elements :
          /\ x.nodes[i].parent = f.ctx
          /\ truth(query_function_eval(n, f.args, T.tag[i], T.val[i], FALSE).v)}

FinishCall(P, T, x, n, m, f) ==
  IF n.fn \in {"mask", "range"} THEN Complete(m, [f EXCEPT !.out = CallSet(T, x, n, f)])
  ELSE LET r == scalar_call(P, T, x, n, f)
       IN  IF r.rc # "OK" THEN Abort(m, r.rc) ELSE Complete(m, [f EXCEPT !.value = r.v])

\* What a call takes from a node sequence: its size, or its only node.
CallArg(x, n, child) ==
  LET v == child.value
      size == Cardinality(child.out)
  IN CASE v.k # "node" -> [rc |-> "OK", v |-> v, sel |-> None]
       [] n.fn = "count" -> [rc |-> "OK", v |-> Value("number", size, <<>>), sel |-> None]
       [] n.fn = "empty" -> [rc |-> "OK", v |-> AsBool(size = 0), sel |-> None]
       [] n.fn \in {"exists", "not"} -> [rc |-> "OK", v |-> AsBool(size # 0), sel |-> None]
       [] size # 1 \/ child.out = {Virtual(x)} -> [rc |-> "CARDINALITY", v |-> v, sel |-> None]
       [] OTHER -> [rc |-> "OK", v |-> v, sel |-> CHOOSE i \in child.out : TRUE]

NextArg(P, T, x, n, m, f, child) ==
  LET r == CallArg(x, n, child)
      args == call_args(P.nodes, n)
      g == [f EXCEPT !.args = Append(@, r.v), !.sel = IF r.sel # None THEN r.sel ELSE @]
  IN  IF r.rc # "OK" THEN Abort(m, r.rc)
      ELSE IF Len(g.args) < Len(args)
      THEN push_frame(m, g, args[Len(g.args) + 1], f.ctx, f.pos, f.last)
      ELSE FinishCall(P, T, x, n, m, g)

StartCall(P, T, x, n, m, f) ==
  LET args == call_args(P.nodes, n)
  IN  IF args = <<>> THEN FinishCall(P, T, x, n, m, f)
      ELSE push_frame(m, [f EXCEPT !.stage = 10], args[1], f.ctx, f.pos, f.last)

\* The first visit of a frame: leaves complete, operators push their left side.
StartFrame(P, T, x, n, m, f) ==
  LET scalar(v) == Complete(m, [f EXCEPT !.value = v])
      nodes(S) == Complete(m, [f EXCEPT !.value = NoValue, !.out = S])
  IN CASE n.op = "test" -> nodes(TestSet(T, x, n, f.ctx))
       [] n.op \in {"root", "self"} ->
            nodes({IF n.op = "self" \/ n.anchor # 0 \/ Tok(n.tok).k = "dot" THEN f.ctx
                   ELSE Virtual(x)})
       [] n.op \in {"bytes", "string"} -> scalar(Value(n.op, 0, Tok(n.tok).data))
       [] n.op = "bool" -> scalar(AsBool(n.folded))
       [] n.op = "var" -> scalar(Bindings[n.tok])
       [] n.op = "literal" -> scalar(Value("number", Num(n), <<>>))
       [] n.op = "meta" ->
            IF f.ctx = Virtual(x) THEN Abort(m, "CARDINALITY")
            ELSE scalar(Value("number", MetaValue(n, T, f.ctx, x.nodes[f.ctx].sib), <<>>))
       [] n.op = "call" -> StartCall(P, T, x, n, m, [f EXCEPT !.value.k = n.type])
       [] OTHER -> push_frame(m, [f EXCEPT !.stage = 1, !.value.k = n.type], n.left, f.ctx,
                              f.pos, f.last)

\* "//": the left side and everything below it.
WithDescendants(x, S) ==
  IF Virtual(x) \in S THEN S \cup 1 .. x.elements
  ELSE S \cup {j \in 1 .. x.elements : \E i \in S : j > i /\ j < x.nodes[i].end}

RECURSIVE AxisOf(_, _)
\* The step whose axis orders the candidates of a chain of predicates.
AxisOf(P, i) ==
  IF P.nodes[i].op = "filter" /\ ~P.nodes[i].grouped THEN AxisOf(P, P.nodes[i].left) ELSE i

ReverseOrder(P, n) ==
  LET a == P.nodes[AxisOf(P, n.left)]
  IN  n.op = "filter" /\ ~a.grouped /\ a.op = "test" /\ query_reverse_axis(a.axis)

\* Stage 3: the next candidate in axis order, or the end of the step.
NextCandidate(P, x, n, m, f) ==
  LET at(c) == IF ReverseOrder(P, n) THEN Virtual(x) + 1 - c ELSE c
      rest == {c \in f.cursor .. Virtual(x) : at(c) \in f.saved}
      c == CHOOSE d \in rest : \A e \in rest : d <= e
      filter == n.op = "filter"
  IN  IF rest = {} THEN Complete(m, f)
      ELSE push_frame(m, [f EXCEPT !.cursor = c, !.sel = at(c), !.ord = @ + 1, !.stage = 4],
                      n.right, at(c), IF filter THEN f.ord + 1 ELSE 1,
                      IF filter THEN Cardinality(f.saved) ELSE 1)

\* Stage 1: the left operand is complete.
AfterLeft(P, x, n, m, f, child) ==
  LET g == [f EXCEPT !.args = <<child.value>>, !.saved = child.out]
  IN  IF n.op \in {"child", "desc", "filter"}
      THEN NextCandidate(P, x, n, m,
             IF n.op = "desc" THEN [g EXCEPT !.saved = WithDescendants(x, @)] ELSE g)
      ELSE push_frame(m, [g EXCEPT !.stage = 2], n.right, f.ctx, f.pos, f.last)

\* Stage 2: both operands of a set operation, a connective or a comparison.
AfterRight(n, m, f, child) ==
  LET a == f.args[1]
      b == child.value
  IN CASE n.op = "union" -> Complete(m, [f EXCEPT !.out = f.saved \cup child.out])
       [] n.op = "intersect" -> Complete(m, [f EXCEPT !.out = f.saved \cap child.out])
       [] n.op = "except" -> Complete(m, [f EXCEPT !.out = f.saved \ child.out])
       [] n.op = "and" -> Complete(m, [f EXCEPT !.value = AsBool(truth(a) /\ truth(b))])
       [] n.op = "or" -> Complete(m, [f EXCEPT !.value = AsBool(truth(a) \/ truth(b))])
       [] OTHER -> Complete(m, [f EXCEPT !.value = AsBool(Truth(n.op, compare(a, b)))])

\* A numeric predicate selects a position, any other its truth.
FilterKeeps(f, v) == IF v.k = "number" THEN v.n = f.ord ELSE truth(v)

\* Stage 4: one candidate has been evaluated.
AfterCandidate(P, x, n, m, f, child) ==
  LET more == IF n.op = "filter" THEN (IF FilterKeeps(f, child.value) THEN {f.sel} ELSE {})
              ELSE child.out
  IN  NextCandidate(P, x, n, m, [f EXCEPT !.out = @ \cup more, !.cursor = @ + 1, !.stage = 3])

FrameStep(P, T, x, m) ==
  LET f == m.fs[m.top]
      n == P.nodes[f.ins]
  IN CASE f.stage = 0 -> StartFrame(P, T, x, n, m, f)
       [] f.stage = 10 -> NextArg(P, T, x, n, m, f, m.fs[m.top + 1])
       [] f.stage = 1 -> AfterLeft(P, x, n, m, f, m.fs[m.top + 1])
       [] f.stage = 2 -> AfterRight(n, m, f, m.fs[m.top + 1])
       [] OTHER -> AfterCandidate(P, x, n, m, f, m.fs[m.top + 1])

RECURSIVE RunFrames(_, _, _, _)
RunFrames(P, T, x, m) ==
  IF m.rc # "OK" \/ m.top = 0 THEN m ELSE RunFrames(P, T, x, FrameStep(P, T, x, m))

\* The result of the whole expression, and the deepest stack it needed.
query_retained_finish(P, T, x) ==
  LET c == IF x.context = None THEN Virtual(x) ELSE x.context
      m == RunFrames(P, T, x, [fs |-> <<Frame(P.root, c, 1, 1)>>, top |-> 1, high |-> 1, rc |-> "OK"])
  IN  [rc |-> m.rc, value |-> m.fs[1].value, set |-> m.fs[1].out, high |-> m.high]

=============================================================================
