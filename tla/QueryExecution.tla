--------------------------- MODULE QueryExecution ----------------------------
(***************************************************************************)
(* One execution of a compiled Query over one tree (query/execute.c,       *)
(* query/evaluation.c): configuration, feeding events, the resumable visit *)
(* driven by a tree reader with subtree pruning, final evaluation, the     *)
(* result cursor, existence and reset, with the visitor's answers and the  *)
(* failures of every step.                                                 *)
(*                                                                         *)
(* A job is what a caller does with a compiled query: a tree, the backend  *)
(* ("stream" for the immediate and scope machines, "retained" and          *)
(* "document" for the frame machine), a context, pruning, capacities, and  *)
(* whether the caller is "plain" (it configures the execution once and     *)
(* answers CONTINUE) or "any".  `rd' is the tree reader: the next event    *)
(* and whether skip_subtree put it there.  `out' is what has been          *)
(* published since the last reset.                                         *)
(***************************************************************************)
EXTENDS QueryEval

CONSTANTS
  DotToken, DdotToken, OpenToken, CloseToken, PopenToken, PcloseToken, CommaToken,
  Expressions,   \* the expressions callers compile
  Trees,         \* sequence of trees: [depth, tag, val, con, events]
  Jobs(_)        \* the jobs callers may have with a query

-----------------------------------------------------------------------------
(* What a Query expression denotes (docs/concepts/query-language.md):      *)
(* a value of the expression's syntax tree in a context node, defined on   *)
(* the complete tree and independent of how the compiler and the machines  *)
(* of QueryEval get there.  Expressions are tuples:                        *)
(*   <<"test", w>>  <<"dot">>  <<"ddot">>   a step                         *)
(*   <<"lit", w>>                           literal, metadata, variable    *)
(*   <<"abs", op, e>>  <<"path", op, l, r>> "/" and "//"                   *)
(*   <<"filter", e, p>>  <<"bin", op, l, r>>                               *)
(*   <<"call", f, args>>  <<"group", e>>                                   *)
(* Nodes are preorder identities; Top(T) is the virtual document root.     *)

\* The tokens of an expression.
RECURSIVE Text(_)
RECURSIVE TextOfArgs(_)
TextOfArgs(args) ==
  IF Len(args) <= 1 THEN (IF args = <<>> THEN <<>> ELSE Text(args[1]))
  ELSE Text(args[1]) \o <<CommaToken>> \o TextOfArgs(Tail(args))
Text(e) ==
  CASE e[1] \in {"test", "lit"} -> <<e[2]>>
    [] e[1] = "dot" -> <<DotToken>>
    [] e[1] = "ddot" -> <<DdotToken>>
    [] e[1] = "abs" -> <<e[2]>> \o Text(e[3])
    [] e[1] \in {"path", "bin"} -> Text(e[3]) \o <<e[2]>> \o Text(e[4])
    [] e[1] = "filter" -> Text(e[2]) \o <<PopenToken>> \o Text(e[3]) \o <<PcloseToken>>
    [] e[1] = "call" -> <<e[2]>> \o TextOfArgs(e[3]) \o <<CloseToken>>
    [] OTHER -> <<OpenToken>> \o Text(e[2]) \o <<CloseToken>>

-----------------------------------------------------------------------------
Ids(T) == DOMAIN T.depth

Top(T) == Len(T.depth) + 1

\* The node before i that is one level up, or the document root.
ParentOf(T, i) ==
  LET up == {j \in 1 .. i - 1 : T.depth[j] = T.depth[i] - 1}
  IN  IF up = {} THEN Top(T) ELSE CHOOSE j \in up : \A k \in up : k <= j

RECURSIVE AncestorsOf(_, _)
AncestorsOf(T, i) ==
  IF i = Top(T) THEN {} ELSE {ParentOf(T, i)} \cup AncestorsOf(T, ParentOf(T, i))

Below(T, i) == {j \in Ids(T) : i \in AncestorsOf(T, j)}

\* The nodes on an axis of c: concrete nodes only.
OnAxis(T, axis, c) ==
  LET anc == AncestorsOf(T, c)
      siblings == {j \in Ids(T) : c # Top(T) /\ ParentOf(T, j) = ParentOf(T, c)}
  IN  Ids(T) \cap
      CASE axis = "self" -> {c}
        [] axis = "child" -> {j \in Ids(T) : ParentOf(T, j) = c}
        [] axis = "descendant" -> Below(T, c)
        [] axis = "descendant-or-self" -> Below(T, c) \cup {c}
        [] axis = "parent" -> IF c = Top(T) THEN {} ELSE {ParentOf(T, c)}
        [] axis = "ancestor" -> anc
        [] axis = "ancestor-or-self" -> anc \cup {c}
        [] axis = "following-sibling" -> {j \in siblings : j > c}
        [] axis = "preceding-sibling" -> {j \in siblings : j < c}
        [] axis = "following" -> {j \in Ids(T) : c # Top(T) /\ j > c} \ Below(T, c)
        [] OTHER -> {j \in Ids(T) : c # Top(T) /\ j < c} \ anc

TagHolds(w, tag) ==
  Tok(w).any \/ (Len(tag) = Len(Tok(w).data) /\
                 \A i \in DOMAIN tag : Tok(w).mask[i] # 0 => tag[i] = Tok(w).data[i])

SiblingIndex(T, c) == Cardinality({j \in Ids(T) : j < c /\ ParentOf(T, j) = ParentOf(T, c)})

\* A denotation: a code, a kind, a node set and a scalar.
Nodes(S) == [rc |-> "OK", k |-> "node", s |-> S, v |-> NoValue]

Scalar(v) == [rc |-> "OK", k |-> v.k, s |-> {}, v |-> v]

Undefined(code) == [rc |-> code, k |-> "node", s |-> {}, v |-> NoValue]

Holds(r) == IF r.k = "node" THEN r.s # {} ELSE truth(r.v)

LitValue(T, w, c) ==
  CASE Tok(w).k = "meta" ->
         IF c = Top(T) THEN Undefined("CARDINALITY")
         ELSE Scalar(Value("number", CASE Tok(w).fn = "len" -> Len(T.val[c])
                                       [] Tok(w).fn = "depth" -> Cardinality(AncestorsOf(T, c)) - 1
                                       [] OTHER -> SiblingIndex(T, c), <<>>))
    [] Tok(w).k = "var" -> Scalar(Bindings[w])
    [] Tok(w).k \in {"bytes", "string"} -> Scalar(Value(Tok(w).k, 0, Tok(w).data))
    [] Tok(w).fn \in {"true", "false"} -> Scalar(AsBool(Tok(w).fn = "true"))
    [] OTHER -> Scalar(Value("number", CHOOSE v \in Tok(w).num : TRUE, <<>>))

\* A comparison or connective of two denotations.
Combine(k, a, b) ==
  CASE a.rc # "OK" -> a
    [] b.rc # "OK" -> b
    [] k = "union" -> Nodes(a.s \cup b.s)
    [] k = "intersect" -> Nodes(a.s \cap b.s)
    [] k = "except" -> Nodes(a.s \ b.s)
    [] k = "and" -> Scalar(AsBool(Holds(a) /\ Holds(b)))
    [] k = "or" -> Scalar(AsBool(Holds(a) \/ Holds(b)))
    [] OTHER -> Scalar(AsBool(Truth(k, IF a.k \in {"bytes", "string"} THEN Before(a.v.d, b.v.d)
                                       ELSE IntOrder(a.v.n, b.v.n))))

Occurs(b, a) ==
  \E i \in 0 .. Len(a) - Len(b) : SubSeq(a, i + 1, i + Len(b)) = b

\* The order in which a predicate counts positions.
RECURSIVE NearestFirst(_)
NearestFirst(e) ==
  CASE e[1] = "filter" -> NearestFirst(e[2])
    [] e[1] = "test" -> query_reverse_axis(Tok(e[2]).axis)
    [] OTHER -> FALSE

FirstError(rs) ==
  LET bad == {r \in rs : r.rc # "OK"} IN IF bad = {} THEN "OK" ELSE (CHOOSE r \in bad : TRUE).rc

RECURSIVE Denote(_, _, _, _, _)

CallValue(T, fn, as, c, pos, last) ==
  LET one == IF as = <<>> THEN {c} ELSE as[1].s
      it == CHOOSE i \in one : TRUE
      d(i) == as[i].v.d
  IN CASE FirstError(Range(as)) # "OK" -> Undefined(FirstError(Range(as)))
       [] fn = "position" -> Scalar(Value("number", pos, <<>>))
       [] fn = "last" -> Scalar(Value("number", last, <<>>))
       [] fn = "count" -> Scalar(Value("number", Cardinality(as[1].s), <<>>))
       [] fn = "exists" -> Scalar(AsBool(as[1].s # {}))
       [] fn = "empty" -> Scalar(AsBool(as[1].s = {}))
       [] fn = "not" -> Scalar(AsBool(~Holds(as[1])))
       [] fn = "len" /\ as # <<>> -> Scalar(Value("number", Len(d(1)), <<>>))
       [] fn \in {"value", "tag", "constructed", "len"} ->
            IF Cardinality(one) # 1 \/ one = {Top(T)} THEN Undefined("CARDINALITY")
            ELSE Scalar(CASE fn = "value" -> Value("bytes", 0, T.val[it])
                          [] fn = "tag" -> Value("bytes", 0, T.tag[it])
                          [] fn = "constructed" -> AsBool(T.con[it])
                          [] OTHER -> Value("number", Len(T.val[it]), <<>>))
       [] fn = "starts" -> Scalar(AsBool(IsPrefix(d(2), d(1))))
       [] fn = "ends" -> Scalar(AsBool(IsSuffix(d(2), d(1))))
       [] fn = "contains" ->
            IF Len(d(2)) > MaxPattern THEN Undefined("LIMIT")
            ELSE Scalar(AsBool(d(2) = <<>> \/ Occurs(d(2), d(1))))
       [] fn = "substr" ->
            IF \E j \in 2 .. Len(as) : as[j].v.n < 0 THEN Undefined("INVALID")
            ELSE Scalar(Value("bytes", 0, SubSeq(d(1), as[2].v.n + 1,
                   IF Len(as) = 3 /\ as[2].v.n + as[3].v.n < Len(d(1))
                   THEN as[2].v.n + as[3].v.n ELSE Len(d(1)))))
       [] OTHER -> \* tag-mask and tag-range: a child step
            Nodes({j \in Ids(T) :
                     /\ ParentOf(T, j) = c
                     /\ IF fn = "range" THEN Before(T.tag[j], d(1)) >= 0 /\ Before(T.tag[j], d(2)) <= 0
                        ELSE /\ Len(T.tag[j]) = Len(d(1))
                             /\ \A i \in DOMAIN d(1) : d(2)[i] # 0 => T.tag[j][i] = d(1)[i]})

Rank(S, i, down) == Cardinality({j \in S : IF down THEN j >= i ELSE j <= i})

FilterValue(T, S, p, down) ==
  LET r == [i \in S |-> Denote(T, p, i, Rank(S, i, down), Cardinality(S))]
      keep(i) == IF r[i].k = "number" THEN r[i].v.n = Rank(S, i, down) ELSE Holds(r[i])
      rc == FirstError({r[i] : i \in S})
  IN  IF rc # "OK" THEN Undefined(rc) ELSE Nodes({i \in S : keep(i)})

StepValue(T, op, S, e) ==
  LET from == IF Tok(op).k = "desc" THEN S \cup UNION {Below(T, i) : i \in S} ELSE S
      r == [i \in from |-> Denote(T, e, i, 1, 1)]
      rc == FirstError({r[i] : i \in from})
  IN  IF rc # "OK" THEN Undefined(rc) ELSE Nodes(UNION {r[i].s : i \in from})

Denote(T, e, c, pos, last) ==
  CASE e[1] = "test" -> Nodes({i \in OnAxis(T, Tok(e[2]).axis, c) : TagHolds(e[2], T.tag[i])})
    [] e[1] = "dot" -> Nodes({c})
    [] e[1] = "ddot" -> Nodes(IF c = Top(T) THEN {} ELSE {ParentOf(T, c)})
    [] e[1] = "lit" -> LitValue(T, e[2], c)
    [] e[1] = "group" -> Denote(T, e[2], c, pos, last)
    [] e[1] = "abs" -> StepValue(T, e[2], {Top(T)}, e[3])
    [] e[1] = "path" -> LET l == Denote(T, e[3], c, pos, last)
                        IN  IF l.rc # "OK" THEN l ELSE StepValue(T, e[2], l.s, e[4])
    [] e[1] = "filter" -> LET l == Denote(T, e[2], c, pos, last)
                          IN  IF l.rc # "OK" THEN l ELSE FilterValue(T, l.s, e[3], NearestFirst(e[2]))
    [] e[1] = "bin" -> Combine(Tok(e[2]).k, Denote(T, e[3], c, pos, last), Denote(T, e[4], c, pos, last))
    [] OTHER -> CallValue(T, Tok(e[2]).fn, [i \in DOMAIN e[3] |-> Denote(T, e[3][i], c, pos, last)],
                          c, pos, last)

-----------------------------------------------------------------------------
(* The execution and its callers. *)

VARIABLES query, plan, job, x, rd, call, out, found

vars == <<query, plan, job, x, rd, call, out, found>>

Forest == Trees

T == Forest[job.tree]

Retained == job.backend # "stream"

\* exec_init / eval_init: zeroed state in the caller's workspace.
Fresh(j) ==
  [open |-> 0, elements |-> 0, states |-> [d \in 1 .. j.depth + 1 |-> Blank(plan)],
   index |-> [d \in 1 .. j.depth + 1 |-> 0], cap |-> j.cap, context |-> None, pruning |-> FALSE,
   bound |-> FALSE, cfound |-> FALSE, cdepth |-> 0, active |-> FALSE, pruned |-> 0,
   pallowed |-> FALSE, pdepth |-> 0, any |-> FALSE, invalid |-> FALSE, finished |-> FALSE,
   nodes |-> <<>>, stack |-> [d \in 1 .. j.depth + 1 |-> None], set |-> {}, kind |-> "node",
   value |-> NoValue, high |-> 0, cursor |-> 0,
   vals |-> [i \in DOMAIN plan.nodes |-> NoValue], selected |-> FALSE, delayed |-> None]

NoJob == [tree |-> 1, backend |-> "none"]

Init ==
  /\ query \in Expressions
  /\ plan \in {tlv_query_compile(Text(query), optimize) : optimize \in BOOLEAN}
  /\ job = NoJob /\ x = [invalid |-> TRUE]
  /\ rd = [pos |-> 1, skipped |-> FALSE]
  /\ call = "closed" /\ out = <<>> /\ found = "none"

\* exec_init and eval_init: exec_size and eval_size check the instructions of
\* the program again, and exec_size admits only S0 and S1 to the stream machines.
Open ==
  /\ call = "closed" /\ plan.rc = "OK" /\ query_program_valid(plan)
  /\ job' \in {j \in Jobs(query) : j.backend = "stream" => plan.level \in {"S0", "S1"}}
  /\ x' = Fresh(job') /\ call' = "none"
  /\ UNCHANGED <<query, plan, rd, out, found>>

-----------------------------------------------------------------------------
(* Configuration: only before the first event.                             *)

Unused == x.elements = 0 /\ x.open = 0 /\ ~x.invalid /\ ~x.finished

Variables == \E i \in DOMAIN plan.nodes : plan.nodes[i].op = "var"

\* tlv_query_exec_context.
SetContext ==
  /\ call = "none" /\ Unused /\ job.context \notin {None, x.context}
  /\ Retained \/ plan.level # "S1"
  /\ job.context <= x.cap
  /\ x' = [x EXCEPT !.context = job.context]
  /\ UNCHANGED <<query, plan, job, rd, call, out, found>>

\* tlv_query_exec_pruning.
SetPruning ==
  /\ call = "none" /\ Unused /\ ~Retained /\ job.pruning # x.pruning
  /\ x' = [x EXCEPT !.pruning = job.pruning]
  /\ UNCHANGED <<query, plan, job, rd, call, out, found>>

\* tlv_query_exec_bind for every variable of the program.
Bind ==
  /\ call = "none" /\ Unused /\ Variables /\ ~x.bound
  /\ x' = [x EXCEPT !.bound = TRUE]
  /\ UNCHANGED <<query, plan, job, rd, call, out, found>>

\* A plain caller configures the execution before it uses it.
Configured ==
  job.caller = "plain" =>
    /\ x.context = job.context
    /\ x.pruning = job.pruning
    /\ Variables => x.bound

bindings_ready == Variables => x.bound

-----------------------------------------------------------------------------
(* Feeding one event.                                                      *)

\* The common event contract.
ContractHolds(ev) ==
  IF ev.kind = "end"
  THEN /\ x.open > 0 /\ ev.depth = x.open - 1
       /\ ev.skipped => ~Retained /\ x.pallowed /\ x.pdepth = ev.depth
  ELSE ev.depth = x.open /\ ~ev.skipped

\* query_retained_feed: parents and extents of the collected nodes.
query_retained_feed(y, ev) ==
  IF ev.kind = "end"
  THEN [y EXCEPT !.nodes[y.stack[ev.depth + 1]].end = y.elements + 1]
  ELSE LET id == y.elements + 1 IN
       [y EXCEPT
         !.nodes = Append(@, [parent |-> IF ev.depth = 0 THEN Virtual(y) ELSE y.stack[ev.depth],
                              end |-> IF ev.kind = "begin" THEN 0 ELSE id + 1,
                              sib |-> y.index[ev.depth + 1]]),
         !.stack[ev.depth + 1] = IF ev.kind = "begin" THEN id ELSE @]

\* Scope evidence of an event that closes a node.
AfterScope(s) == [rc |-> "OK", match |-> s.match, x |-> [s.x EXCEPT !.open = @ - 1]]
ScopeStep(y, ev) ==
  AfterScope(IF ~Retained /\ plan.level = "S1" THEN s1_feed(plan, T, y, ev)
             ELSE [x |-> y, match |-> FALSE])

\* An END closes a scope: pruning, context and scope evidence.
FeedEnd(y, ev) ==
  ScopeStep([y EXCEPT !.pruned = IF ev.skipped THEN @ + 1 ELSE @,
                      !.pallowed = FALSE,
                      !.active = @ /\ ev.depth # y.cdepth], ev)

\* A published node enters the context if it is the selected one.
Enter(y, ev) ==
  LET here == y.context = y.elements + 1
  IN  [y EXCEPT !.elements = @ + 1, !.pallowed = FALSE,
                !.cfound = @ \/ here,
                !.cdepth = IF here THEN ev.depth ELSE @,
                !.active = IF here THEN ev.kind = "begin" ELSE @]

Verdict0(rc, match, y, prune) == [rc |-> rc, match |-> match, x |-> y, prune |-> prune]

OfScope(s) == Verdict0("OK", s.match, s.x, FALSE)

OfRow(y, ev, r) ==
  IF r.rc # "OK" THEN Verdict0(r.rc, FALSE, y, FALSE)
  ELSE Verdict0("OK", r.match, [y EXCEPT !.states[ev.depth + 1] = r.row],
                can_prune(plan, y, r.row))

\* The machine of the backend and the level decides the published node.
Decide(y, ev) ==
  IF Retained THEN Verdict0("OK", FALSE, y, FALSE)
  ELSE IF plan.level = "S1" THEN OfScope(s1_feed(plan, T, y, ev))
  ELSE OfRow(y, ev, evaluate(plan, T, y, ev.node))

\* Sibling counters, and the row and counter of the level that opens.
Descend(y, ev, prune) ==
  LET begin == ev.kind = "begin"
      new(d) == begin /\ d = y.open + 2
  IN  [y EXCEPT
        !.index = [d \in DOMAIN @ |-> IF new(d) THEN 0
                                      ELSE IF d = ev.depth + 1 THEN @[d] + 1 ELSE @[d]],
        !.states = [d \in DOMAIN @ |-> IF new(d) THEN Blank(plan) ELSE @[d]],
        !.pallowed = IF begin THEN prune ELSE @,
        !.pdepth = IF begin THEN ev.depth ELSE @,
        !.open = IF begin THEN @ + 1 ELSE @]

Failed(code) == [rc |-> code, match |-> FALSE, x |-> x]

AfterDecision(r, ev) ==
  IF r.rc # "OK" THEN Failed(r.rc)
  ELSE [rc |-> "OK", match |-> r.match, x |-> Descend(r.x, ev, r.prune)]

FeedNode(y, ev) ==
  IF ev.depth > job.depth \/ y.elements = y.cap THEN Failed("LIMIT")
  ELSE AfterDecision(Decide(Enter(y, ev), ev), ev)

Consume(y, ev) == IF ev.kind = "end" THEN FeedEnd(y, ev) ELSE FeedNode(y, ev)

FeedVerdict(ev) ==
  IF x.elements = 0 /\ ~bindings_ready THEN Failed("BINDING")
  ELSE IF plan.level = "D" /\ job.backend # "document" THEN Failed("UNSUPPORTED")
  ELSE IF ~ContractHolds(ev) THEN Failed("EVENTS")
  ELSE Consume(IF /\ Retained /\ ev.depth <= job.depth
                  /\ ev.kind = "end" \/ x.elements < x.cap
               THEN query_retained_feed(x, ev) ELSE x, ev)

FeedResult_Latest(r) ==
  IF r.rc # "OK" THEN [r EXCEPT !.x = [x EXCEPT !.invalid = TRUE]]
  ELSE [r EXCEPT !.x.any = r.match]

\* A failure makes the execution invalid; whatever else it changed is never
\* read again, because only a reset leaves that state.
FeedResult(r) ==
  IF r.rc # "OK" THEN [r EXCEPT !.x = [x EXCEPT !.invalid = TRUE]]
  ELSE [r EXCEPT !.x.any = @ \/ r.match]

\* tlv_query_exec_feed: a verdict, whether it matched, and the execution after.
tlv_query_exec_feed(ev) == FeedResult(FeedVerdict(ev))

\* The node a match publishes: the event's, or the root a scope delayed.
Published(y, ev) == IF plan.level = "S1" THEN y.delayed ELSE ev.node

NextEvent == [T.events[rd.pos] EXCEPT !.skipped = rd.skipped]

AtEnd == rd.pos > Len(T.events)

FeedStep(r) ==
  /\ x' = r.x
  /\ out' = IF r.match THEN Append(out, Published(r.x, NextEvent)) ELSE out

\* The caller's own loop feeds the next event.
Feed ==
  /\ call = "none" /\ Configured /\ ~x.invalid /\ ~x.finished /\ ~AtEnd
  /\ job.caller = "any" \/ job.backend = "document"
  /\ FeedStep(tlv_query_exec_feed(NextEvent))
  /\ rd' = [pos |-> rd.pos + 1, skipped |-> FALSE]
  /\ UNCHANGED <<query, plan, job, call, found>>

\* The caller feeds an event that does not continue the sequence.
FeedWrong ==
  /\ call = "none" /\ job.caller = "any" /\ ~x.invalid /\ ~x.finished
  /\ \E ev \in Range(T.events), s \in BOOLEAN :
       LET w == [ev EXCEPT !.skipped = s] IN
       /\ ~ContractHolds(w)
       /\ x' = tlv_query_exec_feed(w).x
  /\ UNCHANGED <<query, plan, job, rd, call, out, found>>

-----------------------------------------------------------------------------
(* Finishing.                                                              *)

FinalEvaluation(y, r) ==
  IF r.rc # "OK" THEN [y EXCEPT !.invalid = TRUE, !.high = r.high]
  ELSE [y EXCEPT !.finished = TRUE, !.set = r.set, !.kind = r.value.k,
                 !.value = r.value, !.high = r.high]

\* tlv_query_exec_finish: the execution after the final EOF.
tlv_query_exec_finish ==
  IF \/ plan.level = "D" /\ job.backend # "document"
     \/ x.elements = 0 /\ ~bindings_ready
     \/ x.open > 0
     \/ x.context # None /\ ~x.cfound
  THEN [x EXCEPT !.invalid = TRUE]
  ELSE IF x.finished THEN x
  ELSE IF Retained THEN FinalEvaluation(x, query_retained_finish(plan, T, x))
  ELSE [x EXCEPT !.finished = TRUE]

Finish ==
  /\ call = "none" /\ Configured /\ ~x.invalid
  /\ AtEnd \/ (job.caller = "any" /\ x.open > 0)
  /\ job.caller = "any" \/ job.backend = "document"
  /\ x' = tlv_query_exec_finish
  /\ UNCHANGED <<query, plan, job, rd, call, out, found>>

\* The selected nodes the cursor has not passed.
Pending(y) == {i \in y.set : i > y.cursor /\ i <= y.elements}

NextResult(y) == CHOOSE i \in Pending(y) : \A j \in Pending(y) : i <= j

\* tlv_query_result_next / query_document_next.
ResultNext ==
  /\ call = "none" /\ ~x.invalid /\ x.finished /\ Retained /\ x.kind = "node"
  /\ job.caller = "any" \/ job.backend = "document"
  /\ Pending(x) # {}
  /\ x' = [x EXCEPT !.cursor = NextResult(x)]
  /\ out' = Append(out, NextResult(x))
  /\ UNCHANGED <<query, plan, job, rd, call, found>>

-----------------------------------------------------------------------------
(* Visiting: the reader's events through feed, the visitor on every match. *)
(* An existence test is a visit whose visitor stops at the first match     *)
(* when the caller asked for an early answer.                              *)

Visits == {"visit", "exists", "early"}

\* program_visit and program_exists: admission.
BeginVisit(kind) ==
  /\ call = "none" /\ Configured /\ ~x.invalid
  /\ plan.level # "D" /\ job.backend # "document"
  /\ kind # "visit" => job.caller = "any"
  /\ ~(x.finished /\ ~Retained) \/ kind # "visit"
  /\ UNCHANGED <<query, plan, job, rd, out>>
  /\ IF kind = "early" /\ x.any THEN found' = "yes" /\ UNCHANGED <<call, x>>
     ELSE IF x.elements = 0 /\ ~x.finished /\ ~bindings_ready
     THEN x' = [x EXCEPT !.invalid = TRUE] /\ UNCHANGED <<call, found>>
     ELSE call' = kind /\ UNCHANGED <<x, found>>

Answers(kind) ==
  CASE kind = "exists" -> {"continue"}
    [] kind = "early" -> {"stop"}
    [] OTHER -> IF job.caller = "plain" THEN {"continue"}
                ELSE {"continue", "stop", "error", "clobber"}

\* What exists reports when its visit returns OK.
Report(kind, y) == IF kind = "visit" THEN found ELSE IF y.any THEN "yes" ELSE "no"

\* The visitor answered for a match: go on, suspend, or fail.
Answered(a, y) ==
  CASE a = "continue" -> x' = y /\ UNCHANGED <<call, found>>
    [] a = "stop" -> x' = y /\ call' = "none" /\ found' = Report(call, y)
    [] a = "error" -> x' = [y EXCEPT !.invalid = TRUE] /\ call' = "none" /\ UNCHANGED found
    [] OTHER -> x' = [Fresh(job) EXCEPT !.invalid = TRUE] /\ call' = "none" /\ UNCHANGED found

\* skip_subtree moves the reader to the END of the node just begun.
EndOf(node) ==
  CHOOSE k \in DOMAIN T.events : T.events[k].node = node /\ T.events[k].kind = "end"

\* One round of the loop: read, feed, perhaps prune, perhaps publish.
VisitStep(ev, r) ==
  /\ rd' = IF r.rc = "OK" /\ ev.kind = "begin" /\ T.val[ev.node] # <<>> /\ r.x.pallowed
           THEN [pos |-> EndOf(ev.node), skipped |-> TRUE]
           ELSE [pos |-> rd.pos + 1, skipped |-> FALSE]
  /\ \/ r.rc # "OK" /\ x' = r.x /\ call' = "none" /\ UNCHANGED <<out, found>>
     \/ r.rc = "OK" /\ ~r.match /\ x' = r.x /\ UNCHANGED <<call, out, found>>
     \/ /\ r.rc = "OK" /\ r.match
        /\ out' = Append(out, Published(r.x, ev))
        /\ \E a \in Answers(call) : Answered(a, r.x)

VisitEvent ==
  /\ call \in Visits /\ ~x.finished /\ ~AtEnd
  /\ VisitStep(NextEvent, tlv_query_exec_feed(NextEvent))
  /\ UNCHANGED <<query, plan, job>>

\* The reader wants more input: the visit returns and can be repeated.
VisitNeedsMore ==
  /\ call \in Visits /\ ~x.finished /\ job.caller = "any"
  /\ call' = "none"
  /\ UNCHANGED <<query, plan, job, x, rd, out, found>>

\* The reader fails.
VisitReaderFails ==
  /\ call \in Visits /\ ~x.finished /\ job.caller = "any"
  /\ x' = [x EXCEPT !.invalid = TRUE] /\ call' = "none"
  /\ UNCHANGED <<query, plan, job, rd, out, found>>

\* The final EOF: finish, and for a retained execution go on with its results.
VisitEnd ==
  /\ call \in Visits /\ ~x.finished /\ AtEnd
  /\ x' = tlv_query_exec_finish
  /\ IF x'.invalid \/ ~Retained \/ x'.kind # "node"
     THEN call' = "none" /\ found' = IF x'.invalid THEN found ELSE Report(call, x')
     ELSE UNCHANGED <<call, found>>
  /\ UNCHANGED <<query, plan, job, rd, out>>

\* The results of a retained execution, one visitor call each.
VisitResult ==
  /\ call \in Visits /\ x.finished
  /\ IF ~Retained \/ x.kind # "node" \/ Pending(x) = {}
     THEN call' = "none" /\ found' = Report(call, x) /\ UNCHANGED <<x, out>>
     ELSE /\ out' = Append(out, NextResult(x))
          /\ \E a \in Answers(call) :
               Answered(a, [x EXCEPT !.cursor = NextResult(x), !.any = TRUE])
  /\ UNCHANGED <<query, plan, job, rd>>

\* tlv_query_exec_reset: the workspace is initialised again, for a new pass.
Reset ==
  /\ call = "none" /\ job.caller = "any" /\ x # Fresh(job)
  /\ x' = Fresh(job) /\ rd' = [pos |-> 1, skipped |-> FALSE]
  /\ out' = <<>> /\ found' = "none"
  /\ UNCHANGED <<query, plan, job, call>>

Next ==
  \/ Open
  \/ SetContext \/ SetPruning \/ Bind
  \/ Feed \/ FeedWrong \/ Finish \/ ResultNext
  \/ \E k \in Visits : BeginVisit(k)
  \/ VisitEvent \/ VisitNeedsMore \/ VisitReaderFails \/ VisitEnd \/ VisitResult
  \/ Reset

Spec == Init /\ [][Next]_vars

-----------------------------------------------------------------------------
(* What an execution promises.                                             *)

\* What the expression denotes in the configured context.
Answer == Denote(T, query, IF x.context = None THEN Top(T) ELSE x.context, 1, 1)

\* Predicates whose immediate evaluation is not the language's: a number that
\* is not a literal, paths and set differences inside a predicate, "//" before
\* a self step, and tag functions below a context.
Approximate ==
  /\ plan.level = "S0" /\ ~Retained
  /\ \E n \in Range(plan.nodes) :
       \/ /\ n.op = "filter"
          /\ \/ plan.nodes[n.right].type = "number"
             \/ \E j \in Span(plan.nodes, n.right) :
                  plan.nodes[j].op \in {"root", "child", "desc", "intersect", "except"}
       \/ n.kind = "desc" /\ (n.op = "self" \/ n.axis = "self")
       \/ n.op = "call" /\ n.fn \in {"mask", "range"} /\ n.anchor = 1 /\ x.context # None

\* The event that decides a node has been consumed.
Decided(i) ==
  IF Retained THEN x.finished /\ i <= x.cursor
  ELSE \E k \in 1 .. rd.pos - 1 :
         /\ T.events[k].node = i
         /\ plan.level = "S1" => T.events[k].kind # "begin"

Increasing(s) == \A i \in 2 .. Len(s) : s[i - 1] < s[i]

\* Whether the execution rests with an answer, partial or complete.
Rests == call = "none" /\ ~x.invalid /\ (x.finished \/ (~Retained /\ x.elements > 0))

\* Whenever a feed loop, a visit or a suspended visit rests, it has published
\* exactly the nodes the expression denotes among those decided so far, each
\* once and in document order: whatever the backend, the optimiser, pruning,
\* suspension and resumption did (feed, visit, finish, result_next, can_prune).
SelectedRight(r) ==
  /\ x.finished => r.rc = "OK"
  /\ r.k = "node" => Range(out) = {i \in r.s \ {Top(T)} : Decided(i)}
  /\ x.finished /\ Retained /\ r.k # "node" => x.value = r.v
SelectsDeclared == Rests /\ ~Approximate => Increasing(out) /\ SelectedRight(Answer)

\* The same without exception: every backend agrees with the language.
BackendsAgree == Rests => Increasing(out) /\ SelectedRight(Answer)

\* The frame machine stays inside the count + 1 frames eval_size reserves, and
\* the plan's cross-instruction checks hold for what the compiler emits, unless
\* a terminal dot was folded over a reverse step or a tag function in a
\* predicate lowered the level of a global axis (push_frame, plan_types).
FoldedReverse ==
  \E n \in Range(plan.nodes) :
    /\ n.op = "filter" /\ plan.nodes[n.right].op = "bool"
    /\ query_reverse_axis(plan.nodes[n.left].axis)
LoweredGlobal ==
  /\ plan.level = "S2"
  /\ \E n \in Range(plan.nodes) : n.op = "test" /\ n.axis \in {"following", "preceding"}
PlanFits ==
  plan.rc = "OK" =>
    /\ call # "closed" /\ ~x.invalid => x.high <= Len(plan.nodes) + 1
    /\ call = "closed" => FoldedReverse \/ LoweredGlobal \/ tlv_query_plan_open(plan)

\* Existence is the answer's: "yes" only if the expression selects a node, "no"
\* only if it selects none, after any interleaving of feeds, suspended visits
\* and early or full existence tests (program_exists, any_match); a caller that
\* pulled retained results itself is excepted: what it pulled no longer counts, although
\* program.h:688 says "Matches observed earlier in this execution remain part of existence".
FoundRight(r) ==
  /\ found = "yes" => r.k = "node" /\ r.s \ {Top(T)} # {}
  /\ found = "no" => r.k # "node" \/ r.s \ {Top(T)} = {} \/ (Retained /\ x.cursor > 0)
ExistsHonest ==
  call = "none" /\ found # "none" /\ ~x.invalid /\ ~Approximate => FoundRight(Answer)
=============================================================================
