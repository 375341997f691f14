------------------------------- MODULE MCQuery -------------------------------
(***************************************************************************)
(* Small instances of QueryExecution: the lexicon, families of expressions *)
(* by feature, the trees they run over and the jobs callers have.          *)
(***************************************************************************)
EXTENDS QueryExecution

\* A lexeme from its kind, axis, function, bytes and decimal reading.  A word
\* without bytes matches any tag; a word of the byte 0 is a wildcard.
Lexeme(row) ==
  [k |-> row[1], axis |-> row[2], fn |-> row[3], data |-> row[4], num |-> row[5],
   any |-> row[1] \in {"word", "ddot"} /\ row[4] = <<>>,
   mask |-> IF row[4] = <<0>> THEN <<0>> ELSE <<255>>, type |-> "number"]

Lexemes(rows) == [w \in DOMAIN rows |-> Lexeme(rows[w])] @@ <<>>

Word(axis, data) == <<"word", axis, "none", data, {}>>

Sign(k) == <<k, "child", "none", <<>>, {}>>

Fn(k, fn) == <<k, "child", fn, <<>>, {}>>

Byte(data) == <<"bytes", "child", "none", data, {}>>

MCLexicon == Lexemes(
  [self01 |-> Word("self", <<1>>), self02 |-> Word("self", <<2>>), selfAny |-> Word("self", <<>>),
   desc01 |-> Word("descendant", <<1>>), desc02 |-> Word("descendant", <<2>>),
   descself |-> Word("descendant-or-self", <<>>), child02 |-> Word("child", <<2>>),
   parent01 |-> Word("parent", <<1>>), anc01 |-> Word("ancestor", <<1>>),
   anc |-> Word("ancestor", <<>>), ancself |-> Word("ancestor-or-self", <<>>),
   folsib |-> Word("following-sibling", <<>>), presib02 |-> Word("preceding-sibling", <<2>>),
   presib |-> Word("preceding-sibling", <<>>), fol02 |-> Word("following", <<2>>),
   pre |-> Word("preceding", <<>>),
   slash |-> Sign("child"), dslash |-> Sign("desc"), bar |-> Sign("union"),
   meet |-> Sign("intersect"), minus |-> Sign("except"), or |-> Sign("or"),
   and |-> Sign("and"), eq |-> Sign("eq"), ne |-> Sign("ne"), lt |-> Sign("lt"),
   ge |-> Sign("ge"), open |-> Sign("open"), close |-> Sign("close"),
   popen |-> Sign("popen"), pclose |-> Sign("pclose"), comma |-> Sign("comma"),
   dot |-> Sign("dot"), ddot |-> <<"ddot", "parent", "none", <<>>, {}>>,
   t01 |-> <<"word", "child", "none", <<1>>, {1}>>, t02 |-> <<"word", "child", "none", <<2>>, {2}>>,
   star |-> Word("child", <<>>), wild |-> Word("child", <<0>>), yes |-> Fn("word", "true"),
   depth |-> Fn("meta", "depth"), index |-> Fn("meta", "index"), len |-> Fn("meta", "len"),
   b1 |-> Byte(<<1>>), b2 |-> Byte(<<2>>), b255 |-> Byte(<<255>>), b0 |-> Byte(<<0>>),
   b11 |-> Byte(<<1, 1>>), b110 |-> Byte(<<1, 1, 0>>), v |-> Sign("var"),
   fcount |-> Fn("call", "count"), fnot |-> Fn("call", "not"), fexists |-> Fn("call", "exists"),
   fempty |-> Fn("call", "empty"), fposition |-> Fn("call", "position"), flast |-> Fn("call", "last"),
   fvalue |-> Fn("call", "value"), flen |-> Fn("call", "len"), ftag |-> Fn("call", "tag"),
   fcon |-> Fn("call", "constructed"), fcontains |-> Fn("call", "contains"),
   fstarts |-> Fn("call", "starts"), fends |-> Fn("call", "ends"), fsubstr |-> Fn("call", "substr"),
   fmask |-> Fn("call", "mask"), frange |-> Fn("call", "range")])

MCBindings == [v |-> Value("number", 1, <<>>)]

-----------------------------------------------------------------------------
(* Expressions.                                                            *)

Test(w) == <<"test", w>>
Lit(w) == <<"lit", w>>
Abs(op, e) == <<"abs", op, e>>
Path(l, op, r) == <<"path", op, l, r>>
Filter(e, p) == <<"filter", e, p>>
Bin(l, op, r) == <<"bin", op, l, r>>
Apply(f, args) == <<"call", f, args>>
Group(e) == <<"group", e>>
Dot == <<"dot">>
Ddot == <<"ddot">>

t01 == Test("t01")
t02 == Test("t02")
any == Test("star")
child02 == Test("child02")

AxisTests ==
  {"self01", "self02", "selfAny", "desc01", "desc02", "descself", "child02", "parent01", "anc01",
   "anc", "ancself", "folsib", "presib02", "presib", "fol02", "pre"}

AnyStep == {Test(w) : w \in AxisTests} \cup {t01, t02, any, Test("wild"), Dot, Ddot}

\* Every step alone, absolute, and after a child, a descendant and a self step.
Paths ==
  {t01, Dot, Ddot, Test("desc02"), Test("self01"), Test("anc01")}
  \cup {Abs(op, s) : op \in {"slash", "dslash"}, s \in AnyStep}
  \cup {Path(l, "slash", s) : l \in {t01, Abs("dslash", any)}, s \in AnyStep}
  \cup {Path(l, "dslash", s) : l \in {t01, Test("desc01")}, s \in AnyStep}
  \cup {Path(Path(t01, op, any), oq, t02) : op, oq \in {"slash", "dslash"}}

\* Conditions on a candidate.
Conditions ==
  (AnyStep \ {t01, t02}) \cup
  {Lit("t01"), Lit("t02"), Lit("depth"), Lit("v"), Lit("yes")}
  \cup {Bin(Lit("depth"), op, Lit("t01")) : op \in {"eq", "ne", "lt", "ge"}}
  \cup {Bin(Lit("index"), "eq", Lit("t01")), Bin(Lit("len"), "ge", Lit("t02")),
        Bin(Apply("fposition", <<>>), "eq", Apply("flast", <<>>)),
        Bin(Apply("fcount", <<any>>), "ge", Lit("t02")),
        Bin(Apply("fcount", <<Test("desc02")>>), "eq", Lit("t01")),
        Bin(Apply("fvalue", <<>>), "eq", Lit("b1")),
        Bin(Apply("ftag", <<Ddot>>), "eq", Lit("b1")),
        Bin(Apply("flen", <<Apply("fvalue", <<t02>>)>>), "eq", Lit("t01")),
        Apply("fcon", <<>>), Apply("fempty", <<t02>>), Apply("fexists", <<Test("presib02")>>),
        Apply("fmask", <<Lit("b2"), Lit("b255")>>), Apply("frange", <<Lit("b1"), Lit("b2")>>)}

\* Conditions on bytes.
Value0 == Apply("fvalue", <<>>)
ByteConditions ==
  {Apply(f, <<Value0, Lit(b)>>) : f \in {"fcontains", "fstarts", "fends"}, b \in {"b11", "b110", "b0"}}
  \cup {Apply("fcontains", <<Value0, Apply("fsubstr", <<Value0, Lit("t02")>>)>>),
        Bin(Apply("fsubstr", <<Value0, Lit("t01"), Lit("t02")>>), "eq", Lit("b11")),
        Bin(Apply("flen", <<Apply("fsubstr", <<Value0, Lit("t02")>>)>>), "lt", Lit("t02"))}

\* Combinations of conditions.
Compounds ==
  {Apply("fnot", <<c>>) : c \in {t02, Test("anc01"), Test("presib02"), Test("self02")}}
  \cup {Bin(a, op, b) : op \in {"and", "or"}, a \in {t02, Test("anc01")},
                        b \in {Test("presib02"), Bin(Lit("depth"), "eq", Lit("t01"))}}
  \cup {Bin(Lit("yes"), "and", Bin(Lit("t01"), "eq", Lit("t01"))),
        Bin(Test("fol02"), "and", Apply("fmask", <<Lit("b2"), Lit("b255")>>)),
        Path(Test("anc01"), "slash", Dot), Path(Dot, "slash", Test("self02")),
        Path(Test("anc01"), "slash", Test("self02")), Filter(Test("self01"), Test("anc01")),
        Abs("slash", t02), Abs("dslash", Test("self02")),
        Bin(t01, "bar", t02), Bin(Test("self01"), "minus", Test("anc01")),
        Filter(any, Lit("t02")), Filter(Test("presib"), Lit("t01")), Filter(Test("anc"), Lit("t02"))}

Predicates ==
  {Filter(t01, c) : c \in Conditions \cup Compounds}
  \cup {Abs("dslash", Filter(any, c)) : c \in Conditions \cup ByteConditions \cup Compounds}
  \cup {Path(any, "slash", Filter(any, c)) : c \in {Lit("t01"), child02, Test("anc01")}}
  \cup {Filter(Group(Abs("dslash", any)), c) : c \in {Lit("t02"), Test("presib02")}}
  \cup {Filter(Filter(any, a), b) : a, b \in {Lit("t01"), Test("self01"), child02}}
  \cup {Path(Filter(any, c), "slash", any) : c \in {Lit("t01"), child02, Test("self01")}}
  \cup {Path(any, "slash", Filter(s, c)) : s \in {Test("anc"), Test("presib"), Ddot},
                                          c \in {Lit("t01"), Test("self01")}}
  \cup {Filter(Group(Test("presib")), Lit("t01")), Filter(Group(any), Lit("t02"))}

\* Set operators, their precedence, and paths through groups.
Sets ==
  {Bin(Bin(a, "bar", b), op, Abs("dslash", t02)) :
      a \in {t01}, b \in {Path(any, "slash", any)}, op \in {"bar"}}
  \cup {Bin(t01, "bar", Bin(Abs("dslash", any), op, c)) :
          op \in {"meet", "minus"}, c \in {Path(any, "slash", any), Test("desc02")}}
  \cup {Bin(Bin(any, "minus", t02), "minus", t01), Bin(any, "minus", Group(Bin(t02, "minus", t02)))}
  \cup {Path(Group(Bin(t01, "bar", t02)), op, any) : op \in {"slash", "dslash"}}
  \cup {Path(any, op, Group(Bin(t01, "bar", Path(any, "slash", t02)))) : op \in {"slash", "dslash"}}
  \cup {Path(any, "slash", Group(Bin(Dot, "bar", t02))), Path(any, "slash", Group(Abs("slash", t02))),
        Path(any, "slash", Group(Abs("dslash", Test("self02")))),
        Bin(Apply("fmask", <<Lit("b1"), Lit("b255")>>), "bar", Apply("frange", <<Lit("b2"), Lit("b2")>>)),
        Path(t01, "slash", Apply("fmask", <<Lit("b2"), Lit("b255")>>)),
        Path(t01, "dslash", Apply("frange", <<Lit("b1"), Lit("b1")>>))}

\* Whole expressions that are scalars.
Scalars ==
  {Apply("fcount", <<Abs("dslash", any)>>), Apply("fvalue", <<t01>>),
   Apply("fexists", <<Path(t01, "slash", t02)>>), Bin(Apply("fcount", <<any>>), "eq", Lit("t02")),
   Apply("fposition", <<>>), Lit("depth")}

MCExpressions == Paths \cup Predicates \cup Sets \cup Scalars

-----------------------------------------------------------------------------
(* Trees: depths and tags in preorder.  Tag 02 is primitive, 01 and 03 are *)
(* constructed; a primitive holds one or four bytes, a constructed node    *)
(* its children's encodings.                                               *)

Constructed(tag) == tag # 2

\* The events that close what node i leaves open before depth d.
Closing(depth, tag, i, d) ==
  LET open == {j \in 1 .. i : /\ Constructed(tag[j]) /\ depth[j] >= d
                              /\ \A k \in j + 1 .. i : depth[k] > depth[j]}
      order == SetToSortSeq(open, >)
  IN  [k \in DOMAIN order |-> [kind |-> "end", depth |-> depth[order[k]], node |-> order[k],
                               skipped |-> FALSE]]

RECURSIVE EventsFrom(_, _, _)
EventsFrom(depth, tag, i) ==
  IF i > Len(depth) THEN <<>>
  ELSE <<[kind |-> IF Constructed(tag[i]) THEN "begin" ELSE "element", depth |-> depth[i],
          node |-> i, skipped |-> FALSE]>>
       \o Closing(depth, tag, i, IF i = Len(depth) THEN 0 ELSE depth[i + 1])
       \o EventsFrom(depth, tag, i + 1)

RECURSIVE Content(_, _, _)
RECURSIVE Encodings(_, _, _, _)
\* The encodings of the nodes i, i+1, ... that are children at depth d.
Encodings(depth, tag, i, d) ==
  IF i > Len(depth) \/ depth[i] < d THEN <<>>
  ELSE IF depth[i] > d THEN Encodings(depth, tag, i + 1, d)
  ELSE <<tag[i], Len(Content(depth, tag, i))>> \o Content(depth, tag, i)
       \o Encodings(depth, tag, i + 1, d)
Content(depth, tag, i) ==
  IF Constructed(tag[i]) THEN Encodings(depth, tag, i + 1, depth[i] + 1)
  ELSE IF i % 2 = 1 THEN <<1>> ELSE <<1, 1, 1, 0>>

Tree(depth, tag) ==
  [depth |-> depth, tag |-> Explicit([i \in DOMAIN tag |-> <<tag[i]>>]),
   val |-> Explicit([i \in DOMAIN tag |-> Content(depth, tag, i)]),
   con |-> Explicit([i \in DOMAIN tag |-> Constructed(tag[i])]),
   events |-> EventsFrom(depth, tag, 1)]

MCTrees ==
  << Tree(<<0, 1, 2, 1>>, <<1, 1, 2, 2>>),
     Tree(<<0, 1, 1, 0>>, <<1, 2, 1, 2>>),
     Tree(<<0, 0, 1, 1, 0>>, <<2, 1, 2, 2, 1>>),
     Tree(<<0, 1, 2, 3>>, <<1, 3, 1, 2>>),
     Tree(<<0, 0, 1>>, <<3, 3, 2>>) >>

-----------------------------------------------------------------------------
(* Jobs.                                                                   *)

Job(tree, backend, context, pruning, caller) ==
  [tree |-> tree, backend |-> backend, context |-> context, pruning |-> pruning,
   cap |-> IF caller = "any" THEN 4 ELSE 5, depth |-> IF caller = "any" THEN 2 ELSE 4,
   caller |-> caller]

\* Expressions whose executions callers drive in every way.
Lifecycle ==
  {Abs("dslash", t02), Path(t01, "slash", any), Filter(t01, child02), Ddot,
   Abs("dslash", Filter(any, Bin(Lit("v"), "eq", Lit("depth"))))}

MCJobs(q) ==
  {Job(t, b, c, p, "plain") : t \in DOMAIN MCTrees, b \in {"stream", "retained", "document"},
                              c \in {0, 2}, p \in {FALSE}}
  \cup {Job(t, "stream", 0, TRUE, "plain") : t \in DOMAIN MCTrees}
  \cup (IF q \in Lifecycle
        THEN {Job(t, b, c, FALSE, "any") : t \in {2, 4}, b \in {"stream", "retained"}, c \in {0, 2}}
        ELSE {})

MCAll == MCExpressions \cup Lifecycle

=============================================================================
