----------------------------- MODULE MCSchemas ------------------------------
(***************************************************************************)
(* The two kinds of schema side by side: a behaviour makes calls with TLV   *)
(* tables on one tree, or with one of the ASN.1 definitions.  The tables    *)
(* form a graph with cycles, sharing and every kind of rule, one of them    *)
(* faulty behind two good ones, and the trees are all small ones.           *)
(***************************************************************************)
EXTENDS DerSchema, SequencesExt

CONSTANT NULL
VARIABLES input, checked, call, pc, tables, next, at, scopes, path, result, report, calls

Rule0 == [tag |-> "a", minLength |-> 0, maxLength |-> 9, endpoints |-> FALSE, multiple |-> 0,
          min |-> 0, max |-> 1, kind |-> "ANY", children |-> NULL, group |-> 0]
Rule(tag, min, max) == [Rule0 EXCEPT !.tag = tag, !.min = min, !.max = max]
Into(r, id) == [r EXCEPT !.kind = "CONSTRUCTED", !.children = id]
Table0 == [rules |-> <<>>, unknown |-> FALSE, groups |-> <<>>, order |-> "ANY"]

MCTables ==
  [seq    |-> [Table0 EXCEPT !.order = "SEQUENCE",
                 !.rules = <<[Rule("a", 1, 2) EXCEPT !.multiple = 2],
                             [Rule("b", 0, 1) EXCEPT !.kind = "CONSTRUCTED"],
                             Into([Rule("C", 0, 2) EXCEPT !.maxLength = 4], "choice")>>],
   choice |-> [Table0 EXCEPT !.unknown = TRUE, !.groups = <<[id |-> 7, min |-> 1, max |-> 1]>>,
                 !.rules = <<[Rule("a", 0, 9) EXCEPT !.group = 7, !.endpoints = TRUE,
                                                     !.minLength = 1, !.maxLength = 4],
                             Into([Rule("C", 0, 1) EXCEPT !.group = 7], "seq")>>],
   nest   |-> [Table0 EXCEPT !.unknown = TRUE, !.rules = <<Into(Rule("C", 0, 9), "nest"),
                                                           Into(Rule("D", 0, 9), "choice")>>],
   many   |-> [Table0 EXCEPT !.rules = <<Into(Rule("C", 0, 9), "nest"), Into(Rule("D", 0, 9), "seq")>>],
   good   |-> [Table0 EXCEPT !.rules = <<Into(Rule("C", 0, 9), "also"), Into(Rule("D", 0, 9), "also")>>],
   also   |-> [Table0 EXCEPT !.rules = <<Into(Rule("C", 0, 9), "good"), Into(Rule("D", 0, 9), "faulty")>>],
   faulty |-> [Table0 EXCEPT !.rules = <<Rule0, Rule("b", 0, 1), Rule0>>]]

MCRoots == {"seq", "nest", "many", "good"}
MCArguments ==
  {[depth |-> d, elements |-> e, policy |-> u, capacity |-> c]
     : d \in {1, 9}, e \in {2, 9}, u \in {"BY_SCHEMA", "ALLOW", "REJECT"}, c \in {0, 1, 9}}
MCArgumentsUsed ==
  {a \in MCArguments : /\ a.depth = 1 \/ a.elements = 2 => a.capacity = 0 /\ a.policy = "BY_SCHEMA"
                                                           /\ a.depth + a.elements > 9
                       /\ a.capacity = 1 => a.policy = "BY_SCHEMA"
                       /\ a.capacity = 0 => a.policy = "BY_SCHEMA"}

\* Shapes are [depth, tag, own], own the size of a primitive value; a header takes one byte.
Shape(d, t, n) == [depth |-> d, tag |-> t, own |-> n]
Container(x) == x.tag \in {"C", "D"}
Shapes(tags, n) ==
  {s \in [1 .. n -> {Shape(d, t[1], t[2]) : d \in 0 .. 3, t \in tags}] :
     /\ n > 0 => s[1].depth = 0
     /\ \A i \in 2 .. n : s[i].depth <= s[i - 1].depth + (IF Container(s[i - 1]) THEN 1 ELSE 0)}

Occupied(s, S) == MapThenSumSet(LAMBDA i : 1 + s[i].own, S)
Inside(s, i) == {j \in i + 1 .. Len(s) : \A k \in i + 1 .. j : s[k].depth > s[i].depth}
ItemOf(s, i) ==
  LET n == s[i].own + Occupied(s, Inside(s, i))
      o == Occupied(s, 1 .. i - 1)
  IN  [depth |-> s[i].depth, tag |-> s[i].tag, constructed |-> Container(s[i]), length |-> n,
       offset |-> o, end |-> o + 1 + n]
InputOf(s, rc) == [items |-> [i \in DOMAIN s |-> ItemOf(s, i)], size |-> Occupied(s, DOMAIN s), rc |-> rc]

MCInputs ==
  {InputOf(s, "OK") : s \in (UNION {Shapes({<<"a", 1>>, <<"a", 2>>, <<"b", 0>>, <<"C", 0>>, <<"D", 0>>}, n)
                                      : n \in 0 .. 2})
                            \cup Shapes({<<"a", 2>>, <<"b", 0>>, <<"C", 0>>, <<"D", 0>>}, 3)
                            \cup Shapes({<<"a", 2>>, <<"C", 0>>}, 4)}
  \cup {InputOf(s, "TRUNCATED") : s \in Shapes({<<"a", 2>>, <<"C", 0>>}, 2)}

MCMaxCalls == 2
Sch == INSTANCE Schema WITH Tables <- MCTables, Roots <- MCRoots, Inputs <- MCInputs,
         Arguments <- MCArgumentsUsed, SchemaMaxDepth <- 2, SchemaMaxTables <- 3, PathMax <- 1,
         MaxCalls <- MCMaxCalls

DefinitionsSound == Sch!DefinitionsSound
ValidatesTree == Sch!ValidatesTree

-----------------------------------------------------------------------------

Free == [min |-> 0, max |-> UintMax, kind |-> "ABSENT", lo |-> 0, hi |-> 0, allowed |-> {}]
MkType(kind, number, components, element, min, max, ext) ==
  [kind |-> kind, number |-> number, components |-> components, element |-> element,
   min |-> min, max |-> max, ext |-> ext, constraint |-> Free]
Prim(number)  == MkType("UNIVERSAL", number, <<>>, NoType, 0, 0, FALSE)
AnyType       == MkType("ANY", 0, <<>>, NoType, 0, 0, FALSE)
Of(kind, cs)  == MkType(kind, 0, cs, NoType, 0, 0, FALSE)
Rep(kind, c, min, max) == MkType(kind, 0, <<>>, c, min, max, FALSE)
Ext(t)        == [t EXCEPT !.ext = TRUE]
Where(t, k)   == [t EXCEPT !.constraint = k]

Comp(type)      == Untagged(type)
Optional(c)     == [c EXCEPT !.presence = "OPTIONAL"]
Default(c, b)   == [c EXCEPT !.presence = "DEFAULT", !.default = b]
Imp(c, number)  == [c EXCEPT !.tagging = "IMPLICIT", !.class = 2, !.number = number]
Exp(c, number)  == [c EXCEPT !.tagging = "EXPLICIT", !.class = 2, !.number = number]

Integer == Prim(2)
Boolean == Prim(1)
Small == Where(Integer, [Free EXCEPT !.kind = "RANGE", !.lo = 0, !.hi = 5, !.max = 1])
Base == [int |-> Integer, bool |-> Boolean, any |-> AnyType, small |-> Small]
Root0(name, t, more) == [name |-> name, root |-> "r", D |-> ("r" :> t) @@ more @@ Base]

ChoiceIB == Of("CHOICE", <<Comp("int"), Comp("bool")>>)
Choice2  == Of("CHOICE", <<Comp("c"), Imp(Comp("int"), 0)>>)

Working == {
  Root0("sequence", Ext(Of("SEQUENCE", <<Optional(Comp("bool")), Comp("small"),
                                         Default(Imp(Comp("int"), 0), <<128, 1, 5>>)>>)), <<>>),
  Root0("set", Of("SET", <<Exp(Comp("int"), 1), Imp(Comp("bool"), 0), Default(Comp("int"), <<2, 1, 5>>)>>), <<>>),
  Root0("setof", Rep("SET_OF", Comp("small"), 1, 2), <<>>),
  Root0("seqof", Rep("SEQUENCE_OF", Imp(Comp("bool"), 0), 0, 2), <<>>),
  Root0("choice", Choice2, [c |-> ChoiceIB]),
  Root0("mixed", Of("SEQUENCE", <<Optional(Comp("c")), Exp(Comp("c"), 1), Optional(Comp("any"))>>), [c |-> ChoiceIB]),
  Root0("setchoice", Of("SET", <<Comp("c"), Optional(Imp(Comp("int"), 0))>>), [c |-> ChoiceIB]),
  Root0("list", Of("SEQUENCE", <<Comp("bool"), Optional(Comp("r"))>>), <<>>),
  Root0("any", Of("SEQUENCE", <<Exp(Comp("any"), 1)>>), <<>>),
  Root0("sets", Of("SEQUENCE", <<Comp("s"), Optional(Comp("bool"))>>),
        [s |-> Rep("SET_OF", Comp("int"), 0, 2)]),
  Root0("nested", Rep("SEQUENCE_OF", Comp("s"), 0, 2), [s |-> Rep("SET_OF", Comp("small"), 0, 2)])}

\* Children of the root, and children of those.
Pool == {<<1, 1, 255>>, <<2, 1, 5>>, <<2, 1, 6>>, <<2, 2, 0, 200>>, <<128, 1, 5>>, <<128, 1, 255>>,
         <<161, 3, 2, 1, 5>>, <<161, 3, 1, 1, 0>>, <<48, 3, 1, 1, 0>>, <<49, 3, 2, 1, 0>>, <<48, 0>>,
         <<49, 6, 2, 1, 6, 2, 1, 5>>, <<4, 0>>, <<161, 0>>, <<48, 5, 48, 3, 1, 1, 255>>}
Glued(es) == FoldLeft(LAMBDA b, e : b \o e, <<>>, es)
Contents == {Glued(es) : es \in UNION {[1 .. n -> Pool] : n \in 0 .. 2}}
              \cup {Glued(es) : es \in [1 .. 3 -> {<<1, 1, 255>>, <<2, 1, 5>>, <<128, 1, 5>>, <<128, 1, 255>>,
                                                   <<161, 3, 2, 1, 5>>, <<48, 3, 1, 1, 0>>}]}
RootTags(t) == CASE t.kind \in {"SEQUENCE", "SEQUENCE_OF"} -> {48} [] t.kind \in {"SET", "SET_OF"} -> {49} [] OTHER -> {}
Inputs1(d) == {<<tag, Len(v)>> \o v : tag \in RootTags(d.D[d.root]), v \in Contents} \cup Pool \cup {<<>>, <<48, 1>>}
OneLevel == [Ample EXCEPT !.depth = 1]
Few     == [Ample EXCEPT !.elements = 3]
MCReads(d) ==
  IF d.name \in {"bad", "graph"} THEN {[data |-> <<2, 1, 5>>, limits |-> Ample]}
  ELSE {[data |-> v, limits |-> l] : v \in Inputs1(d), l \in {Ample, OneLevel, Few}}
         \cup {[data |-> <<48, 0>>, limits |-> [Ample EXCEPT !.depth = CanonicalMaxDepth + 1]],
               [data |-> <<48, 0>>, limits |-> [Ample EXCEPT !.input = 1]]}

\* What a callback may answer for each component, each value under one name.
A(b)     == [is |-> "present", bytes |-> b]
Gone     == [is |-> "absent", bytes |-> <<>>]
Bad      == [is |-> "error", bytes |-> <<>>]
Lie      == [is |-> "lies", bytes |-> <<5>>]
Leaves(t) == IF t.number = 1 THEN {<<255>>, <<5>>} ELSE {<<5>>, <<6>>}
Answers(D, c) ==
  CASE D[c.type].kind = "UNIVERSAL" -> {Gone} \cup {A(b) : b \in Leaves(D[c.type])}
    [] D[c.type].kind = "ANY"       -> {Gone, A(<<>>), A(<<4, 0>>)}
    [] OTHER                        -> {Gone, A(<<>>)}
One(D, c)  == {<<a>> : a \in Answers(D, c)}
Many(D, c) == UNION {[1 .. n -> Answers(D, c) \ {Gone}] : n \in 0 .. 3}
PlacesOf(D, type) ==
  CASE D[type].kind \in Composites -> {<<type, i>> : i \in DOMAIN D[type].components}
    [] D[type].kind \in Repeats    -> {<<type, 0>>}
    [] OTHER -> {}
AllPlaces(d) == UNION {PlacesOf(d.D, t) : t \in Reachable(d.D, {d.root})}
Spoken(d, p) ==
  IF p[2] = 0 THEN Many(d.D, d.D[p[1]].element) ELSE One(d.D, d.D[p[1]].components[p[2]])
Sayings(d) ==
  {f \in [AllPlaces(d) -> UNION {Spoken(d, p) : p \in AllPlaces(d)}] :
     \A p \in AllPlaces(d) : f[p] \in Spoken(d, p)}
Spoilt(f) == {[f EXCEPT ![p] = <<a>>] : p \in DOMAIN f, a \in {Bad, Lie}}
Writing(say, arena, records, capacity, limits, locate) ==
  [say |-> say, arena |-> arena, records |-> records, capacity |-> capacity, limits |-> limits, locate |-> locate]
Roomiest(say, locate) == Writing(say, 200, 3, 200, Ample, locate)
Cramped(say) == {Writing(say, 12, 3, 200, Ample, TRUE), Writing(say, 200, 1, 200, Ample, FALSE),
               Writing(say, 200, 3, 6, Ample, FALSE), Writing(say, 200, 3, 200, OneLevel, TRUE)}
\* A recursive type is written to one level: its callback has no end otherwise.
Writable(d) == d.name \notin {"list"}
MCWrites(d) ==
  IF d.name \in {"bad", "graph"} THEN {Roomiest(<<>>, FALSE)}
  ELSE IF ~Writable(d) THEN {}
  ELSE UNION {{Roomiest(f, l) : l \in BOOLEAN} \cup Cramped(f) \cup {Roomiest(g, TRUE) : g \in Spoilt(f)}
                : f \in Sayings(d)}
         \cup {Roomiest(<<>>, FALSE), Roomiest(Root :> <<Gone>>, FALSE), Roomiest(Root :> <<Bad>>, TRUE)}

\* Definitions the check refuses.
Refusals == {
  Of("SEQUENCE", <<Comp(NoType)>>), Rep("SET_OF", NoType, 0, 1), Rep("SET_OF", Comp("int"), 2, 1),
  Rep("SEQUENCE_OF", Optional(Comp("int")), 0, 1), Of("SET", <<Comp("any")>>), Of("CHOICE", <<Comp("any")>>),
  Of("CHOICE", <<Optional(Comp("int"))>>), Of("SEQUENCE", <<Default(Comp("int"), <<>>)>>),
  Of("SEQUENCE", <<Imp(Comp("any"), 0)>>), Of("SEQUENCE", [i \in 1 .. DerMaxComponents + 1 |-> Optional(Comp("int"))]),
  Where(Integer, [Free EXCEPT !.min = 2, !.max = 1]), Where(Boolean, [Free EXCEPT !.kind = "RANGE"]),
  Where(Integer, [Free EXCEPT !.kind = "RANGE", !.lo = 1]), Of("CHOICE", <<Exp(Comp("any"), -1)>>),
  Where(Integer, [Free EXCEPT !.kind = "ALLOWED", !.allowed = {5}]), Where(Integer, [Free EXCEPT !.kind = "NONE"])}
BadOnes == {Root0("bad", t, <<>>) : t \in Refusals}

\* Every graph of three types whose parts are untagged or have one of two tags.
GraphComps == {Comp(t) : t \in {"r", "p", "q", "int", "bool"}}
                \cup {Imp(Comp("int"), 0), Exp(Comp("p"), 0), Exp(Comp("q"), 1)}
GraphTypes == {Of(k, cs) : k \in {"SET", "CHOICE"}, cs \in UNION {[1 .. n -> GraphComps] : n \in 1 .. 2}}
Inner      == {Of("CHOICE", <<Comp("int")>>), Of("CHOICE", <<Comp("q"), Comp("bool")>>),
               Of("CHOICE", <<Comp("p"), Comp("int")>>), Of("SET", <<Comp("q"), Comp("bool")>>)}
Graphs     == {[name |-> "graph", root |-> "r", D |-> [r |-> t, p |-> u, q |-> v] @@ Base] :
                 t \in GraphTypes, u \in Inner, v \in Inner}
NoDefinition  == [name |-> "none", root |-> "r", D |-> Base]
MCDefinitions == Working \cup BadOnes \cup Graphs

-----------------------------------------------------------------------------
NoCallsLeft  == calls = MCMaxCalls
SchemaClosed == Sch!SchemaIdle /\ input = InputOf(<<>>, "OK") /\ NoCallsLeft
DerClosed    == definition = NoDefinition /\ handle = "NULL" /\ answer = [NoAnswer EXCEPT !.call = "closed"]
WindowClosed == format = NULL /\ window = <<>>

SuiteInit == WindowClosed /\ (\/ Sch!SchemaInit /\ DerClosed
                              \/ SchemaClosed /\ DerInit)

SchemaUnchanged == UNCHANGED <<input, checked, call, pc, tables, next, at, scopes, path, result,
                               report, calls>>

SuiteNext == \/ Sch!SchemaNext /\ UNCHANGED vars /\ UNCHANGED derVars
             \/ DerNext /\ UNCHANGED vars /\ SchemaUnchanged

SuiteSpec == SuiteInit /\ [][SuiteNext]_<<vars, Sch!schemaVars, derVars>>
=============================================================================
