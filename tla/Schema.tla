------------------------------- MODULE Schema -------------------------------
(***************************************************************************)
(* Structural schemas (src/tlv/src/schema): the check of a definition, a    *)
(* graph of tables that may share and refer to one another in cycles; the   *)
(* prepared handle; and the two validators, which walk the same input with  *)
(* their own copies of the rules: structure.c stops at the first violation, *)
(* report.c collects all.  Both keep the tables of the open containers in   *)
(* an array indexed by depth that is never cleared, and skip what no table  *)
(* describes.                                                               *)
(*                                                                          *)
(* An input is what the tree reader makes of the bytes: items in preorder   *)
(* [depth, tag, constructed, length, offset, end], the size, and the code   *)
(* the framing ends with.                                                   *)
(***************************************************************************)
EXTENDS Naturals, SequencesExt

CONSTANTS
  NULL,
  Tables,           \* the definition graph: identity -> [rules, unknown, groups, order]
  Roots,            \* identities a caller may pass as a schema
  Inputs,
  Arguments,        \* [depth, elements, policy, capacity] of a call: limits and a report's size
  SchemaMaxDepth, SchemaMaxTables, PathMax,   \* TLV_SCHEMA_MAX_DEPTH and the like
  MaxCalls          \* calls made one after the other; a validation is the last of them

VARIABLES
  input,     \* the bytes, as items
  checked,   \* the tlv_schema_checked_t: a prepared table or NULL
  call,      \* the running, or last, call and its arguments
  pc,        \* its progress: "check", "tree", "items"; "idle" between calls
  tables,    \* tlv_schema_check's worklist and the position in it
  next,
  at,        \* the next item of the walk
  scopes,    \* scopes[d]: the table of the container at depth d (report.c: stack)
  path,      \* path[d]: the tag enclosing scopes[d]
  result,    \* what the last call returned, with the violation of structure.c
  report,    \* the tlv_schema_diagnostic_report_t
  calls

schemaVars == <<input, checked, call, pc, tables, next, at, scopes, path, result, report, calls>>

NoArguments == [depth |-> 0, elements |-> 0, policy |-> "BY_SCHEMA", capacity |-> 0]

NoReport == [count |-> 0, stored |-> <<>>]
NoScopes == [d \in 0 .. SchemaMaxDepth |-> NULL]
NoPath   == [d \in 1 .. SchemaMaxDepth + 1 |-> NULL]
Returned(rc) == [rc |-> rc, issue |-> {}]

SchemaIdle ==
  /\ checked = NULL
  /\ call = [op |-> "none", schema |-> NULL, args |-> NoArguments]
  /\ pc = "idle" /\ tables = <<>> /\ next = 1
  /\ at = 1 /\ scopes = NoScopes /\ path = NoPath
  /\ result = Returned("OK") /\ report = NoReport

SchemaInit == input \in Inputs /\ SchemaIdle /\ calls = 0

Return(r) == pc' = "idle" /\ result' = r

-----------------------------------------------------------------------------
(* tlv_schema_check                                                         *)

GroupOK(t, n) ==
  LET g == t.groups[n]
  IN  /\ g.id # 0 /\ g.min <= g.max
      /\ \A m \in 1 .. n - 1 : t.groups[m].id # g.id
      /\ \E i \in DOMAIN t.rules : t.rules[i].group = g.id

RuleOK(t, i) ==
  LET r == t.rules[i]
  IN  /\ r.kind \in {"ANY", "PRIMITIVE", "CONSTRUCTED"}
      /\ r.tag # NULL /\ r.minLength <= r.maxLength /\ r.min <= r.max
      /\ r.children # NULL => r.kind = "CONSTRUCTED"
      /\ r.group # 0 => r.min = 0 /\ \E n \in DOMAIN t.groups : t.groups[n].id = r.group
      /\ \A j \in 1 .. i - 1 : t.rules[j].tag # r.tag

\* check_table
TableOK(t) == /\ t.order \in {"ANY", "SEQUENCE"}
              /\ \A n \in DOMAIN t.groups : GroupOK(t, n)
              /\ \A i \in DOMAIN t.rules : RuleOK(t, i)

\* A worklist that knows only the tables still to be checked.
Enqueued_Forgets(t) ==
  FoldLeft(LAMBDA ts, r : IF r.children = NULL \/ r.children \in ToSet(SubSeq(ts, next + 1, Len(ts)))
                          THEN ts ELSE Append(ts, r.children), tables, t.rules)

\* Each table is enqueued once.
Enqueued(t) ==
  FoldLeft(LAMBDA ts, r : IF r.children = NULL \/ Contains(ts, r.children)
                          THEN ts ELSE Append(ts, r.children), tables, t.rules)

CheckTable ==
  /\ pc = "check" /\ next <= Len(tables)
  /\ LET t == Tables[tables[next]]
     IN  IF ~TableOK(t) THEN Return(Returned("INVALID_SCHEMA")) /\ UNCHANGED <<tables, next>>
         ELSE IF Len(Enqueued(t)) > SchemaMaxTables
           THEN Return(Returned("UNSUPPORTED")) /\ UNCHANGED <<tables, next>>
         ELSE /\ tables' = Enqueued(t) /\ next' = next + 1
              /\ UNCHANGED <<pc, result>>
  /\ UNCHANGED <<input, checked, call, at, scopes, path, report, calls>>

\* The whole graph passed: the handle is prepared, or validation goes on to the input.
CheckDone ==
  /\ pc = "check" /\ next > Len(tables)
  /\ IF call.op = "prepare" THEN checked' = call.schema /\ Return(Returned("OK"))
     ELSE pc' = "tree" /\ UNCHANGED <<checked, result>>
  /\ UNCHANGED <<input, call, tables, next, at, scopes, path, report, calls>>

-----------------------------------------------------------------------------
(* The calls.                                                               *)

Reports(op) == op \in {"validate_all", "validate_all_checked"}
Unchecked(op) == op \in {"validate_checked", "validate_all_checked"}

Call(op, s, args) ==
  /\ pc = "idle" /\ calls < MaxCalls
  /\ calls' = IF op = "prepare" THEN calls + 1 ELSE MaxCalls
  /\ call' = [op |-> op, schema |-> s, args |-> args]
  /\ checked' = IF op = "prepare" THEN NULL ELSE checked
  /\ report' = NoReport /\ tables' = <<s>> /\ next' = 1
  /\ at' = 1 /\ scopes' = NoScopes /\ path' = NoPath
  /\ IF ~Unchecked(op) THEN pc' = "check" /\ result' = Returned("OK")
     ELSE IF s = NULL THEN Return(Returned("INVALID_STATE"))
     ELSE pc' = "tree" /\ result' = Returned("OK")
  /\ UNCHANGED input

-----------------------------------------------------------------------------
(* The input.                                                               *)

Count == Len(input.items)
Item(i) == input.items[i]
Parent(i) == Max({0} \cup {j \in 1 .. i - 1 : Item(j).depth < Item(i).depth})
Elements(p) == SelectSeq([i \in 1 .. Count |-> i], LAMBDA i : Parent(i) = p)
ScopeEnd(p) == IF p = 0 THEN input.size ELSE Item(p).end
\* tlv_tree_reader_skip_subtree, then tlv_tree_reader_next
Past(i) == Min({Count + 1} \cup {j \in i + 1 .. Count : Item(j).depth <= Item(i).depth})

\* schema_check_tree: the code of the first item the limits refuse, else the framing's.
Descends(i) == i > 1 /\ i <= Count /\ Item(i).depth > Item(i - 1).depth
PullCode(b, i) ==
  IF Descends(i) /\ Item(i - 1).depth = b.depth THEN "LIMIT"
  ELSE IF Descends(i) /\ Item(i - 1).depth = SchemaMaxDepth THEN "BUFFER_TOO_SHORT"
  ELSE IF i - 1 = b.elements THEN "LIMIT"
  ELSE IF i > Count THEN input.rc ELSE "OK"
TreeCode(b) ==
  LET pulled  == 1 .. Count + (IF input.rc = "OK" THEN 0 ELSE 1)
      refused == {i \in pulled : PullCode(b, i) # "OK"}
  IN  IF refused = {} THEN "OK" ELSE PullCode(b, Min(refused))

-----------------------------------------------------------------------------
(* Rules and violations.                                                    *)

\* The rule of a tag: its index in the table, 0 when there is none.
RuleOf(t, tag) == SelectInSeq(t.rules, LAMBDA r : r.tag = tag)

\* tlv_schema_validate_length of a checked entry
LengthOK(r, n) == /\ r.minLength <= n /\ n <= r.maxLength
                  /\ r.endpoints => n \in {r.minLength, r.maxLength}
                  /\ r.multiple # 0 => n % r.multiple = 0
FormOK(r, constructed) == ~(r.kind = "PRIMITIVE" /\ constructed)
                          /\ ~(r.kind = "CONSTRUCTED" /\ ~constructed)

Members(t, g) == {t.rules[i].tag : i \in {j \in DOMAIN t.rules : t.rules[j].group = g.id}}
FirstMember(t, g) == t.rules[SelectInSeq(t.rules, LAMBDA r : r.group = g.id)].tag

\* The enclosing tags of a violation, the innermost ones omitted beyond PathMax.
Kept(d) == IF d < PathMax THEN d ELSE PathMax
PathTo(p, d) == [tags |-> [i \in 1 .. Kept(d) |-> p[i]], omitted |-> d - Kept(d)]

Issue(kind, tag, offset, where) ==
  [kind |-> kind, tag |-> tag, offset |-> offset, path |-> where, group |-> FALSE, occurs |-> 0]
ItemIssue(kind, i, where) == Issue(kind, Item(i).tag, Item(i).offset, where)
OccursIssue(issue, isGroup, n) == [issue EXCEPT !.group = isGroup, !.occurs = n]

\* The elements of a scope that a rule or a group counts.
Occurrences(p, tags) == SelectSeq(Elements(p), LAMBDA i : Item(i).tag \in tags)
Matched(t, p) == SelectSeq(Elements(p), LAMBDA i : RuleOf(t, Item(i).tag) # 0)
IndexOf(t, i) == RuleOf(t, Item(i).tag)

Missing(b, n, p, absent, isGroup, where) ==
  IF n < b.min THEN <<OccursIssue(Issue("MISSING", absent, ScopeEnd(p), where), isGroup, n)>>
  ELSE <<>>
Duplicate(i, n, isGroup, where) == OccursIssue(ItemIssue("DUPLICATE", i, where), isGroup, n)

-----------------------------------------------------------------------------
(* structure.c: the first violation.                                        *)

FirstCount(b, occ, p, absent, isGroup, where) ==
  IF Len(occ) > b.max THEN <<Duplicate(occ[b.max + 1], b.max + 1, isGroup, where)>>
  ELSE Missing(b, Len(occ), p, absent, isGroup, where)

FirstOrder(t, m, where) ==
  LET back == {n \in 2 .. Len(m) : IndexOf(t, m[n]) < IndexOf(t, m[n - 1])}
  IN  IF t.order = "ANY" \/ back = {} THEN <<>> ELSE <<ItemIssue("ORDER", m[Min(back)], where)>>

\* check_scope; a sequence of at most one violation
FirstInScope(t, p, where) ==
  LET rules  == [n \in DOMAIN t.rules |->
                   FirstCount(t.rules[n], Occurrences(p, {t.rules[n].tag}), p, t.rules[n].tag,
                              FALSE, where)]
      groups == [n \in DOMAIN t.groups |->
                   FirstCount(t.groups[n], Occurrences(p, Members(t, t.groups[n])), p,
                              FirstMember(t, t.groups[n]), TRUE, where)]
      all    == FlattenSeq(rules) \o FlattenSeq(groups) \o FirstOrder(t, Matched(t, p), where)
  IN  IF all = <<>> THEN <<>> ELSE <<Head(all)>>

\* What the item itself violates, as validate_input tests it.
FirstOfItem(t, n, i, where) ==
  IF n = 0 THEN IF t.unknown THEN <<>> ELSE <<ItemIssue("UNEXPECTED", i, where)>>
  ELSE IF ~LengthOK(t.rules[n], Item(i).length) THEN <<ItemIssue("LENGTH", i, where)>>
  ELSE IF ~FormOK(t.rules[n], Item(i).constructed) THEN <<ItemIssue("KIND", i, where)>>
  ELSE <<>>

Violated(issues) == [rc |-> "SCHEMA", issue |-> {issues[1]}]

\* The preflight of both validators, then the root's own scope.
Walk(rc, violation, all) ==
  IF rc # "OK" THEN Return(Returned(rc)) /\ UNCHANGED <<scopes, report>>
  ELSE IF violation # <<>> THEN Return(Violated(violation)) /\ UNCHANGED <<scopes, report>>
  ELSE /\ pc' = "items" /\ scopes' = [scopes EXCEPT ![0] = call.schema]
       /\ report' = all /\ UNCHANGED result

Modelled(t, n) == n # 0 /\ t.rules[n].children # NULL

\* Where the walk goes on when an item's own contents are not described.
After(i) == IF Item(i).constructed /\ Item(i).length # 0 THEN Past(i) ELSE i + 1

\* A validator that looks into a container only if it has contents.
ValidateInto_Filled(t, n, i, deeper) ==
  LET child   == t.rules[n].children
      inside  == IF Item(i).length = 0 THEN <<>>
                 ELSE FirstInScope(Tables[child], i, PathTo(deeper, Item(i).depth + 1))
  IN  /\ path' = deeper
      /\ IF inside # <<>> THEN Return(Violated(inside)) /\ UNCHANGED <<at, scopes>>
         ELSE IF Item(i).length = 0 THEN at' = i + 1 /\ UNCHANGED <<pc, result, scopes>>
         ELSE IF Item(i).depth = SchemaMaxDepth
           THEN Return(Returned("LIMIT")) /\ UNCHANGED <<at, scopes>>
         ELSE /\ scopes' = [scopes EXCEPT ![Item(i).depth + 1] = child]
              /\ at' = i + 1 /\ UNCHANGED <<pc, result>>

ValidateInto(t, n, i, deeper) ==
  LET child   == t.rules[n].children
      inside  == FirstInScope(Tables[child], i, PathTo(deeper, Item(i).depth + 1))
  IN  /\ path' = deeper
      /\ IF inside # <<>> THEN Return(Violated(inside)) /\ UNCHANGED <<at, scopes>>
         ELSE IF Item(i).length = 0 THEN at' = i + 1 /\ UNCHANGED <<pc, result, scopes>>
         ELSE IF Item(i).depth = SchemaMaxDepth
           THEN Return(Returned("LIMIT")) /\ UNCHANGED <<at, scopes>>
         ELSE /\ scopes' = [scopes EXCEPT ![Item(i).depth + 1] = child]
              /\ at' = i + 1 /\ UNCHANGED <<pc, result>>

ValidateOne(t, n, i, found) ==
  IF found # <<>> THEN Return(Violated(found)) /\ UNCHANGED <<at, scopes, path>>
  ELSE IF Modelled(t, n)
    THEN ValidateInto(t, n, i, [path EXCEPT ![Item(i).depth + 1] = Item(i).tag])
  ELSE at' = After(i) /\ UNCHANGED <<pc, result, scopes, path>>

\* validate_input: the preflight, ...
ValidateTree ==
  /\ pc = "tree" /\ ~Reports(call.op)
  /\ Walk(TreeCode(call.args), FirstInScope(Tables[call.schema], 0, PathTo(path, 0)), report)
  /\ UNCHANGED <<input, checked, call, tables, next, at, path, calls>>

\* ... and the loop over the items.
ValidateItem ==
  /\ pc = "items" /\ ~Reports(call.op)
  /\ IF at > Count THEN Return(Returned("OK")) /\ UNCHANGED <<at, scopes, path>>
     ELSE LET t == Tables[scopes[Item(at).depth]]
          IN  ValidateOne(t, IndexOf(t, at), at,
                          FirstOfItem(t, IndexOf(t, at), at, PathTo(path, Item(at).depth)))
  /\ UNCHANGED <<input, checked, call, tables, next, report, calls>>

-----------------------------------------------------------------------------
(* report.c: every violation.                                               *)

AllCount(b, occ, p, absent, isGroup, where) ==
  [k \in 1 .. (IF Len(occ) > b.max THEN Len(occ) - b.max ELSE 0) |->
     Duplicate(occ[b.max + k], b.max + k, isGroup, where)]
  \o Missing(b, Len(occ), p, absent, isGroup, where)

\* A scan that does not let one rule match twice in a row.
AllOrder_Strict(t, m, where) ==
  IF t.order = "ANY" THEN <<>>
  ELSE FoldLeft(LAMBDA acc, i : IF IndexOf(t, i) <= acc.last
                                THEN [acc EXCEPT !.found = Append(@, ItemIssue("ORDER", i, where))]
                                ELSE [acc EXCEPT !.last = IndexOf(t, i)],
                [last |-> 0, found |-> <<>>], m).found

AllOrder(t, m, where) ==
  IF t.order = "ANY" THEN <<>>
  ELSE FoldLeft(LAMBDA acc, i : IF IndexOf(t, i) < acc.last
                                THEN [acc EXCEPT !.found = Append(@, ItemIssue("ORDER", i, where))]
                                ELSE [acc EXCEPT !.last = IndexOf(t, i)],
                [last |-> 0, found |-> <<>>], m).found

\* check_scope
AllInScope(t, p, where) ==
  FlattenSeq([n \in DOMAIN t.rules |->
                AllCount(t.rules[n], Occurrences(p, {t.rules[n].tag}), p, t.rules[n].tag,
                         FALSE, where)])
  \o FlattenSeq([n \in DOMAIN t.groups |->
                   AllCount(t.groups[n], Occurrences(p, Members(t, t.groups[n])), p,
                            FirstMember(t, t.groups[n]), TRUE, where)])
  \o AllOrder(t, Matched(t, p), where)

Rejects(t) == call.args.policy = "REJECT" \/ (call.args.policy = "BY_SCHEMA" /\ ~t.unknown)
AllOfItem(t, n, i, where) ==
  IF n = 0 THEN IF Rejects(t) THEN <<ItemIssue("UNEXPECTED", i, where)>> ELSE <<>>
  ELSE (IF LengthOK(t.rules[n], Item(i).length) THEN <<>> ELSE <<ItemIssue("LENGTH", i, where)>>)
       \o (IF FormOK(t.rules[n], Item(i).constructed) THEN <<>> ELSE <<ItemIssue("KIND", i, where)>>)

\* add_issue: all are counted, the first `capacity' are stored.
Stored(all) == SubSeq(all, 1, IF Len(all) < call.args.capacity THEN Len(all) ELSE call.args.capacity)
Add(r, issues) ==
  [count |-> r.count + Len(issues), stored |-> Stored(r.stored \o issues)]

Descend(t, n, i) == Modelled(t, n) /\ FormOK(t.rules[n], Item(i).constructed)

ReportInto(child, i, found, deeper) ==
  IF Item(i).depth = SchemaMaxDepth
    THEN Return(Returned("LIMIT")) /\ report' = NoReport /\ UNCHANGED <<at, scopes, path>>
  ELSE /\ path' = deeper /\ scopes' = [scopes EXCEPT ![Item(i).depth + 1] = child]
       /\ report' = Add(Add(report, found),
                        AllInScope(Tables[child], i, PathTo(deeper, Item(i).depth + 1)))
       /\ at' = i + 1 /\ UNCHANGED <<pc, result>>

ReportOne(t, n, i, found) ==
  IF Descend(t, n, i)
    THEN ReportInto(t.rules[n].children, i, found, [path EXCEPT ![Item(i).depth + 1] = Item(i).tag])
  ELSE /\ report' = Add(report, found) /\ at' = After(i)
       /\ UNCHANGED <<pc, result, scopes, path>>

\* validate_all: the preflight, ...
ReportTree ==
  /\ pc = "tree" /\ Reports(call.op)
  /\ Walk(TreeCode(call.args), <<>>,
          Add(report, AllInScope(Tables[call.schema], 0, PathTo(path, 0))))
  /\ UNCHANGED <<input, checked, call, tables, next, at, path, calls>>

\* ... and the loop over the items.
ReportItem ==
  /\ pc = "items" /\ Reports(call.op)
  /\ IF at > Count
       THEN /\ Return(Returned(IF report.count > 0 THEN "SCHEMA" ELSE "OK"))
            /\ UNCHANGED <<at, scopes, path, report>>
     ELSE LET t == Tables[scopes[Item(at).depth]]
          IN  ReportOne(t, IndexOf(t, at), at,
                        AllOfItem(t, IndexOf(t, at), at, PathTo(path, Item(at).depth)))
  /\ UNCHANGED <<input, checked, call, tables, next, calls>>

SchemaNext ==
  \/ \E s \in Roots : Call("prepare", s, NoArguments)
  \/ \E args \in Arguments :
       \/ \E s \in Roots : Call("validate_all", s, args)
       \/ Call("validate_all_checked", checked, args)
  \/ \E args \in {a \in Arguments : a.policy = "BY_SCHEMA" /\ a.capacity = 0} :
       \/ \E s \in Roots : Call("validate", s, args)
       \/ Call("validate_checked", checked, args)
  \/ CheckTable \/ CheckDone
  \/ ValidateTree \/ ValidateItem
  \/ ReportTree \/ ReportItem

-----------------------------------------------------------------------------
(* What a definition and an input promise, read off the finished graph and  *)
(* the finished tree.                                                       *)

\* The tables a schema refers to, itself included.
Targets(id) == {Tables[id].rules[n].children : n \in DOMAIN Tables[id].rules} \ {NULL}
Reachable(id) ==
  LET within[n \in 0 .. Cardinality(DOMAIN Tables)] ==
        IF n = 0 THEN {id} ELSE within[n - 1] \cup UNION {Targets(x) : x \in within[n - 1]}
  IN  within[Cardinality(DOMAIN Tables)]
Sound(id) == \A x \in Reachable(id) : TableOK(Tables[x])

\* tlv_schema_check accepts exactly the graphs of at most SchemaMaxTables tables all of which are
\* well-formed, whatever cycles and sharing they have; so a prepared handle never names another,
\* no validation starts on one, and a validation by handle never blames the definition.
DefinitionsSound ==
  /\ pc = "idle" /\ checked # NULL => Sound(checked)
  /\ pc = "tree" => Sound(call.schema) /\ Cardinality(Reachable(call.schema)) <= SchemaMaxTables
  /\ pc = "idle" /\ result.rc = "INVALID_SCHEMA" => ~Unchecked(call.op) /\ ~Sound(call.schema)
  /\ pc = "idle" /\ result.rc = "UNSUPPORTED" => Cardinality(Reachable(call.schema)) > SchemaMaxTables

\* The table of an item's contents, and the tags on the way to them.
Scopes(id) ==
  LET scope[p \in 0 .. Count] ==
        IF p = 0 THEN id
        ELSE IF scope[Parent(p)] = NULL THEN NULL
        ELSE LET t == Tables[scope[Parent(p)]]
                 n == IndexOf(t, p)
             IN  IF n # 0 /\ FormOK(t.rules[n], Item(p).constructed) THEN t.rules[n].children ELSE NULL
  IN  scope
TagsTo ==
  LET tags[p \in 0 .. Count] == IF p = 0 THEN <<>> ELSE Append(tags[Parent(p)], Item(p).tag)
  IN  tags

Counted(t) == {[bound |-> r, tags |-> {r.tag}, absent |-> r.tag, group |-> FALSE] : r \in ToSet(t.rules)}
        \cup {[bound |-> g, tags |-> Members(t, g), absent |-> FirstMember(t, g), group |-> TRUE]
                : g \in ToSet(t.groups)}

\* Every violation of table t by the contents of p.
DeclaredIn(t, p, where) ==
  LET kids       == {i \in 1 .. Count : Parent(i) = p}
      Rank(c, i) == Cardinality({j \in kids : j <= i /\ Item(j).tag \in c.tags})
      All(c)     == Cardinality({j \in kids : Item(j).tag \in c.tags})
      counted    == Counted(t)
      ruled      == {i \in kids : IndexOf(t, i) # 0}
  IN  {Duplicate(x[2], Rank(x[1], x[2]), x[1].group, where)
         : x \in {y \in counted \X kids : Item(y[2]).tag \in y[1].tags
                                          /\ Rank(y[1], y[2]) > y[1].bound.max}}
      \cup {OccursIssue(Issue("MISSING", c.absent, ScopeEnd(p), where), c.group, All(c))
              : c \in {d \in counted : All(d) < d.bound.min}}
      \cup {ItemIssue("ORDER", i, where)
              : i \in {j \in ruled : t.order = "SEQUENCE" /\ \E k \in ruled :
                         k < j /\ IndexOf(t, k) > IndexOf(t, j)}}
      \cup {ItemIssue("UNEXPECTED", i, where) : i \in {j \in kids \ ruled : Rejects(t)}}
      \cup {ItemIssue("LENGTH", i, where)
              : i \in {j \in ruled : ~LengthOK(t.rules[IndexOf(t, j)], Item(j).length)}}
      \cup {ItemIssue("KIND", i, where)
              : i \in {j \in ruled : ~FormOK(t.rules[IndexOf(t, j)], Item(j).constructed)}}

Declared(scope) ==
  UNION {DeclaredIn(Tables[scope[p]], p, PathTo(TagsTo[p], Len(TagsTo[p])))
           : p \in {q \in 0 .. Count : scope[q] # NULL}}

Judged == pc = "idle" /\ result.rc \in {"OK", "SCHEMA"}

\* A scope the schema describes lies below more tags than a diagnostic path holds.  The header
\* has the report answer LIMIT then (schema.h:581); the code does so only at the last depth,
\* where it refuses even an empty container, and cuts the path elsewhere, so neither answer is asked for.
DeeperThanPath ==
  \E p \in 0 .. Count : Scopes(call.schema)[p] # NULL /\ Len(TagsTo[p]) > PathMax

\* An input that passes the limits is judged: no code but OK and SCHEMA is left, save the
\* report's LIMIT for a schema nested deeper than its paths.
WithinLimits ==
  pc = "idle" /\ ~Judged /\ call.op \notin {"none", "prepare"} /\ call.schema # NULL
    /\ Sound(call.schema) /\ Cardinality(Reachable(call.schema)) <= SchemaMaxTables =>
      \/ TreeCode(call.args) # "OK" /\ result.rc = TreeCode(call.args)
      \/ Reports(call.op) /\ result.rc = "LIMIT" /\ DeeperThanPath

\* tlv_schema_validate answers OK exactly when the finished tree has no violation, and the one it
\* names otherwise, with its tag, offset, path and counts, is a violation of that tree; and
\* both validators judge whatever passes the limits.
ValidateDecides ==
  /\ WithinLimits
  /\ Judged /\ call.op \in {"validate", "validate_checked"} =>
       IF result.rc = "OK" THEN Declared(Scopes(call.schema)) = {}
       ELSE result.issue \subseteq Declared(Scopes(call.schema))

\* When tlv_schema_validate_all_diag judges, it counts every violation of the tree once and
\* stores as many as fit, each with the offset, the counts and the path the tree gives it, the
\* path cut as diagnostic.h:123 says; on another answer it leaves no count.
ReportsComplete(all) ==
  /\ report.count = Cardinality(all) /\ result.rc = (IF all = {} THEN "OK" ELSE "SCHEMA")
  /\ ToSet(report.stored) \subseteq all /\ IsInjective(report.stored)
  /\ Len(report.stored) = Min({call.args.capacity, report.count})
ReportComplete ==
  pc = "idle" /\ Reports(call.op) =>
    IF Judged THEN ReportsComplete(Declared(Scopes(call.schema))) ELSE report = NoReport

\* Both validators find what the finished tree violates: one the first, the other all.
ValidatesTree == ValidateDecides /\ ReportComplete
=============================================================================
