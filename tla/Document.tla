------------------------------ MODULE Document ------------------------------
(***************************************************************************)
(* One document with its caller: edits (document.c), path visits            *)
(* (document/query.c), the evaluation of a compiled query into an           *)
(* execution, its results, visits and edits (query/document_backend.c).     *)
(*                                                                         *)
(* Visitors and the callbacks of a format or an evaluation are caller's     *)
(* code: while one runs, the caller may make any call again.  `stack' holds *)
(* the callbacks that are running, each with the node its operation will go *)
(* on from.  Loops in which no caller's code runs but the tree changes step *)
(* by step (committing deferred erasures, editing a selection) are `loop'.  *)
(* Every call may run out of memory at any of its allocations.  What a path *)
(* or a compiled query selects is left open: any node may match.            *)
(*                                                                         *)
(* A caller keeps the document alive while an execution refers to it; once  *)
(* it is gone the execution can only be reset (owner "gone").               *)
(***************************************************************************)
EXTENDS DocumentCore

CONSTANT Callers  \* what programs call with: see the operators below

VARIABLES
  caller,    \* the program that calls, one of Callers for good
  alive,     \* the document exists
  d,         \* the document and its memory
  stack,     \* running callbacks, innermost last: [kind, at]
  loop,      \* the loop that is running: [kind, at, op, insert, targets]
  exec,      \* the tlv_query_exec_t
  result,    \* what the last call returned
  applied,   \* the edits the last call applied to a selection
  handed,    \* the node the last call handed out, with the identity it was selected by
  parsed,    \* history: the children of every parsed node when it was parsed
  rewritten  \* history: nodes whose own bytes were replaced

vars == <<caller, alive, d, stack, loop, exec, result, applied, handed, parsed, rewritten>>

Contents == caller.contents  \* what it gives to tlv_document_parse
Inserts  == caller.inserts   \* the [kind, content] of tlv_document_insert and of an inserting edit
Values   == caller.values    \* contents for tlv_node_set_value and a replacing edit
Fuels    == caller.fuels     \* how many allocations of a call succeed
MaxStack == caller.nested    \* bound: callbacks inside callbacks
MaxEdits == caller.edits     \* bound: edits and evaluations begin while the revision is below it

Live    == DOMAIN d.heap \ {Doc}
NoNode  == [addr |-> Null, id |-> 0]
NoEntry == [kind |-> "PRIMITIVE", content |-> [events |-> <<>>, rc |-> "OK", size |-> 0]]
NoLoop  == [kind |-> "none", at |-> Null, op |-> "REMOVE", insert |-> NoEntry, targets |-> <<>>]

\* tlv_query_eval_init: nothing fed yet
ExecInit == [owner |-> "none", revision |-> 0, nodes |-> <<>>, selected |-> {}, cursor |-> 0,
             finished |-> FALSE, invalid |-> FALSE, busy |-> FALSE]

Identities(h, s) == [i \in 1 .. Len(s) |-> h[s[i]].id]
KidsOf(h, n)     == Identities(h, Children(h, n))

\* The forest by identities.
Kids(h) == [i \in {0} \cup {h[n].id : n \in DOMAIN h \ {Doc}} |->
              IF i = 0 THEN KidsOf(h, Doc)
              ELSE KidsOf(h, CHOOSE n \in DOMAIN h \ {Doc} : h[n].id = i)]

Init == /\ caller \in Callers /\ alive = FALSE /\ d = NoDocument
        /\ stack = <<>> /\ loop = NoLoop /\ exec = ExecInit
        /\ result = "OK" /\ applied = 0 /\ handed = NoNode
        /\ parsed = Kids(NoDocument.heap) /\ rewritten = {}

-----------------------------------------------------------------------------
CallerRuns == alive /\ loop.kind = "none"
MayBegin   == CallerRuns /\ d.revision < MaxEdits

\* A call returns rc with the document as `new' and nothing handed out.
Return(new, rc) ==
  /\ d' = [new EXCEPT !.fuel = 0]
  /\ result' = rc /\ applied' = 0 /\ handed' = NoNode

Fuelled(fuel) == [d EXCEPT !.fuel = fuel]

\* An execution that has failed keeps nothing anyone can reach; nor does one whose document
\* is gone.
Invalid(e) == [ExecInit EXCEPT !.invalid = TRUE, !.owner = e.owner, !.revision = e.revision]
Orphaned   == IF exec.owner = "live" THEN [ExecInit EXCEPT !.owner = "gone"] ELSE exec

Parsed(p) ==
  /\ Return(p.d, p.rc)
  /\ alive' = (p.rc = "OK")
  /\ parsed' = Kids(p.d.heap)

DoParse ==
  /\ ~alive
  /\ \E c \in Contents : \E fuel \in Fuels : Parsed(Parse(c, fuel))
  /\ rewritten' = {}
  /\ UNCHANGED <<stack, loop, exec>>

Answer(r) == Return(r.d, r.rc)

DoInsert ==
  /\ MayBegin
  /\ \E parent, before \in Live \cup {Null} : \E i \in Inserts : \E fuel \in Fuels :
       Answer(Insert(Fuelled(fuel), parent, before, i.kind, i.content))
  /\ UNCHANGED <<alive, stack, loop, exec, parsed, rewritten>>

\* r is what setting the value of n has come to.
Rewritten(n, r) ==
  rewritten' = IF r.rc = "OK" THEN rewritten \cup {d.heap[n].id} ELSE rewritten
SetAnswer(n, r) == Answer(r) /\ Rewritten(n, r)

DoSetValue ==
  /\ MayBegin
  /\ \E n \in Live : \E c \in Values : \E fuel \in Fuels :
       SetAnswer(n, SetValue(Fuelled(fuel), n, c))
  /\ UNCHANGED <<alive, stack, loop, exec, parsed>>

DoErase ==
  /\ MayBegin
  /\ \E n \in Live : Return(Erase(d, n), "OK")
  /\ UNCHANGED <<alive, stack, loop, exec, parsed, rewritten>>

\* Everything that refers to a document that is gone is gone with it.
Gone(rc) ==
  /\ alive' = FALSE /\ Return(DocumentFree(d), rc)
  /\ parsed' = Kids(NoDocument.heap) /\ rewritten' = {}

DoFree ==
  /\ CallerRuns
  /\ IF d.callbacks > 0
       THEN /\ Return([d EXCEPT !.pending = 2], "OK")
            /\ UNCHANGED <<alive, exec, parsed, rewritten>>
       ELSE Gone("OK") /\ exec' = Orphaned
  /\ UNCHANGED <<stack, loop>>

-----------------------------------------------------------------------------
Top       == Last(stack)
Popped    == Front(stack)
Runs(kind) == CallerRuns /\ stack # <<>> /\ Top.kind = kind
Push(kind, n) == stack' = Append(stack, [kind |-> kind, at |-> n])
Later(n)  == LET all == Preorder(d.heap)
             IN  {all[j] : j \in {j \in DOMAIN all : \E i \in 1 .. j - 1 : all[i] = n}}

\* The innermost callback ends; what was deferred is carried out if it was the outermost.
\* Without anything deferred the operation returns rc and leaves the execution as `e'.
Ends(rc, e) ==
  LET deferred == Deferred(d)
      lost     == Top.kind \in {"program", "eval"}
  IN  /\ stack' = Popped
      /\ \/ /\ deferred = 0
            /\ Return(Leave(d), rc) /\ exec' = e
            /\ UNCHANGED <<alive, loop, parsed, rewritten>>
         \/ /\ deferred = 1
            /\ Return(Leave(d), "INVALID_STATE")
            /\ loop' = [NoLoop EXCEPT !.kind = "commit", !.at = d.heap[Doc].first]
            /\ exec' = IF lost THEN Invalid(e) ELSE e
            /\ UNCHANGED <<alive, parsed, rewritten>>
         \/ /\ deferred = 2
            /\ Gone("INVALID_STATE")
            /\ exec' = IF lost THEN [ExecInit EXCEPT !.invalid = TRUE] ELSE Orphaned
            /\ UNCHANGED loop

\* tlv_document_query_visit: finds nothing, or calls the visitor for the first match.
DoVisit ==
  /\ CallerRuns /\ Len(stack) < MaxStack
  /\ \/ Return(d, "OK") /\ UNCHANGED stack
     \/ \E n \in Live : Push("visit", n) /\ Return(Enter(d), "OK")
  /\ UNCHANGED <<alive, loop, exec, parsed, rewritten>>

\* The visitor returns CONTINUE and a later node matches too.
VisitContinue ==
  /\ Runs("visit") /\ Deferred(d) = 0
  /\ \E m \in Later(Top.at) :
       /\ stack' = Append(Popped, [kind |-> "visit", at |-> m])
       /\ Return(Enter(Leave(d)), "OK")
  /\ UNCHANGED <<alive, loop, exec, parsed, rewritten>>

\* The visitor returns: STOP, CONTINUE with no match left, an error or an unknown answer.
VisitEnd == Runs("visit") /\ \E rc \in {"OK", "VISITOR", "CALLBACK"} : Ends(rc, exec)

\* One step of the walk that commits deferred erasures.
CommitStep ==
  /\ loop.kind = "commit"
  /\ LET n == loop.at
         next == CommitNext(d.heap, n)
     IN  IF n = Null THEN loop' = NoLoop /\ UNCHANGED d
         ELSE /\ loop' = [loop EXCEPT !.at = next]
              /\ d' = IF d.heap[n].erase THEN Erase(d, n) ELSE d
  /\ UNCHANGED <<alive, stack, exec, result, applied, handed, parsed, rewritten>>

-----------------------------------------------------------------------------
\* tlv_query_exec_reset
DoReset ==
  /\ loop.kind = "none"
  /\ exec' = IF exec.busy THEN exec ELSE ExecInit
  /\ Return(d, IF exec.busy THEN "INVALID_STATE" ELSE "OK")
  /\ UNCHANGED <<alive, stack, loop, parsed, rewritten>>

\* tlv_document_query_evaluate: the callbacks of the format and of the program run while
\* the events of the document are fed one by one.
DoEvaluate ==
  /\ MayBegin /\ Len(stack) < MaxStack
  /\ IF exec.busy \/ d.callbacks > 0 \/ exec # ExecInit
       THEN Return(d, "INVALID_STATE") /\ UNCHANGED <<stack, exec>>
       ELSE /\ Push("eval", d.heap[Doc].first)
            /\ Return(Enter(d), "OK")
            /\ exec' = [ExecInit EXCEPT !.owner = "live", !.revision = d.revision, !.busy = TRUE]
  /\ UNCHANGED <<alive, loop, parsed, rewritten>>

EvalFeed ==
  /\ Runs("eval") /\ Top.at # Null
  /\ exec' = [exec EXCEPT !.nodes = Append(@, [addr |-> Top.at, id |-> d.heap[Top.at].id])]
  /\ stack' = Append(Popped, [kind |-> "eval", at |-> PreorderNext(d.heap, Top.at)])
  /\ Return(d, "OK")
  /\ UNCHANGED <<alive, loop, parsed, rewritten>>

\* The evaluation ends with a selection of the nodes, or with any of its errors.
EvalEnd ==
  /\ Runs("eval")
  /\ \/ /\ Top.at = Null
        /\ \E sel \in SUBSET (1 .. Len(exec.nodes)) :
             Ends("OK", [exec EXCEPT !.selected = sel, !.finished = TRUE, !.busy = FALSE])
     \/ Ends("FAILED", Invalid(exec))

-----------------------------------------------------------------------------
\* query_document_next: the next selected node, [rc, node, cursor].
Unread(e) == {i \in e.selected : i > e.cursor}
Pull(e) ==
  LET i == CHOOSE i \in Unread(e) : \A j \in Unread(e) : i <= j
  IN  IF ~e.finished THEN [rc |-> "INVALID_STATE", node |-> NoNode, cursor |-> e.cursor]
      ELSE IF Unread(e) = {} THEN [rc |-> "END", node |-> NoNode, cursor |-> Len(e.nodes)]
      ELSE [rc |-> "OK", node |-> e.nodes[i], cursor |-> i]

\* tlv_document_query_next
QueryNext(e) ==
  IF e.busy \/ e.invalid \/ e.owner # "live" \/ e.revision # d.revision
    THEN [rc |-> "INVALID_STATE", node |-> NoNode, cursor |-> e.cursor]
    ELSE Pull(e)

DoNext ==
  /\ CallerRuns /\ exec.owner # "gone"
  /\ LET p == QueryNext(exec)
     IN  /\ exec' = [exec EXCEPT !.cursor = p.cursor]
         /\ d' = d /\ result' = p.rc /\ applied' = 0 /\ handed' = p.node
  /\ UNCHANGED <<alive, stack, loop, parsed, rewritten>>

\* tlv_document_query_program_visit
DoProgramVisit ==
  /\ CallerRuns /\ Len(stack) < MaxStack /\ exec.owner # "gone"
  /\ LET p == QueryNext(exec)
     IN  IF d.callbacks > 0 \/ p.rc # "OK"
           THEN /\ Return(d, IF d.callbacks > 0 THEN "INVALID_STATE"
                             ELSE IF p.rc = "END" THEN "OK" ELSE p.rc)
                /\ exec' = IF d.callbacks > 0 THEN exec ELSE [exec EXCEPT !.cursor = p.cursor]
                /\ UNCHANGED stack
           ELSE /\ Push("program", p.node.addr)
                /\ exec' = [exec EXCEPT !.cursor = p.cursor, !.busy = TRUE]
                /\ Return(Enter(d), "OK")
  /\ UNCHANGED <<alive, loop, parsed, rewritten>>

\* The visitor returns CONTINUE and there is another result.
ProgramContinue ==
  /\ Runs("program") /\ Deferred(d) = 0
  /\ LET p == QueryNext([exec EXCEPT !.busy = FALSE])
     IN  /\ p.rc = "OK"
         /\ stack' = Append(Popped, [kind |-> "program", at |-> p.node.addr])
         /\ exec' = [exec EXCEPT !.cursor = p.cursor]
         /\ Return(Enter(Leave(d)), "OK")
  /\ UNCHANGED <<alive, loop, parsed, rewritten>>

\* It returns STOP, CONTINUE at the last result, or an error or an unknown answer, which
\* end the execution.
ProgramEnd ==
  /\ Runs("program")
  /\ LET free == [exec EXCEPT !.busy = FALSE]
         p    == QueryNext(free)
     IN  \/ Ends("OK", free)
         \/ Deferred(d) = 0 /\ p.rc = "END" /\ Ends("OK", [free EXCEPT !.cursor = p.cursor])
         \/ \E rc \in {"VISITOR", "CALLBACK"} : Ends(rc, Invalid(exec))

-----------------------------------------------------------------------------
\* tlv_document_query_edit: the selection is collected, then checked, then edited.
EditRefused(short) ==
  IF exec.busy \/ d.callbacks > 0 THEN "INVALID_STATE"
  ELSE IF exec.owner # "live" THEN "INVALID_ARG"
  ELSE IF exec.cursor # 0 \/ exec.revision # d.revision THEN "INVALID_STATE"
  ELSE IF ~exec.finished \/ exec.invalid THEN "INVALID_STATE"
  ELSE IF short /\ exec.selected # {} THEN "BUFFER_TOO_SHORT"
  ELSE "OK"

Selection == LET Chosen(i) == i \in exec.selected
                 at == SelectSeq([i \in 1 .. Len(exec.nodes) |-> i], Chosen)
             IN  [i \in 1 .. Len(at) |-> exec.nodes[at[i]].addr]

Targets(op) == IF op = "INSERT_AFTER" THEN Selection ELSE Uncovered(d.heap, Selection)
Entries(op) == CASE op = "REMOVE"  -> {NoEntry}
                 [] op = "REPLACE" -> {[kind |-> "PRIMITIVE", content |-> c] : c \in Values}
                 [] OTHER -> Inserts

\* The first target is next, once everything has been checked.
EditBegins(op, ins, targets, p) ==
  IF p.rc # "OK" THEN Answer(p) /\ UNCHANGED loop
  ELSE /\ d' = p.d /\ result' = "OK" /\ applied' = 0 /\ handed' = NoNode
       /\ loop' = [kind |-> "edit", at |-> Null, op |-> op, insert |-> ins, targets |-> targets]

EditSelection(op, ins, fuel, targets) ==
  IF targets = <<>> THEN Return(d, "OK") /\ UNCHANGED loop
  ELSE EditBegins(op, ins, targets, Preflight(Fuelled(fuel), targets, op, ins.kind, ins.content))

DoEdit ==
  /\ MayBegin /\ exec.owner # "gone"
  /\ \E op \in {"REMOVE", "REPLACE", "INSERT_AFTER"} : \E short \in BOOLEAN :
     \E ins \in Entries(op) : \E fuel \in Fuels :
       IF EditRefused(short) # "OK"
         THEN Return(d, EditRefused(short)) /\ UNCHANGED <<loop, exec>>
         ELSE /\ exec' = [exec EXCEPT !.cursor = Len(exec.nodes)]
              /\ EditSelection(op, ins, fuel, Targets(op))
  /\ UNCHANGED <<alive, stack, parsed, rewritten>>

\* r is what the edit of target t has come to; the copy of the value is released with the
\* last one.
HasCopy == loop.op # "REMOVE" /\ loop.insert.content.size > 0
Edited(t, r) ==
  /\ IF r.rc # "OK" \/ Len(loop.targets) = 1
       THEN /\ d' = [r.d EXCEPT !.fuel = 0, !.blocks = @ - (IF HasCopy THEN 1 ELSE 0)]
            /\ loop' = NoLoop
       ELSE d' = r.d /\ loop' = [loop EXCEPT !.targets = Tail(@)]
  /\ result' = r.rc
  /\ applied' = IF r.rc = "OK" THEN applied + 1 ELSE applied
  /\ IF loop.op = "REPLACE" THEN Rewritten(t, r) ELSE UNCHANGED rewritten

EditStep ==
  /\ loop.kind = "edit"
  /\ Edited(Head(loop.targets), EditOne(d, Head(loop.targets), loop.op, loop.insert.kind,
                                        loop.insert.content))
  /\ UNCHANGED <<alive, stack, exec, handed, parsed>>

Next == /\ \/ DoParse \/ DoInsert \/ DoSetValue \/ DoErase \/ DoFree
           \/ DoVisit \/ VisitContinue \/ VisitEnd \/ CommitStep
           \/ DoReset \/ DoEvaluate \/ EvalFeed \/ EvalEnd
           \/ DoNext \/ DoProgramVisit \/ ProgramContinue \/ ProgramEnd
           \/ DoEdit \/ EditStep
        /\ UNCHANGED caller

Spec == Init /\ [][Next]_vars

-----------------------------------------------------------------------------
Results == {"OK", "END", "LIMIT", "OVERFLOW", "OUT_OF_MEMORY", "INVALID_ARG", "INVALID_STATE",
            "INVALID_TAG", "BUFFER_TOO_SHORT", "VISITOR", "CALLBACK", "FAILED"}
             \cup {c.rc : c \in Contents \cup Values \cup {i.content : i \in Inserts}}

Addrs == Addresses \cup {Null}
Nodes == [parent : Addrs, prev : Addrs, next : Addrs, first : Addrs, last : Addrs,
          id : 0 .. IdMax, con : BOOLEAN, val : BOOLEAN, erase : BOOLEAN, loc : BOOLEAN]

\* Types; a holder never outlives the edit that built under it.
TypeOK ==
  /\ alive \in BOOLEAN /\ result \in Results /\ applied \in Nat
  /\ Live \subseteq Addresses /\ \A n \in DOMAIN d.heap : d.heap[n] \in Nodes
  /\ d.count \in Nat /\ d.revision \in Nat /\ d.epoch \in Nat /\ d.callbacks \in Nat
  /\ d.pending \in 0 .. 2 /\ d.nextId \in 0 .. IdMax /\ d.fuel \in Nat /\ d.blocks \in Nat

\* A child list is doubly linked, ends where its owner says and points back at its owner.
ListOK(h, owner, parent) ==
  LET c == Children(h, owner)
  IN  /\ h[owner].last = IF c = <<>> THEN Null ELSE Last(c)
      /\ \A i \in DOMAIN c :
           /\ h[c[i]].parent = parent
           /\ h[c[i]].prev = IF i = 1 THEN Null ELSE c[i - 1]
           /\ h[c[i]].next = IF i = Len(c) THEN Null ELSE c[i + 1]

(***************************************************************************)
(* The owned tree after every edit, failed ones included (document.c        *)
(* node_link, build_node, set_value, erase): lists are linked both ways,    *)
(* every allocated node is reached exactly once, the count and the limits   *)
(* are right, only parents have children, identities are distinct, and      *)
(* exactly the blocks of these nodes and their values are still allocated:  *)
(* nothing leaks and nothing is released twice.                             *)
(***************************************************************************)
TreeOK ==
  LET h   == d.heap
      all == Preorder(h)
      copy == loop.kind = "edit" /\ HasCopy
  IN  /\ TypeOK /\ ListOK(h, Doc, Null) /\ \A n \in Live : ListOK(h, n, n)
      /\ ToSet(all) = Live /\ Len(all) = Cardinality(Live) /\ d.count = Len(all)
      /\ d.count <= MaxElements /\ \A n \in Live : NodeDepth(h, n) <= MaxDepth
      /\ \A n \in Live : h[n].first # Null => h[n].con
      /\ \A m, n \in Live : h[m].id = h[n].id => m = n
      /\ d.blocks = (IF alive THEN 1 ELSE 0) + Len(all)
                      + Cardinality({n \in Live : h[n].val}) + (IF copy THEN 1 ELSE 0)

(***************************************************************************)
(* What a callback may come back to (document_query_callback): as many      *)
(* callbacks are counted as are running, and while one runs, the document   *)
(* and every node an operation goes on from are still there, whatever the   *)
(* caller erased or freed meanwhile; so are the nodes a loop still visits.  *)
(***************************************************************************)
CursorsLive ==
  /\ d.callbacks = Len(stack)
  /\ stack # <<>> => alive /\ loop.kind = "none"
  /\ \A i \in DOMAIN stack : stack[i].at \in Live \/ stack[i] = [kind |-> "eval", at |-> Null]
  /\ loop.kind = "commit" => loop.at \in Live \cup {Null}
  /\ loop.kind = "edit" => ToSet(loop.targets) \subseteq Live

(***************************************************************************)
(* A request deferred in a callback is carried out once the outermost one   *)
(* has ended: no erasure and no release is left pending outside callbacks.  *)
(***************************************************************************)
NothingPending ==
  stack = <<>> /\ loop.kind = "none" => d.pending = 0 /\ \A n \in Live : ~d.heap[n].erase

(***************************************************************************)
(* tlv_document_query_next hands out a node that is alive and is the one    *)
(* that was selected, not another one at a reused address: "Any successful  *)
(* Document edit rejects subsequent pulls" (document.h:538).                *)
(***************************************************************************)
HandlesCurrent ==
  handed # NoNode => handed.addr \in Live /\ d.heap[handed.addr].id = handed.id

\* What callbacks find and what they leave behind.
CallbacksSafe == CursorsLive /\ NothingPending

\* Editing a selection: the tree, the loops over it and the handles pulled from it.
SelectionSafe == TreeOK /\ CursorsLive /\ HandlesCurrent

(***************************************************************************)
(* An edit of a selection stops half way only for want of memory or of      *)
(* identities: tags, syntax and every target's limits are checked before    *)
(* the first change (document.h:229), with the sizes earlier targets of the *)
(* same edit will have changed by then.                                     *)
(***************************************************************************)
EditPreflight ==
  applied > 0 /\ loop.kind = "none" => result \in {"OK", "OUT_OF_MEMORY", "OVERFLOW"}

(***************************************************************************)
(* A node that still has its source location is, with everything below it,  *)
(* what was parsed there: every edit below a node forgets the location of   *)
(* the node and of all its ancestors (invalidate_locations).                *)
(***************************************************************************)
LocationHonest ==
  \A n \in Live : d.heap[n].loc =>
    \A m \in ToSet(Subtree(d.heap, n)) :
      /\ d.heap[m].id \in DOMAIN parsed /\ d.heap[m].id \notin rewritten
      /\ KidsOf(d.heap, m) = parsed[d.heap[m].id]

(***************************************************************************)
(* The document is the ordered forest of its header: see OrderedForest.     *)
(***************************************************************************)
Promise == INSTANCE OrderedForest WITH
  kids <- Kids(d.heap), revision <- d.revision, epoch <- d.epoch, spent <- d.nextId

KeepsPromise == Promise!Spec
=============================================================================
