---------------------------- MODULE BindingCore ----------------------------
(***************************************************************************)
(* What the language bindings share: the native library as they see it, and *)
(* the state of their own objects.                                          *)
(*                                                                         *)
(* The native side is a heap.  A node lives at an address that is used      *)
(* again as soon as it is freed; its identity never is.  A native handle is *)
(* only an address, and using one after its node, its document or its       *)
(* program is gone is undefined.  Each binding therefore hands out checked  *)
(* handles, and each has its own way of knowing that one has expired.  The  *)
(* binding modules (GoBinding, LuaBinding, PythonBinding, WasmBinding,      *)
(* CppBinding) extend this one.                                             *)
(*                                                                         *)
(* A program in one of these languages calls one operation at a time, but   *)
(* an evaluation calls back into it (Query providers, visitors), and there  *)
(* it may call any operation again: `calls' is the stack of evaluations in  *)
(* progress.  A call that is refused and changes nothing is no step.        *)
(***************************************************************************)
EXTENDS Integers, Sequences, FiniteSets, Functions, FiniteSetsExt

CONSTANTS
  Documents, Executions, Handles,   \* the objects the program creates, each once
  Addresses,                        \* where native nodes can be
  NULL,
  MaxIdentity,                      \* bounds: nodes ever allocated,
  MaxChanges,                       \* documents parsed, edits and inputs pinned,
  MaxCalls                          \* evaluations inside evaluations

ASSUME BindingBounds ==
  /\ {MaxIdentity, MaxChanges, MaxCalls} \subseteq Nat
  /\ NULL \notin Documents \cup Executions \cup Handles \cup Addresses
  /\ IsFiniteSet(Addresses) /\ Documents # {}

VARIABLES
  native,     \* [node, doc, exec, identity], see NativeInit
  document,   \* the binding's Document objects
  execution,  \* its QueryExecution objects
  handle,     \* its Node objects
  program,    \* its QueryProgram object, which all executions run
  calls       \* evaluations in progress, innermost first, see Call

bindingVars == <<native, document, execution, handle, program, calls>>

-----------------------------------------------------------------------------
(* The native library. *)

NoNode == [document |-> NULL, parent |-> NULL, identity |-> 0, erase |-> FALSE]
NoDocument == [alive |-> FALSE, revision |-> 0, epoch |-> 0, callbacks |-> 0, pending |-> 0]
NoExec == [phase |-> "none", owner |-> NULL, revision |-> 0, results |-> {}, pulled |-> FALSE,
           busy |-> FALSE, windows |-> 0]
Fresh == [NoExec EXCEPT !.phase = "fresh"]

NativeInit ==
  [node |-> [a \in Addresses |-> NoNode], doc |-> [d \in Documents |-> NoDocument],
   exec |-> [q \in Executions |-> NoExec], identity |-> 0]

Live(n)       == {a \in Addresses : n.node[a].document # NULL}
NodesOf(n, d) == {a \in Addresses : n.node[a].document = d}
Vacant(n)     == Addresses \ Live(n)

\* a and the nodes above it: what every set of addresses that holds a and, with a node, its
\* parent, has in common.
Above(n, a) ==
  {b \in Addresses :
     \A S \in SUBSET Addresses :
       a \in S /\ (\A c \in S : n.node[c].parent \in S \cup {NULL}) => b \in S}
Subtree(n, a) == {b \in NodesOf(n, n.node[a].document) : a \in Above(n, b)}
\* The nodes of T and all below them; the nodes of T that are below no other.
Under(n, T)   == UNION {Subtree(n, a) : a \in T}
Tops(n, T)    == {a \in T : Above(n, a) \cap T = {a}}
Related(n, a) == {b \in Addresses : n.node[b].parent = a} \cup ({n.node[a].parent} \ {NULL})
Roots(n, d)   == {a \in NodesOf(n, d) : n.node[a].parent = NULL}

\* Up to k nodes, one below the other, at vacant addresses.
Chains(n, k) ==
  {at \in UNION {[1 .. i -> Vacant(n)] : i \in 0 .. k} :
     IsInjective(at) /\ n.identity + Len(at) <= MaxIdentity}
Allocate(n, d, parent, at) ==
  [n EXCEPT
     !.node = [a \in Addresses |->
       IF \E i \in DOMAIN at : at[i] = a
       THEN LET i == CHOOSE j \in DOMAIN at : at[j] = a
            IN  [document |-> d, parent |-> IF i = 1 THEN parent ELSE at[i - 1],
                 identity |-> n.identity + i, erase |-> FALSE]
       ELSE @[a]],
     !.identity = @ + Len(at)]
Release(n, S) == [n EXCEPT !.node = [a \in Addresses |-> IF a \in S THEN NoNode ELSE @[a]]]

\* tlv_document_parse
NParse(n, d, at) == Allocate([n EXCEPT !.doc[d] = [NoDocument EXCEPT !.alive = TRUE]], d, NULL, at)

\* An edit moves the document's revision, and its epoch where it retires nodes.
Moved(n, d, r, e) == [n EXCEPT !.doc[d].revision = @ + r, !.doc[d].epoch = @ + e]

\* tlv_node_set_value: the new children are there before the old ones are freed.
NSetValue(n, a, at) ==
  LET d == n.node[a].document
      old == Subtree(n, a) \ {a}
  IN  Moved(Release(Allocate(n, d, a, at), old), d, 1, IF old = {} THEN 0 ELSE 1)

\* tlv_document_insert
NInsert(n, d, parent, at) == Moved(Allocate(n, d, parent, at), d, 1, 0)

Erased(n, a) == Moved(Release(n, Subtree(n, a)), n.node[a].document, 1, 1)
Freed(n, d) == [Release(n, NodesOf(n, d)) EXCEPT !.doc[d] = NoDocument]

\* tlv_node_erase, tlv_document_free: put off while a callback runs.
NErase(n, a) ==
  LET d == n.node[a].document
  IN  IF n.doc[d].callbacks > 0
      THEN [n EXCEPT !.node[a].erase = TRUE,
                     !.doc[d].pending = IF @ = 0 THEN 1 ELSE @]
      ELSE Erased(n, a)
NFree(n, d) ==
  IF n.doc[d].callbacks > 0 THEN [n EXCEPT !.doc[d].pending = 2] ELSE Freed(n, d)

\* document_query_callback, leaving: what was put off happens now.
Doomed(n, d)   == Tops(n, {a \in NodesOf(n, d) : n.node[a].erase})
Purged(n, d)   == [Moved(Release(n, Under(n, Doomed(n, d))), d,
                         Cardinality(Doomed(n, d)), Cardinality(Doomed(n, d)))
                     EXCEPT !.doc[d].pending = 0]
Deferred(n, d) == LET m == [n EXCEPT !.doc[d].callbacks = @ - 1]
                  IN  IF m.doc[d].callbacks > 0 THEN m
                      ELSE IF m.doc[d].pending = 2 THEN Freed(m, d) ELSE Purged(m, d)

\* tlv_document_query_evaluate, up to its callbacks and after them.
NEvaluates(n, q, d) == n.doc[d].callbacks = 0 /\ n.exec[q] = [Fresh EXCEPT !.windows = n.exec[q].windows]
NEvaluate(n, q, d) ==
  [n EXCEPT !.doc[d].callbacks = @ + 1,
            !.exec[q].owner = d, !.exec[q].revision = n.doc[d].revision, !.exec[q].busy = TRUE]
NEvaluated(n, q, ok, results) ==
  LET d == n.exec[q].owner
      put == n.doc[d].pending
      m == Deferred(n, d)
  IN  [m EXCEPT !.exec[q] = [m.exec[q] EXCEPT
         !.busy = FALSE,
         !.owner = IF put = 2 THEN NULL ELSE d,
         !.phase = IF ok /\ put = 0 THEN "finished" ELSE "invalid",
         !.results = IF ok /\ put = 0 THEN results ELSE {}]]

\* tlv_query_exec_feed, tlv_query_exec_finish, tlv_query_program_visit and _exists on a Reader.
NDrive(n, q) == [n EXCEPT !.exec[q].busy = TRUE]
NDriven(n, q, phase) == [n EXCEPT !.exec[q].busy = FALSE, !.exec[q].phase = phase]
NDrives(n, q) == ~n.exec[q].busy /\ n.exec[q].phase \in {"fresh", "events"}
\* A visit of an input that has been read already gives its results once more.
NVisits(n, q) == \/ NDrives(n, q)
                 \/ ~n.exec[q].busy /\ n.exec[q].phase = "finished" /\ n.exec[q].owner = NULL
Phases(n, q) == {"finished", "invalid"} \cup IF n.exec[q].phase = "finished" THEN {} ELSE {"events"}

\* tlv_document_query_next
NPulls(n, q) ==
  LET e == n.exec[q]
  IN  /\ ~e.busy /\ e.phase = "finished" /\ e.owner # NULL
      /\ e.revision = n.doc[e.owner].revision
NPull(n, q, a) == [n EXCEPT !.exec[q].results = @ \ {a}, !.exec[q].pulled = TRUE]

\* tlv_document_query_edit: removing and replacing skip what lies below another target; a
\* replacement or an insertion may run out of memory after some of them.
NEditable(n, q, d) ==
  /\ n.doc[d].callbacks = 0 /\ n.exec[q].owner = d /\ ~n.exec[q].pulled /\ NPulls(n, q)
Dominant(n, q) == Tops(n, n.exec[q].results)
Spent(n, q) == [n EXCEPT !.exec[q].results = {}, !.exec[q].pulled = TRUE]
NRemoved(n, q, d) ==
  LET T == Dominant(n, q)
  IN  Spent(Moved(Release(n, Under(n, T)), d, Cardinality(T), Cardinality(T)), q)
Below(n, T) == UNION {Subtree(n, a) \ {a} : a \in T}
NReplaced(n, q, d, T) ==
  Spent(Moved(Release(n, Below(n, T)), d, Cardinality(T),
              Cardinality({a \in T : Subtree(n, a) # {a}})), q)
NInserted(n, q, d, a, at) == Spent(NInsert(n, d, n.node[a].parent, at), q)

\* Every outcome of an edit of q's selection in d, with the number of targets changed.
NEdits(n, q, d) ==
  {[native |-> NRemoved(n, q, d), applied |-> Cardinality(Dominant(n, q))]}
  \cup {[native |-> NReplaced(n, q, d, T), applied |-> Cardinality(T)] : T \in SUBSET Dominant(n, q)}
  \cup {[native |-> NInserted(n, q, d, a, at), applied |-> 1] :
          a \in n.exec[q].results, at \in {c \in Chains(n, 1) : Len(c) = 1}}

-----------------------------------------------------------------------------
(* The objects of a binding. *)

Unborn == [state |-> "unborn", generation |-> 0, active |-> 0, references |-> 0]
Idle   == [open |-> FALSE, document |-> NULL, holds |-> NULL, busy |-> FALSE, reader |-> FALSE,
           fed |-> FALSE, pins |-> 0, invalid |-> FALSE]
Untaken == [document |-> NULL, at |-> NULL, identity |-> 0, stamp |-> 0, origin |-> NULL]

BindingInit ==
  /\ native = NativeInit
  /\ document = [d \in Documents |-> Unborn]
  /\ execution = [q \in Executions |-> Idle]
  /\ handle = [h \in Handles |-> Untaken]
  /\ program = [open |-> TRUE, references |-> 1]
  /\ calls = <<>>

IsOpen(d)  == document[d].state = "open"
Taken(h)   == handle[h] # Untaken
\* A handle for the node at a, wrapped as d's.  `identity' and `origin' record which node it is.
Node(n, d, a, stamp) == [document |-> d, at |-> a, identity |-> n.node[a].identity,
                         stamp |-> stamp, origin |-> n.node[a].document]

MayChange == MapThenSumSet(LAMBDA d : native.doc[d].revision, Documents)
             + MapThenSumSet(LAMBDA q : execution[q].pins, Executions)
             + Cardinality({d \in Documents : document[d].state # "unborn"}) < MaxChanges
\* A call that evaluates: by q, of d (NULL for an input), in a provider or in a visitor.
Call(q, d, provider) == <<[execution |-> q, document |-> d, provider |-> provider]>> \o calls
Selections(d) == (SUBSET NodesOf(native, d)) \ {{}}

-----------------------------------------------------------------------------
(* Steps that are the same in several bindings; each has its own guards. *)

DoParse(d) ==
  /\ document[d].state = "unborn" /\ MayChange
  /\ \E at \in Chains(native, 2) : native' = NParse(native, d, at)
  /\ document' = [document EXCEPT ![d].state = "open"]
  /\ UNCHANGED <<execution, handle, program, calls>>

\* Where a document counts its owners, one of them lets go; the last one frees it.
Disowned(docs, d) == IF d = NULL THEN docs ELSE [docs EXCEPT ![d].references = @ - 1]
Dropped(n, d) == IF d # NULL /\ document[d].references = 1 THEN NFree(n, d) ELSE n

\* The program's own object lets go of it.
DoRelease ==
  /\ program.open
  /\ program' = [open |-> FALSE, references |-> program.references - 1]
  /\ UNCHANGED <<native, document, execution, handle, calls>>

\* An execution is made, which owns the program too; and it is closed.
DoCreate(q) ==
  /\ program.open /\ native.exec[q].phase = "none" /\ execution[q] = Idle
  /\ native' = [native EXCEPT !.exec[q] = Fresh]
  /\ execution' = [execution EXCEPT ![q].open = TRUE]
  /\ program' = [program EXCEPT !.references = @ + 1]
  /\ UNCHANGED <<document, handle, calls>>
DoDispose(q) ==
  /\ native' = [native EXCEPT !.exec[q] = NoExec]
  /\ execution' = [execution EXCEPT ![q] = [Idle EXCEPT !.invalid = TRUE]]
  /\ program' = [program EXCEPT !.references = @ - 1]
  /\ UNCHANGED <<document, handle, calls>>

DoReset(q) ==
  /\ native' = [native EXCEPT !.exec[q] = Fresh]
  /\ execution' = [execution EXCEPT ![q] = [Idle EXCEPT !.open = TRUE]]
  /\ UNCHANGED <<document, handle, program, calls>>

\* An event is pinned, noted as fed, and given to the native execution, which may refuse it.
DoFeed(q, provider) ==
  /\ MayChange /\ Len(calls) < MaxCalls
  /\ execution' = [execution EXCEPT ![q].pins = @ + 1, ![q].fed = TRUE, ![q].busy = NDrives(native, q)]
  /\ native' = IF NDrives(native, q)
               THEN NDrive([native EXCEPT !.exec[q].windows = @ + 1], q) ELSE native
  /\ calls' = IF NDrives(native, q) THEN Call(q, NULL, provider) ELSE calls
  /\ UNCHANGED <<document, handle, program>>

\* The native execution is driven over its input, up to the callbacks; and it returns.
DoDrive(q, provider) ==
  /\ NVisits(native, q) /\ Len(calls) < MaxCalls
  /\ execution' = [execution EXCEPT ![q].busy = TRUE]
  /\ native' = NDrive(native, q)
  /\ calls' = Call(q, NULL, provider)
  /\ UNCHANGED <<document, handle, program>>
DoDriven ==
  /\ calls # <<>> /\ Head(calls).document = NULL
  /\ LET q == Head(calls).execution
     IN  /\ \E phase \in Phases(native, q) : native' = NDriven(native, q, phase)
         /\ execution' = [execution EXCEPT ![q].busy = FALSE]
  /\ calls' = Tail(calls)
  /\ UNCHANGED <<document, handle, program>>

\* An evaluation of a document returns.
DoEvaluated ==
  /\ calls # <<>> /\ Head(calls).document # NULL
  /\ LET q == Head(calls).execution
         d == Head(calls).document
     IN  /\ \/ \E S \in Selections(d) : native' = NEvaluated(native, q, TRUE, S)
            \/ native' = NEvaluated(native, q, FALSE, {})
         /\ execution' = [execution EXCEPT ![q].busy = FALSE]
         /\ document' = [document EXCEPT ![d].active = @ - 1]
  /\ calls' = Tail(calls)
  /\ UNCHANGED <<handle, program>>

\* A selected node is pulled and wrapped as a Node of d.
DoNext(q, h, d, stamp) ==
  /\ ~Taken(h) /\ NPulls(native, q)
  /\ \E a \in native.exec[q].results :
       /\ native' = NPull(native, q, a)
       /\ handle' = [handle EXCEPT ![h] = Node(native, d, a, stamp)]
  /\ UNCHANGED <<document, execution, program, calls>>
=============================================================================
