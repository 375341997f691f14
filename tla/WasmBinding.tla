---------------------------- MODULE WasmBinding ----------------------------
(***************************************************************************)
(* The WebAssembly binding (src/bindings/wasm): a JavaScript Node is an     *)
(* address and an identity, which the native document is asked about every  *)
(* time; native objects count their owners.                                 *)
(*                                                                         *)
(* document[d].references and program.references are the counters in C,     *)
(* document[d].active is _active.  An execution has two ideas of its        *)
(* document: .document in JavaScript (_document, set after success) and     *)
(* .holds in C (q->document, set before the evaluation).                    *)
(***************************************************************************)
EXTENDS BindingCore

\* Document._node, opentlv_wasm_document_node: tlv_document_node_identity compares.
Usable(h) ==
  /\ Taken(h) /\ IsOpen(handle[h].document)
  /\ native.node[handle[h].at].document = handle[h].document
  /\ native.node[handle[h].at].identity = handle[h].identity

\* new Document
Parse(d) ==
  /\ document[d].state = "unborn" /\ MayChange
  /\ \E at \in Chains(native, 2) : native' = NParse(native, d, at)
  /\ document' = [document EXCEPT ![d].state = "open", ![d].references = 1]
  /\ UNCHANGED <<execution, handle, program, calls>>

\* Document.close
CloseDocument(d) ==
  /\ IsOpen(d) /\ document[d].active = 0
  /\ native' = Dropped(native, d)
  /\ document' = [Disowned(document, d) EXCEPT ![d].state = "closed"]
  /\ UNCHANGED <<execution, handle, program, calls>>

\* Document.first, Node.firstChild, Node.next, Node.parent
Navigate(h, d, a) ==
  /\ IsOpen(d) /\ ~Taken(h)
  /\ \/ a \in Roots(native, d)
     \/ \E g \in Handles : Usable(g) /\ handle[g].document = d /\ a \in Related(native, handle[g].at)
  /\ handle' = [handle EXCEPT ![h] = Node(native, d, a, 0)]
  /\ UNCHANGED <<native, document, execution, program, calls>>

\* Node.setValue
SetValue(h) ==
  /\ Usable(h) /\ document[handle[h].document].active = 0 /\ MayChange
  /\ \E at \in Chains(native, 1) : native' = NSetValue(native, handle[h].at, at)
  /\ UNCHANGED <<document, execution, handle, program, calls>>

\* Node.erase
Erase(h) ==
  /\ Usable(h) /\ document[handle[h].document].active = 0 /\ MayChange
  /\ native' = NErase(native, handle[h].at)
  /\ UNCHANGED <<document, execution, handle, program, calls>>

-----------------------------------------------------------------------------
\* _providerActive: nothing of a program is called inside one of its providers.
Providing == calls # <<>> /\ Head(calls).provider

\* QueryProgram.close, opentlv_wasm_program_free
CloseProgram == ~Providing /\ DoRelease

\* QueryProgram.execution, opentlv_wasm_execution_new
NewExecution(q) == ~Providing /\ DoCreate(q)

Ready(q) == execution[q].open /\ ~execution[q].busy /\ ~Providing
\* QueryExecution._check
Check(q) ==
  /\ Ready(q) /\ ~execution[q].invalid
  /\ execution[q].document # NULL => IsOpen(execution[q].document)

\* A freed execution that keeps its document.
CloseExecution_Keeps(q) == Ready(q) /\ DoDispose(q)
\* QueryExecution.close, opentlv_wasm_execution_free
CloseExecution(q) ==
  /\ Ready(q)
  /\ native' = Dropped([native EXCEPT !.exec[q] = NoExec], execution[q].holds)
  /\ document' = Disowned(document, execution[q].holds)
  /\ execution' = [execution EXCEPT ![q] = [Idle EXCEPT !.invalid = TRUE]]
  /\ program' = [program EXCEPT !.references = @ - 1]
  /\ UNCHANGED <<handle, calls>>

\* QueryExecution.reset, wasm_execution_reset
Reset(q) ==
  /\ Ready(q)
  /\ native' = Dropped([native EXCEPT !.exec[q] = Fresh], execution[q].holds)
  /\ document' = Disowned(document, execution[q].holds)
  /\ execution' = [execution EXCEPT ![q] = [Idle EXCEPT !.open = TRUE]]
  /\ UNCHANGED <<handle, program, calls>>

\* QueryExecution.setInput, opentlv_wasm_execution_input: pinned, then taken or refused.
SetInput(q) ==
  /\ Check(q) /\ execution[q].holds = NULL /\ ~execution[q].fed /\ MayChange
  /\ \E taken \in BOOLEAN :
       /\ execution' = [execution EXCEPT ![q].pins = @ + 1, ![q].reader = @ \/ taken]
       /\ native' = IF taken THEN [native EXCEPT !.exec[q].windows = @ + 1] ELSE native
  /\ UNCHANGED <<document, handle, program, calls>>

\* QueryExecution.bind, opentlv_wasm_execution_bind
Bind(q) ==
  /\ Check(q) /\ MayChange
  /\ execution' = [execution EXCEPT ![q].pins = @ + 1]
  /\ native' = IF native.exec[q].phase = "fresh"
               THEN [native EXCEPT !.exec[q].windows = @ + 1] ELSE native
  /\ UNCHANGED <<document, handle, program, calls>>

\* QueryExecution.feed, opentlv_wasm_execution_feed, opentlv_wasm_execution_feed_source
Feed(q) ==
  /\ Check(q) /\ ~execution[q].reader /\ execution[q].holds = NULL
  /\ MayChange /\ Len(calls) < MaxCalls
  /\ execution' = [execution EXCEPT ![q].pins = @ + 1, ![q].fed = TRUE]
  /\ native' = IF NDrives(native, q)
               THEN NDrive([native EXCEPT !.exec[q].windows = @ + 1], q) ELSE native
  /\ calls' = IF NDrives(native, q) THEN Call(q, NULL, TRUE) ELSE calls
  /\ UNCHANGED <<document, handle, program>>

\* QueryExecution.next, exists, finish on an input: opentlv_wasm_execution_operation, up to
\* its providers.
Drain(q) ==
  /\ Check(q) /\ NVisits(native, q) /\ Len(calls) < MaxCalls
  /\ native' = NDrive(native, q)
  /\ calls' = Call(q, NULL, TRUE)
  /\ UNCHANGED <<document, execution, handle, program>>

\* QueryExecution._native: a provider that throws makes the execution invalid.
DrainReturn ==
  /\ calls # <<>> /\ Head(calls).document = NULL /\ Head(calls).provider
  /\ LET q == Head(calls).execution
     IN  \E phase \in Phases(native, q) :
           /\ native' = NDriven(native, q, phase)
           /\ execution' \in {execution}
                \cup IF phase = "invalid" THEN {[execution EXCEPT ![q].invalid = TRUE]} ELSE {}
  /\ calls' = Tail(calls)
  /\ UNCHANGED <<document, handle, program>>

\* QueryExecution.visit calls the visitor between two calls of next; and the visitor returns.
Visit(q) ==
  /\ Check(q) /\ native.exec[q].phase \in {"events", "finished"} /\ Len(calls) < MaxCalls
  /\ execution' = [execution EXCEPT ![q].busy = TRUE]
  /\ calls' = Call(q, NULL, FALSE)
  /\ UNCHANGED <<native, document, handle, program>>
VisitReturn ==
  /\ calls # <<>> /\ ~Head(calls).provider
  /\ \E thrown \in BOOLEAN :
       execution' = [execution EXCEPT ![Head(calls).execution].busy = FALSE,
                                      ![Head(calls).execution].invalid = @ \/ thrown]
  /\ calls' = Tail(calls)
  /\ UNCHANGED <<native, document, handle, program>>

\* QueryExecution.evaluateDocument, opentlv_wasm_execution_document
EvaluateDocument(q, d) ==
  /\ Check(q) /\ ~execution[q].reader /\ execution[q].holds = NULL
  /\ IsOpen(d) /\ Len(calls) < MaxCalls
  /\ LET runs == NEvaluates(native, q, d)
     IN  /\ execution' = [execution EXCEPT ![q].holds = d]
         /\ document' = [document EXCEPT ![d].references = @ + 1,
                                         ![d].active = IF runs THEN @ + 1 ELSE @]
         /\ native' = IF runs THEN NEvaluate(native, q, d) ELSE native
         /\ calls' = IF runs THEN Call(q, d, TRUE) ELSE calls
  /\ UNCHANGED <<handle, program>>

\* It returns: JavaScript takes the document only now, if all went well.
EvaluateReturn ==
  /\ calls # <<>> /\ Head(calls).document # NULL
  /\ LET q == Head(calls).execution
         d == Head(calls).document
     IN  /\ \/ \E S \in Selections(d) :
                 /\ native' = NEvaluated(native, q, TRUE, S)
                 /\ execution' = [execution EXCEPT ![q].document = d]
            \/ /\ native' = NEvaluated(native, q, FALSE, {})
               /\ execution' \in {execution, [execution EXCEPT ![q].invalid = TRUE]}
         /\ document' = [document EXCEPT ![d].active = @ - 1]
  /\ calls' = Tail(calls)
  /\ UNCHANGED <<handle, program>>

\* QueryExecution.next on a document.
NextDocument(q, h) ==
  Check(q) /\ execution[q].document # NULL /\ DoNext(q, h, execution[q].document, 0)

\* QueryExecution.editDocument, opentlv_wasm_execution_edit
EditDocument(q) ==
  LET d == execution[q].document
  IN  /\ Check(q) /\ d # NULL /\ document[d].active = 0 /\ MayChange
      /\ NEditable(native, q, execution[q].holds)
      /\ \E r \in NEdits(native, q, execution[q].holds) : native' = r.native
      /\ UNCHANGED <<document, execution, handle, program, calls>>

-----------------------------------------------------------------------------
Next ==
  \/ \E d \in Documents : Parse(d) \/ CloseDocument(d)
  \/ \E h \in Handles, d \in Documents, a \in Addresses : Navigate(h, d, a)
  \/ \E h \in Handles : SetValue(h) \/ Erase(h)
  \/ CloseProgram
  \/ \E q \in Executions : \/ NewExecution(q) \/ CloseExecution(q) \/ Reset(q) \/ SetInput(q)
                           \/ Bind(q) \/ Feed(q) \/ Drain(q) \/ Visit(q) \/ EditDocument(q)
  \/ \E q \in Executions, d \in Documents : EvaluateDocument(q, d)
  \/ \E q \in Executions, h \in Handles : NextDocument(q, h)
  \/ DrainReturn
  \/ VisitReturn
  \/ EvaluateReturn

Admits(q) == Check(q) /\ execution[q].holds # NULL
ProgramOwners == Cardinality({q \in Executions : execution[q].open})
DocumentOwners(d) ==
  (IF IsOpen(d) THEN 1 ELSE 0) + Cardinality({q \in Executions : execution[q].holds = d})
=============================================================================
