----------------------------- MODULE LuaBinding -----------------------------
(***************************************************************************)
(* The Lua binding (src/bindings/lua): a Document lists its Node handles,   *)
(* and an edit clears the handles whose nodes it removes.                   *)
(*                                                                         *)
(* handle[h].at is the handle's node pointer, NULL once cleared;            *)
(* document[d].active is query_active; execution[q].document is its         *)
(* document_ref, .pins its pins table; program.references counts the        *)
(* registry's references to the program.                                    *)
(***************************************************************************)
EXTENDS BindingCore

\* check_node
Usable(h) == Taken(h) /\ handle[h].at # NULL /\ IsOpen(handle[h].document)

Cleared(S) == [h \in Handles |-> IF h \in S THEN [handle[h] EXCEPT !.at = NULL] ELSE handle[h]]
Listed(d)  == {h \in Handles : handle[h].document = d /\ handle[h].at # NULL}
\* mark_handles
Marked(d, a, includeRoot) ==
  {h \in Listed(d) : /\ a \in Above(native, handle[h].at)
                     /\ includeRoot \/ handle[h].at # a}

\* document_new
Parse(d) == DoParse(d)

\* document_gc
CloseDocument(d) ==
  /\ IsOpen(d) /\ document[d].active = 0
  /\ handle' = Cleared(Listed(d))
  /\ native' = NFree(native, d)
  /\ document' = [document EXCEPT ![d].state = "closed"]
  /\ UNCHANGED <<execution, program, calls>>

\* document_first and node_navigate: push_node.
Navigate(h, d, a) ==
  /\ IsOpen(d) /\ ~Taken(h)
  /\ \/ a \in Roots(native, d)
     \/ \E g \in Handles : Usable(g) /\ handle[g].document = d /\ a \in Related(native, handle[g].at)
  /\ handle' = [handle EXCEPT ![h] = Node(native, d, a, 0)]
  /\ UNCHANGED <<native, document, execution, program, calls>>

\* set_value, of a node found by a path or given by a handle: its old children go.
SetValue(d, a) ==
  /\ IsOpen(d) /\ document[d].active = 0 /\ MayChange
  /\ \E at \in Chains(native, 1) : native' = NSetValue(native, a, at)
  /\ handle' = Cleared(Marked(d, a, FALSE))
  /\ UNCHANGED <<document, execution, program, calls>>

\* document_erase, node_erase
Erase(d, a) ==
  /\ IsOpen(d) /\ document[d].active = 0 /\ MayChange
  /\ native' = NErase(native, a)
  /\ handle' = Cleared(Marked(d, a, TRUE))
  /\ UNCHANGED <<document, execution, program, calls>>

\* document_insert: every older handle stays.
Insert(d, h) ==
  /\ IsOpen(d) /\ document[d].active = 0 /\ MayChange /\ ~Taken(h)
  /\ \E at \in {c \in Chains(native, 1) : Len(c) = 1}, parent \in {NULL} \cup NodesOf(native, d) :
       /\ native' = NInsert(native, d, parent, at)
       /\ handle' = [handle EXCEPT ![h] = Node(native', d, at[1], 0)]
  /\ UNCHANGED <<document, execution, program, calls>>

-----------------------------------------------------------------------------
\* provider_active, callback_active: no Query call is taken inside a provider.
Providing == calls # <<>> /\ Head(calls).provider

\* The last Lua reference to a program goes; its executions keep it.
DropProgram == ~Providing /\ DoRelease

\* program_execution
NewExecution(q) == ~Providing /\ DoCreate(q)

\* execution_gc
CloseExecution(q) == execution[q].open /\ ~execution[q].busy /\ DoDispose(q)

Ready(q) == execution[q].open /\ ~execution[q].busy /\ ~Providing
\* execution
Check(q) ==
  /\ Ready(q)
  /\ execution[q].document # NULL => IsOpen(execution[q].document)

\* execution_reset_run
Reset(q) == Ready(q) /\ DoReset(q)

\* execution_input_run: the string is pinned before the reader takes it or refuses it.
SetInput(q) ==
  /\ Check(q) /\ ~execution[q].fed /\ execution[q].document = NULL /\ MayChange
  /\ \E taken \in BOOLEAN :
       /\ execution' = [execution EXCEPT ![q].pins = @ + 1, ![q].reader = @ \/ taken]
       /\ native' = IF taken THEN [native EXCEPT !.exec[q].windows = @ + 1] ELSE native
  /\ UNCHANGED <<document, handle, program, calls>>

\* execution_bind_run
Bind(q) ==
  /\ Check(q) /\ MayChange
  /\ execution' = [execution EXCEPT ![q].pins = @ + 1]
  /\ native' = IF native.exec[q].phase = "fresh"
               THEN [native EXCEPT !.exec[q].windows = @ + 1] ELSE native
  /\ UNCHANGED <<document, handle, program, calls>>

\* execution_feed_run
Feed(q) == Check(q) /\ ~execution[q].reader /\ execution[q].document = NULL /\ DoFeed(q, TRUE)

\* execution_finish_run, execution_next_run, execution_exists_run, execution_visit_run on an
\* input, up to their callbacks.
Drain(q) == Check(q) /\ \E provider \in BOOLEAN : DoDrive(q, provider)

DrainReturn == DoDriven

\* execution_document, execution_document_run: the document stays pinned when the evaluation
\* is refused or fails.
EvaluateDocument(q, d) ==
  /\ Check(q) /\ ~execution[q].reader /\ execution[q].document = NULL
  /\ IsOpen(d) /\ Len(calls) < MaxCalls
  /\ LET runs == NEvaluates(native, q, d)
     IN  /\ execution' = [execution EXCEPT ![q].document = d, ![q].busy = runs]
         /\ document' = IF runs THEN [document EXCEPT ![d].active = @ + 1] ELSE document
         /\ native' = IF runs THEN NEvaluate(native, q, d) ELSE native
         /\ calls' = IF runs THEN Call(q, d, TRUE) ELSE calls
  /\ UNCHANGED <<handle, program>>

EvaluateReturn == DoEvaluated

\* execution_next_run on a document.
NextDocument(q, h) == Check(q) /\ execution[q].document # NULL /\ DoNext(q, h, execution[q].document, 0)

\* execution_edit_run, opentlv_lua_document_invalidate: a partial edit clears every handle too.
EditDocument(q) ==
  LET d == execution[q].document
  IN  /\ Check(q) /\ d # NULL /\ MayChange /\ NEditable(native, q, d)
      /\ \E r \in NEdits(native, q, d) :
           /\ native' = r.native
           /\ handle' = IF r.applied > 0 THEN Cleared(Listed(d)) ELSE handle
      /\ UNCHANGED <<document, execution, program, calls>>

-----------------------------------------------------------------------------
Next ==
  \/ \E d \in Documents : \/ Parse(d) \/ CloseDocument(d)
                          \/ \E a \in NodesOf(native, d) : SetValue(d, a) \/ Erase(d, a)
  \/ \E h \in Handles, d \in Documents : Insert(d, h) \/ \E a \in Addresses : Navigate(h, d, a)
  \/ DropProgram
  \/ \E q \in Executions : \/ NewExecution(q) \/ CloseExecution(q) \/ Reset(q) \/ SetInput(q)
                           \/ Bind(q) \/ Feed(q) \/ Drain(q) \/ EditDocument(q)
  \/ \E q \in Executions, d \in Documents : EvaluateDocument(q, d)
  \/ \E q \in Executions, h \in Handles : NextDocument(q, h)
  \/ DrainReturn
  \/ EvaluateReturn

Admits(q) == Check(q) /\ execution[q].document # NULL
ProgramOwners == Cardinality({q \in Executions : execution[q].open})
DocumentOwners(d) == IF IsOpen(d) THEN 1 ELSE 0
=============================================================================
