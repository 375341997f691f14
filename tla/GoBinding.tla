----------------------------- MODULE GoBinding -----------------------------
(***************************************************************************)
(* The Go binding (src/bindings/go): every successful edit moves a document *)
(* to a new generation, and a Node is valid in the generation it was made.  *)
(*                                                                         *)
(* document[d].active is queryActive; execution[q].document is what the Go  *)
(* object calls its document, .holds the bridge's has_document, .reader and *)
(* .fed its has_reader and fed, .pins its buffers; program.references       *)
(* counts the owners of the bridge's program.                               *)
(***************************************************************************)
EXTENDS BindingCore

\* Node.Valid
Usable(h) ==
  Taken(h) /\ IsOpen(handle[h].document)
           /\ handle[h].stamp = document[handle[h].document].generation

\* A Node of one document that is wrapped as a Node of another (see EvaluateDocument), and an
\* execution that makes such Nodes.
Stray(h) == Taken(h) /\ handle[h].origin # handle[h].document
Strayed(q) == native.exec[q].owner # NULL /\ execution[q].document # native.exec[q].owner

Quiet(d) == document[d].active = 0

\* A call through a Node whose native node was freed is undefined, and behaviours end there.  An
\* address that was given to another node since leads to that one.
Defined(h) == handle[h].at \in Live(native)

\* ParseWithOptions
Parse(d) == DoParse(d)

\* Document.Close
CloseDocument(d) ==
  /\ IsOpen(d) /\ Quiet(d)
  /\ native' = NFree(native, d)
  /\ document' = [document EXCEPT ![d].state = "closed", ![d].generation = @ + 1]
  /\ UNCHANGED <<execution, handle, program, calls>>

\* Document.Elements, Node.Children, Node.Parent: wrap.
Navigate(h, d, a) ==
  /\ IsOpen(d) /\ ~Taken(h)
  /\ \/ a \in Roots(native, d)
     \/ \E g \in Handles : /\ Usable(g) /\ Defined(g) /\ handle[g].document = d
                          /\ a \in Related(native, handle[g].at)
  /\ handle' = [handle EXCEPT ![h] = Node(native, d, a, document[d].generation)]
  /\ UNCHANGED <<native, document, execution, program, calls>>

\* changed
Changed(d) == [document EXCEPT ![d].generation = @ + 1]

\* Node.SetValue: the Node's document must be quiet, and natively the native node's.
SetValue(h) ==
  LET d == handle[h].document
  IN  /\ Usable(h) /\ Defined(h) /\ Quiet(d) /\ MayChange
      /\ native.doc[native.node[handle[h].at].document].callbacks = 0
      /\ \E at \in Chains(native, 1) : native' = NSetValue(native, handle[h].at, at)
      /\ document' = Changed(d)
      /\ UNCHANGED <<execution, handle, program, calls>>

\* Node.Erase
Erase(h) ==
  LET d == handle[h].document
  IN  /\ Usable(h) /\ Defined(h) /\ Quiet(d) /\ MayChange
      /\ native' = NErase(native, handle[h].at)
      /\ document' = Changed(d)
      /\ UNCHANGED <<execution, handle, program, calls>>

\* Document.Insert, below a Node or at the top; h is the Node it returns.  The library refuses a
\* parent that is another document's.
Insert(d, h) ==
  /\ IsOpen(d) /\ Quiet(d) /\ MayChange /\ ~Taken(h)
  /\ \E at \in {c \in Chains(native, 1) : Len(c) = 1},
        parent \in {NULL} \cup {handle[g].at : g \in {x \in Handles : Usable(x)
                                                                /\ handle[x].document = d}} :
       /\ parent # NULL => native.node[parent].document = d
       /\ native' = NInsert(native, d, parent, at)
       /\ handle' = [handle EXCEPT ![h] = Node(native', d, at[1], document[d].generation + 1)]
  /\ document' = Changed(d)
  /\ UNCHANGED <<execution, program, calls>>

-----------------------------------------------------------------------------
\* QueryProgram.Close
CloseProgram == DoRelease

\* QueryProgram.Execution, go_query_execution_create
NewExecution(q) == DoCreate(q)

\* QueryExecution.Close, go_query_execution_free
CloseExecution(q) == execution[q].open /\ ~execution[q].busy /\ DoDispose(q)

\* check
Check(q) ==
  /\ execution[q].open /\ ~execution[q].busy
  /\ execution[q].document # NULL => IsOpen(execution[q].document)

\* QueryExecution.Reset, go_query_execution_reset
Reset(q) == execution[q].open /\ ~execution[q].busy /\ DoReset(q)

\* QueryExecution.SetInput, go_query_input: a buffer the reader refuses is freed.
SetInput(q) ==
  /\ Check(q) /\ execution[q].holds = NULL /\ ~execution[q].fed
  /\ MayChange
  /\ native' = [native EXCEPT !.exec[q].windows = @ + 1]
  /\ execution' = [execution EXCEPT ![q].pins = @ + 1, ![q].reader = TRUE]
  /\ UNCHANGED <<document, handle, program, calls>>

\* QueryExecution.Bind, go_query_bind: before any input only.
Bind(q) ==
  /\ Check(q) /\ native.exec[q].phase = "fresh" /\ MayChange
  /\ native' = [native EXCEPT !.exec[q].windows = @ + 1]
  /\ execution' = [execution EXCEPT ![q].pins = @ + 1]
  /\ UNCHANGED <<document, handle, program, calls>>

\* QueryExecution.Feed, FeedEncoded: the event stays pinned and `fed' set, whatever comes of it.
Feed(q) == Check(q) /\ ~execution[q].reader /\ execution[q].holds = NULL /\ DoFeed(q, FALSE)

\* QueryExecution.Finish, Visit, Exists, up to their callbacks.
Drain(q) == Check(q) /\ DoDrive(q, FALSE)

\* Feed, Finish, Visit or Exists returns.
DrainReturn == DoDriven

\* go_query_document: neither a reader nor a document so far.
BridgeTakes(q) == ~execution[q].reader /\ execution[q].holds = NULL
\* QueryExecution.EvaluateDocument.  The Go object takes the document before the bridge looks,
\* so a refused second evaluation leaves it with the other document.
EvaluateDocument(q, d) ==
  /\ Check(q) /\ IsOpen(d) /\ Len(calls) < MaxCalls
  /\ LET runs == BridgeTakes(q) /\ NEvaluates(native, q, d)
     IN  /\ execution' = [execution EXCEPT ![q].document = d,
                                           ![q].holds = IF BridgeTakes(q) THEN d ELSE @,
                                           ![q].busy = runs]
         /\ document' = IF runs THEN [document EXCEPT ![d].active = @ + 1] ELSE document
         /\ native' = IF runs THEN NEvaluate(native, q, d) ELSE native
         /\ calls' = IF runs THEN Call(q, d, TRUE) ELSE calls
  /\ UNCHANGED <<handle, program>>

\* EvaluateDocument returns.
EvaluateReturn == DoEvaluated

\* tlv_document_query_next where the evaluated document was freed: the revision it compares is
\* read from freed memory, so it may hand out what is left of the selection.
NextFreed(q, h, d, stamp) ==
  LET e == native.exec[q]
  IN  /\ ~Taken(h) /\ ~e.busy /\ e.phase = "finished"
      /\ e.owner # NULL /\ ~native.doc[e.owner].alive
      /\ \E a \in e.results : /\ native' = NPull(native, q, a)
                              /\ handle' = [handle EXCEPT ![h] = Node(native, d, a, stamp)]
      /\ UNCHANGED <<document, execution, program, calls>>

\* QueryExecution.NextDocument
NextDocument(q, h) ==
  LET d == execution[q].document
  IN  /\ Check(q) /\ d # NULL
      /\ \/ DoNext(q, h, d, document[d].generation)
         \/ NextFreed(q, h, d, document[d].generation)

\* QueryExecution.EditDocument: a partial edit changes the generation too.
EditDocument(q) ==
  LET d == execution[q].document
  IN  /\ Check(q) /\ d # NULL
      /\ Quiet(d) /\ execution[q].holds # NULL /\ MayChange /\ NEditable(native, q, d)
      /\ \E r \in NEdits(native, q, d) :
           /\ native' = r.native
           /\ document' = IF r.applied > 0 THEN Changed(d) ELSE document
      /\ UNCHANGED <<execution, handle, program, calls>>

-----------------------------------------------------------------------------
Next ==
  \/ \E d \in Documents : Parse(d) \/ CloseDocument(d)
  \/ \E h \in Handles, d \in Documents : Insert(d, h) \/ \E a \in Addresses : Navigate(h, d, a)
  \/ \E h \in Handles : SetValue(h) \/ Erase(h)
  \/ CloseProgram
  \/ \E q \in Executions : \/ NewExecution(q) \/ CloseExecution(q) \/ Reset(q) \/ SetInput(q)
                           \/ Bind(q) \/ Feed(q) \/ Drain(q) \/ EditDocument(q)
  \/ \E q \in Executions, d \in Documents : EvaluateDocument(q, d)
  \/ \E q \in Executions, h \in Handles : NextDocument(q, h)
  \/ DrainReturn
  \/ EvaluateReturn

\* What the binding lets a program do with a document's selection.
Admits(q) == Check(q) /\ execution[q].document # NULL
\* The owners of the program and of the native documents.
ProgramOwners == Cardinality({q \in Executions : execution[q].open})
DocumentOwners(d) == IF IsOpen(d) THEN 1 ELSE 0
=============================================================================
