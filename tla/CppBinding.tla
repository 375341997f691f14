----------------------------- MODULE CppBinding -----------------------------
(***************************************************************************)
(* The C++ facade (src/tlv++): a node holds its document weakly, remembers  *)
(* the document's retirement epoch, and asks the document about its address *)
(* and identity only when the epoch has moved.                              *)
(*                                                                         *)
(* handle[h].stamp is retire_epoch_ and .at is pointer_, NULL once found    *)
(* gone; execution[q].document is document_lifetime_ (has_document_ when    *)
(* not NULL).  Inputs stay the caller's, so nothing is pinned.  There are   *)
(* no guards of its own for calls inside a callback: the native library     *)
(* refuses them or puts them off.                                           *)
(***************************************************************************)
EXTENDS BindingCore

\* A cached pointer that is trusted while its document lives.
Refreshed_Trust(h) == handle[h]
\* c_node, which updates the cache.
Refreshed(h) ==
  LET d == handle[h].document
      a == handle[h].at
  IN  IF ~IsOpen(d) \/ a = NULL \/ handle[h].stamp = native.doc[d].epoch THEN handle[h]
      ELSE [handle[h] EXCEPT
              !.stamp = native.doc[d].epoch,
              !.at = IF native.node[a].document = d /\ native.node[a].identity = handle[h].identity
                     THEN @ ELSE NULL]
\* node::operator bool
Usable(h) == Taken(h) /\ IsOpen(handle[h].document) /\ Refreshed(h).at # NULL

\* Any observer of a node: tag, value, is_constructed...
Observe(h) ==
  /\ Taken(h)
  /\ handle' = [handle EXCEPT ![h] = Refreshed(h)]
  /\ UNCHANGED <<native, document, execution, program, calls>>

\* document::parse
Parse(d) == DoParse(d)

\* ~document: the lifetime record goes now, the native document when no callback runs.
CloseDocument(d) ==
  /\ IsOpen(d)
  /\ native' = NFree(native, d)
  /\ document' = [document EXCEPT ![d].state = "closed"]
  /\ UNCHANGED <<execution, handle, program, calls>>

\* document::first, node::first_child, next, parent: related.
Navigate(h, d, a) ==
  /\ IsOpen(d) /\ ~Taken(h)
  /\ \/ a \in Roots(native, d)
     \/ \E g \in Handles : Usable(g) /\ handle[g].document = d /\ a \in Related(native, handle[g].at)
  /\ handle' = [handle EXCEPT ![h] = Node(native, d, a, native.doc[d].epoch)]
  /\ UNCHANGED <<native, document, execution, program, calls>>

\* node::set_value
SetValue(h) ==
  LET d == handle[h].document
  IN  /\ Usable(h) /\ native.doc[d].callbacks = 0 /\ MayChange
      /\ \E at \in Chains(native, 1) : native' = NSetValue(native, handle[h].at, at)
      /\ handle' = [handle EXCEPT ![h] = Refreshed(h)]
      /\ UNCHANGED <<document, execution, program, calls>>

\* node::erase
Erase(h) ==
  /\ Usable(h) /\ MayChange
  /\ native' = NErase(native, handle[h].at)
  /\ handle' = [handle EXCEPT ![h] = Refreshed(h)]
  /\ UNCHANGED <<document, execution, program, calls>>

\* document::insert, node::insert
Insert(d, h) ==
  /\ IsOpen(d) /\ native.doc[d].callbacks = 0 /\ MayChange /\ ~Taken(h)
  /\ \E at \in {c \in Chains(native, 1) : Len(c) = 1},
        parent \in {NULL} \cup {handle[g].at : g \in {x \in Handles : Usable(x)
                                                                /\ handle[x].document = d}} :
       /\ native' = NInsert(native, d, parent, at)
       /\ handle' = [handle EXCEPT ![h] = Node(native', d, at[1], native.doc[d].epoch)]
  /\ UNCHANGED <<document, execution, program, calls>>

-----------------------------------------------------------------------------
\* ~query_program: executions hold the program by value.
CloseProgram == DoRelease

\* query_execution::create, external
NewExecution(q) == DoCreate(q)

\* ~query_execution, outside its own callbacks.
CloseExecution(q) == execution[q].open /\ ~native.exec[q].busy /\ DoDispose(q)

\* query_execution::reset keeps what it knows of the document it was used on.
Reset(q) ==
  /\ execution[q].open /\ ~native.exec[q].busy
  /\ native' = [native EXCEPT !.exec[q] = Fresh]
  /\ UNCHANGED <<document, execution, handle, program, calls>>

\* query_execution::visit, exists, next of a tree_reader, up to their callbacks.
Drain(q) ==
  /\ execution[q].open /\ execution[q].document = NULL
  /\ NVisits(native, q) /\ Len(calls) < MaxCalls
  /\ native' = NDrive(native, q)
  /\ calls' = Call(q, NULL, FALSE)
  /\ UNCHANGED <<document, execution, handle, program>>

DrainReturn == DoDriven

\* document::evaluate, up to its callbacks.
EvaluateDocument(q, d) ==
  /\ execution[q].open /\ IsOpen(d) /\ NEvaluates(native, q, d) /\ Len(calls) < MaxCalls
  /\ native' = NEvaluate(native, q, d)
  /\ calls' = Call(q, d, TRUE)
  /\ UNCHANGED <<document, execution, handle, program>>

\* It returns: the execution takes the document after success only.
EvaluateReturn ==
  /\ calls # <<>> /\ Head(calls).document # NULL
  /\ LET q == Head(calls).execution
         d == Head(calls).document
     IN  /\ \/ \E S \in Selections(d) : native' = NEvaluated(native, q, TRUE, S)
            \/ native' = NEvaluated(native, q, FALSE, {})
         /\ execution' = IF native'.exec[q].phase = "finished"
                         THEN [execution EXCEPT ![q].document = d] ELSE execution
  /\ calls' = Tail(calls)
  /\ UNCHANGED <<document, handle, program>>

\* What document::next, query_execution::result and next ask of the lifetime record.
Check(q) ==
  execution[q].open /\ (execution[q].document # NULL => IsOpen(execution[q].document))

\* document::next
NextDocument(q, h) ==
  LET d == execution[q].document
  IN  Check(q) /\ d # NULL /\ DoNext(q, h, d, native.doc[d].epoch)

\* document::query_remove, query_replace, query_insert_after: edit_query evaluates and edits with
\* an execution of its own.
EditQuery(q, d) ==
  /\ native.exec[q].phase = "none" /\ ~execution[q].open
  /\ IsOpen(d) /\ native.doc[d].callbacks = 0 /\ MayChange
  /\ \E S \in Selections(d) :
       LET own == [native EXCEPT !.exec[q] = [Fresh EXCEPT
                     !.phase = "finished", !.owner = d, !.results = S,
                     !.revision = native.doc[d].revision]]
       IN  \E r \in NEdits(own, q, d) : native' = [r.native EXCEPT !.exec[q] = NoExec]
  /\ UNCHANGED <<document, execution, handle, program, calls>>

-----------------------------------------------------------------------------
Next ==
  \/ \E d \in Documents : Parse(d) \/ CloseDocument(d)
  \/ \E h \in Handles, d \in Documents : Insert(d, h) \/ \E a \in Addresses : Navigate(h, d, a)
  \/ \E h \in Handles : SetValue(h) \/ Erase(h) \/ Observe(h)
  \/ CloseProgram
  \/ \E q \in Executions : NewExecution(q) \/ CloseExecution(q) \/ Reset(q) \/ Drain(q)
  \/ \E q \in Executions, d \in Documents : EvaluateDocument(q, d) \/ EditQuery(q, d)
  \/ \E q \in Executions, h \in Handles : NextDocument(q, h)
  \/ DrainReturn
  \/ EvaluateReturn

Admits(q) == Check(q) /\ execution[q].document # NULL
ProgramOwners == Cardinality({q \in Executions : execution[q].open})
DocumentOwners(d) == IF IsOpen(d) THEN 1 ELSE 0
=============================================================================
