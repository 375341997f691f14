--------------------------- MODULE PythonBinding ---------------------------
(***************************************************************************)
(* The Python binding (src/bindings/python): a Node holds a lifetime token, *)
(* which hangs from the token of its parent node.  Replacing a value moves  *)
(* the revision of the node's token and so expires the tokens below it;     *)
(* erasing kills the node's token; an edit of a selection moves the         *)
(* document to a new generation of tokens.                                  *)
(*                                                                         *)
(* handle[h].stamp is the Node's token; document[d].generation is           *)
(* _query_generation, .active _query_active and .references the references  *)
(* to its capsule; execution[q].document is the Python _document, .holds    *)
(* the capsule that the C execution holds, .pins its inputs and bindings.   *)
(* An entry of _lifetimes is the newest token of its address and            *)
(* generation.                                                              *)
(***************************************************************************)
EXTENDS BindingCore

VARIABLE token   \* the tokens made so far, see Token

\* _Lifetime.__init__
Token(tokens, d, a, parent) ==
  [document |-> d, at |-> a, generation |-> document[d].generation, parent |-> parent,
   parentRevision |-> IF parent = 0 THEN 0 ELSE tokens[parent].revision,
   revision |-> 0, alive |-> TRUE]

\* _Lifetime.valid
Valid(t) ==
  LET Ok[k \in 0 .. Len(token)] ==
        IF k = 0 THEN TRUE
        ELSE /\ token[k].alive
             /\ token[k].parent # 0 => token[k].parentRevision = token[token[k].parent].revision
             /\ Ok[token[k].parent]
  IN  Ok[t]

\* Node._ptr
Usable(h) ==
  /\ Taken(h) /\ IsOpen(handle[h].document)
  /\ token[handle[h].stamp].generation = document[handle[h].document].generation
  /\ Valid(handle[h].stamp)

\* The address's token in _lifetimes, 0 when there is none.
Entry(d, a) ==
  LET T == {t \in DOMAIN token : /\ token[t].document = d /\ token[t].at = a
                                 /\ token[t].generation = document[d].generation}
  IN  IF T = {} THEN 0 ELSE Max(T)

\* _lifetime finds a token that is still good.
Known(d, a) == Entry(d, a) # 0 /\ Valid(Entry(d, a))

\* Document._lifetime: the tokens with a's among them, new ones from the top down, and which it is.
Lifetime(n, d, a) ==
  LET Made[b \in Addresses] ==
        IF Known(d, b) THEN [tokens |-> token, it |-> Entry(d, b)]
        ELSE LET above == IF n.node[b].parent = NULL THEN [tokens |-> token, it |-> 0]
                          ELSE Made[n.node[b].parent]
             IN  [tokens |-> Append(above.tokens, Token(above.tokens, d, b, above.it)),
                  it |-> Len(above.tokens) + 1]
  IN  Made[a]

\* Document._wrap: a Node of d, for the node at a of n.
Wrap(h, n, d, a) ==
  LET made == Lifetime(n, d, a)
  IN  /\ token' = made.tokens
      /\ handle' = [handle EXCEPT ![h] = Node(n, d, a, made.it)]

\* Document.__init__
Parse(d) ==
  /\ document[d].state = "unborn" /\ MayChange
  /\ \E at \in Chains(native, 2) : native' = NParse(native, d, at)
  /\ document' = [document EXCEPT ![d].state = "open", ![d].references = 1]
  /\ UNCHANGED <<execution, handle, program, calls, token>>

\* Document.close
CloseDocument(d) ==
  /\ IsOpen(d) /\ document[d].active = 0
  /\ native' = Dropped(native, d)
  /\ document' = [Disowned(document, d) EXCEPT ![d].state = "closed"]
  /\ UNCHANGED <<execution, handle, program, calls, token>>

\* Document.first, Node.first_child, Node.next, Node.parent
Navigate(h, d, a) ==
  /\ IsOpen(d) /\ ~Taken(h)
  /\ \/ a \in Roots(native, d)
     \/ \E g \in Handles : Usable(g) /\ handle[g].document = d /\ a \in Related(native, handle[g].at)
  /\ Wrap(h, native, d, a)
  /\ UNCHANGED <<native, document, execution, program, calls>>

\* Node.value (setter): a native failure puts the revision back.
SetValue(h) ==
  /\ Usable(h) /\ document[handle[h].document].active = 0 /\ MayChange
  /\ \E at \in Chains(native, 1) : native' = NSetValue(native, handle[h].at, at)
  /\ token' = [token EXCEPT ![handle[h].stamp].revision = @ + 1]
  /\ UNCHANGED <<document, execution, handle, program, calls>>

\* Node.erase
Erase(h) ==
  /\ Usable(h) /\ document[handle[h].document].active = 0 /\ MayChange
  /\ token' = [token EXCEPT ![handle[h].stamp].alive = FALSE]
  /\ native' = NErase(native, handle[h].at)
  /\ UNCHANGED <<document, execution, handle, program, calls>>

\* Document.insert
Insert(d, h) ==
  /\ IsOpen(d) /\ document[d].active = 0 /\ MayChange /\ ~Taken(h)
  /\ \E at \in {c \in Chains(native, 1) : Len(c) = 1},
        parent \in {NULL} \cup {handle[g].at : g \in {x \in Handles : Usable(x)
                                                                /\ handle[x].document = d}} :
       /\ native' = NInsert(native, d, parent, at)
       /\ Wrap(h, native', d, at[1])
  /\ UNCHANGED <<document, execution, program, calls>>

-----------------------------------------------------------------------------
\* The last reference to a program goes; executions hold its capsule.
DropProgram == DoRelease /\ UNCHANGED token

\* QueryProgram.execution, opentlv_python_execution_create
NewExecution(q) == DoCreate(q) /\ UNCHANGED token

\* The last reference to an execution goes: dispose_execution.
DropExecution(q) ==
  /\ execution[q].open /\ ~execution[q].busy
  /\ native' = Dropped([native EXCEPT !.exec[q] = NoExec], execution[q].holds)
  /\ document' = Disowned(document, execution[q].holds)
  /\ execution' = [execution EXCEPT ![q] = [Idle EXCEPT !.invalid = TRUE]]
  /\ program' = [program EXCEPT !.references = @ - 1]
  /\ UNCHANGED <<handle, calls, token>>

\* QueryExecution.reset: a new C execution in place of the old one.
Reset(q) ==
  /\ execution[q].open /\ ~execution[q].busy
  /\ native' = Dropped([native EXCEPT !.exec[q] = Fresh], execution[q].holds)
  /\ document' = Disowned(document, execution[q].holds)
  /\ execution' = [execution EXCEPT ![q] = [Idle EXCEPT !.open = TRUE]]
  /\ UNCHANGED <<handle, program, calls, token>>

\* QueryExecution._check, get_execution
Check(q) ==
  /\ execution[q].open /\ ~execution[q].busy
  /\ execution[q].document # NULL => IsOpen(execution[q].document)

\* QueryExecution.bind, opentlv_python_execution_bind
Bind(q) ==
  /\ Check(q) /\ MayChange
  /\ execution' = [execution EXCEPT ![q].pins = @ + 1]
  /\ native' = IF native.exec[q].phase = "fresh"
               THEN [native EXCEPT !.exec[q].windows = @ + 1] ELSE native
  /\ UNCHANGED <<document, handle, program, calls, token>>

\* QueryExecution.feed, opentlv_python_execution_feed
Feed(q) ==
  /\ Check(q) /\ ~execution[q].reader /\ execution[q].holds = NULL
  /\ DoFeed(q, TRUE) /\ UNCHANGED token

\* QueryExecution.finish
Finish(q) ==
  /\ Check(q) /\ ~execution[q].reader /\ execution[q].holds = NULL
  /\ DoDrive(q, TRUE) /\ UNCHANGED token

\* QueryExecution.visit and exists: the reader and its window are kept, whatever comes of it.
Visit(q) ==
  /\ Check(q) /\ execution[q].holds = NULL /\ MayChange /\ Len(calls) < MaxCalls
  /\ execution' = [execution EXCEPT ![q].pins = @ + 1, ![q].reader = TRUE,
                                    ![q].busy = NVisits(native, q)]
  /\ native' = IF NVisits(native, q)
               THEN NDrive([native EXCEPT !.exec[q].windows = @ + 1], q) ELSE native
  /\ calls' = IF NVisits(native, q) THEN Call(q, NULL, FALSE) ELSE calls
  /\ UNCHANGED <<document, handle, program, token>>

DriveReturn == DoDriven /\ UNCHANGED token

\* QueryExecution.evaluate_document, opentlv_python_execution_document
EvaluateDocument(q, d) ==
  /\ Check(q) /\ ~execution[q].reader /\ execution[q].holds = NULL
  /\ IsOpen(d) /\ Len(calls) < MaxCalls
  /\ LET runs == NEvaluates(native, q, d)
     IN  /\ execution' = [execution EXCEPT ![q].holds = d, ![q].busy = runs]
         /\ document' = [document EXCEPT ![d].references = @ + 1,
                                         ![d].active = IF runs THEN @ + 1 ELSE @]
         /\ native' = IF runs THEN NEvaluate(native, q, d) ELSE native
         /\ calls' = IF runs THEN Call(q, d, TRUE) ELSE calls
  /\ UNCHANGED <<handle, program, token>>

\* It returns: _document is set after success only.
EvaluateReturn ==
  /\ calls # <<>> /\ Head(calls).document # NULL
  /\ LET q == Head(calls).execution
         d == Head(calls).document
     IN  /\ \/ \E S \in Selections(d) :
                 /\ native' = NEvaluated(native, q, TRUE, S)
                 /\ execution' = [execution EXCEPT ![q].busy = FALSE, ![q].document = d]
            \/ /\ native' = NEvaluated(native, q, FALSE, {})
               /\ execution' = [execution EXCEPT ![q].busy = FALSE]
         /\ document' = [document EXCEPT ![d].active = @ - 1]
  /\ calls' = Tail(calls)
  /\ UNCHANGED <<handle, program, token>>

\* QueryExecution.next on a document.
NextDocument(q, h) ==
  LET d == execution[q].document
  IN  /\ Check(q) /\ d # NULL /\ ~Taken(h) /\ NPulls(native, q)
      /\ \E a \in native.exec[q].results : native' = NPull(native, q, a) /\ Wrap(h, native, d, a)
      /\ UNCHANGED <<document, execution, program, calls>>

\* An edit that leaves the new generation behind even when nothing changed.
EditDocument_Moves(q) ==
  LET d == execution[q].document
  IN  /\ Check(q) /\ d # NULL /\ document[d].active = 0 /\ MayChange
      /\ NEditable(native, q, execution[q].holds)
      /\ \E r \in NEdits(native, q, execution[q].holds) : native' = r.native
      /\ document' = [document EXCEPT ![d].generation = @ + 1]
      /\ UNCHANGED <<execution, handle, program, calls, token>>
\* QueryExecution.edit_document: the generation moves first and comes back when nothing changed.
EditDocument(q) ==
  LET d == execution[q].document
  IN  /\ Check(q) /\ d # NULL /\ document[d].active = 0 /\ MayChange
      /\ NEditable(native, q, execution[q].holds)
      /\ \E r \in NEdits(native, q, execution[q].holds) :
           /\ native' = r.native
           /\ document' = IF r.applied = 0 THEN document
                          ELSE [document EXCEPT ![d].generation = @ + 1]
      /\ UNCHANGED <<execution, handle, program, calls, token>>

-----------------------------------------------------------------------------
Next ==
  \/ \E d \in Documents : Parse(d) \/ CloseDocument(d)
  \/ \E h \in Handles, d \in Documents : Insert(d, h) \/ \E a \in Addresses : Navigate(h, d, a)
  \/ \E h \in Handles : SetValue(h) \/ Erase(h)
  \/ DropProgram
  \/ \E q \in Executions : \/ NewExecution(q) \/ DropExecution(q) \/ Reset(q) \/ Bind(q)
                           \/ Feed(q) \/ Finish(q) \/ Visit(q) \/ EditDocument(q)
  \/ \E q \in Executions, d \in Documents : EvaluateDocument(q, d)
  \/ \E q \in Executions, h \in Handles : NextDocument(q, h)
  \/ DriveReturn
  \/ EvaluateReturn

Admits(q) == Check(q) /\ execution[q].holds # NULL
ProgramOwners == Cardinality({q \in Executions : execution[q].open})
DocumentOwners(d) ==
  (IF IsOpen(d) THEN 1 ELSE 0) + Cardinality({q \in Executions : execution[q].holds = d})
=============================================================================
