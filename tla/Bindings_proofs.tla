-------------------------- MODULE Bindings_proofs --------------------------
(***************************************************************************)
(* A handle that the Go, the Lua, the C++ or the WebAssembly binding still  *)
(* accepts denotes the node it was made for, and one that it refuses stays  *)
(* refused; and an open execution has all that it uses, and no more stays   *)
(* allocated than has an owner: for every number of documents, executions,  *)
(* handles and addresses, of edits, and of evaluations inside evaluations.  *)
(*                                                                         *)
(* For each binding, the invariant says what it relies on to know that a    *)
(* handle has expired: Go a generation, Lua a list of handles to clear, C++ *)
(* the native epoch, WebAssembly the identity of the node.                  *)
(***************************************************************************)
EXTENDS MCBindings, BindingCore_proofs

-----------------------------------------------------------------------------
(* What the invariants are. *)

\* Go: a handle of the document's present generation, unless it was wrapped as another document's.
GoHandles ==
  \A h \in Handles : Taken(h) =>
    LET x == handle[h]
    IN  /\ x.stamp <= document[x.document].generation
        /\ /\ document[x.document].state = "open"
           /\ x.stamp = document[x.document].generation /\ x.origin = x.document
           => Denotes(native, x)
GoInv == Base /\ Guarded /\ GoHandles
\* So far no Node was wrapped as another document's.
GoTame == \A h \in Handles : ~Go!Stray(h)

\* Lua: a handle that was not cleared.  An execution's document is the native one's.
LuaHandles ==
  \A h \in Handles : Taken(h) =>
    LET x == handle[h]
    IN  document[x.document].state = "open" /\ x.at # NULL => Denotes(native, x)
LuaExecutions ==
  \A q \in Executions : native.exec[q].owner # NULL => execution[q].document = native.exec[q].owner
LuaInv == Base /\ Guarded /\ LuaHandles /\ LuaExecutions

\* C++: a handle that saw the present epoch.  A document that waits to be freed is closed; a
\* finished execution knows its document.
CppSeen(n, x) ==
  /\ x.stamp <= n.doc[x.document].epoch
  /\ x.at # NULL /\ x.stamp = n.doc[x.document].epoch => Denotes(n, x)
CppHandles ==
  \A h \in Handles : Taken(h) /\ document[handle[h].document].state = "open" => CppSeen(native, handle[h])
CppDocuments ==
  \A d \in Documents : native.doc[d].pending = 2 => document[d].state # "open"
CppExecutions ==
  \A q \in Executions :
    /\ native.exec[q].phase = "finished" /\ native.exec[q].owner # NULL
         => execution[q].document = native.exec[q].owner
    /\ native.exec[q].phase = "none" => ~native.exec[q].busy
CppInv == Base /\ CppHandles /\ CppDocuments /\ CppExecutions

BindingInv ==
  /\ language = "go" => GoInv
  /\ language = "lua" => LuaInv
  /\ language = "c++" => CppInv

-----------------------------------------------------------------------------
(* Go: every edit and every close gives the document a new generation. *)

LEMMA GoOps ==
  /\ \A n, d : Go!NodesOf(n, d) = NodesOf(n, d)
  /\ \A n, a : Go!Above(n, a) = Above(n, a)
  /\ \A n, k : Go!Chains(n, k) = Chains(n, k)
  /\ \A n, d, at : Go!NParse(n, d, at) = NParse(n, d, at)
  /\ \A n, a, at : Go!NSetValue(n, a, at) = NSetValue(n, a, at)
  /\ \A n, d, p, at : Go!NInsert(n, d, p, at) = NInsert(n, d, p, at)
  /\ \A n, a : Go!NErase(n, a) = NErase(n, a)
  /\ \A n, d : Go!NFree(n, d) = NFree(n, d)
  /\ \A n, q, d : Go!NEdits(n, q, d) = NEdits(n, q, d)
  /\ \A n, q, ok, results : Go!NEvaluated(n, q, ok, results) = NEvaluated(n, q, ok, results)
  /\ \A n, d : Go!Roots(n, d) = Roots(n, d)
  /\ \A n, a : Go!Related(n, a) = Related(n, a)
  /\ \A n, d, a, s : Go!Node(n, d, a, s) = Node(n, d, a, s)
  /\ \A n, q, d : Go!NEvaluates(n, q, d) <=> NEvaluates(n, q, d)
  /\ \A n, q, d : Go!NEvaluate(n, q, d) = NEvaluate(n, q, d)
  /\ \A n, q : Go!NDrive(n, q) = NDrive(n, q)
  /\ \A n, q, p : Go!NDriven(n, q, p) = NDriven(n, q, p)
  /\ \A n, q : Go!NDrives(n, q) <=> NDrives(n, q)
  /\ \A n, q : Go!NVisits(n, q) <=> NVisits(n, q)
  /\ \A n, q : Go!Phases(n, q) = Phases(n, q)
  /\ \A n, q : Go!NPulls(n, q) <=> NPulls(n, q)
  /\ \A n, q, a : Go!NPull(n, q, a) = NPull(n, q, a)
  /\ \A n, q, d : Go!NEditable(n, q, d) <=> NEditable(n, q, d)
  /\ Go!Fresh = Fresh
  /\ Go!NoExec = NoExec
  /\ Go!Idle = Idle
  /\ Go!Untaken = Untaken
  /\ \A h : Go!Taken(h) <=> Taken(h)
  /\ \A d : Go!IsOpen(d) <=> IsOpen(d)
  /\ \A d : Go!Selections(d) = Selections(d)
  /\ \A q, d, p : Go!Call(q, d, p) = Call(q, d, p)
<1>1. \A T : Go!Cardinality(T) = Cardinality(T)
  BY DEF Go!Cardinality, Cardinality
<1>2. \A n, d : Go!NodesOf(n, d) = NodesOf(n, d)
  BY DEF Go!NodesOf, NodesOf
<1>3. \A n, a : Go!Above(n, a) = Above(n, a)
  BY DEF Go!Above, Above
<1>4. \A n, a : Go!Subtree(n, a) = Subtree(n, a)
  BY DEF Go!Above, Above, Go!Subtree, Subtree, Go!NodesOf, NodesOf
<1>5. \A n, S : Go!Release(n, S) = Release(n, S)
  BY DEF Go!Release, Release, Go!NoNode, NoNode
<1>6. \A n, d, p, at : Go!Allocate(n, d, p, at) = Allocate(n, d, p, at)
  BY DEF Go!Allocate, Allocate
<1>7. \A n, d, r, e : Go!Moved(n, d, r, e) = Moved(n, d, r, e)
  BY DEF Go!Moved, Moved
<1>8. \A n, k : Go!Chains(n, k) = Chains(n, k)
  BY DEF Go!Chains, Chains, Go!Vacant, Vacant, Go!Live, Live, Go!IsInjective, IsInjective
<1>9. \A n, d : Go!Freed(n, d) = Freed(n, d)
  BY <1>5 DEF Go!Freed, Freed, Go!NodesOf, NodesOf, Go!NoDocument, NoDocument
<1>10. \A n, T : Go!Tops(n, T) = Tops(n, T)
  BY DEF Go!Tops, Tops, Go!Above, Above
<1>11. \A n, T : Go!Under(n, T) = Under(n, T)
  BY DEF Go!Under, Under, Go!Above, Above, Go!Subtree, Subtree, Go!NodesOf, NodesOf
<1>12. \A n, T : Go!Below(n, T) = Below(n, T)
  BY DEF Go!Below, Below, Go!Above, Above, Go!Subtree, Subtree, Go!NodesOf, NodesOf
<1>13. \A n, d : Go!Doomed(n, d) = Doomed(n, d)
  BY DEF Go!Doomed, Doomed, Go!Above, Above, Go!Tops, Tops, Go!NodesOf, NodesOf
<1>14. \A n, d : Go!Purged(n, d) = Purged(n, d)
  BY <1>1, <1>11, <1>5, <1>7, <1>13 DEF Go!Purged, Purged
<1>15. \A n, d : Go!Deferred(n, d) = Deferred(n, d)
  BY <1>14, <1>9 DEF Go!Deferred, Deferred
<1>16. \A n, q : Go!Spent(n, q) = Spent(n, q)
  BY DEF Go!Spent, Spent
<1>17. \A n, d, at : Go!NParse(n, d, at) = NParse(n, d, at)
  BY <1>6 DEF Go!NParse, NParse, Go!NoDocument, NoDocument
<1>18. \A n, a, at : Go!NSetValue(n, a, at) = NSetValue(n, a, at)
  BY <1>6, <1>5, <1>7, <1>4 DEF Go!NSetValue, NSetValue
<1>19. \A n, d, p, at : Go!NInsert(n, d, p, at) = NInsert(n, d, p, at)
  BY <1>6, <1>7 DEF Go!NInsert, NInsert
<1>20. \A n, a : Go!Erased(n, a) = Erased(n, a)
  BY <1>7, <1>5, <1>4 DEF Go!Erased, Erased
<1>21. \A n, a : Go!NErase(n, a) = NErase(n, a)
  BY <1>20 DEF Go!NErase, NErase
<1>22. \A n, d : Go!NFree(n, d) = NFree(n, d)
  BY <1>9 DEF Go!NFree, NFree
<1>23. \A n, q : Go!Dominant(n, q) = Dominant(n, q)
  BY <1>10 DEF Go!Dominant, Dominant
<1>24. \A n, q, d : Go!NRemoved(n, q, d) = NRemoved(n, q, d)
  BY <1>1, <1>11, <1>5, <1>7, <1>23, <1>16 DEF Go!NRemoved, NRemoved
<1>25. \A n, q, d, T : Go!NReplaced(n, q, d, T) = NReplaced(n, q, d, T)
  BY <1>1, <1>12, <1>5, <1>7, <1>16, <1>4 DEF Go!NReplaced, NReplaced
<1>26. \A n, q, d, a, at : Go!NInserted(n, q, d, a, at) = NInserted(n, q, d, a, at)
  BY <1>19, <1>16 DEF Go!NInserted, NInserted
<1>27. \A n, q, d : Go!NEdits(n, q, d) = NEdits(n, q, d)
  BY <1>24, <1>25, <1>26, <1>1, <1>23, <1>8 DEF Go!NEdits, NEdits
<1>28. \A n, q, ok, results : Go!NEvaluated(n, q, ok, results) = NEvaluated(n, q, ok, results)
  <2> TAKE n, q, ok, results
  <2> DEFINE x == Deferred(n, n.exec[q].owner)
  <2>1. Go!Deferred(n, n.exec[q].owner) = x
    BY <1>15
  <2> HIDE DEF x
  <2> QED
    BY <2>1, Zenon DEF Go!NEvaluated, NEvaluated, x
<1>29. \A n, d : Go!Roots(n, d) = Roots(n, d)
  BY DEF Go!Roots, Roots, Go!NodesOf, NodesOf
<1>30. \A n, a : Go!Related(n, a) = Related(n, a)
  BY DEF Go!Related, Related
<1>31. \A n, d, a, s : Go!Node(n, d, a, s) = Node(n, d, a, s)
  BY DEF Go!Node, Node
<1>32. \A n, q, d : Go!NEvaluates(n, q, d) <=> NEvaluates(n, q, d)
  BY DEF Go!NEvaluates, NEvaluates, Go!Fresh, Fresh, Go!NoExec, NoExec
<1>33. \A n, q, d : Go!NEvaluate(n, q, d) = NEvaluate(n, q, d)
  BY DEF Go!NEvaluate, NEvaluate
<1>34. \A n, q : Go!NDrive(n, q) = NDrive(n, q)
  BY DEF Go!NDrive, NDrive
<1>35. \A n, q, p : Go!NDriven(n, q, p) = NDriven(n, q, p)
  BY DEF Go!NDriven, NDriven
<1>36. \A n, q : Go!NDrives(n, q) <=> NDrives(n, q)
  BY DEF Go!NDrives, NDrives
<1>37. \A n, q : Go!NVisits(n, q) <=> NVisits(n, q)
  BY DEF Go!NVisits, NVisits, Go!NDrives, NDrives
<1>38. \A n, q : Go!Phases(n, q) = Phases(n, q)
  BY DEF Go!Phases, Phases
<1>39. \A n, q : Go!NPulls(n, q) <=> NPulls(n, q)
  BY DEF Go!NPulls, NPulls
<1>40. \A n, q, a : Go!NPull(n, q, a) = NPull(n, q, a)
  BY DEF Go!NPull, NPull
<1>41. \A n, q, d : Go!NEditable(n, q, d) <=> NEditable(n, q, d)
  BY DEF Go!NEditable, NEditable, Go!NPulls, NPulls
<1>42. Go!Fresh = Fresh
  BY DEF Go!Fresh, Fresh, Go!NoExec, NoExec
<1>43. Go!NoExec = NoExec
  BY DEF Go!NoExec, NoExec
<1>44. Go!Idle = Idle
  BY DEF Go!Idle, Idle
<1>45. Go!Untaken = Untaken
  BY DEF Go!Untaken, Untaken
<1>46. \A h : Go!Taken(h) <=> Taken(h)
  BY DEF Go!Taken, Taken, Go!Untaken, Untaken
<1>47. \A d : Go!IsOpen(d) <=> IsOpen(d)
  BY DEF Go!IsOpen, IsOpen
<1>48. \A d : Go!Selections(d) = Selections(d)
  BY DEF Go!Selections, Selections, Go!NodesOf, NodesOf
<1>49. \A q, d, p : Go!Call(q, d, p) = Call(q, d, p)
  BY DEF Go!Call, Call
<1> QED
  BY <1>2, <1>3, <1>8, <1>17, <1>18, <1>19, <1>21, <1>22, <1>27, <1>28, <1>29, <1>30, <1>31, <1>32, <1>33, <1>34, <1>35, <1>36, <1>37, <1>38, <1>39, <1>40, <1>41, <1>42, <1>43, <1>44, <1>45, <1>46, <1>47, <1>48, <1>49

LEMMA GoKeeps ==
  ASSUME GoInv, Sound(native'), Objects', Running', Counted', Busy',
         NEW d \in Documents, Evolves(native, native', d), Carried, Assigned,
         \A e \in Documents : document[e].generation <= document'[e].generation,
         \/ document[d].generation < document'[d].generation
         \/ \A a \in Addresses : native.node[a].document = d => Same(native, native', a),
         \A h \in Handles :
           \/ handle'[h] = handle[h]
           \/ /\ Granted(handle'[h])
              /\ handle'[h].stamp <= document'[handle'[h].document].generation
              /\ handle'[h].origin = handle'[h].document => Denotes(native', handle'[h])
  PROVE  GoInv'
<1>1. /\ Sound(native) /\ Objects /\ Lifetimes /\ GoHandles
  BY DEF GoInv, Base
<1>2. native \in Natives /\ native' \in Natives
  BY <1>1 DEF Sound
<1>3. native.identity <= native'.identity
  BY DEF Evolves, Newer
<1>4. Lifetimes'
  <2>1. \A h \in Handles :
           \/ /\ handle'[h].document = handle[h].document /\ handle'[h].identity = handle[h].identity
              /\ handle'[h] # Untaken => handle[h] # Untaken
           \/ Granted(handle'[h])
    OBVIOUS
  <2> QED BY <1>1, <1>2, <1>3, <2>1, LifetimesKeep
<1>5. Base'
  BY <1>4 DEF Base
<1>6. ASSUME NEW h \in Handles, handle'[h] # Untaken
      PROVE  /\ handle'[h].stamp <= document'[handle'[h].document].generation
             /\ /\ document'[handle'[h].document].state = "open"
                /\ handle'[h].stamp = document'[handle'[h].document].generation
                /\ handle'[h].origin = handle'[h].document
                => Denotes(native', handle'[h])
  <2> DEFINE x == handle[h]
             e == x.document
  <2>1. CASE handle'[h] # handle[h]
    BY <2>1
  <2>2. CASE handle'[h] = handle[h]
    <3>1. e \in Documents /\ document[e].state # "unborn" /\ x.stamp \in Nat
      BY <1>1, <1>6, <2>2 DEF Lifetimes, Objects, HandleObjects, Taken
    <3>2. /\ x.stamp <= document[e].generation
          /\ document[e].state = "open" /\ x.stamp = document[e].generation /\ x.origin = e
             => Denotes(native, x)
      BY <1>1, <1>6, <2>2 DEF GoHandles, Taken
    <3>3. /\ document[e].generation \in Nat /\ document'[e].generation \in Nat
          /\ document[e].generation <= document'[e].generation
      BY <1>1, <3>1 DEF Objects, DocumentObjects
    <3>4. x.stamp <= document'[e].generation
      BY <3>1, <3>2, <3>3
    <3>5. ASSUME document'[e].state = "open", x.stamp = document'[e].generation, x.origin = e
          PROVE  Denotes(native', x)
      <4>1. document[e].state = "open"
        BY <3>1, <3>5 DEF Carried
      <4>2. x.stamp = document[e].generation /\ ~(document[e].generation < document'[e].generation)
        BY <3>1, <3>2, <3>3, <3>5
      <4>3. Denotes(native, x)
        BY <3>2, <3>5, <4>1, <4>2
      <4>4. x.at \in Addresses /\ native.node[x.at].document = e
        BY <4>3 DEF Denotes, NodesOf
      <4>5. e # d \/ Same(native, native', x.at)
        BY <4>2, <4>4
      <4>6. e # NULL
        BY <3>1, NullApart
      <4> HIDE DEF x, e
      <4> QED BY <4>3, <4>5, <4>6, DenotesKept DEF e
    <3> QED BY <2>2, <3>4, <3>5
  <2> QED BY <2>1, <2>2
<1>7. GoHandles'
  BY <1>6 DEF GoHandles, Taken, Untaken
<1> QED BY <1>5, <1>7 DEF GoInv, Guarded

\* A step of an execution that touches no document and makes no handle.
LEMMA GoIdle ==
  ASSUME GoInv, NEW q \in Executions, Sound(native'), ExecOnly(native, native', q), Running',
         native'.exec[q].owner \in {NULL, native.exec[q].owner},
         document' = document, handle' = handle,
         execution' \in [Executions -> ExecutionObjects], calls' \in Seq(CallRecords), Busy'
  PROVE  GoInv'
<1>1. Base /\ Counted /\ Objects
  BY DEF GoInv, Guarded, Base
<1>2. PICK d \in Documents : TRUE
  BY BindingBounds
<1>3. Unmoved
  BY DEF Unmoved
<1>4. Steady(d) /\ \A a \in Addresses : Same(native, native', a)
  BY <1>1, <1>3, BaseExec
<1>5. Objects'
  BY <1>1 DEF Objects
<1>6. Counted'
  BY <1>1 DEF Counted, ExecOnly
<1>7. \A e \in Documents : document[e].generation <= document'[e].generation
  BY <1>1 DEF Objects, DocumentObjects
<1> QED BY <1>4, <1>5, <1>6, <1>7, GoKeeps DEF Steady

LEMMA GoUsable ==
  ASSUME GoInv, NEW h \in Handles, Go!Usable(h), ~Go!Stray(h)
  PROVE  /\ handle[h].document \in Documents /\ document[handle[h].document].state = "open"
         /\ handle[h].at \in NodesOf(native, handle[h].document)
<1>1. Taken(h) /\ document[handle[h].document].state = "open"
      /\ handle[h].stamp = document[handle[h].document].generation
      /\ handle[h].origin = handle[h].document
  BY GoOps DEF Go!Usable, Go!Stray, IsOpen
<1>2. handle[h].document \in Documents
  BY <1>1 DEF GoInv, Base, Objects, HandleObjects, Lifetimes
<1> QED BY <1>1, <1>2 DEF GoInv, GoHandles, Denotes

LEMMA GoParse ==
  ASSUME GoInv, NEW d \in Documents, Go!Parse(d)
  PROVE  GoInv'
<1>1. Base /\ Counted /\ Busy /\ Objects /\ document[d] \in DocumentObjects
  BY DEF GoInv, Guarded, Base, Objects
<1>2. /\ document[d].state = "unborn"
      /\ document' = [document EXCEPT ![d].state = "open"]
      /\ execution' = execution /\ handle' = handle /\ calls' = calls
  BY DEF Go!Parse, Go!DoParse
<1>3. PICK at \in Chains(native, 2) : native' = NParse(native, d, at)
  BY GoOps DEF Go!Parse, Go!DoParse
<1>4. /\ document' \in [Documents -> DocumentObjects]
      /\ document'[d].state = "open" /\ document'[d].active = document[d].active
      /\ \A e \in Documents \ {d} : document'[e] = document[e]
      /\ \A e \in Documents : document'[e].generation = document[e].generation
  BY <1>1, <1>2, DocumentOpened
<1>5. /\ Steady(d) /\ \A f \in Documents \ {d} : native'.doc[f] = native.doc[f]
      /\ native'.doc[d].callbacks = 0 /\ native'.doc[d].pending = 0
      /\ \A a \in Addresses : native.node[a].document # d
  BY <1>1, <1>2, <1>3, <1>4, BaseParse
<1>6. Objects'
  BY <1>1, <1>2, <1>4 DEF Objects
<1>7. Counted' /\ Busy'
  <2>1. document[d].active = 0
    BY <1>1, <1>2 DEF Counted
  <2> QED BY <1>1, <1>2, <1>4, <1>5, <2>1 DEF Counted, Busy
<1>8. \A e \in Documents : document[e].generation <= document'[e].generation
  BY <1>1, <1>4 DEF Objects, DocumentObjects
<1> QED BY <1>2, <1>5, <1>6, <1>7, <1>8, GoKeeps DEF Steady

LEMMA GoCloseDocument ==
  ASSUME GoInv, NEW d \in Documents, Go!CloseDocument(d)
  PROVE  GoInv'
<1>1. Base /\ Counted /\ Busy /\ Objects /\ document[d] \in DocumentObjects
  BY DEF GoInv, Guarded, Base, Objects
<1>2. /\ document[d].active = 0 /\ native' = NFree(native, d)
      /\ document' = [document EXCEPT ![d].state = "closed", ![d].generation = @ + 1]
      /\ execution' = execution /\ handle' = handle /\ calls' = calls
  BY GoOps DEF Go!CloseDocument, Go!Quiet
<1>3. native' = Freed(native, d)
  <2>1. ~(native.doc[d].callbacks > 0)
    BY <1>1, <1>2 DEF Counted
  <2> QED BY <1>2, <2>1 DEF NFree
<1> DEFINE z == [document[d] EXCEPT !.state = "closed", !.generation = document[d].generation + 1]
<1>4. /\ z \in DocumentObjects /\ z.state = "closed" /\ z.active = document[d].active
      /\ z.generation = document[d].generation + 1 /\ document[d].generation \in Nat
  <2>1. document[d].generation \in Nat /\ document[d].generation + 1 \in Nat
    BY <1>1 DEF DocumentObjects
  <2> QED BY <1>1, <2>1 DEF DocumentObjects
<1>5. document' = [document EXCEPT ![d] = z]
  BY <1>1, <1>2 DEF Objects
<1> HIDE DEF z
<1>6. /\ document' \in [Documents -> DocumentObjects] /\ document'[d] = z
      /\ \A e \in Documents \ {d} : document'[e] = document[e]
  BY <1>1, <1>4, <1>5, DocumentSet
<1>7. /\ Steady(d) /\ \A f \in Documents \ {d} : native'.doc[f] = native.doc[f]
      /\ native'.doc[d].callbacks = 0 /\ native'.doc[d].pending = 0
  BY <1>1, <1>2, <1>3, <1>4, <1>6, BaseFree
<1>8. Objects'
  BY <1>1, <1>2, <1>6 DEF Objects
<1>9. Counted' /\ Busy'
  BY <1>1, <1>2, <1>4, <1>6, <1>7 DEF Counted, Busy
<1>10. /\ \A e \in Documents : document[e].generation <= document'[e].generation
       /\ document[d].generation < document'[d].generation
  <2>1. document'[d].generation = document[d].generation + 1
    BY <1>4, <1>6
  <2>2. \A e \in Documents : document[e].generation \in Nat
    BY <1>1 DEF Objects, DocumentObjects
  <2> QED BY <1>4, <1>6, <2>1, <2>2
<1> QED BY <1>2, <1>7, <1>8, <1>9, <1>10, GoKeeps DEF Steady

\* An edit that moves the document to a new generation, and may make a handle of that one.
LEMMA GoEdit ==
  ASSUME GoInv, NEW d \in Documents, document[d].state = "open", Edited(native, native', d),
         \A q \in Executions :
           /\ native'.exec[q].owner = native.exec[q].owner
           /\ native'.exec[q].revision = native.exec[q].revision
           /\ native'.exec[q].phase = native.exec[q].phase
           /\ native'.exec[q].busy = native.exec[q].busy
           /\ native'.exec[q].results \subseteq native.exec[q].results,
         document' = [document EXCEPT ![d].generation = @ + 1],
         execution' = execution, calls' = calls,
         handle' = handle \/ \E h \in Handles, a \in NodesOf(native', d) :
           handle' = [handle EXCEPT ![h] = Node(native', d, a, document[d].generation + 1)]
  PROVE  GoInv'
<1>1. Base /\ Counted /\ Busy /\ Objects
  BY DEF GoInv, Guarded, Base
<1>2. /\ document' \in [Documents -> DocumentObjects]
      /\ document'[d].state = document[d].state /\ document'[d].active = document[d].active
      /\ \A e \in Documents \ {d} : document'[e] = document[e]
      /\ document[d].generation \in Nat /\ document'[d].generation = document[d].generation + 1
  BY <1>1, DocumentChanged
<1>3. Unmoved
  BY <1>2 DEF Unmoved
<1>4. Steady(d)
  BY <1>1, <1>3, BaseEdit
<1>5. Counted' /\ Busy'
  BY <1>1, <1>2 DEF Counted, Busy, Edited
<1>6. /\ \A e \in Documents : document[e].generation <= document'[e].generation
      /\ document[d].generation < document'[d].generation
  BY <1>1, <1>2 DEF Objects, DocumentObjects
<1>7. CASE handle' = handle
  <2>1. Objects'
    BY <1>1, <1>2, <1>7 DEF Objects
  <2> QED BY <1>4, <1>5, <1>6, <1>7, <2>1, GoKeeps DEF Steady
<1>8. ASSUME NEW h \in Handles, NEW a \in NodesOf(native', d),
             handle' = [handle EXCEPT ![h] = Node(native', d, a, document[d].generation + 1)]
      PROVE  GoInv'
  <2> DEFINE s == document[d].generation + 1
             x == Node(native', d, a, s)
  <2>1. s \in Nat /\ s = document'[d].generation /\ a \in Addresses /\ native'.node[a].document = d
        /\ native' \in Natives /\ Heap(native')
    BY <1>2, <1>8 DEF NodesOf, Edited
  <2> HIDE DEF s
  <2>2. /\ x \in HandleObjects /\ x.document = d /\ x.stamp = s
        /\ x.identity = native'.node[a].identity /\ Denotes(native', x)
        /\ native'.node[a].identity <= native'.identity
    BY <2>1, NodeMade
  <2>3. handle' = [handle EXCEPT ![h] = x]
    BY <1>8 DEF s
  <2> HIDE DEF x
  <2>4. /\ handle' \in [Handles -> HandleObjects] /\ handle'[h] = x
        /\ \A g \in Handles \ {h} : handle'[g] = handle[g]
    BY <1>1, <2>2, <2>3, HandleSet
  <2>5. Objects'
    BY <1>1, <1>2, <2>4 DEF Objects
  <2>6. Granted(x) /\ x.stamp <= document'[x.document].generation
    BY <1>2, <2>1, <2>2 DEF Granted
  <2>7. \A g \in Handles :
           \/ handle'[g] = handle[g]
           \/ /\ Granted(handle'[g])
              /\ handle'[g].stamp <= document'[handle'[g].document].generation
              /\ handle'[g].origin = handle'[g].document => Denotes(native', handle'[g])
    BY <2>2, <2>4, <2>6
  <2> QED BY <1>4, <1>5, <1>6, <2>5, <2>7, GoKeeps DEF Steady
<1> QED BY <1>7, <1>8

LEMMA GoSetValue ==
  ASSUME GoInv, GoTame, NEW h \in Handles, Go!SetValue(h)
  PROVE  GoInv'
<1> DEFINE d == handle[h].document
           a == handle[h].at
<1>1. /\ Go!Usable(h) /\ ~Go!Stray(h)
      /\ document' = [document EXCEPT ![d].generation = @ + 1]
      /\ execution' = execution /\ handle' = handle /\ calls' = calls
  BY DEF Go!SetValue, Go!Changed, GoTame
<1>2. PICK at \in Chains(native, 1) : native' = NSetValue(native, a, at)
  BY GoOps DEF Go!SetValue
<1>3. d \in Documents /\ document[d].state = "open" /\ a \in NodesOf(native, d)
  BY <1>1, GoUsable
<1>4. native \in Natives /\ Heap(native)
  BY DEF GoInv, Base, Sound
<1> HIDE DEF d, a
<1>5. Edited(native, native', d) /\ native'.exec = native.exec
  BY <1>2, <1>3, <1>4, SetValueSound
<1> QED BY <1>1, <1>3, <1>5, GoEdit

LEMMA GoErase ==
  ASSUME GoInv, GoTame, NEW h \in Handles, Go!Erase(h)
  PROVE  GoInv'
<1> DEFINE d == handle[h].document
           a == handle[h].at
<1>1. /\ Go!Usable(h) /\ ~Go!Stray(h) /\ document[d].active = 0
      /\ native' = NErase(native, a)
      /\ document' = [document EXCEPT ![d].generation = @ + 1]
      /\ execution' = execution /\ handle' = handle /\ calls' = calls
  BY GoOps DEF Go!Erase, Go!Changed, Go!Quiet, GoTame
<1>2. d \in Documents /\ document[d].state = "open" /\ a \in NodesOf(native, d)
  BY <1>1, GoUsable
<1>3. native \in Natives /\ Heap(native) /\ Counted
  BY DEF GoInv, Base, Sound, Guarded
<1> HIDE DEF d, a
<1>4. native' = Erased(native, a)
  <2>1. native.node[a].document = d /\ ~(native.doc[d].callbacks > 0)
    BY <1>1, <1>2, <1>3 DEF Counted, NodesOf
  <2> QED BY <1>1, <2>1 DEF NErase
<1>5. Edited(native, native', d) /\ native'.exec = native.exec
  BY <1>2, <1>3, <1>4, ErasedSound
<1> QED BY <1>1, <1>2, <1>5, GoEdit

LEMMA GoInsert ==
  ASSUME GoInv, GoTame, NEW d \in Documents, NEW h \in Handles, Go!Insert(d, h)
  PROVE  GoInv'
<1>1. /\ document[d].state = "open"
      /\ document' = [document EXCEPT ![d].generation = @ + 1]
      /\ execution' = execution /\ calls' = calls
  BY GoOps DEF Go!Insert, Go!Changed, IsOpen
<1>2. PICK at \in Chains(native, 1),
           parent \in {NULL} \cup {handle[g].at : g \in {x \in Handles : Go!Usable(x)
                                                                /\ handle[x].document = d}} :
           /\ Len(at) = 1 /\ native' = NInsert(native, d, parent, at)
           /\ handle' = [handle EXCEPT ![h] = Node(native', d, at[1], document[d].generation + 1)]
  BY GoOps DEF Go!Insert
<1>3. native \in Natives /\ Heap(native) /\ native.doc[d].alive
  BY <1>1 DEF GoInv, Base, Sound, Lifetimes
<1>4. parent \in Addresses \cup {NULL} /\ (parent # NULL => native.node[parent].document = d)
  <2>1. CASE parent = NULL
    BY <2>1
  <2>2. ASSUME NEW g \in Handles, Go!Usable(g), handle[g].document = d, parent = handle[g].at
        PROVE  parent \in NodesOf(native, d)
    BY <2>2, GoUsable DEF GoTame
  <2> QED BY <1>2, <2>1, <2>2 DEF NodesOf
<1>5. /\ Edited(native, native', d) /\ native'.exec = native.exec
      /\ \A i \in 1 .. Len(at) : at[i] \in Addresses /\ native'.node[at[i]].document = d
  BY <1>2, <1>3, <1>4, InsertSound
<1>6. at[1] \in NodesOf(native', d)
  BY <1>2, <1>5 DEF NodesOf
<1> QED BY <1>1, <1>2, <1>5, <1>6, GoEdit

\* A handle is made for the node at a, as one of d.
LEMMA GoTake ==
  ASSUME GoInv, NEW d \in Documents, document[d].state # "unborn", Steady(d),
         \A a \in Addresses : Same(native, native', a), native'.doc = native.doc,
         document' = document, execution' = execution, calls' = calls,
         NEW h \in Handles, NEW a \in Addresses,
         handle' = [handle EXCEPT ![h] = Node(native, d, a, document[d].generation)]
  PROVE  GoInv'
<1>1. Counted /\ Busy /\ Objects /\ native \in Natives /\ Heap(native) /\ document[d].generation \in Nat
  BY DEF GoInv, Guarded, Base, Objects, Sound, DocumentObjects
<1> DEFINE s == document[d].generation
           x == Node(native, d, a, s)
<1>2. s \in Nat
  BY <1>1
<1>3. handle' = [handle EXCEPT ![h] = x]
  OBVIOUS
<1> HIDE DEF s
<1>4. /\ x \in HandleObjects /\ x.document = d /\ x.stamp = s /\ x.at = a
      /\ x.identity = native.node[a].identity /\ x.origin = native.node[a].document
      /\ native.node[a].document = d => Denotes(native, x)
      /\ native.node[a].identity <= native.identity
  BY <1>1, <1>2, NodeMade
<1> HIDE DEF x
<1>5. /\ handle' \in [Handles -> HandleObjects] /\ handle'[h] = x
      /\ \A g \in Handles \ {h} : handle'[g] = handle[g]
  BY <1>1, <1>3, <1>4, HandleSet
<1>6. Objects' /\ Counted' /\ Busy'
  BY <1>1, <1>5 DEF Objects, Counted, Busy
<1>7. native.identity \in Nat /\ native'.identity \in Nat /\ native.identity <= native'.identity
      /\ native.node[a].identity \in Nat
  BY <1>1 DEF Steady, Sound, Natives, NodeRecords, Evolves, Newer
<1>8. x.identity <= native'.identity
  BY <1>4, <1>7
<1>9. Granted(x)
  BY <1>4, <1>8 DEF Granted
<1>10. x.stamp <= document'[x.document].generation
  BY <1>2, <1>4 DEF s
<1>11. x.origin = x.document => Denotes(native', x)
  BY <1>4 DEF Same, Denotes, NodesOf
<1>12. \A g \in Handles :
           \/ handle'[g] = handle[g]
           \/ /\ Granted(handle'[g])
              /\ handle'[g].stamp <= document'[handle'[g].document].generation
              /\ handle'[g].origin = handle'[g].document => Denotes(native', handle'[g])
  BY <1>5, <1>9, <1>10, <1>11
<1>13. \A e \in Documents : document[e].generation <= document'[e].generation
  BY <1>1 DEF Objects, DocumentObjects
<1> QED BY <1>6, <1>12, <1>13, GoKeeps DEF Steady

LEMMA GoNavigate ==
  ASSUME GoInv, NEW h \in Handles, NEW d \in Documents, NEW a \in Addresses, Go!Navigate(h, d, a)
  PROVE  GoInv'
<1>1. /\ document[d].state = "open"
      /\ handle' = [handle EXCEPT ![h] = Node(native, d, a, document[d].generation)]
      /\ native' = native /\ document' = document /\ execution' = execution /\ calls' = calls
  BY GoOps DEF Go!Navigate, IsOpen
<1>2. Base /\ Unmoved
  BY <1>1 DEF GoInv, Unmoved
<1>3. Steady(d) /\ \A b \in Addresses : Same(native, native', b)
  BY <1>1, <1>2, BaseStill
<1> QED BY <1>1, <1>3, GoTake

LEMMA GoNextDocument ==
  ASSUME GoInv, NEW q \in Executions, NEW h \in Handles, Go!NextDocument(q, h)
  PROVE  GoInv'
<1> DEFINE d == execution[q].document
<1>1. Base /\ Objects /\ Sound(native) /\ native \in Natives
  BY DEF GoInv, Base, Sound
<1>2. /\ d # NULL /\ document[d].state = "open"
      /\ document' = document /\ execution' = execution /\ calls' = calls
  BY GoOps DEF Go!NextDocument, Go!DoNext, Go!NextFreed, Go!Check, IsOpen
<1>3. PICK a \in native.exec[q].results :
        /\ native' = NPull(native, q, a)
        /\ handle' = [handle EXCEPT ![h] = Node(native, d, a, document[d].generation)]
  BY GoOps DEF Go!NextDocument, Go!DoNext, Go!NextFreed
<1>4. d \in Documents
  BY <1>1, <1>2 DEF Objects, ExecutionObjects
<1>5. a \in Addresses
  BY <1>1, <1>3 DEF Natives, ExecRecords
<1> HIDE DEF d
<1>6. /\ Sound(native') /\ ExecOnly(native, native', q)
      /\ native'.exec[q].owner = native.exec[q].owner /\ native'.exec[q].busy = native.exec[q].busy
  BY <1>1, <1>3, PullKeepsSound
<1>7. Running'
  BY <1>1, <1>2, <1>6, ExecIdle
<1>8. Unmoved
  BY <1>2 DEF Unmoved
<1>9. Steady(d) /\ \A b \in Addresses : Same(native, native', b)
  BY <1>1, <1>4, <1>6, <1>7, <1>8, BaseExec
<1>10. native'.doc = native.doc
  BY <1>6 DEF ExecOnly
<1> QED BY <1>2, <1>3, <1>4, <1>5, <1>9, <1>10, GoTake

LEMMA GoCloseProgram ==
  ASSUME GoInv, Go!CloseProgram
  PROVE  GoInv'
<1>1. /\ native' = native /\ document' = document /\ execution' = execution /\ handle' = handle
      /\ calls' = calls
  BY DEF Go!CloseProgram, Go!DoRelease
<1> QED BY <1>1 DEF GoInv, Base, Guarded, GoHandles, Sound, Objects, Lifetimes, Running, Counted,
                    Busy, Taken, Untaken, Denotes

\* A step of an execution outside its callbacks.
LEMMA GoIdled ==
  ASSUME GoInv, NEW q \in Executions, Idled(q), calls' = calls,
         document' = document, handle' = handle, NEW z \in ExecutionObjects,
         execution' = [execution EXCEPT ![q] = z], execution[q].busy => z.busy
  PROVE  GoInv'
<1>1. Busy /\ Objects
  BY DEF GoInv, Guarded, Base
<1>2. /\ execution' \in [Executions -> ExecutionObjects] /\ execution'[q] = z
      /\ \A p \in Executions \ {q} : execution'[p] = execution[p]
  BY <1>1, ExecutionSet
<1>3. Busy'
  BY <1>1, <1>2, BusySame
<1> QED BY <1>2, <1>3, GoIdle DEF Idled

LEMMA GoNewExecution ==
  ASSUME GoInv, NEW q \in Executions, Go!NewExecution(q)
  PROVE  GoInv'
<1>1. /\ execution[q] = Idle /\ native' = [native EXCEPT !.exec[q] = Fresh]
      /\ execution' = [execution EXCEPT ![q].open = TRUE]
      /\ document' = document /\ handle' = handle /\ calls' = calls
  BY GoOps DEF Go!NewExecution, Go!DoCreate
<1>2. Base /\ Busy /\ Objects /\ execution[q] \in ExecutionObjects
  BY DEF GoInv, Guarded, Base, Objects
<1>3. ~execution[q].busy
  BY <1>1 DEF Idle
<1>4. Idled(q)
  BY <1>1, <1>2, <1>3, NotRunning, IdledSet
<1> DEFINE z == [execution[q] EXCEPT !.open = TRUE]
<1>5. z \in ExecutionObjects
  BY <1>2, ExecutionValues
<1>6. execution' = [execution EXCEPT ![q] = z]
  BY <1>1, <1>2 DEF Objects
<1> HIDE DEF z
<1> QED BY <1>1, <1>3, <1>4, <1>5, <1>6, GoIdled

LEMMA GoCloseExecution ==
  ASSUME GoInv, NEW q \in Executions, Go!CloseExecution(q)
  PROVE  GoInv'
<1> DEFINE z == [Idle EXCEPT !.invalid = TRUE]
<1>1. /\ ~execution[q].busy /\ native' = [native EXCEPT !.exec[q] = NoExec]
      /\ execution' = [execution EXCEPT ![q] = z]
      /\ document' = document /\ handle' = handle /\ calls' = calls
  BY GoOps DEF Go!CloseExecution, Go!DoDispose
<1>2. Base /\ Busy /\ Objects
  BY DEF GoInv, Guarded, Base
<1>3. Idled(q)
  BY <1>1, <1>2, NotRunning, IdledSet
<1>4. z \in ExecutionObjects
  BY <1>2, ExecutionValues DEF Objects
<1> HIDE DEF z
<1> QED BY <1>1, <1>3, <1>4, GoIdled

LEMMA GoReset ==
  ASSUME GoInv, NEW q \in Executions, Go!Reset(q)
  PROVE  GoInv'
<1> DEFINE z == [Idle EXCEPT !.open = TRUE]
<1>1. /\ ~execution[q].busy /\ native' = [native EXCEPT !.exec[q] = Fresh]
      /\ execution' = [execution EXCEPT ![q] = z]
      /\ document' = document /\ handle' = handle /\ calls' = calls
  BY GoOps DEF Go!Reset, Go!DoReset
<1>2. Base /\ Busy /\ Objects
  BY DEF GoInv, Guarded, Base
<1>3. Idled(q)
  BY <1>1, <1>2, NotRunning, IdledSet
<1>4. z \in ExecutionObjects
  BY <1>2, ExecutionValues DEF Objects
<1> HIDE DEF z
<1> QED BY <1>1, <1>3, <1>4, GoIdled

LEMMA GoSetInput ==
  ASSUME GoInv, NEW q \in Executions, Go!SetInput(q)
  PROVE  GoInv'
<1>1. /\ ~execution[q].busy /\ native' = [native EXCEPT !.exec[q].windows = @ + 1]
      /\ execution' = [execution EXCEPT ![q].pins = @ + 1, ![q].reader = TRUE]
      /\ document' = document /\ handle' = handle /\ calls' = calls
  BY DEF Go!SetInput, Go!Check
<1>2. Base /\ Objects /\ execution[q] \in ExecutionObjects
  BY DEF GoInv, Base, Objects
<1>3. Idled(q)
  BY <1>1, <1>2, IdledWindow
<1> DEFINE z == [execution[q] EXCEPT !.pins = execution[q].pins + 1, !.reader = TRUE]
<1>4. z \in ExecutionObjects
  BY <1>2, ExecutionValues
<1>5. execution' = [execution EXCEPT ![q] = z]
  BY <1>1, <1>2 DEF Objects
<1> HIDE DEF z
<1> QED BY <1>1, <1>3, <1>4, <1>5, GoIdled

LEMMA GoBind ==
  ASSUME GoInv, NEW q \in Executions, Go!Bind(q)
  PROVE  GoInv'
<1>1. /\ ~execution[q].busy /\ native' = [native EXCEPT !.exec[q].windows = @ + 1]
      /\ execution' = [execution EXCEPT ![q].pins = @ + 1]
      /\ document' = document /\ handle' = handle /\ calls' = calls
  BY DEF Go!Bind, Go!Check
<1>2. Base /\ Objects /\ execution[q] \in ExecutionObjects
  BY DEF GoInv, Base, Objects
<1>3. Idled(q)
  BY <1>1, <1>2, IdledWindow
<1> DEFINE z == [execution[q] EXCEPT !.pins = execution[q].pins + 1]
<1>4. z \in ExecutionObjects
  BY <1>2, ExecutionValues
<1>5. execution' = [execution EXCEPT ![q] = z]
  BY <1>1, <1>2 DEF Objects
<1> HIDE DEF z
<1> QED BY <1>1, <1>3, <1>4, <1>5, GoIdled

LEMMA GoFeed ==
  ASSUME GoInv, NEW q \in Executions, Go!Feed(q)
  PROVE  GoInv'
<1>1. /\ ~execution[q].busy
      /\ execution' = [execution EXCEPT ![q].pins = @ + 1, ![q].fed = TRUE, ![q].busy = NDrives(native, q)]
      /\ native' = IF NDrives(native, q)
                   THEN NDrive([native EXCEPT !.exec[q].windows = @ + 1], q) ELSE native
      /\ calls' = IF NDrives(native, q) THEN Call(q, NULL, FALSE) ELSE calls
      /\ document' = document /\ handle' = handle
  <2>1. Go!NDrives(native, q) = NDrives(native, q)
    BY DEF Go!NDrives, NDrives
  <2>2. /\ \A n, r : Go!NDrive(n, r) = NDrive(n, r)
        /\ \A r, d, p : Go!Call(r, d, p) = Call(r, d, p)
    BY GoOps
  <2> QED BY <2>1, <2>2 DEF Go!Feed, Go!Check, Go!DoFeed
<1>2. Base /\ Busy /\ Objects /\ execution[q] \in ExecutionObjects
  BY DEF GoInv, Guarded, Base, Objects
<1> DEFINE b == NDrives(native, q)
           z == [execution[q] EXCEPT !.pins = execution[q].pins + 1, !.fed = TRUE, !.busy = b]
<1>3. b \in BOOLEAN
  BY DEF NDrives
<1>4. execution' = [execution EXCEPT ![q] = z]
  BY <1>1, <1>2 DEF Objects
<1> HIDE DEF b
<1>5. z \in ExecutionObjects /\ z.busy = b
  BY <1>2, <1>3, ExecutionValues
<1> HIDE DEF z
<1>6. CASE ~b
  <2>1. Idled(q) /\ calls' = calls
    BY <1>1, <1>2, <1>6, IdledStill DEF b
  <2> QED BY <1>1, <1>4, <1>5, <2>1, GoIdled
<1>7. CASE b
  <2>1. NDrives(native, q) /\ calls' = Call(q, NULL, FALSE)
        /\ native' = NDrive([native EXCEPT !.exec[q].windows = @ + 1], q)
    BY <1>1, <1>7 DEF b
  <2>2. Idled(q)
    BY <1>2, <2>1, IdledDrive
  <2>3. /\ execution' \in [Executions -> ExecutionObjects] /\ execution'[q] = z
        /\ \A p \in Executions \ {q} : execution'[p] = execution[p]
    BY <1>2, <1>4, <1>5, ExecutionSet
  <2>4. Busy'
    BY <1>2, <1>5, <1>7, <2>1, <2>3, BusyPushed
  <2> QED BY <1>1, <2>2, <2>3, <2>4, GoIdle DEF Idled
<1> QED BY <1>6, <1>7

LEMMA GoDrain ==
  ASSUME GoInv, NEW q \in Executions, Go!Drain(q)
  PROVE  GoInv'
<1>1. /\ NVisits(native, q) /\ native' = NDrive(native, q) /\ calls' = Call(q, NULL, FALSE)
      /\ execution' = [execution EXCEPT ![q].busy = TRUE]
      /\ document' = document /\ handle' = handle
  BY GoOps DEF Go!Drain, Go!DoDrive
<1>2. Base /\ Busy /\ Objects /\ execution[q] \in ExecutionObjects
  BY DEF GoInv, Guarded, Base, Objects
<1>3. Idled(q)
  BY <1>1, <1>2, IdledDrive
<1> DEFINE z == [execution[q] EXCEPT !.busy = TRUE]
<1>4. execution' = [execution EXCEPT ![q] = z]
  BY <1>1, <1>2 DEF Objects
<1>5. z \in ExecutionObjects /\ z.busy
  BY <1>2, ExecutionValues
<1> HIDE DEF z
<1>6. /\ execution' \in [Executions -> ExecutionObjects] /\ execution'[q] = z
      /\ \A p \in Executions \ {q} : execution'[p] = execution[p]
  BY <1>2, <1>4, <1>5, ExecutionSet
<1>7. Busy'
  BY <1>1, <1>2, <1>5, <1>6, BusyPushed
<1> QED BY <1>1, <1>3, <1>6, <1>7, GoIdle DEF Idled

LEMMA GoDrainReturn ==
  ASSUME GoInv, Go!DrainReturn
  PROVE  GoInv'
<1> DEFINE q == Head(calls).execution
           z == [execution[q] EXCEPT !.busy = FALSE]
<1>1. /\ calls # <<>> /\ Head(calls).document = NULL /\ calls' = Tail(calls)
      /\ execution' = [execution EXCEPT ![q].busy = FALSE]
      /\ document' = document /\ handle' = handle
  BY DEF Go!DrainReturn, Go!DoDriven
<1>2. PICK phase \in Phases(native, q) : native' = NDriven(native, q, phase)
  BY GoOps DEF Go!DrainReturn, Go!DoDriven
<1>3. Base /\ Busy /\ Objects /\ Running
  BY DEF GoInv, Guarded, Base
<1>4. q \in Executions /\ Idled(q)
  BY <1>1, <1>2, <1>3, IdledDriven
<1>5. execution[q] \in ExecutionObjects /\ execution' = [execution EXCEPT ![q] = z]
  BY <1>1, <1>3, <1>4 DEF Objects
<1>6. z \in ExecutionObjects
  BY <1>5, ExecutionValues
<1> HIDE DEF z
<1>7. /\ execution' \in [Executions -> ExecutionObjects]
      /\ \A p \in Executions \ {q} : execution'[p] = execution[p]
  BY <1>3, <1>4, <1>5, <1>6, ExecutionSet
<1>8. Busy'
  BY <1>1, <1>3, <1>7, BusyPopped
<1> HIDE DEF q
<1> QED BY <1>1, <1>4, <1>7, <1>8, GoIdle DEF Idled

LEMMA GoEvaluateReturn ==
  ASSUME GoInv, Go!EvaluateReturn
  PROVE  GoInv'
<1> DEFINE q == Head(calls).execution
           d == Head(calls).document
           z == [execution[q] EXCEPT !.busy = FALSE]
<1>1. /\ calls # <<>> /\ d # NULL /\ calls' = Tail(calls)
      /\ execution' = [execution EXCEPT ![q].busy = FALSE]
      /\ document' = [document EXCEPT ![d].active = @ - 1]
      /\ handle' = handle
  BY DEF Go!EvaluateReturn, Go!DoEvaluated
<1>2. PICK ok \in BOOLEAN, S \in SUBSET NodesOf(native, d) : native' = NEvaluated(native, q, ok, S)
  BY GoOps DEF Go!EvaluateReturn, Go!DoEvaluated, Selections
<1>3. Base /\ Busy /\ Counted /\ Objects /\ Running
  BY DEF GoInv, Guarded, Base
<1>4. q \in Executions /\ d \in Documents /\ document[d].state # "unborn"
  BY <1>1, <1>3, Innermost
<1>5. execution[q] \in ExecutionObjects /\ execution' = [execution EXCEPT ![q] = z]
  BY <1>1, <1>3, <1>4 DEF Objects
<1>6. z \in ExecutionObjects
  BY <1>5, ExecutionValues
<1> HIDE DEF z
<1>7. /\ execution' \in [Executions -> ExecutionObjects]
      /\ \A p \in Executions \ {q} : execution'[p] = execution[p]
  BY <1>3, <1>4, <1>5, <1>6, ExecutionSet
<1>8. Busy'
  BY <1>1, <1>3, <1>7, BusyPopped
<1>9. Head(calls).execution = q /\ Head(calls).document = d
  OBVIOUS
<1> HIDE DEF q, d
<1>10. document[d].active - 1 \in Int
  BY <1>3, <1>4 DEF Objects, DocumentObjects
<1>11. /\ document' \in [Documents -> DocumentObjects]
       /\ document'[d].state = document[d].state /\ document'[d].active = document[d].active - 1
       /\ \A e \in Documents \ {d} : document'[e] = document[e]
       /\ \A e \in Documents : document'[e].generation = document[e].generation
  <2> DEFINE k == document[d].active - 1
  <2>1. document' = [document EXCEPT ![d].active = k] /\ k \in Int
    BY <1>1, <1>10
  <2> HIDE DEF k
  <2>2. /\ document' \in [Documents -> DocumentObjects]
        /\ document'[d].state = document[d].state /\ document'[d].active = k
        /\ \A e \in Documents \ {d} : document'[e] = document[e]
        /\ \A e \in Documents : document'[e].generation = document[e].generation
    BY <1>3, <1>4, <2>1, DocumentCalled
  <2> QED BY <2>2 DEF k
<1>12. Unmoved /\ native.doc[d].pending = 0
  BY <1>3, <1>4, <1>11 DEF Unmoved, Counted
<1>13. /\ Steady(d) /\ calls' \in Seq(CallRecords)
       /\ \A f \in Documents \ {d} : native'.doc[f] = native.doc[f]
       /\ \A a \in Addresses : Same(native, native', a)
       /\ native'.doc[d].callbacks = native.doc[d].callbacks - 1
       /\ native'.doc[d].pending = 0
  BY <1>1, <1>2, <1>3, <1>4, <1>9, <1>12, BaseEvaluated
<1>14. Objects'
  BY <1>1, <1>3, <1>7, <1>11, <1>13 DEF Objects
<1>15. Counted'
  BY <1>3, <1>4, <1>11, <1>13 DEF Counted
<1>16. \A e \in Documents : document[e].generation <= document'[e].generation
  BY <1>3, <1>11 DEF Objects, DocumentObjects
<1> QED BY <1>1, <1>4, <1>8, <1>13, <1>14, <1>15, <1>16, GoKeeps DEF Steady

LEMMA GoEditDocument ==
  ASSUME GoInv, NEW q \in Executions, Go!EditDocument(q)
  PROVE  GoInv'
<1> DEFINE d == execution[q].document
<1>1. Base /\ Objects /\ Lifetimes /\ Sound(native) /\ native \in Natives /\ Heap(native) /\ Counted /\ Busy
  BY DEF GoInv, Base, Sound, Guarded
<1>2. /\ d # NULL /\ document[d].state = "open" /\ NEditable(native, q, d)
      /\ execution' = execution /\ handle' = handle /\ calls' = calls
  BY GoOps DEF Go!EditDocument, Go!Check, IsOpen
<1>3. PICK r \in NEdits(native, q, d) :
        /\ native' = r.native
        /\ document' = IF r.applied > 0 THEN [document EXCEPT ![d].generation = @ + 1] ELSE document
  BY GoOps DEF Go!EditDocument, Go!Changed
<1>4. d \in Documents
  BY <1>1, <1>2 DEF Objects, ExecutionObjects
<1> HIDE DEF d
<1>5. native.doc[d].alive /\ NPulls(native, q) /\ native.exec[q].owner = d
  BY <1>1, <1>2, <1>4 DEF Lifetimes, NEditable
<1>6. native.exec[q].results \subseteq NodesOf(native, d)
  BY <1>1, <1>4, <1>5, Editable
<1>7. /\ Edited(native, native', d) /\ r.applied \in Nat
      /\ native'.doc[d].revision = native.doc[d].revision + r.applied
      /\ native'.exec[q].results = {} /\ native'.exec[q].owner = native.exec[q].owner
      /\ native'.exec[q].revision = native.exec[q].revision /\ native'.exec[q].phase = native.exec[q].phase
      /\ native'.exec[q].busy = native.exec[q].busy
      /\ \A p \in Executions \ {q} : native'.exec[p] = native.exec[p]
  BY <1>1, <1>3, <1>4, <1>5, <1>6, EditsSound
<1>8. \A p \in Executions :
        /\ native'.exec[p].owner = native.exec[p].owner
        /\ native'.exec[p].revision = native.exec[p].revision
        /\ native'.exec[p].phase = native.exec[p].phase
        /\ native'.exec[p].busy = native.exec[p].busy
        /\ native'.exec[p].results \subseteq native.exec[p].results
  BY <1>7
<1>9. CASE r.applied > 0
  <2>1. document' = [document EXCEPT ![d].generation = @ + 1]
    BY <1>3, <1>9
  <2> QED BY <1>2, <1>4, <1>7, <1>8, <2>1, GoEdit
<1>10. CASE r.applied = 0
  <2>1. document' = document
    BY <1>3, <1>10
  <2>2. Unmoved
    BY <2>1 DEF Unmoved
  <2>3. Steady(d)
    BY <1>1, <1>2, <1>4, <1>7, <1>8, <2>2, BaseEdit
  <2>4. Objects' /\ Counted' /\ Busy'
    BY <1>1, <1>2, <1>7, <2>1 DEF Objects, Counted, Busy, Edited
  <2>5. \A e \in Documents : document[e].generation <= document'[e].generation
    BY <1>1, <2>1 DEF Objects, DocumentObjects
  <2>6. native.doc[d].revision \in Nat
    BY <1>1, <1>4 DEF Natives, DocumentRecords
  <2>7. ~(native.doc[d].revision < native'.doc[d].revision)
    BY <1>7, <1>10, <2>6
  <2>8. \A a \in Addresses : native.node[a].document = d => Same(native, native', a)
    BY <1>4, <1>5, <1>7, <2>7 DEF Edited, Evolves, Noted
  <2> QED BY <1>2, <1>4, <2>3, <2>4, <2>5, <2>8, GoKeeps DEF Steady
<1> QED BY <1>7, <1>9, <1>10

LEMMA GoEvaluateDocument ==
  ASSUME GoInv, NEW q \in Executions, NEW d \in Documents, Go!EvaluateDocument(q, d)
  PROVE  GoInv'
<1> DEFINE runs == Go!BridgeTakes(q) /\ NEvaluates(native, q, d)
           held == IF Go!BridgeTakes(q) THEN d ELSE execution[q].holds
           z == [execution[q] EXCEPT !.document = d, !.holds = held, !.busy = runs]
<1>1. Base /\ Objects /\ Counted /\ Busy /\ execution[q] \in ExecutionObjects /\ document[d] \in DocumentObjects
  BY DEF GoInv, Base, Guarded, Objects
<1>2. Go!NEvaluates(native, q, d) = NEvaluates(native, q, d)
  BY DEF Go!NEvaluates, NEvaluates, Go!Fresh, Fresh, Go!NoExec, NoExec
<1>3. /\ \A n, r, e : Go!NEvaluate(n, r, e) = NEvaluate(n, r, e)
      /\ \A r, e, p : Go!Call(r, e, p) = Call(r, e, p)
      /\ \A e : Go!IsOpen(e) <=> IsOpen(e)
  BY GoOps
<1>4. /\ document[d].state = "open" /\ ~execution[q].busy /\ handle' = handle
      /\ execution' = [execution EXCEPT ![q].document = d, ![q].holds = held, ![q].busy = runs]
      /\ document' = IF runs THEN [document EXCEPT ![d].active = @ + 1] ELSE document
      /\ native' = IF runs THEN NEvaluate(native, q, d) ELSE native
      /\ calls' = IF runs THEN Call(q, d, TRUE) ELSE calls
  BY <1>2, <1>3 DEF Go!EvaluateDocument, Go!Check, IsOpen
<1>5. runs \in BOOLEAN
  BY DEF NEvaluates, Go!BridgeTakes
<1>6. held \in Documents \cup {NULL}
  BY <1>1 DEF ExecutionObjects
<1>7. execution' = [execution EXCEPT ![q] = z]
  BY <1>1, <1>4 DEF Objects
<1>8. runs => NEvaluates(native, q, d)
  OBVIOUS
<1> HIDE DEF runs, held
<1>9. z \in ExecutionObjects /\ z.busy = runs
  BY <1>1, <1>5, <1>6 DEF ExecutionObjects
<1> HIDE DEF z
<1>10. CASE ~runs
  <2>1. Idled(q) /\ calls' = calls /\ document' = document
    BY <1>1, <1>4, <1>10, IdledStill
  <2> QED BY <1>4, <1>7, <1>9, <2>1, GoIdled
<1>11. CASE runs
  <2> DEFINE k == document[d].active + 1
  <2>1. k \in Int /\ document' = [document EXCEPT ![d].active = k]
    BY <1>1, <1>4, <1>11 DEF DocumentObjects
  <2>2. k = document[d].active + 1 /\ document[d].active \in Int
    BY <1>1 DEF DocumentObjects
  <2> HIDE DEF k
  <2>3. /\ document' \in [Documents -> DocumentObjects]
        /\ document'[d].state = document[d].state /\ document'[d].active = k
        /\ \A e \in Documents \ {d} : document'[e] = document[e]
        /\ \A e \in Documents : document'[e].generation = document[e].generation
    BY <1>1, <2>1, DocumentCalled
  <2>4. Unmoved
    BY <2>3 DEF Unmoved
  <2>5. NEvaluates(native, q, d) /\ native' = NEvaluate(native, q, d) /\ calls' = Call(q, d, TRUE)
    BY <1>4, <1>8, <1>11
  <2>6. /\ Steady(d) /\ calls' \in Seq(CallRecords)
        /\ \A a \in Addresses : Same(native, native', a)
        /\ native'.doc[d].callbacks = native.doc[d].callbacks + 1
        /\ \A f \in Documents \ {d} : native'.doc[f] = native.doc[f]
        /\ native'.doc[d].pending = native.doc[d].pending
    BY <1>1, <1>4, <2>4, <2>5, BaseEvaluate
  <2>7. /\ execution' \in [Executions -> ExecutionObjects] /\ execution'[q] = z
        /\ \A p \in Executions \ {q} : execution'[p] = execution[p]
    BY <1>1, <1>7, <1>9, ExecutionSet
  <2>8. Busy'
    BY <1>1, <1>9, <1>11, <2>5, <2>7, BusyPushed
  <2>9. Objects'
    BY <1>1, <1>4, <2>3, <2>6, <2>7 DEF Objects
  <2>10. Counted'
    BY <1>1, <1>4, <2>2, <2>3, <2>6 DEF Counted
  <2>11. \A e \in Documents : document[e].generation <= document'[e].generation
    BY <1>1, <2>3 DEF Objects, DocumentObjects
  <2> QED BY <1>4, <2>6, <2>8, <2>9, <2>10, <2>11, GoKeeps DEF Steady
<1> QED BY <1>10, <1>11

LEMMA GoStep ==
  ASSUME GoInv, GoTame, Go!Next
  PROVE  GoInv'
<1>1. ASSUME NEW d \in Documents, Go!Parse(d) \/ Go!CloseDocument(d) PROVE GoInv'
  BY <1>1, GoParse, GoCloseDocument
<1>2. ASSUME NEW h \in Handles, NEW d \in Documents,
             Go!Insert(d, h) \/ \E a \in Addresses : Go!Navigate(h, d, a)
      PROVE  GoInv'
  BY <1>2, GoInsert, GoNavigate
<1>3. ASSUME NEW h \in Handles, Go!SetValue(h) \/ Go!Erase(h) PROVE GoInv'
  BY <1>3, GoSetValue, GoErase
<1>4. CASE Go!CloseProgram
  BY <1>4, GoCloseProgram
<1>5. ASSUME NEW q \in Executions, \/ Go!NewExecution(q) \/ Go!CloseExecution(q) \/ Go!Reset(q)
                                   \/ Go!SetInput(q) \/ Go!Bind(q) \/ Go!Feed(q) \/ Go!Drain(q)
                                   \/ Go!EditDocument(q)
      PROVE  GoInv'
  BY <1>5, GoNewExecution, GoCloseExecution, GoReset, GoSetInput, GoBind, GoFeed, GoDrain, GoEditDocument
<1>6. ASSUME NEW q \in Executions, NEW d \in Documents, Go!EvaluateDocument(q, d) PROVE GoInv'
  BY <1>6, GoEvaluateDocument
<1>7. ASSUME NEW q \in Executions, NEW h \in Handles, Go!NextDocument(q, h) PROVE GoInv'
  BY <1>7, GoNextDocument
<1>8. CASE Go!DrainReturn
  BY <1>8, GoDrainReturn
<1>9. CASE Go!EvaluateReturn
  BY <1>9, GoEvaluateReturn
<1> QED BY <1>1, <1>2, <1>3, <1>4, <1>5, <1>6, <1>7, <1>8, <1>9 DEF Go!Next

-----------------------------------------------------------------------------
(* Lua: an edit clears the handles of the nodes that it retires. *)

LEMMA LuaOps ==
  /\ \A n, d : Lua!NodesOf(n, d) = NodesOf(n, d)
  /\ \A n, a : Lua!Above(n, a) = Above(n, a)
  /\ \A n, k : Lua!Chains(n, k) = Chains(n, k)
  /\ \A n, d, at : Lua!NParse(n, d, at) = NParse(n, d, at)
  /\ \A n, a, at : Lua!NSetValue(n, a, at) = NSetValue(n, a, at)
  /\ \A n, d, p, at : Lua!NInsert(n, d, p, at) = NInsert(n, d, p, at)
  /\ \A n, a : Lua!NErase(n, a) = NErase(n, a)
  /\ \A n, d : Lua!NFree(n, d) = NFree(n, d)
  /\ \A n, q, d : Lua!NEdits(n, q, d) = NEdits(n, q, d)
  /\ \A n, q, ok, results : Lua!NEvaluated(n, q, ok, results) = NEvaluated(n, q, ok, results)
  /\ \A n, d : Lua!Roots(n, d) = Roots(n, d)
  /\ \A n, a : Lua!Related(n, a) = Related(n, a)
  /\ \A n, d, a, s : Lua!Node(n, d, a, s) = Node(n, d, a, s)
  /\ \A n, q, d : Lua!NEvaluates(n, q, d) <=> NEvaluates(n, q, d)
  /\ \A n, q, d : Lua!NEvaluate(n, q, d) = NEvaluate(n, q, d)
  /\ \A n, q : Lua!NDrive(n, q) = NDrive(n, q)
  /\ \A n, q, p : Lua!NDriven(n, q, p) = NDriven(n, q, p)
  /\ \A n, q : Lua!NDrives(n, q) <=> NDrives(n, q)
  /\ \A n, q : Lua!NVisits(n, q) <=> NVisits(n, q)
  /\ \A n, q : Lua!Phases(n, q) = Phases(n, q)
  /\ \A n, q : Lua!NPulls(n, q) <=> NPulls(n, q)
  /\ \A n, q, a : Lua!NPull(n, q, a) = NPull(n, q, a)
  /\ \A n, q, d : Lua!NEditable(n, q, d) <=> NEditable(n, q, d)
  /\ Lua!Fresh = Fresh
  /\ Lua!NoExec = NoExec
  /\ Lua!Idle = Idle
  /\ Lua!Untaken = Untaken
  /\ \A h : Lua!Taken(h) <=> Taken(h)
  /\ \A d : Lua!IsOpen(d) <=> IsOpen(d)
  /\ \A d : Lua!Selections(d) = Selections(d)
  /\ \A q, d, p : Lua!Call(q, d, p) = Call(q, d, p)
<1>1. \A T : Lua!Cardinality(T) = Cardinality(T)
  BY DEF Lua!Cardinality, Cardinality
<1>2. \A n, d : Lua!NodesOf(n, d) = NodesOf(n, d)
  BY DEF Lua!NodesOf, NodesOf
<1>3. \A n, a : Lua!Above(n, a) = Above(n, a)
  BY DEF Lua!Above, Above
<1>4. \A n, a : Lua!Subtree(n, a) = Subtree(n, a)
  BY DEF Lua!Above, Above, Lua!Subtree, Subtree, Lua!NodesOf, NodesOf
<1>5. \A n, S : Lua!Release(n, S) = Release(n, S)
  BY DEF Lua!Release, Release, Lua!NoNode, NoNode
<1>6. \A n, d, p, at : Lua!Allocate(n, d, p, at) = Allocate(n, d, p, at)
  BY DEF Lua!Allocate, Allocate
<1>7. \A n, d, r, e : Lua!Moved(n, d, r, e) = Moved(n, d, r, e)
  BY DEF Lua!Moved, Moved
<1>8. \A n, k : Lua!Chains(n, k) = Chains(n, k)
  BY DEF Lua!Chains, Chains, Lua!Vacant, Vacant, Lua!Live, Live, Lua!IsInjective, IsInjective
<1>9. \A n, d : Lua!Freed(n, d) = Freed(n, d)
  BY <1>5 DEF Lua!Freed, Freed, Lua!NodesOf, NodesOf, Lua!NoDocument, NoDocument
<1>10. \A n, T : Lua!Tops(n, T) = Tops(n, T)
  BY DEF Lua!Tops, Tops, Lua!Above, Above
<1>11. \A n, T : Lua!Under(n, T) = Under(n, T)
  BY DEF Lua!Under, Under, Lua!Above, Above, Lua!Subtree, Subtree, Lua!NodesOf, NodesOf
<1>12. \A n, T : Lua!Below(n, T) = Below(n, T)
  BY DEF Lua!Below, Below, Lua!Above, Above, Lua!Subtree, Subtree, Lua!NodesOf, NodesOf
<1>13. \A n, d : Lua!Doomed(n, d) = Doomed(n, d)
  BY DEF Lua!Doomed, Doomed, Lua!Above, Above, Lua!Tops, Tops, Lua!NodesOf, NodesOf
<1>14. \A n, d : Lua!Purged(n, d) = Purged(n, d)
  BY <1>1, <1>11, <1>5, <1>7, <1>13 DEF Lua!Purged, Purged
<1>15. \A n, d : Lua!Deferred(n, d) = Deferred(n, d)
  BY <1>14, <1>9 DEF Lua!Deferred, Deferred
<1>16. \A n, q : Lua!Spent(n, q) = Spent(n, q)
  BY DEF Lua!Spent, Spent
<1>17. \A n, d, at : Lua!NParse(n, d, at) = NParse(n, d, at)
  BY <1>6 DEF Lua!NParse, NParse, Lua!NoDocument, NoDocument
<1>18. \A n, a, at : Lua!NSetValue(n, a, at) = NSetValue(n, a, at)
  BY <1>6, <1>5, <1>7, <1>4 DEF Lua!NSetValue, NSetValue
<1>19. \A n, d, p, at : Lua!NInsert(n, d, p, at) = NInsert(n, d, p, at)
  BY <1>6, <1>7 DEF Lua!NInsert, NInsert
<1>20. \A n, a : Lua!Erased(n, a) = Erased(n, a)
  BY <1>7, <1>5, <1>4 DEF Lua!Erased, Erased
<1>21. \A n, a : Lua!NErase(n, a) = NErase(n, a)
  BY <1>20 DEF Lua!NErase, NErase
<1>22. \A n, d : Lua!NFree(n, d) = NFree(n, d)
  BY <1>9 DEF Lua!NFree, NFree
<1>23. \A n, q : Lua!Dominant(n, q) = Dominant(n, q)
  BY <1>10 DEF Lua!Dominant, Dominant
<1>24. \A n, q, d : Lua!NRemoved(n, q, d) = NRemoved(n, q, d)
  BY <1>1, <1>11, <1>5, <1>7, <1>23, <1>16 DEF Lua!NRemoved, NRemoved
<1>25. \A n, q, d, T : Lua!NReplaced(n, q, d, T) = NReplaced(n, q, d, T)
  BY <1>1, <1>12, <1>5, <1>7, <1>16, <1>4 DEF Lua!NReplaced, NReplaced
<1>26. \A n, q, d, a, at : Lua!NInserted(n, q, d, a, at) = NInserted(n, q, d, a, at)
  BY <1>19, <1>16 DEF Lua!NInserted, NInserted
<1>27. \A n, q, d : Lua!NEdits(n, q, d) = NEdits(n, q, d)
  BY <1>24, <1>25, <1>26, <1>1, <1>23, <1>8 DEF Lua!NEdits, NEdits
<1>28. \A n, q, ok, results : Lua!NEvaluated(n, q, ok, results) = NEvaluated(n, q, ok, results)
  <2> TAKE n, q, ok, results
  <2> DEFINE x == Deferred(n, n.exec[q].owner)
  <2>1. Lua!Deferred(n, n.exec[q].owner) = x
    BY <1>15
  <2> HIDE DEF x
  <2> QED
    BY <2>1, Zenon DEF Lua!NEvaluated, NEvaluated, x
<1>29. \A n, d : Lua!Roots(n, d) = Roots(n, d)
  BY DEF Lua!Roots, Roots, Lua!NodesOf, NodesOf
<1>30. \A n, a : Lua!Related(n, a) = Related(n, a)
  BY DEF Lua!Related, Related
<1>31. \A n, d, a, s : Lua!Node(n, d, a, s) = Node(n, d, a, s)
  BY DEF Lua!Node, Node
<1>32. \A n, q, d : Lua!NEvaluates(n, q, d) <=> NEvaluates(n, q, d)
  BY DEF Lua!NEvaluates, NEvaluates, Lua!Fresh, Fresh, Lua!NoExec, NoExec
<1>33. \A n, q, d : Lua!NEvaluate(n, q, d) = NEvaluate(n, q, d)
  BY DEF Lua!NEvaluate, NEvaluate
<1>34. \A n, q : Lua!NDrive(n, q) = NDrive(n, q)
  BY DEF Lua!NDrive, NDrive
<1>35. \A n, q, p : Lua!NDriven(n, q, p) = NDriven(n, q, p)
  BY DEF Lua!NDriven, NDriven
<1>36. \A n, q : Lua!NDrives(n, q) <=> NDrives(n, q)
  BY DEF Lua!NDrives, NDrives
<1>37. \A n, q : Lua!NVisits(n, q) <=> NVisits(n, q)
  BY DEF Lua!NVisits, NVisits, Lua!NDrives, NDrives
<1>38. \A n, q : Lua!Phases(n, q) = Phases(n, q)
  BY DEF Lua!Phases, Phases
<1>39. \A n, q : Lua!NPulls(n, q) <=> NPulls(n, q)
  BY DEF Lua!NPulls, NPulls
<1>40. \A n, q, a : Lua!NPull(n, q, a) = NPull(n, q, a)
  BY DEF Lua!NPull, NPull
<1>41. \A n, q, d : Lua!NEditable(n, q, d) <=> NEditable(n, q, d)
  BY DEF Lua!NEditable, NEditable, Lua!NPulls, NPulls
<1>42. Lua!Fresh = Fresh
  BY DEF Lua!Fresh, Fresh, Lua!NoExec, NoExec
<1>43. Lua!NoExec = NoExec
  BY DEF Lua!NoExec, NoExec
<1>44. Lua!Idle = Idle
  BY DEF Lua!Idle, Idle
<1>45. Lua!Untaken = Untaken
  BY DEF Lua!Untaken, Untaken
<1>46. \A h : Lua!Taken(h) <=> Taken(h)
  BY DEF Lua!Taken, Taken, Lua!Untaken, Untaken
<1>47. \A d : Lua!IsOpen(d) <=> IsOpen(d)
  BY DEF Lua!IsOpen, IsOpen
<1>48. \A d : Lua!Selections(d) = Selections(d)
  BY DEF Lua!Selections, Selections, Lua!NodesOf, NodesOf
<1>49. \A q, d, p : Lua!Call(q, d, p) = Call(q, d, p)
  BY DEF Lua!Call, Call
<1> QED
  BY <1>2, <1>3, <1>8, <1>17, <1>18, <1>19, <1>21, <1>22, <1>27, <1>28, <1>29, <1>30, <1>31, <1>32, <1>33, <1>34, <1>35, <1>36, <1>37, <1>38, <1>39, <1>40, <1>41, <1>42, <1>43, <1>44, <1>45, <1>46, <1>47, <1>48, <1>49

LEMMA LuaKeeps ==
  ASSUME LuaInv, Sound(native'), Objects', Running', Counted', Busy', LuaExecutions',
         NEW d \in Documents, Evolves(native, native', d), Carried, Assigned,
         \A h \in Handles :
           \/ /\ handle'[h] = handle[h]
              /\ \/ handle[h].document # d \/ handle[h].at = NULL \/ document'[d].state = "closed"
                 \/ Same(native, native', handle[h].at)
           \/ /\ handle[h] # Untaken
              /\ handle'[h].document = handle[h].document /\ handle'[h].identity = handle[h].identity
              /\ handle'[h].at = NULL
           \/ Granted(handle'[h]) /\ Denotes(native', handle'[h])
  PROVE  LuaInv'
<1>1. /\ Sound(native) /\ Objects /\ Lifetimes /\ LuaHandles
  BY DEF LuaInv, Base
<1>2. native \in Natives /\ native' \in Natives
  BY <1>1 DEF Sound
<1>3. native.identity <= native'.identity
  BY DEF Evolves, Newer
<1>4. Lifetimes'
  <2>1. \A h \in Handles :
           \/ /\ handle'[h].document = handle[h].document /\ handle'[h].identity = handle[h].identity
              /\ handle'[h] # Untaken => handle[h] # Untaken
           \/ Granted(handle'[h])
    OBVIOUS
  <2> QED BY <1>1, <1>2, <1>3, <2>1, LifetimesKeep
<1>5. Base'
  BY <1>4 DEF Base
<1>6. ASSUME NEW h \in Handles, handle'[h] # Untaken, document'[handle'[h].document].state = "open",
             handle'[h].at # NULL
      PROVE  Denotes(native', handle'[h])
  <2> DEFINE x == handle[h]
             e == x.document
  <2>1. CASE Granted(handle'[h]) /\ Denotes(native', handle'[h])
    BY <2>1
  <2>2. CASE /\ handle'[h] = x
             /\ e # d \/ x.at = NULL \/ document'[d].state = "closed" \/ Same(native, native', x.at)
    <3>1. e \in Documents /\ document[e].state # "unborn"
      BY <1>1, <1>6, <2>2 DEF Lifetimes, Objects, HandleObjects, Taken
    <3>2. document[e].state = "open"
      BY <1>6, <2>2, <3>1 DEF Carried
    <3>3. Denotes(native, x)
      BY <1>1, <1>6, <2>2, <3>2 DEF LuaHandles, Taken
    <3>4. e # d \/ Same(native, native', x.at)
      BY <1>6, <2>2
    <3>5. e # NULL
      BY <3>1, NullApart
    <3> HIDE DEF x
    <3> QED BY <2>2, <3>3, <3>4, <3>5, DenotesKept
  <2> QED BY <1>6, <2>1, <2>2
<1>7. LuaHandles'
  BY <1>6 DEF LuaHandles, Taken, Untaken
<1> QED BY <1>5, <1>7 DEF LuaInv, Guarded

\* A step of an execution that touches no document and makes no handle.
LEMMA LuaIdle ==
  ASSUME LuaInv, NEW q \in Executions, Idled(q), document' = document, handle' = handle,
         execution' \in [Executions -> ExecutionObjects], Busy',
         \A p \in Executions \ {q} : execution'[p] = execution[p],
         native'.exec[q].owner # NULL => execution'[q].document = native'.exec[q].owner
  PROVE  LuaInv'
<1>1. Base /\ Counted /\ Objects /\ LuaExecutions
  BY DEF LuaInv, Guarded, Base
<1>2. PICK d \in Documents : TRUE
  BY BindingBounds
<1>3. Unmoved /\ Sound(native') /\ ExecOnly(native, native', q) /\ Running'
      /\ native'.exec[q].owner \in {NULL, native.exec[q].owner} /\ calls' \in Seq(CallRecords)
  BY DEF Unmoved, Idled
<1>4. Steady(d) /\ \A a \in Addresses : Same(native, native', a)
  BY <1>1, <1>3, BaseExec
<1>5. Objects'
  BY <1>1, <1>3 DEF Objects
<1>6. Counted'
  BY <1>1, <1>3 DEF Counted, ExecOnly
<1>7. LuaExecutions'
  BY <1>1, <1>3 DEF LuaExecutions, ExecOnly
<1>8. \A h \in Handles : handle[h].at \in Addresses \cup {NULL}
  BY <1>1 DEF Objects, HandleObjects
<1> QED BY <1>4, <1>5, <1>6, <1>7, <1>8, LuaKeeps DEF Steady

LEMMA LuaUsable ==
  ASSUME LuaInv, NEW h \in Handles, Taken(h), handle[h].at # NULL,
         document[handle[h].document].state = "open"
  PROVE  /\ handle[h].document \in Documents
         /\ handle[h].at \in NodesOf(native, handle[h].document)
<1>1. handle[h].document \in Documents
  BY DEF LuaInv, Base, Objects, HandleObjects, Lifetimes
<1> QED BY <1>1 DEF LuaInv, LuaHandles, Denotes

LEMMA LuaParse ==
  ASSUME LuaInv, NEW d \in Documents, Lua!Parse(d)
  PROVE  LuaInv'
<1>1. Base /\ Counted /\ Busy /\ Objects /\ Lifetimes /\ LuaExecutions
  BY DEF LuaInv, Guarded, Base
<1>2. /\ document[d].state = "unborn"
      /\ document' = [document EXCEPT ![d].state = "open"]
      /\ execution' = execution /\ handle' = handle /\ calls' = calls
  BY DEF Lua!Parse, Lua!DoParse
<1>3. PICK at \in Chains(native, 2) : native' = NParse(native, d, at)
  BY LuaOps DEF Lua!Parse, Lua!DoParse
<1>4. /\ document' \in [Documents -> DocumentObjects]
      /\ document'[d].state = "open" /\ document'[d].active = document[d].active
      /\ \A e \in Documents \ {d} : document'[e] = document[e]
  BY <1>1, <1>2, DocumentOpened
<1>5. /\ Steady(d) /\ \A f \in Documents \ {d} : native'.doc[f] = native.doc[f]
      /\ native'.doc[d].callbacks = 0 /\ native'.doc[d].pending = 0 /\ native'.exec = native.exec
  BY <1>1, <1>2, <1>3, <1>4, BaseParse
<1>6. Objects' /\ LuaExecutions'
  BY <1>1, <1>2, <1>4, <1>5 DEF Objects, LuaExecutions
<1>7. Counted' /\ Busy'
  <2>1. document[d].active = 0
    BY <1>1, <1>2 DEF Counted
  <2> QED BY <1>1, <1>2, <1>4, <1>5, <2>1 DEF Counted, Busy
<1>8. \A h \in Handles : handle[h].document # d \/ handle[h].at = NULL
  BY <1>1, <1>2 DEF Lifetimes, Taken, Untaken
<1> QED BY <1>2, <1>5, <1>6, <1>7, <1>8, LuaKeeps DEF Steady

\* Handles of d are cleared; the nodes of the others stay.
LEMMA LuaClear ==
  ASSUME LuaInv, NEW d \in Documents, Steady(d), Counted', Busy', LuaExecutions',
         document' \in [Documents -> DocumentObjects], execution' = execution, calls' = calls,
         NEW S \in SUBSET Lua!Listed(d), handle' = Lua!Cleared(S),
         \A h \in Lua!Listed(d) \ S : Same(native, native', handle[h].at)
  PROVE  LuaInv'
<1>1. Objects
  BY DEF LuaInv, Base
<1>2. \A h \in Handles : h \in Lua!Listed(d) <=> handle[h].document = d /\ handle[h].at # NULL
  BY DEF Lua!Listed
<1>3. ASSUME NEW h \in Handles PROVE handle[h] \in HandleObjects /\ handle'[h] \in HandleObjects
         /\ (h \notin S => handle'[h] = handle[h])
         /\ (h \in S => /\ handle[h] # Untaken /\ handle'[h].document = handle[h].document
                        /\ handle'[h].identity = handle[h].identity /\ handle'[h].at = NULL)
  <2>1. handle[h] \in HandleObjects
    BY <1>1 DEF Objects
  <2>2. handle'[h] = IF h \in S THEN [handle[h] EXCEPT !.at = NULL] ELSE handle[h]
    BY DEF Lua!Cleared
  <2>3. CASE h \notin S
    BY <2>1, <2>2, <2>3
  <2>4. CASE h \in S
    <3>1. handle'[h] = [handle[h] EXCEPT !.at = NULL] /\ handle[h].at # NULL
      BY <1>2, <2>2, <2>4
    <3>2. /\ handle'[h] \in HandleObjects /\ handle'[h].document = handle[h].document
          /\ handle'[h].identity = handle[h].identity /\ handle'[h].at = NULL
      BY <2>1, <3>1 DEF HandleObjects
    <3> QED BY <2>1, <2>4, <3>1, <3>2 DEF Untaken
  <2> QED BY <2>3, <2>4
<1>4. handle' \in [Handles -> HandleObjects]
  <2>1. handle' = [h \in Handles |-> handle'[h]]
    BY DEF Lua!Cleared
  <2> QED BY <1>3, <2>1
<1>5. Objects'
  BY <1>1, <1>4 DEF Objects
<1>6. ASSUME NEW h \in Handles
      PROVE  \/ /\ handle'[h] = handle[h]
                /\ \/ handle[h].document # d \/ handle[h].at = NULL
                   \/ Same(native, native', handle[h].at)
             \/ /\ handle[h] # Untaken
                /\ handle'[h].document = handle[h].document /\ handle'[h].identity = handle[h].identity
                /\ handle'[h].at = NULL
  BY <1>2, <1>3
<1> QED BY <1>5, <1>6, LuaKeeps DEF Steady

LEMMA LuaCloseDocument ==
  ASSUME LuaInv, NEW d \in Documents, Lua!CloseDocument(d)
  PROVE  LuaInv'
<1>1. Base /\ Counted /\ Busy /\ Objects /\ document[d] \in DocumentObjects /\ LuaExecutions
  BY DEF LuaInv, Guarded, Base, Objects
<1>2. /\ document[d].active = 0 /\ native' = NFree(native, d)
      /\ document' = [document EXCEPT ![d].state = "closed"]
      /\ handle' = Lua!Cleared(Lua!Listed(d))
      /\ execution' = execution /\ calls' = calls
  BY LuaOps DEF Lua!CloseDocument
<1>3. native' = Freed(native, d)
  <2>1. ~(native.doc[d].callbacks > 0)
    BY <1>1, <1>2 DEF Counted
  <2> QED BY <1>2, <2>1 DEF NFree
<1> DEFINE z == [document[d] EXCEPT !.state = "closed"]
<1>4. z \in DocumentObjects /\ z.state = "closed" /\ z.active = document[d].active
  BY <1>1 DEF DocumentObjects
<1>5. document' = [document EXCEPT ![d] = z]
  BY <1>1, <1>2 DEF Objects
<1> HIDE DEF z
<1>6. /\ document' \in [Documents -> DocumentObjects] /\ document'[d] = z
      /\ \A e \in Documents \ {d} : document'[e] = document[e]
  BY <1>1, <1>4, <1>5, DocumentSet
<1>7. /\ Steady(d) /\ \A f \in Documents \ {d} : native'.doc[f] = native.doc[f]
      /\ native'.doc[d].callbacks = 0 /\ native'.doc[d].pending = 0 /\ native'.exec = native.exec
  BY <1>1, <1>2, <1>3, <1>4, <1>6, BaseFree
<1>8. LuaExecutions'
  BY <1>1, <1>2, <1>7 DEF LuaExecutions
<1>9. Counted' /\ Busy'
  BY <1>1, <1>2, <1>4, <1>6, <1>7 DEF Counted, Busy
<1> QED BY <1>2, <1>6, <1>7, <1>8, <1>9, LuaClear

\* What an edit outside callbacks leaves.
LEMMA LuaEdited ==
  ASSUME LuaInv, NEW d \in Documents, Edited(native, native', d),
         \A q \in Executions :
           /\ native'.exec[q].owner = native.exec[q].owner
           /\ native'.exec[q].revision = native.exec[q].revision
           /\ native'.exec[q].phase = native.exec[q].phase
           /\ native'.exec[q].busy = native.exec[q].busy
           /\ native'.exec[q].results \subseteq native.exec[q].results,
         document' = document, execution' = execution, calls' = calls
  PROVE  Steady(d) /\ Counted' /\ Busy' /\ LuaExecutions' /\ document' \in [Documents -> DocumentObjects]
<1>1. Base /\ Counted /\ Busy /\ LuaExecutions /\ Objects
  BY DEF LuaInv, Guarded, Base
<1>2. Unmoved
  BY DEF Unmoved
<1>3. Steady(d)
  BY <1>1, <1>2, BaseEdit
<1> QED BY <1>1, <1>3 DEF Counted, Busy, Edited, LuaExecutions, Objects

LEMMA LuaSetValue ==
  ASSUME LuaInv, NEW d \in Documents, NEW a \in NodesOf(native, d), Lua!SetValue(d, a)
  PROVE  LuaInv'
<1>1. /\ document[d].state = "open" /\ handle' = Lua!Cleared(Lua!Marked(d, a, FALSE))
      /\ document' = document /\ execution' = execution /\ calls' = calls
  BY LuaOps DEF Lua!SetValue, IsOpen
<1>2. PICK at \in Chains(native, 1) : native' = NSetValue(native, a, at)
  BY LuaOps DEF Lua!SetValue
<1>3. native \in Natives /\ Heap(native) /\ native.node[a].document = d
  BY DEF LuaInv, Base, Sound, NodesOf
<1>4. /\ Edited(native, native', d) /\ native'.exec = native.exec
      /\ \A b \in NodesOf(native, d) : (b \in Subtree(native, a) /\ b # a) \/ Same(native, native', b)
  BY <1>2, <1>3, SetValueSound
<1>5. Steady(d) /\ Counted' /\ Busy' /\ LuaExecutions' /\ document' \in [Documents -> DocumentObjects]
  BY <1>1, <1>4, LuaEdited
<1> DEFINE S == Lua!Marked(d, a, FALSE)
<1>6. /\ S \in SUBSET Lua!Listed(d)
      /\ \A h \in Lua!Listed(d) : a \in Above(native, handle[h].at) /\ handle[h].at # a => h \in S
  BY LuaOps DEF Lua!Marked
<1>7. ASSUME NEW h \in Lua!Listed(d) \ S PROVE Same(native, native', handle[h].at)
  <2>1. h \in Handles /\ handle[h].document = d /\ handle[h].at # NULL /\ Taken(h)
    BY NullApart DEF Lua!Listed, Taken, Untaken
  <2>2. handle[h].at \in NodesOf(native, d)
    BY <1>1, <2>1, LuaUsable
  <2>3. ~(a \in Above(native, handle[h].at) /\ handle[h].at # a)
    BY <1>6
  <2> QED BY <1>3, <1>4, <2>2, <2>3 DEF Subtree
<1> HIDE DEF S
<1>8. handle' = Lua!Cleared(S)
  BY <1>1 DEF S
<1> QED BY <1>1, <1>5, <1>6, <1>7, <1>8, LuaClear

LEMMA LuaErase ==
  ASSUME LuaInv, NEW d \in Documents, NEW a \in NodesOf(native, d), Lua!Erase(d, a)
  PROVE  LuaInv'
<1>1. /\ document[d].state = "open" /\ document[d].active = 0
      /\ native' = NErase(native, a) /\ handle' = Lua!Cleared(Lua!Marked(d, a, TRUE))
      /\ document' = document /\ execution' = execution /\ calls' = calls
  BY LuaOps DEF Lua!Erase, IsOpen
<1>2. native \in Natives /\ Heap(native) /\ native.node[a].document = d /\ Counted
  BY DEF LuaInv, Base, Sound, NodesOf, Guarded
<1>3. native' = Erased(native, a)
  <2>1. ~(native.doc[d].callbacks > 0)
    BY <1>1, <1>2 DEF Counted
  <2> QED BY <1>1, <1>2, <2>1 DEF NErase
<1>4. /\ Edited(native, native', d) /\ native'.exec = native.exec
      /\ \A b \in NodesOf(native, d) : b \in Subtree(native, a) \/ Same(native, native', b)
  BY <1>2, <1>3, ErasedSound
<1>5. Steady(d) /\ Counted' /\ Busy' /\ LuaExecutions' /\ document' \in [Documents -> DocumentObjects]
  BY <1>1, <1>4, LuaEdited
<1> DEFINE S == Lua!Marked(d, a, TRUE)
<1>6. /\ S \in SUBSET Lua!Listed(d)
      /\ \A h \in Lua!Listed(d) : a \in Above(native, handle[h].at) => h \in S
  BY LuaOps DEF Lua!Marked
<1>7. ASSUME NEW h \in Lua!Listed(d) \ S PROVE Same(native, native', handle[h].at)
  <2>1. h \in Handles /\ handle[h].document = d /\ handle[h].at # NULL /\ Taken(h)
    BY NullApart DEF Lua!Listed, Taken, Untaken
  <2>2. handle[h].at \in NodesOf(native, d)
    BY <1>1, <2>1, LuaUsable
  <2>3. ~(a \in Above(native, handle[h].at))
    BY <1>6
  <2> QED BY <1>2, <1>4, <2>2, <2>3 DEF Subtree
<1> HIDE DEF S
<1>8. handle' = Lua!Cleared(S)
  BY <1>1 DEF S
<1> QED BY <1>1, <1>5, <1>6, <1>7, <1>8, LuaClear

\* A handle of d is made, and every older one stays.
LEMMA LuaTake ==
  ASSUME LuaInv, NEW d \in Documents, Steady(d), Counted', Busy', LuaExecutions',
         document' = document, execution' = execution, calls' = calls, document[d].state = "open",
         \A b \in NodesOf(native, d) : Same(native, native', b),
         NEW h \in Handles, NEW n \in {native, native'}, NEW a \in NodesOf(n, d),
         Same(n, native', a), handle' = [handle EXCEPT ![h] = Node(n, d, a, 0)]
  PROVE  LuaInv'
<1>1. /\ Objects /\ native' \in Natives /\ native \in Natives /\ Heap(native) /\ Heap(native')
  BY DEF LuaInv, Base, Sound, Steady
<1> DEFINE x == Node(n, d, a, 0)
<1>2. a \in Addresses /\ n.node[a].document = d /\ n \in Natives /\ Heap(n)
  BY <1>1 DEF NodesOf
<1>3. /\ x \in HandleObjects /\ x.document = d /\ x.at = a /\ x.identity = n.node[a].identity
      /\ Denotes(n, x) /\ n.node[a].identity <= n.identity
  BY <1>2, NodeMade
<1>4. handle' = [handle EXCEPT ![h] = x]
  OBVIOUS
<1> HIDE DEF x
<1>5. /\ handle' \in [Handles -> HandleObjects] /\ handle'[h] = x
      /\ \A g \in Handles \ {h} : handle'[g] = handle[g]
  BY <1>1, <1>3, <1>4, HandleSet
<1>6. Objects'
  BY <1>1, <1>5 DEF Objects
<1>7. native'.identity \in Nat /\ n.identity \in Nat /\ n.identity <= native'.identity
      /\ n.node[a].identity \in Nat
  BY <1>1, <1>2 DEF Steady, Natives, NodeRecords, Evolves, Newer
<1>8. x.identity <= native'.identity
  BY <1>3, <1>7
<1>9. Granted(x)
  BY <1>3, <1>8 DEF Granted
<1>10. Denotes(native', x)
  BY <1>3 DEF Denotes, NodesOf, Same
<1>11. ASSUME NEW g \in Handles \ {h}
       PROVE  handle[g].document # d \/ handle[g].at = NULL \/ Same(native, native', handle[g].at)
  <2>1. CASE handle[g].document = d /\ handle[g].at # NULL
    <3>1. Taken(g)
      BY <2>1, NullApart DEF Taken, Untaken
    <3> QED BY <2>1, <3>1, LuaUsable
  <2> QED BY <2>1
<1>12. \A g \in Handles :
         \/ /\ handle'[g] = handle[g]
            /\ \/ handle[g].document # d \/ handle[g].at = NULL \/ document'[d].state = "closed"
               \/ Same(native, native', handle[g].at)
         \/ Granted(handle'[g]) /\ Denotes(native', handle'[g])
  BY <1>5, <1>9, <1>10, <1>11
<1> QED BY <1>6, <1>12, LuaKeeps DEF Steady

LEMMA LuaInsert ==
  ASSUME LuaInv, NEW d \in Documents, NEW h \in Handles, Lua!Insert(d, h)
  PROVE  LuaInv'
<1>1. /\ document[d].state = "open"
      /\ document' = document /\ execution' = execution /\ calls' = calls
  BY LuaOps DEF Lua!Insert, IsOpen
<1>2. PICK at \in Chains(native, 1), parent \in {NULL} \cup NodesOf(native, d) :
           /\ Len(at) = 1 /\ native' = NInsert(native, d, parent, at)
           /\ handle' = [handle EXCEPT ![h] = Node(native', d, at[1], 0)]
  BY LuaOps DEF Lua!Insert
<1>3. native \in Natives /\ Heap(native) /\ native.doc[d].alive
  BY <1>1 DEF LuaInv, Base, Sound, Lifetimes
<1>4. parent \in Addresses \cup {NULL} /\ (parent # NULL => native.node[parent].document = d)
  BY DEF NodesOf
<1>5. /\ Edited(native, native', d) /\ native'.exec = native.exec
      /\ \A i \in 1 .. Len(at) : at[i] \in Addresses /\ native'.node[at[i]].document = d
      /\ \A b \in NodesOf(native, d) : Same(native, native', b)
  BY <1>2, <1>3, <1>4, InsertSound
<1>6. at[1] \in NodesOf(native', d) /\ Same(native', native', at[1])
  BY <1>2, <1>5 DEF NodesOf, Same
<1>7. Steady(d) /\ Counted' /\ Busy' /\ LuaExecutions'
  BY <1>1, <1>5, LuaEdited
<1> QED BY <1>1, <1>2, <1>5, <1>6, <1>7, LuaTake

LEMMA LuaNavigate ==
  ASSUME LuaInv, NEW h \in Handles, NEW d \in Documents, NEW a \in Addresses, Lua!Navigate(h, d, a)
  PROVE  LuaInv'
<1>1. /\ document[d].state = "open"
      /\ handle' = [handle EXCEPT ![h] = Node(native, d, a, 0)]
      /\ native' = native /\ document' = document /\ execution' = execution /\ calls' = calls
  BY LuaOps DEF Lua!Navigate, IsOpen
<1>2. Base /\ Unmoved /\ native \in Natives /\ Heap(native) /\ Counted /\ Busy /\ LuaExecutions
  BY <1>1 DEF LuaInv, Unmoved, Base, Sound, Guarded
<1>3. a \in NodesOf(native, d)
  <2>1. CASE a \in Roots(native, d)
    BY <2>1 DEF Roots
  <2>2. ASSUME NEW g \in Handles, Lua!Usable(g), handle[g].document = d, a \in Related(native, handle[g].at)
        PROVE  a \in NodesOf(native, d)
    <3>1. Taken(g) /\ handle[g].at # NULL /\ document[handle[g].document].state = "open"
      BY <2>2, LuaOps DEF Lua!Usable, IsOpen
    <3>2. handle[g].at \in NodesOf(native, d)
      BY <2>2, <3>1, LuaUsable
    <3> QED BY <1>2, <2>2, <3>2, RelatedIn
  <2> QED BY <2>1, <2>2, LuaOps DEF Lua!Navigate
<1>4. Steady(d) /\ \A b \in Addresses : Same(native, native', b)
  BY <1>1, <1>2, BaseStill
<1>5. Counted' /\ Busy' /\ LuaExecutions'
  BY <1>1, <1>2 DEF Counted, Busy, LuaExecutions
<1> QED BY <1>1, <1>3, <1>4, <1>5, LuaTake DEF NodesOf

LEMMA LuaNextDocument ==
  ASSUME LuaInv, NEW q \in Executions, NEW h \in Handles, Lua!NextDocument(q, h)
  PROVE  LuaInv'
<1> DEFINE d == execution[q].document
<1>1. /\ Base /\ Objects /\ Lifetimes /\ Sound(native) /\ native \in Natives /\ Counted /\ Busy
      /\ LuaExecutions
  BY DEF LuaInv, Base, Sound, Guarded
<1>2. /\ d # NULL /\ document[d].state = "open" /\ NPulls(native, q)
      /\ document' = document /\ execution' = execution /\ calls' = calls
  BY LuaOps DEF Lua!NextDocument, Lua!DoNext, Lua!Check, IsOpen
<1>3. PICK a \in native.exec[q].results :
        /\ native' = NPull(native, q, a)
        /\ handle' = [handle EXCEPT ![h] = Node(native, d, a, 0)]
  BY LuaOps DEF Lua!NextDocument, Lua!DoNext
<1>4. d \in Documents /\ native.exec[q].owner = d
  BY <1>1, <1>2 DEF Objects, ExecutionObjects, LuaExecutions, NPulls
<1> HIDE DEF d
<1>5. a \in NodesOf(native, d)
  <2>1. native.doc[d].alive
    BY <1>1, <1>2, <1>4 DEF Lifetimes
  <2> QED BY <1>1, <1>2, <1>3, <1>4, <2>1, Editable
<1>6. /\ Sound(native') /\ ExecOnly(native, native', q)
      /\ native'.exec[q].owner = native.exec[q].owner /\ native'.exec[q].busy = native.exec[q].busy
  BY <1>1, <1>3, PullKeepsSound
<1>7. Running'
  BY <1>1, <1>2, <1>6, ExecIdle
<1>8. Unmoved
  BY <1>2 DEF Unmoved
<1>9. Steady(d) /\ \A b \in Addresses : Same(native, native', b)
  BY <1>1, <1>4, <1>6, <1>7, <1>8, BaseExec
<1>10. Counted' /\ Busy' /\ LuaExecutions'
  BY <1>1, <1>2, <1>6 DEF Counted, Busy, LuaExecutions, ExecOnly
<1> QED BY <1>2, <1>3, <1>4, <1>5, <1>9, <1>10, LuaTake DEF NodesOf

LEMMA LuaDropProgram ==
  ASSUME LuaInv, Lua!DropProgram
  PROVE  LuaInv'
<1>1. /\ native' = native /\ document' = document /\ execution' = execution /\ handle' = handle
      /\ calls' = calls
  BY DEF Lua!DropProgram, Lua!DoRelease
<1> QED BY <1>1 DEF LuaInv, Base, Guarded, LuaHandles, LuaExecutions, Sound, Objects, Lifetimes, Running,
                    Counted, Busy, Taken, Untaken, Denotes

\* A step of an execution outside its callbacks.
LEMMA LuaIdled ==
  ASSUME LuaInv, NEW q \in Executions, Idled(q), calls' = calls,
         document' = document, handle' = handle, NEW z \in ExecutionObjects,
         execution' = [execution EXCEPT ![q] = z], ~execution[q].busy,
         native'.exec[q].owner # NULL => z.document = native'.exec[q].owner
  PROVE  LuaInv'
<1>1. Busy /\ Objects
  BY DEF LuaInv, Guarded, Base
<1>2. /\ execution' \in [Executions -> ExecutionObjects] /\ execution'[q] = z
      /\ \A p \in Executions \ {q} : execution'[p] = execution[p]
  BY <1>1, ExecutionSet
<1>3. Busy'
  BY <1>1, <1>2, BusySame
<1> QED BY <1>2, <1>3, LuaIdle

LEMMA LuaNewExecution ==
  ASSUME LuaInv, NEW q \in Executions, Lua!NewExecution(q)
  PROVE  LuaInv'
<1>1. /\ execution[q] = Idle /\ native' = [native EXCEPT !.exec[q] = Fresh]
      /\ execution' = [execution EXCEPT ![q].open = TRUE]
      /\ document' = document /\ handle' = handle /\ calls' = calls
  BY LuaOps DEF Lua!NewExecution, Lua!DoCreate
<1>2. Base /\ Busy /\ Objects /\ execution[q] \in ExecutionObjects
  BY DEF LuaInv, Guarded, Base, Objects
<1>3. ~execution[q].busy
  BY <1>1 DEF Idle
<1>4. Idled(q) /\ native'.exec[q].owner = NULL
  BY <1>1, <1>2, <1>3, NotRunning, IdledSet
<1> DEFINE z == [execution[q] EXCEPT !.open = TRUE]
<1>5. z \in ExecutionObjects
  BY <1>2, ExecutionValues
<1>6. execution' = [execution EXCEPT ![q] = z]
  BY <1>1, <1>2 DEF Objects
<1> HIDE DEF z
<1> QED BY <1>1, <1>3, <1>4, <1>5, <1>6, LuaIdled

LEMMA LuaCloseExecution ==
  ASSUME LuaInv, NEW q \in Executions, Lua!CloseExecution(q)
  PROVE  LuaInv'
<1> DEFINE z == [Idle EXCEPT !.invalid = TRUE]
<1>1. /\ ~execution[q].busy /\ native' = [native EXCEPT !.exec[q] = NoExec]
      /\ execution' = [execution EXCEPT ![q] = z]
      /\ document' = document /\ handle' = handle /\ calls' = calls
  BY LuaOps DEF Lua!CloseExecution, Lua!DoDispose
<1>2. Base /\ Busy /\ Objects
  BY DEF LuaInv, Guarded, Base
<1>3. Idled(q) /\ native'.exec[q].owner = NULL
  BY <1>1, <1>2, NotRunning, IdledSet
<1>4. z \in ExecutionObjects
  BY <1>2, ExecutionValues DEF Objects
<1> HIDE DEF z
<1> QED BY <1>1, <1>3, <1>4, LuaIdled

LEMMA LuaReset ==
  ASSUME LuaInv, NEW q \in Executions, Lua!Reset(q)
  PROVE  LuaInv'
<1> DEFINE z == [Idle EXCEPT !.open = TRUE]
<1>1. /\ ~execution[q].busy /\ native' = [native EXCEPT !.exec[q] = Fresh]
      /\ execution' = [execution EXCEPT ![q] = z]
      /\ document' = document /\ handle' = handle /\ calls' = calls
  BY LuaOps DEF Lua!Reset, Lua!DoReset, Lua!Ready
<1>2. Base /\ Busy /\ Objects
  BY DEF LuaInv, Guarded, Base
<1>3. Idled(q) /\ native'.exec[q].owner = NULL
  BY <1>1, <1>2, NotRunning, IdledSet
<1>4. z \in ExecutionObjects
  BY <1>2, ExecutionValues DEF Objects
<1> HIDE DEF z
<1> QED BY <1>1, <1>3, <1>4, LuaIdled

LEMMA LuaSetInput ==
  ASSUME LuaInv, NEW q \in Executions, Lua!SetInput(q)
  PROVE  LuaInv'
<1>1. /\ ~execution[q].busy /\ document' = document /\ handle' = handle /\ calls' = calls
  BY DEF Lua!SetInput, Lua!Check, Lua!Ready
<1>2. PICK taken \in BOOLEAN :
        /\ execution' = [execution EXCEPT ![q].pins = @ + 1, ![q].reader = @ \/ taken]
        /\ native' = IF taken THEN [native EXCEPT !.exec[q].windows = @ + 1] ELSE native
  BY DEF Lua!SetInput
<1>3. Base /\ Objects /\ execution[q] \in ExecutionObjects /\ LuaExecutions
  BY DEF LuaInv, Base, Objects
<1>4. Idled(q) /\ native'.exec[q].owner = native.exec[q].owner
  <2>1. CASE taken
    BY <1>1, <1>2, <1>3, <2>1, IdledWindow
  <2>2. CASE ~taken
    BY <1>1, <1>2, <1>3, <2>2, IdledStill
  <2> QED BY <2>1, <2>2
<1> DEFINE k == execution[q].pins + 1
           b == execution[q].reader \/ taken
           z == [execution[q] EXCEPT !.pins = k, !.reader = b]
<1>5. k \in Int /\ b \in BOOLEAN
  BY <1>3 DEF ExecutionObjects
<1>6. execution' = [execution EXCEPT ![q] = z]
  BY <1>2, <1>3 DEF Objects
<1> HIDE DEF k, b
<1>7. z \in ExecutionObjects /\ z.document = execution[q].document
  BY <1>3, <1>5 DEF ExecutionObjects
<1> HIDE DEF z
<1>8. native'.exec[q].owner # NULL => z.document = native'.exec[q].owner
  BY <1>3, <1>4, <1>7 DEF LuaExecutions
<1> QED BY <1>1, <1>4, <1>6, <1>7, <1>8, LuaIdled

LEMMA LuaBind ==
  ASSUME LuaInv, NEW q \in Executions, Lua!Bind(q)
  PROVE  LuaInv'
<1>1. /\ ~execution[q].busy /\ document' = document /\ handle' = handle /\ calls' = calls
      /\ execution' = [execution EXCEPT ![q].pins = @ + 1]
      /\ native' = IF native.exec[q].phase = "fresh"
                   THEN [native EXCEPT !.exec[q].windows = @ + 1] ELSE native
  BY DEF Lua!Bind, Lua!Check, Lua!Ready
<1>2. Base /\ Objects /\ execution[q] \in ExecutionObjects /\ LuaExecutions
  BY DEF LuaInv, Base, Objects
<1>3. Idled(q) /\ native'.exec[q].owner = native.exec[q].owner
  <2>1. CASE native.exec[q].phase = "fresh"
    BY <1>1, <1>2, <2>1, IdledWindow
  <2>2. CASE native.exec[q].phase # "fresh"
    BY <1>1, <1>2, <2>2, IdledStill
  <2> QED BY <2>1, <2>2
<1> DEFINE k == execution[q].pins + 1
           z == [execution[q] EXCEPT !.pins = k]
<1>4. k \in Int
  BY <1>2 DEF ExecutionObjects
<1>5. execution' = [execution EXCEPT ![q] = z]
  BY <1>1, <1>2 DEF Objects
<1> HIDE DEF k
<1>6. z \in ExecutionObjects /\ z.document = execution[q].document
  BY <1>2, <1>4 DEF ExecutionObjects
<1> HIDE DEF z
<1>7. native'.exec[q].owner # NULL => z.document = native'.exec[q].owner
  BY <1>2, <1>3, <1>6 DEF LuaExecutions
<1> QED BY <1>1, <1>3, <1>5, <1>6, <1>7, LuaIdled

LEMMA LuaFeed ==
  ASSUME LuaInv, NEW q \in Executions, Lua!Feed(q)
  PROVE  LuaInv'
<1>1. /\ ~execution[q].busy
      /\ execution' = [execution EXCEPT ![q].pins = @ + 1, ![q].fed = TRUE, ![q].busy = NDrives(native, q)]
      /\ native' = IF NDrives(native, q)
                   THEN NDrive([native EXCEPT !.exec[q].windows = @ + 1], q) ELSE native
      /\ calls' = IF NDrives(native, q) THEN Call(q, NULL, TRUE) ELSE calls
      /\ document' = document /\ handle' = handle
  <2>1. Lua!NDrives(native, q) = NDrives(native, q)
    BY DEF Lua!NDrives, NDrives
  <2>2. /\ \A n, r : Lua!NDrive(n, r) = NDrive(n, r)
        /\ \A r, d, p : Lua!Call(r, d, p) = Call(r, d, p)
    BY LuaOps
  <2> QED BY <2>1, <2>2 DEF Lua!Feed, Lua!Check, Lua!Ready, Lua!DoFeed
<1>2. Base /\ Busy /\ Objects /\ execution[q] \in ExecutionObjects /\ LuaExecutions
  BY DEF LuaInv, Guarded, Base, Objects
<1> DEFINE b == NDrives(native, q)
           z == [execution[q] EXCEPT !.pins = execution[q].pins + 1, !.fed = TRUE, !.busy = b]
<1>3. b \in BOOLEAN
  BY DEF NDrives
<1>4. execution' = [execution EXCEPT ![q] = z]
  BY <1>1, <1>2 DEF Objects
<1> HIDE DEF b
<1>5. z \in ExecutionObjects /\ z.busy = b /\ z.document = execution[q].document
  BY <1>2, <1>3, ExecutionValues
<1> HIDE DEF z
<1>6. CASE ~b
  <2>1. Idled(q) /\ calls' = calls /\ native' = native
    BY <1>1, <1>2, <1>6, IdledStill DEF b
  <2>2. native'.exec[q].owner # NULL => z.document = native'.exec[q].owner
    BY <1>2, <1>5, <2>1 DEF LuaExecutions
  <2> QED BY <1>1, <1>4, <1>5, <2>1, <2>2, LuaIdled
<1>7. CASE b
  <2>1. NDrives(native, q) /\ calls' = Call(q, NULL, TRUE)
        /\ native' = NDrive([native EXCEPT !.exec[q].windows = @ + 1], q)
    BY <1>1, <1>7 DEF b
  <2>2. Idled(q) /\ native'.exec[q].owner = NULL
    BY <1>2, <2>1, IdledDrive
  <2>3. /\ execution' \in [Executions -> ExecutionObjects] /\ execution'[q] = z
        /\ \A p \in Executions \ {q} : execution'[p] = execution[p]
    BY <1>2, <1>4, <1>5, ExecutionSet
  <2>4. Busy'
    BY <1>2, <1>5, <1>7, <2>1, <2>3, BusyPushed
  <2> QED BY <1>1, <2>2, <2>3, <2>4, LuaIdle
<1> QED BY <1>6, <1>7

LEMMA LuaDrain ==
  ASSUME LuaInv, NEW q \in Executions, Lua!Drain(q)
  PROVE  LuaInv'
<1>1. PICK p \in BOOLEAN :
        /\ NVisits(native, q) /\ native' = NDrive(native, q) /\ calls' = Call(q, NULL, p)
        /\ execution' = [execution EXCEPT ![q].busy = TRUE]
        /\ document' = document /\ handle' = handle
  BY LuaOps DEF Lua!Drain, Lua!DoDrive
<1>2. Base /\ Busy /\ Objects /\ execution[q] \in ExecutionObjects
  BY DEF LuaInv, Guarded, Base, Objects
<1>3. Idled(q) /\ native'.exec[q].owner = NULL
  BY <1>1, <1>2, IdledDrive
<1> DEFINE z == [execution[q] EXCEPT !.busy = TRUE]
<1>4. execution' = [execution EXCEPT ![q] = z]
  BY <1>1, <1>2 DEF Objects
<1>5. z \in ExecutionObjects /\ z.busy
  BY <1>2, ExecutionValues
<1> HIDE DEF z
<1>6. /\ execution' \in [Executions -> ExecutionObjects] /\ execution'[q] = z
      /\ \A r \in Executions \ {q} : execution'[r] = execution[r]
  BY <1>2, <1>4, <1>5, ExecutionSet
<1>7. Busy'
  BY <1>1, <1>2, <1>5, <1>6, BusyPushed
<1> QED BY <1>1, <1>3, <1>6, <1>7, LuaIdle

LEMMA LuaDrainReturn ==
  ASSUME LuaInv, Lua!DrainReturn
  PROVE  LuaInv'
<1> DEFINE q == Head(calls).execution
           z == [execution[q] EXCEPT !.busy = FALSE]
<1>1. /\ calls # <<>> /\ Head(calls).document = NULL /\ calls' = Tail(calls)
      /\ execution' = [execution EXCEPT ![q].busy = FALSE]
      /\ document' = document /\ handle' = handle
  BY DEF Lua!DrainReturn, Lua!DoDriven
<1>2. PICK phase \in Phases(native, q) : native' = NDriven(native, q, phase)
  BY LuaOps DEF Lua!DrainReturn, Lua!DoDriven
<1>3. Base /\ Busy /\ Objects /\ Running
  BY DEF LuaInv, Guarded, Base
<1>4. q \in Executions /\ Idled(q) /\ native'.exec[q].owner = NULL
  BY <1>1, <1>2, <1>3, IdledDriven
<1>5. execution[q] \in ExecutionObjects /\ execution' = [execution EXCEPT ![q] = z]
  BY <1>1, <1>3, <1>4 DEF Objects
<1>6. z \in ExecutionObjects
  BY <1>5, ExecutionValues
<1> HIDE DEF z
<1>7. /\ execution' \in [Executions -> ExecutionObjects]
      /\ \A p \in Executions \ {q} : execution'[p] = execution[p]
  BY <1>3, <1>4, <1>5, <1>6, ExecutionSet
<1>8. Busy'
  BY <1>1, <1>3, <1>7, BusyPopped
<1> HIDE DEF q
<1> QED BY <1>1, <1>4, <1>7, <1>8, LuaIdle

LEMMA LuaEvaluateDocument ==
  ASSUME LuaInv, NEW q \in Executions, NEW d \in Documents, Lua!EvaluateDocument(q, d)
  PROVE  LuaInv'
<1> DEFINE runs == NEvaluates(native, q, d)
           z == [execution[q] EXCEPT !.document = d, !.busy = runs]
<1>1. /\ Base /\ Objects /\ Counted /\ Busy /\ execution[q] \in ExecutionObjects
      /\ document[d] \in DocumentObjects /\ LuaExecutions
  BY DEF LuaInv, Base, Guarded, Objects
<1>2. Lua!NEvaluates(native, q, d) = NEvaluates(native, q, d)
  BY DEF Lua!NEvaluates, NEvaluates, Lua!Fresh, Fresh, Lua!NoExec, NoExec
<1>3. /\ \A n, r, e : Lua!NEvaluate(n, r, e) = NEvaluate(n, r, e)
      /\ \A r, e, p : Lua!Call(r, e, p) = Call(r, e, p)
      /\ \A e : Lua!IsOpen(e) <=> IsOpen(e)
  BY LuaOps
<1>4. /\ document[d].state = "open" /\ ~execution[q].busy /\ handle' = handle
      /\ execution[q].document = NULL
      /\ execution' = [execution EXCEPT ![q].document = d, ![q].busy = runs]
      /\ document' = IF runs THEN [document EXCEPT ![d].active = @ + 1] ELSE document
      /\ native' = IF runs THEN NEvaluate(native, q, d) ELSE native
      /\ calls' = IF runs THEN Call(q, d, TRUE) ELSE calls
  BY <1>2, <1>3 DEF Lua!EvaluateDocument, Lua!Check, Lua!Ready, IsOpen
<1>5. runs \in BOOLEAN
  BY DEF NEvaluates
<1>6. execution' = [execution EXCEPT ![q] = z]
  BY <1>1, <1>4 DEF Objects
<1>7. runs => NEvaluates(native, q, d)
  OBVIOUS
<1> HIDE DEF runs
<1>8. z \in ExecutionObjects /\ z.busy = runs /\ z.document = d
  BY <1>1, <1>5 DEF ExecutionObjects
<1> HIDE DEF z
<1>9. native.exec[q].owner = NULL
  <2>1. d # NULL
    BY NullApart
  <2> QED BY <1>1, <1>4 DEF LuaExecutions
<1>10. CASE ~runs
  <2>1. Idled(q) /\ calls' = calls /\ document' = document /\ native' = native
    BY <1>1, <1>4, <1>10, IdledStill
  <2> QED BY <1>4, <1>6, <1>8, <1>9, <2>1, LuaIdled
<1>11. CASE runs
  <2> DEFINE k == document[d].active + 1
  <2>1. k \in Int /\ document' = [document EXCEPT ![d].active = k]
    BY <1>1, <1>4, <1>11 DEF DocumentObjects
  <2>2. k = document[d].active + 1 /\ document[d].active \in Int
    BY <1>1 DEF DocumentObjects
  <2> HIDE DEF k
  <2>3. /\ document' \in [Documents -> DocumentObjects]
        /\ document'[d].state = document[d].state /\ document'[d].active = k
        /\ \A e \in Documents \ {d} : document'[e] = document[e]
    BY <1>1, <2>1, DocumentCalled
  <2>4. Unmoved
    BY <2>3 DEF Unmoved
  <2>5. NEvaluates(native, q, d) /\ native' = NEvaluate(native, q, d) /\ calls' = Call(q, d, TRUE)
    BY <1>4, <1>7, <1>11
  <2>6. /\ Steady(d) /\ calls' \in Seq(CallRecords)
        /\ \A a \in Addresses : Same(native, native', a)
        /\ \A r \in Executions \ {q} : native'.exec[r] = native.exec[r]
        /\ native'.exec[q].owner = d
        /\ native'.doc[d].callbacks = native.doc[d].callbacks + 1
        /\ \A f \in Documents \ {d} : native'.doc[f] = native.doc[f]
        /\ native'.doc[d].pending = native.doc[d].pending
    BY <1>1, <1>4, <2>4, <2>5, BaseEvaluate
  <2>7. /\ execution' \in [Executions -> ExecutionObjects] /\ execution'[q] = z
        /\ \A p \in Executions \ {q} : execution'[p] = execution[p]
    BY <1>1, <1>6, <1>8, ExecutionSet
  <2>8. Busy'
    BY <1>1, <1>8, <1>11, <2>5, <2>7, BusyPushed
  <2>9. Objects'
    BY <1>1, <1>4, <2>3, <2>6, <2>7 DEF Objects
  <2>10. Counted'
    BY <1>1, <1>4, <2>2, <2>3, <2>6 DEF Counted
  <2>11. LuaExecutions'
    BY <1>1, <1>8, <2>6, <2>7 DEF LuaExecutions
  <2>12. \A h \in Handles : handle[h].at \in Addresses \cup {NULL}
    BY <1>1 DEF Objects, HandleObjects
  <2> QED BY <1>4, <2>6, <2>8, <2>9, <2>10, <2>11, <2>12, LuaKeeps DEF Steady
<1> QED BY <1>10, <1>11

LEMMA LuaEvaluateReturn ==
  ASSUME LuaInv, Lua!EvaluateReturn
  PROVE  LuaInv'
<1> DEFINE q == Head(calls).execution
           d == Head(calls).document
           z == [execution[q] EXCEPT !.busy = FALSE]
<1>1. /\ calls # <<>> /\ d # NULL /\ calls' = Tail(calls)
      /\ execution' = [execution EXCEPT ![q].busy = FALSE]
      /\ document' = [document EXCEPT ![d].active = @ - 1]
      /\ handle' = handle
  BY DEF Lua!EvaluateReturn, Lua!DoEvaluated
<1>2. PICK ok \in BOOLEAN, S \in SUBSET NodesOf(native, d) : native' = NEvaluated(native, q, ok, S)
  BY LuaOps DEF Lua!EvaluateReturn, Lua!DoEvaluated, Selections
<1>3. Base /\ Busy /\ Counted /\ Objects /\ Running /\ LuaExecutions
  BY DEF LuaInv, Guarded, Base
<1>4. q \in Executions /\ d \in Documents /\ document[d].state # "unborn"
  BY <1>1, <1>3, Innermost
<1>5. execution[q] \in ExecutionObjects /\ execution' = [execution EXCEPT ![q] = z]
  BY <1>1, <1>3, <1>4 DEF Objects
<1>6. z \in ExecutionObjects /\ z.document = execution[q].document
  BY <1>5, ExecutionValues
<1> HIDE DEF z
<1>7. /\ execution' \in [Executions -> ExecutionObjects] /\ execution'[q] = z
      /\ \A p \in Executions \ {q} : execution'[p] = execution[p]
  BY <1>3, <1>4, <1>5, <1>6, ExecutionSet
<1>8. Busy'
  BY <1>1, <1>3, <1>7, BusyPopped
<1>9. Head(calls).execution = q /\ Head(calls).document = d
  OBVIOUS
<1> HIDE DEF q, d
<1>10. document[d].active - 1 \in Int
  BY <1>3, <1>4 DEF Objects, DocumentObjects
<1>11. /\ document' \in [Documents -> DocumentObjects]
       /\ document'[d].state = document[d].state /\ document'[d].active = document[d].active - 1
       /\ \A e \in Documents \ {d} : document'[e] = document[e]
  <2> DEFINE k == document[d].active - 1
  <2>1. document' = [document EXCEPT ![d].active = k] /\ k \in Int
    BY <1>1, <1>10
  <2> HIDE DEF k
  <2>2. /\ document' \in [Documents -> DocumentObjects]
        /\ document'[d].state = document[d].state /\ document'[d].active = k
        /\ \A e \in Documents \ {d} : document'[e] = document[e]
    BY <1>3, <1>4, <2>1, DocumentCalled
  <2> QED BY <2>2 DEF k
<1>12. Unmoved /\ native.doc[d].pending = 0
  BY <1>3, <1>4, <1>11 DEF Unmoved, Counted
<1>13. /\ Steady(d) /\ calls' \in Seq(CallRecords)
       /\ \A r \in Executions \ {q} : native'.exec[r] = native.exec[r]
       /\ native.exec[q].owner = d /\ native'.exec[q].owner \in {d, NULL}
       /\ \A f \in Documents \ {d} : native'.doc[f] = native.doc[f]
       /\ \A a \in Addresses : Same(native, native', a)
       /\ native'.doc[d].callbacks = native.doc[d].callbacks - 1
       /\ native'.doc[d].pending = 0
  BY <1>1, <1>2, <1>3, <1>4, <1>9, <1>12, BaseEvaluated
<1>14. Objects'
  BY <1>1, <1>3, <1>7, <1>11, <1>13 DEF Objects
<1>15. Counted'
  BY <1>3, <1>4, <1>11, <1>13 DEF Counted
<1>16. LuaExecutions'
  BY <1>3, <1>4, <1>6, <1>7, <1>13 DEF LuaExecutions
<1>17. \A h \in Handles : handle[h].at \in Addresses \cup {NULL}
  BY <1>3 DEF Objects, HandleObjects
<1> QED BY <1>1, <1>4, <1>8, <1>13, <1>14, <1>15, <1>16, <1>17, LuaKeeps DEF Steady

LEMMA LuaEditDocument ==
  ASSUME LuaInv, NEW q \in Executions, Lua!EditDocument(q)
  PROVE  LuaInv'
<1> DEFINE d == execution[q].document
<1>1. /\ Base /\ Objects /\ Lifetimes /\ Sound(native) /\ native \in Natives /\ Heap(native)
  BY DEF LuaInv, Base, Sound
<1>2. /\ d # NULL /\ document[d].state = "open" /\ NEditable(native, q, d)
      /\ document' = document /\ execution' = execution /\ calls' = calls
  BY LuaOps DEF Lua!EditDocument, Lua!Check, IsOpen
<1>3. PICK r \in NEdits(native, q, d) :
        /\ native' = r.native
        /\ handle' = IF r.applied > 0 THEN Lua!Cleared(Lua!Listed(d)) ELSE handle
  BY LuaOps DEF Lua!EditDocument
<1>4. d \in Documents
  BY <1>1, <1>2 DEF Objects, ExecutionObjects
<1> HIDE DEF d
<1>5. native.doc[d].alive /\ NPulls(native, q) /\ native.exec[q].owner = d
  BY <1>1, <1>2, <1>4 DEF Lifetimes, NEditable
<1>6. native.exec[q].results \subseteq NodesOf(native, d)
  BY <1>1, <1>4, <1>5, Editable
<1>7. /\ Edited(native, native', d) /\ r.applied \in Nat
      /\ native'.doc[d].revision = native.doc[d].revision + r.applied
      /\ native'.exec[q].results = {} /\ native'.exec[q].owner = native.exec[q].owner
      /\ native'.exec[q].revision = native.exec[q].revision /\ native'.exec[q].phase = native.exec[q].phase
      /\ native'.exec[q].busy = native.exec[q].busy
      /\ \A p \in Executions \ {q} : native'.exec[p] = native.exec[p]
  BY <1>1, <1>3, <1>4, <1>5, <1>6, EditsSound
<1>8. \A p \in Executions :
        /\ native'.exec[p].owner = native.exec[p].owner
        /\ native'.exec[p].revision = native.exec[p].revision
        /\ native'.exec[p].phase = native.exec[p].phase
        /\ native'.exec[p].busy = native.exec[p].busy
        /\ native'.exec[p].results \subseteq native.exec[p].results
  BY <1>7
<1>9. Steady(d) /\ Counted' /\ Busy' /\ LuaExecutions' /\ document' \in [Documents -> DocumentObjects]
  BY <1>2, <1>4, <1>7, <1>8, LuaEdited
<1>10. CASE r.applied > 0
  <2> DEFINE S == Lua!Listed(d)
  <2>1. S \in SUBSET Lua!Listed(d) /\ handle' = Lua!Cleared(S) /\ Lua!Listed(d) \ S = {}
    BY <1>3, <1>10
  <2> HIDE DEF S
  <2> QED BY <1>2, <1>4, <1>9, <2>1, LuaClear
<1>11. CASE r.applied = 0
  <2>1. handle' = handle
    BY <1>3, <1>11
  <2>2. native.doc[d].revision \in Nat
    BY <1>1, <1>4 DEF Natives, DocumentRecords
  <2>3. ~(native.doc[d].revision < native'.doc[d].revision)
    BY <1>7, <1>11, <2>2
  <2>4. \A a \in Addresses : native.node[a].document = d => Same(native, native', a)
    BY <1>4, <1>5, <1>7, <2>3 DEF Edited, Evolves, Noted
  <2>5. ASSUME NEW h \in Handles, handle[h].document = d, handle[h].at # NULL
        PROVE  Same(native, native', handle[h].at)
    <3>1. Taken(h)
      BY <1>4, <2>5, NullApart DEF Taken, Untaken
    <3>2. handle[h].at \in NodesOf(native, d)
      BY <1>2, <2>5, <3>1, LuaUsable
    <3> QED BY <2>4, <3>2 DEF NodesOf
  <2>6. Objects'
    BY <1>1, <1>2, <2>1 DEF Objects
  <2> QED BY <1>4, <1>9, <2>1, <2>5, <2>6, LuaKeeps DEF Steady
<1> QED BY <1>7, <1>10, <1>11

LEMMA LuaStep ==
  ASSUME LuaInv, Lua!Next
  PROVE  LuaInv'
<1>1. ASSUME NEW d \in Documents,
             \/ Lua!Parse(d) \/ Lua!CloseDocument(d)
             \/ \E a \in NodesOf(native, d) : Lua!SetValue(d, a) \/ Lua!Erase(d, a)
      PROVE  LuaInv'
  BY <1>1, LuaParse, LuaCloseDocument, LuaSetValue, LuaErase
<1>2. ASSUME NEW h \in Handles, NEW d \in Documents,
             Lua!Insert(d, h) \/ \E a \in Addresses : Lua!Navigate(h, d, a)
      PROVE  LuaInv'
  BY <1>2, LuaInsert, LuaNavigate
<1>3. CASE Lua!DropProgram
  BY <1>3, LuaDropProgram
<1>4. ASSUME NEW q \in Executions, \/ Lua!NewExecution(q) \/ Lua!CloseExecution(q) \/ Lua!Reset(q)
                                   \/ Lua!SetInput(q) \/ Lua!Bind(q) \/ Lua!Feed(q) \/ Lua!Drain(q)
                                   \/ Lua!EditDocument(q)
      PROVE  LuaInv'
  BY <1>4, LuaNewExecution, LuaCloseExecution, LuaReset, LuaSetInput, LuaBind, LuaFeed, LuaDrain, LuaEditDocument
<1>5. ASSUME NEW q \in Executions, NEW d \in Documents, Lua!EvaluateDocument(q, d) PROVE LuaInv'
  BY <1>5, LuaEvaluateDocument
<1>6. ASSUME NEW q \in Executions, NEW h \in Handles, Lua!NextDocument(q, h) PROVE LuaInv'
  BY <1>6, LuaNextDocument
<1>7. CASE Lua!DrainReturn
  BY <1>7, LuaDrainReturn
<1>8. CASE Lua!EvaluateReturn
  BY <1>8, LuaEvaluateReturn
<1>9. \A d : Lua!NodesOf(native, d) = NodesOf(native, d)
  BY LuaOps
<1> QED BY <1>1, <1>2, <1>3, <1>4, <1>5, <1>6, <1>7, <1>8, <1>9 DEF Lua!Next

-----------------------------------------------------------------------------
(* C++: a handle is looked up again when the epoch of its document has moved. *)

LEMMA CppOps ==
  /\ \A n, d : Cpp!NodesOf(n, d) = NodesOf(n, d)
  /\ \A n, a : Cpp!Above(n, a) = Above(n, a)
  /\ \A n, k : Cpp!Chains(n, k) = Chains(n, k)
  /\ \A n, d, at : Cpp!NParse(n, d, at) = NParse(n, d, at)
  /\ \A n, a, at : Cpp!NSetValue(n, a, at) = NSetValue(n, a, at)
  /\ \A n, d, p, at : Cpp!NInsert(n, d, p, at) = NInsert(n, d, p, at)
  /\ \A n, a : Cpp!NErase(n, a) = NErase(n, a)
  /\ \A n, d : Cpp!NFree(n, d) = NFree(n, d)
  /\ \A n, q, d : Cpp!NEdits(n, q, d) = NEdits(n, q, d)
  /\ \A n, q, ok, results : Cpp!NEvaluated(n, q, ok, results) = NEvaluated(n, q, ok, results)
  /\ \A n, d : Cpp!Roots(n, d) = Roots(n, d)
  /\ \A n, a : Cpp!Related(n, a) = Related(n, a)
  /\ \A n, d, a, s : Cpp!Node(n, d, a, s) = Node(n, d, a, s)
  /\ \A n, q, d : Cpp!NEvaluates(n, q, d) <=> NEvaluates(n, q, d)
  /\ \A n, q, d : Cpp!NEvaluate(n, q, d) = NEvaluate(n, q, d)
  /\ \A n, q : Cpp!NDrive(n, q) = NDrive(n, q)
  /\ \A n, q, p : Cpp!NDriven(n, q, p) = NDriven(n, q, p)
  /\ \A n, q : Cpp!NDrives(n, q) <=> NDrives(n, q)
  /\ \A n, q : Cpp!NVisits(n, q) <=> NVisits(n, q)
  /\ \A n, q : Cpp!Phases(n, q) = Phases(n, q)
  /\ \A n, q : Cpp!NPulls(n, q) <=> NPulls(n, q)
  /\ \A n, q, a : Cpp!NPull(n, q, a) = NPull(n, q, a)
  /\ \A n, q, d : Cpp!NEditable(n, q, d) <=> NEditable(n, q, d)
  /\ Cpp!Fresh = Fresh
  /\ Cpp!NoExec = NoExec
  /\ Cpp!Idle = Idle
  /\ Cpp!Untaken = Untaken
  /\ \A h : Cpp!Taken(h) <=> Taken(h)
  /\ \A d : Cpp!IsOpen(d) <=> IsOpen(d)
  /\ \A d : Cpp!Selections(d) = Selections(d)
  /\ \A q, d, p : Cpp!Call(q, d, p) = Call(q, d, p)
<1>1. \A T : Cpp!Cardinality(T) = Cardinality(T)
  BY DEF Cpp!Cardinality, Cardinality
<1>2. \A n, d : Cpp!NodesOf(n, d) = NodesOf(n, d)
  BY DEF Cpp!NodesOf, NodesOf
<1>3. \A n, a : Cpp!Above(n, a) = Above(n, a)
  BY DEF Cpp!Above, Above
<1>4. \A n, a : Cpp!Subtree(n, a) = Subtree(n, a)
  BY DEF Cpp!Above, Above, Cpp!Subtree, Subtree, Cpp!NodesOf, NodesOf
<1>5. \A n, S : Cpp!Release(n, S) = Release(n, S)
  BY DEF Cpp!Release, Release, Cpp!NoNode, NoNode
<1>6. \A n, d, p, at : Cpp!Allocate(n, d, p, at) = Allocate(n, d, p, at)
  BY DEF Cpp!Allocate, Allocate
<1>7. \A n, d, r, e : Cpp!Moved(n, d, r, e) = Moved(n, d, r, e)
  BY DEF Cpp!Moved, Moved
<1>8. \A n, k : Cpp!Chains(n, k) = Chains(n, k)
  BY DEF Cpp!Chains, Chains, Cpp!Vacant, Vacant, Cpp!Live, Live, Cpp!IsInjective, IsInjective
<1>9. \A n, d : Cpp!Freed(n, d) = Freed(n, d)
  BY <1>5 DEF Cpp!Freed, Freed, Cpp!NodesOf, NodesOf, Cpp!NoDocument, NoDocument
<1>10. \A n, T : Cpp!Tops(n, T) = Tops(n, T)
  BY DEF Cpp!Tops, Tops, Cpp!Above, Above
<1>11. \A n, T : Cpp!Under(n, T) = Under(n, T)
  BY DEF Cpp!Under, Under, Cpp!Above, Above, Cpp!Subtree, Subtree, Cpp!NodesOf, NodesOf
<1>12. \A n, T : Cpp!Below(n, T) = Below(n, T)
  BY DEF Cpp!Below, Below, Cpp!Above, Above, Cpp!Subtree, Subtree, Cpp!NodesOf, NodesOf
<1>13. \A n, d : Cpp!Doomed(n, d) = Doomed(n, d)
  BY DEF Cpp!Doomed, Doomed, Cpp!Above, Above, Cpp!Tops, Tops, Cpp!NodesOf, NodesOf
<1>14. \A n, d : Cpp!Purged(n, d) = Purged(n, d)
  BY <1>1, <1>11, <1>5, <1>7, <1>13 DEF Cpp!Purged, Purged
<1>15. \A n, d : Cpp!Deferred(n, d) = Deferred(n, d)
  BY <1>14, <1>9 DEF Cpp!Deferred, Deferred
<1>16. \A n, q : Cpp!Spent(n, q) = Spent(n, q)
  BY DEF Cpp!Spent, Spent
<1>17. \A n, d, at : Cpp!NParse(n, d, at) = NParse(n, d, at)
  BY <1>6 DEF Cpp!NParse, NParse, Cpp!NoDocument, NoDocument
<1>18. \A n, a, at : Cpp!NSetValue(n, a, at) = NSetValue(n, a, at)
  BY <1>6, <1>5, <1>7, <1>4 DEF Cpp!NSetValue, NSetValue
<1>19. \A n, d, p, at : Cpp!NInsert(n, d, p, at) = NInsert(n, d, p, at)
  BY <1>6, <1>7 DEF Cpp!NInsert, NInsert
<1>20. \A n, a : Cpp!Erased(n, a) = Erased(n, a)
  BY <1>7, <1>5, <1>4 DEF Cpp!Erased, Erased
<1>21. \A n, a : Cpp!NErase(n, a) = NErase(n, a)
  BY <1>20 DEF Cpp!NErase, NErase
<1>22. \A n, d : Cpp!NFree(n, d) = NFree(n, d)
  BY <1>9 DEF Cpp!NFree, NFree
<1>23. \A n, q : Cpp!Dominant(n, q) = Dominant(n, q)
  BY <1>10 DEF Cpp!Dominant, Dominant
<1>24. \A n, q, d : Cpp!NRemoved(n, q, d) = NRemoved(n, q, d)
  BY <1>1, <1>11, <1>5, <1>7, <1>23, <1>16 DEF Cpp!NRemoved, NRemoved
<1>25. \A n, q, d, T : Cpp!NReplaced(n, q, d, T) = NReplaced(n, q, d, T)
  BY <1>1, <1>12, <1>5, <1>7, <1>16, <1>4 DEF Cpp!NReplaced, NReplaced
<1>26. \A n, q, d, a, at : Cpp!NInserted(n, q, d, a, at) = NInserted(n, q, d, a, at)
  BY <1>19, <1>16 DEF Cpp!NInserted, NInserted
<1>27. \A n, q, d : Cpp!NEdits(n, q, d) = NEdits(n, q, d)
  BY <1>24, <1>25, <1>26, <1>1, <1>23, <1>8 DEF Cpp!NEdits, NEdits
<1>28. \A n, q, ok, results : Cpp!NEvaluated(n, q, ok, results) = NEvaluated(n, q, ok, results)
  <2> TAKE n, q, ok, results
  <2> DEFINE x == Deferred(n, n.exec[q].owner)
  <2>1. Cpp!Deferred(n, n.exec[q].owner) = x
    BY <1>15
  <2> HIDE DEF x
  <2> QED
    BY <2>1, Zenon DEF Cpp!NEvaluated, NEvaluated, x
<1>29. \A n, d : Cpp!Roots(n, d) = Roots(n, d)
  BY DEF Cpp!Roots, Roots, Cpp!NodesOf, NodesOf
<1>30. \A n, a : Cpp!Related(n, a) = Related(n, a)
  BY DEF Cpp!Related, Related
<1>31. \A n, d, a, s : Cpp!Node(n, d, a, s) = Node(n, d, a, s)
  BY DEF Cpp!Node, Node
<1>32. \A n, q, d : Cpp!NEvaluates(n, q, d) <=> NEvaluates(n, q, d)
  BY DEF Cpp!NEvaluates, NEvaluates, Cpp!Fresh, Fresh, Cpp!NoExec, NoExec
<1>33. \A n, q, d : Cpp!NEvaluate(n, q, d) = NEvaluate(n, q, d)
  BY DEF Cpp!NEvaluate, NEvaluate
<1>34. \A n, q : Cpp!NDrive(n, q) = NDrive(n, q)
  BY DEF Cpp!NDrive, NDrive
<1>35. \A n, q, p : Cpp!NDriven(n, q, p) = NDriven(n, q, p)
  BY DEF Cpp!NDriven, NDriven
<1>36. \A n, q : Cpp!NDrives(n, q) <=> NDrives(n, q)
  BY DEF Cpp!NDrives, NDrives
<1>37. \A n, q : Cpp!NVisits(n, q) <=> NVisits(n, q)
  BY DEF Cpp!NVisits, NVisits, Cpp!NDrives, NDrives
<1>38. \A n, q : Cpp!Phases(n, q) = Phases(n, q)
  BY DEF Cpp!Phases, Phases
<1>39. \A n, q : Cpp!NPulls(n, q) <=> NPulls(n, q)
  BY DEF Cpp!NPulls, NPulls
<1>40. \A n, q, a : Cpp!NPull(n, q, a) = NPull(n, q, a)
  BY DEF Cpp!NPull, NPull
<1>41. \A n, q, d : Cpp!NEditable(n, q, d) <=> NEditable(n, q, d)
  BY DEF Cpp!NEditable, NEditable, Cpp!NPulls, NPulls
<1>42. Cpp!Fresh = Fresh
  BY DEF Cpp!Fresh, Fresh, Cpp!NoExec, NoExec
<1>43. Cpp!NoExec = NoExec
  BY DEF Cpp!NoExec, NoExec
<1>44. Cpp!Idle = Idle
  BY DEF Cpp!Idle, Idle
<1>45. Cpp!Untaken = Untaken
  BY DEF Cpp!Untaken, Untaken
<1>46. \A h : Cpp!Taken(h) <=> Taken(h)
  BY DEF Cpp!Taken, Taken, Cpp!Untaken, Untaken
<1>47. \A d : Cpp!IsOpen(d) <=> IsOpen(d)
  BY DEF Cpp!IsOpen, IsOpen
<1>48. \A d : Cpp!Selections(d) = Selections(d)
  BY DEF Cpp!Selections, Selections, Cpp!NodesOf, NodesOf
<1>49. \A q, d, p : Cpp!Call(q, d, p) = Call(q, d, p)
  BY DEF Cpp!Call, Call
<1> QED
  BY <1>2, <1>3, <1>8, <1>17, <1>18, <1>19, <1>21, <1>22, <1>27, <1>28, <1>29, <1>30, <1>31, <1>32, <1>33, <1>34, <1>35, <1>36, <1>37, <1>38, <1>39, <1>40, <1>41, <1>42, <1>43, <1>44, <1>45, <1>46, <1>47, <1>48, <1>49

\* What a handle has seen of its document stays true, for the document's epoch moves with every loss.
LEMMA SeenKept ==
  ASSUME NEW n \in Natives, NEW m \in Natives, NEW d \in Documents, Evolves(n, m, d),
         NEW x \in HandleObjects, NEW e \in Documents, x.document = e, CppSeen(n, x),
         n.doc[e].alive, m.doc[e].alive
  PROVE  CppSeen(m, x)
<1>1. x.stamp \in Nat /\ n.doc[e].epoch \in Nat /\ m.doc[e].epoch \in Nat
  BY DEF HandleObjects, Natives, DocumentRecords
<1>2. x.stamp <= n.doc[e].epoch
  BY DEF CppSeen
<1>3. n.doc[e].epoch <= m.doc[e].epoch
  BY <1>1 DEF Evolves, Elsewhere, Noted
<1>4. x.stamp <= m.doc[e].epoch
  BY <1>1, <1>2, <1>3
<1>5. ASSUME x.at # NULL, x.stamp = m.doc[e].epoch PROVE Denotes(m, x)
  <2>1. x.stamp = n.doc[e].epoch /\ ~(n.doc[e].epoch < m.doc[e].epoch)
    BY <1>1, <1>2, <1>3, <1>5
  <2>2. Denotes(n, x)
    BY <1>5, <2>1 DEF CppSeen
  <2>3. x.at \in Addresses /\ n.node[x.at].document = e /\ e # NULL
    BY <2>2, NullApart DEF Denotes, NodesOf
  <2>4. e # d \/ Same(n, m, x.at)
    BY <2>1, <2>3 DEF Evolves, Noted
  <2> QED BY <2>2, <2>3, <2>4, DenotesKept
<1> QED BY <1>4, <1>5 DEF CppSeen

\* What every step leaves: the invariant, and the native state moved on in one document at most.
CppAfter == CppInv' /\ \E e \in Documents : Evolves(native, native', e)

LEMMA CppKeeps ==
  ASSUME CppInv, Sound(native'), Objects', Running', CppDocuments', CppExecutions',
         NEW d \in Documents, Evolves(native, native', d), Carried, Assigned,
         \A h \in Handles :
           \/ handle'[h] = handle[h]
           \/ /\ handle'[h].document = handle[h].document /\ handle'[h].identity = handle[h].identity
              /\ handle[h] # Untaken
              /\ document[handle[h].document].state = "open" => CppSeen(native, handle'[h])
           \/ Granted(handle'[h]) /\ CppSeen(native', handle'[h])
  PROVE  CppAfter
<1>1. /\ Sound(native) /\ Objects /\ Lifetimes /\ CppHandles
  BY DEF CppInv, Base
<1>2. native \in Natives /\ native' \in Natives
  BY <1>1 DEF Sound
<1>3. native.identity <= native'.identity
  BY DEF Evolves, Newer
<1>4. Lifetimes'
  <2>1. \A h \in Handles :
           \/ /\ handle'[h].document = handle[h].document /\ handle'[h].identity = handle[h].identity
              /\ handle'[h] # Untaken => handle[h] # Untaken
           \/ Granted(handle'[h])
    OBVIOUS
  <2> QED BY <1>1, <1>2, <1>3, <2>1, LifetimesKeep
<1>5. Base'
  BY <1>4 DEF Base
<1>6. ASSUME NEW h \in Handles, handle'[h] # Untaken, document'[handle'[h].document].state = "open"
      PROVE  CppSeen(native', handle'[h])
  <2> DEFINE x == handle'[h]
             e == handle[h].document
  <2>1. CASE Granted(x) /\ CppSeen(native', x)
    BY <2>1
  <2>2. CASE /\ x.document = e /\ handle[h] # Untaken
             /\ document[e].state = "open" => CppSeen(native, x)
    <3>1. e \in Documents /\ document[e].state # "unborn" /\ x \in HandleObjects
      BY <1>1, <2>2 DEF Lifetimes, Objects, HandleObjects, Taken
    <3>2. document[e].state = "open"
      BY <1>6, <2>2, <3>1 DEF Carried
    <3>3. native.doc[e].alive /\ native'.doc[e].alive
      BY <1>1, <1>4, <1>6, <2>2, <3>1, <3>2 DEF Lifetimes
    <3> HIDE DEF x, e
    <3>4. CppSeen(native', x)
      BY <1>2, <2>2, <3>1, <3>2, <3>3, SeenKept
    <3> QED BY <3>4 DEF x
  <2>3. CASE handle'[h] = handle[h]
    <3>1. document[e].state = "open" => CppSeen(native, x)
      BY <1>1, <1>6, <2>3 DEF CppHandles, Taken
    <3> QED BY <1>6, <2>2, <2>3, <3>1
  <2> QED BY <2>1, <2>2, <2>3
<1>7. CppHandles'
  BY <1>6 DEF CppHandles, Taken, Untaken
<1>8. CppInv'
  BY <1>5, <1>7 DEF CppInv
<1> QED BY <1>8 DEF CppAfter

\* c_node: what a handle holds once it has looked.
LEMMA CppRefreshed ==
  ASSUME CppInv, NEW h \in Handles, Taken(h)
  PROVE  /\ Cpp!Refreshed(h) \in HandleObjects
         /\ Cpp!Refreshed(h).document = handle[h].document
         /\ Cpp!Refreshed(h).identity = handle[h].identity
         /\ Cpp!Refreshed(h).at \in {handle[h].at, NULL}
         /\ document[handle[h].document].state = "open" =>
              /\ CppSeen(native, Cpp!Refreshed(h))
              /\ Cpp!Refreshed(h).at # NULL => Denotes(native, Cpp!Refreshed(h))
<1> DEFINE x == handle[h]
           d == x.document
           a == x.at
           s == native.doc[d].epoch
           b == IF native.node[a].document = d /\ native.node[a].identity = x.identity THEN a ELSE NULL
           y == [x EXCEPT !.stamp = s, !.at = b]
<1>1. /\ x \in HandleObjects /\ d \in Documents /\ a \in Addresses \cup {NULL} /\ s \in Nat
  BY DEF CppInv, Base, Objects, HandleObjects, Lifetimes, Sound, Natives, DocumentRecords
<1>2. document[d].state = "open" => CppSeen(native, x)
  BY DEF CppInv, CppHandles
<1>3. Cpp!Refreshed(h) = IF document[d].state # "open" \/ a = NULL \/ x.stamp = s THEN x ELSE y
  BY CppOps DEF Cpp!Refreshed, IsOpen
<1>4. b \in {a, NULL} /\ (b # NULL => native.node[a].document = d /\ native.node[a].identity = x.identity)
  OBVIOUS
<1>5. s = native.doc[d].epoch
  OBVIOUS
<1> HIDE DEF b, s
<1>6. /\ y \in HandleObjects /\ y.document = d /\ y.identity = x.identity /\ y.at = b /\ y.stamp = s
  BY <1>1, <1>4 DEF HandleObjects
<1> HIDE DEF y
<1>7. CASE document[d].state # "open" \/ a = NULL \/ x.stamp = s
  BY <1>1, <1>2, <1>3, <1>5, <1>7 DEF CppSeen
<1>8. CASE ~(document[d].state # "open" \/ a = NULL \/ x.stamp = s)
  <2>1. Cpp!Refreshed(h) = y /\ a \in Addresses
    BY <1>1, <1>3, <1>8
  <2>2. b # NULL => Denotes(native, y)
    BY <1>4, <1>6, <2>1 DEF Denotes, NodesOf
  <2>3. CppSeen(native, y)
    BY <1>1, <1>5, <1>6, <2>2 DEF CppSeen
  <2> QED BY <1>4, <1>6, <2>1, <2>2, <2>3
<1> QED BY <1>7, <1>8

LEMMA CppUsable ==
  ASSUME CppInv, NEW h \in Handles, Cpp!Usable(h)
  PROVE  /\ Taken(h) /\ handle[h].document \in Documents /\ document[handle[h].document].state = "open"
         /\ handle[h].at \in NodesOf(native, handle[h].document)
         /\ native.node[handle[h].at].identity = handle[h].identity
<1>1. Taken(h) /\ document[handle[h].document].state = "open" /\ Cpp!Refreshed(h).at # NULL
  BY CppOps DEF Cpp!Usable, IsOpen
<1>2. handle[h].document \in Documents
  BY <1>1 DEF CppInv, Base, Objects, HandleObjects, Lifetimes
<1>3. /\ Denotes(native, Cpp!Refreshed(h)) /\ Cpp!Refreshed(h).at = handle[h].at
      /\ Cpp!Refreshed(h).document = handle[h].document /\ Cpp!Refreshed(h).identity = handle[h].identity
  BY <1>1, CppRefreshed
<1> QED BY <1>1, <1>2, <1>3 DEF Denotes

\* A step of an execution that touches no document and makes no handle.
LEMMA CppIdle ==
  ASSUME CppInv, NEW q \in Executions, Idled(q), document' = document, handle' = handle,
         execution' \in [Executions -> ExecutionObjects], CppExecutions'
  PROVE  CppAfter
<1>1. Base /\ Objects /\ CppDocuments
  BY DEF CppInv, Base
<1>2. PICK d \in Documents : TRUE
  BY BindingBounds
<1>3. Unmoved /\ Sound(native') /\ ExecOnly(native, native', q) /\ Running'
      /\ native'.exec[q].owner \in {NULL, native.exec[q].owner} /\ calls' \in Seq(CallRecords)
  BY DEF Unmoved, Idled
<1>4. Steady(d)
  BY <1>1, <1>3, BaseExec
<1>5. Objects' /\ CppDocuments'
  BY <1>1, <1>3 DEF Objects, CppDocuments, ExecOnly
<1> QED BY <1>4, <1>5, CppKeeps DEF Steady

LEMMA CppParse ==
  ASSUME CppInv, NEW d \in Documents, Cpp!Parse(d)
  PROVE  CppAfter
<1>1. Base /\ Objects /\ CppDocuments /\ CppExecutions
  BY DEF CppInv, Base
<1>2. /\ document[d].state = "unborn"
      /\ document' = [document EXCEPT ![d].state = "open"]
      /\ execution' = execution /\ handle' = handle /\ calls' = calls
  BY DEF Cpp!Parse, Cpp!DoParse
<1>3. PICK at \in Chains(native, 2) : native' = NParse(native, d, at)
  BY CppOps DEF Cpp!Parse, Cpp!DoParse
<1>4. /\ document' \in [Documents -> DocumentObjects] /\ document'[d].state = "open"
      /\ \A e \in Documents \ {d} : document'[e] = document[e]
  BY <1>1, <1>2, DocumentOpened
<1>5. /\ Steady(d) /\ \A f \in Documents \ {d} : native'.doc[f] = native.doc[f]
      /\ native'.doc[d].pending = 0 /\ native'.exec = native.exec
  BY <1>1, <1>2, <1>3, <1>4, BaseParse
<1>6. Objects' /\ CppExecutions' /\ CppDocuments'
  BY <1>1, <1>2, <1>4, <1>5 DEF Objects, CppExecutions, CppDocuments
<1> QED BY <1>2, <1>5, <1>6, CppKeeps DEF Steady

LEMMA CppCloseDocument ==
  ASSUME CppInv, NEW d \in Documents, Cpp!CloseDocument(d)
  PROVE  CppAfter
<1>1. Base /\ Objects /\ CppDocuments /\ CppExecutions /\ document[d] \in DocumentObjects
      /\ Sound(native) /\ Running /\ native \in Natives /\ Heap(native)
  BY DEF CppInv, Base, Objects, Sound
<1>2. /\ native' = NFree(native, d)
      /\ document' = [document EXCEPT ![d].state = "closed"]
      /\ execution' = execution /\ handle' = handle /\ calls' = calls
  BY CppOps DEF Cpp!CloseDocument
<1> DEFINE z == [document[d] EXCEPT !.state = "closed"]
<1>3. z \in DocumentObjects /\ z.state = "closed"
  BY <1>1 DEF DocumentObjects
<1>4. document' = [document EXCEPT ![d] = z]
  BY <1>1, <1>2 DEF Objects
<1> HIDE DEF z
<1>5. /\ document' \in [Documents -> DocumentObjects] /\ document'[d].state = "closed"
      /\ \A e \in Documents \ {d} : document'[e] = document[e]
  BY <1>1, <1>3, <1>4, DocumentSet
<1>6. /\ Steady(d) /\ \A f \in Documents \ {d} : native'.doc[f] = native.doc[f]
      /\ native'.exec = native.exec
  <2>1. CASE native.doc[d].callbacks > 0
    <3>1. native' = [native EXCEPT !.doc[d].pending = 2]
      BY <1>2, <2>1 DEF NFree
    <3>2. /\ native' \in Natives /\ Heap(native') /\ Shape(native, native') /\ native'.exec = native.exec
          /\ \A f \in Documents \ {d} : native'.doc[f] = native.doc[f]
      BY <1>1, <3>1, WaitSound
    <3>3. Evolves(native, native', d)
      BY <1>1, <3>2, ShapeEvolves
    <3>4. Sound(native')
      BY <1>1, <3>2, <3>3, SoundKeeps DEF Shape
    <3>5. Running'
      BY <1>1, <1>2, <3>2, RunningSame
    <3>6. Carried /\ Assigned
      BY <1>5, <3>2 DEF Carried, Assigned
    <3> QED BY <3>2, <3>3, <3>4, <3>5, <3>6 DEF Steady
  <2>2. CASE ~(native.doc[d].callbacks > 0)
    <3>1. native' = Freed(native, d)
      BY <1>2, <2>2 DEF NFree
    <3> QED BY <1>1, <1>2, <1>5, <3>1, BaseFree
  <2> QED BY <2>1, <2>2
<1>7. Objects' /\ CppExecutions' /\ CppDocuments'
  BY <1>1, <1>2, <1>5, <1>6 DEF Objects, CppExecutions, CppDocuments
<1> QED BY <1>2, <1>6, <1>7, CppKeeps DEF Steady

\* A step that makes or refreshes one handle.
LEMMA CppTake ==
  ASSUME CppInv, NEW d \in Documents, Steady(d), CppDocuments', CppExecutions',
         document' = document, execution' = execution, calls' = calls,
         NEW h \in Handles, NEW x \in HandleObjects, handle' = [handle EXCEPT ![h] = x],
         \/ /\ x.document = handle[h].document /\ x.identity = handle[h].identity /\ Taken(h)
            /\ document[handle[h].document].state = "open" => CppSeen(native, x)
         \/ Granted(x) /\ CppSeen(native', x)
  PROVE  CppAfter
<1>1. Objects
  BY DEF CppInv, Base
<1>2. /\ handle' \in [Handles -> HandleObjects] /\ handle'[h] = x
      /\ \A g \in Handles \ {h} : handle'[g] = handle[g]
  BY <1>1, HandleSet
<1>3. Objects'
  BY <1>1, <1>2 DEF Objects
<1>4. \A g \in Handles :
           \/ handle'[g] = handle[g]
           \/ /\ handle'[g].document = handle[g].document /\ handle'[g].identity = handle[g].identity
              /\ handle[g] # Untaken
              /\ document[handle[g].document].state = "open" => CppSeen(native, handle'[g])
           \/ Granted(handle'[g]) /\ CppSeen(native', handle'[g])
  BY <1>2 DEF Taken
<1> QED BY <1>3, <1>4, CppKeeps DEF Steady

\* A new handle for a node of d that is there before and after.
LEMMA CppMade ==
  ASSUME NEW d \in Documents, document[d].state # "unborn", native \in Natives, native' \in Natives,
         native.identity <= native'.identity,
         NEW n \in {native, native'}, Heap(n), NEW a \in NodesOf(n, d), Same(n, native', a),
         NEW s \in Nat, s = native'.doc[d].epoch
  PROVE  Node(n, d, a, s) \in HandleObjects /\ Granted(Node(n, d, a, s)) /\ CppSeen(native', Node(n, d, a, s))
<1> DEFINE x == Node(n, d, a, s)
<1>1. a \in Addresses /\ n.node[a].document = d /\ n \in Natives
  BY DEF NodesOf
<1>2. /\ x \in HandleObjects /\ x.document = d /\ x.at = a /\ x.stamp = s
      /\ x.identity = n.node[a].identity /\ Denotes(n, x) /\ n.node[a].identity <= n.identity
  BY <1>1, NodeMade
<1> HIDE DEF x
<1>3. /\ native'.identity \in Nat /\ n.identity \in Nat /\ n.identity <= native'.identity
      /\ n.node[a].identity \in Nat
  BY <1>1 DEF Natives, NodeRecords
<1>4. x.identity <= native'.identity
  BY <1>2, <1>3
<1>5. Granted(x)
  BY <1>2, <1>4 DEF Granted
<1>6. Denotes(native', x)
  BY <1>2 DEF Denotes, NodesOf, Same
<1>7. CppSeen(native', x)
  BY <1>2, <1>6 DEF CppSeen
<1> QED BY <1>2, <1>5, <1>7 DEF x

LEMMA CppObserve ==
  ASSUME CppInv, NEW h \in Handles, Cpp!Observe(h)
  PROVE  CppAfter
<1> DEFINE x == Cpp!Refreshed(h)
<1>1. /\ Taken(h) /\ handle' = [handle EXCEPT ![h] = x]
      /\ native' = native /\ document' = document /\ execution' = execution /\ calls' = calls
  BY CppOps DEF Cpp!Observe
<1>2. PICK d \in Documents : TRUE
  BY BindingBounds
<1>3. Base /\ Unmoved /\ CppDocuments /\ CppExecutions
  BY <1>1 DEF CppInv, Unmoved
<1>4. Steady(d)
  BY <1>1, <1>3, BaseStill
<1>5. CppDocuments' /\ CppExecutions'
  BY <1>1, <1>3 DEF CppDocuments, CppExecutions
<1>6. /\ x \in HandleObjects /\ x.document = handle[h].document /\ x.identity = handle[h].identity
      /\ document[handle[h].document].state = "open" => CppSeen(native, x)
  BY <1>1, CppRefreshed
<1> HIDE DEF x
<1> QED BY <1>1, <1>4, <1>5, <1>6, CppTake

LEMMA CppNavigate ==
  ASSUME CppInv, NEW h \in Handles, NEW d \in Documents, NEW a \in Addresses, Cpp!Navigate(h, d, a)
  PROVE  CppAfter
<1> DEFINE s == native.doc[d].epoch
           x == Node(native, d, a, s)
<1>1. /\ document[d].state = "open" /\ handle' = [handle EXCEPT ![h] = x]
      /\ native' = native /\ document' = document /\ execution' = execution /\ calls' = calls
  BY CppOps DEF Cpp!Navigate, IsOpen
<1>2. /\ Base /\ Unmoved /\ CppDocuments /\ CppExecutions /\ native \in Natives /\ Heap(native)
      /\ s \in Nat /\ native.identity \in Nat
  BY <1>1 DEF CppInv, Unmoved, Base, Sound, Natives, DocumentRecords
<1>3. a \in NodesOf(native, d)
  <2>1. CASE a \in Roots(native, d)
    BY <2>1 DEF Roots
  <2>2. ASSUME NEW g \in Handles, Cpp!Usable(g), handle[g].document = d, a \in Related(native, handle[g].at)
        PROVE  a \in NodesOf(native, d)
    <3>1. handle[g].at \in NodesOf(native, d)
      BY <2>2, CppUsable
    <3> QED BY <1>2, <2>2, <3>1, RelatedIn
  <2> QED BY <2>1, <2>2, CppOps DEF Cpp!Navigate
<1>4. Steady(d) /\ \A b \in Addresses : Same(native, native', b)
  BY <1>1, <1>2, BaseStill
<1>5. CppDocuments' /\ CppExecutions' /\ native' \in Natives /\ native.identity <= native'.identity
      /\ s = native'.doc[d].epoch
  BY <1>1, <1>2 DEF CppDocuments, CppExecutions
<1> HIDE DEF s
<1>6. x \in HandleObjects /\ Granted(x) /\ CppSeen(native', x)
  BY <1>1, <1>2, <1>3, <1>4, <1>5, CppMade
<1> HIDE DEF x
<1> QED BY <1>1, <1>4, <1>5, <1>6, CppTake

LEMMA CppSetValue ==
  ASSUME CppInv, NEW h \in Handles, Cpp!SetValue(h)
  PROVE  CppAfter
<1> DEFINE d == handle[h].document
           a == handle[h].at
           x == Cpp!Refreshed(h)
<1>1. /\ Cpp!Usable(h) /\ handle' = [handle EXCEPT ![h] = x]
      /\ document' = document /\ execution' = execution /\ calls' = calls
  BY DEF Cpp!SetValue
<1>2. PICK at \in Chains(native, 1) : native' = NSetValue(native, a, at)
  BY CppOps DEF Cpp!SetValue
<1>3. /\ Taken(h) /\ d \in Documents /\ document[d].state = "open" /\ a \in NodesOf(native, d)
  BY <1>1, CppUsable
<1>4. /\ x \in HandleObjects /\ x.document = d /\ x.identity = handle[h].identity
      /\ document[d].state = "open" => CppSeen(native, x)
  BY <1>3, CppRefreshed
<1>5. Base /\ Unmoved /\ CppDocuments /\ CppExecutions /\ native \in Natives /\ Heap(native)
  BY <1>1 DEF CppInv, Unmoved, Base, Sound
<1>6. d = handle[h].document
  OBVIOUS
<1> HIDE DEF d, a, x
<1>7. Edited(native, native', d) /\ native'.exec = native.exec
  BY <1>2, <1>3, <1>5, SetValueSound
<1>8. Steady(d)
  BY <1>1, <1>3, <1>5, <1>7, BaseEdit
<1>9. CppDocuments' /\ CppExecutions'
  BY <1>1, <1>5, <1>7 DEF CppDocuments, CppExecutions, Edited
<1> QED BY <1>1, <1>3, <1>4, <1>6, <1>8, <1>9, CppTake

LEMMA CppErase ==
  ASSUME CppInv, NEW h \in Handles, Cpp!Erase(h)
  PROVE  CppAfter
<1> DEFINE d == handle[h].document
           a == handle[h].at
           x == Cpp!Refreshed(h)
<1>1. /\ Cpp!Usable(h) /\ native' = NErase(native, a) /\ handle' = [handle EXCEPT ![h] = x]
      /\ document' = document /\ execution' = execution /\ calls' = calls
  BY CppOps DEF Cpp!Erase
<1>2. /\ Taken(h) /\ d \in Documents /\ document[d].state = "open" /\ a \in NodesOf(native, d)
  BY <1>1, CppUsable
<1>3. /\ x \in HandleObjects /\ x.document = d /\ x.identity = handle[h].identity
      /\ document[d].state = "open" => CppSeen(native, x)
  BY <1>2, CppRefreshed
<1>4. Base /\ Unmoved /\ CppDocuments /\ CppExecutions /\ native \in Natives /\ Heap(native)
  BY <1>1 DEF CppInv, Unmoved, Base, Sound
<1>5. d = handle[h].document
  OBVIOUS
<1> HIDE DEF d, a, x
<1>6. /\ native' \in Natives /\ Heap(native') /\ Evolves(native, native', d) /\ native'.exec = native.exec
      /\ \A f \in Documents : /\ native'.doc[f].alive = native.doc[f].alive
                              /\ native'.doc[f].pending = 2 => native.doc[f].pending = 2
  <2>1. native.node[a].document = d
    BY <1>2 DEF NodesOf
  <2>2. CASE native.doc[d].callbacks > 0
    <3> DEFINE m == ErasePending(native, d, a)
    <3>1. native' = m
      BY <1>1, <2>1, <2>2 DEF NErase, ErasePending
    <3>2. /\ m \in Natives /\ Heap(m) /\ Evolves(native, m, d) /\ m.exec = native.exec
          /\ \A f \in Documents : /\ m.doc[f].alive = native.doc[f].alive
                                  /\ m.doc[f].pending = 2 => native.doc[f].pending = 2
      BY <1>2, <1>4, MarkSound
    <3> HIDE DEF m
    <3> QED BY <3>1, <3>2
  <2>3. CASE ~(native.doc[d].callbacks > 0)
    <3>1. native' = Erased(native, a)
      BY <1>1, <2>1, <2>3 DEF NErase
    <3>2. Edited(native, native', d) /\ native'.exec = native.exec
      BY <1>2, <1>4, <3>1, ErasedSound
    <3> QED BY <3>2 DEF Edited
  <2> QED BY <2>2, <2>3
<1>7. Steady(d)
  BY <1>1, <1>2, <1>4, <1>6, BaseKept
<1>8. CppDocuments' /\ CppExecutions'
  BY <1>1, <1>4, <1>6 DEF CppDocuments, CppExecutions
<1> QED BY <1>1, <1>2, <1>3, <1>5, <1>7, <1>8, CppTake

LEMMA CppInsert ==
  ASSUME CppInv, NEW d \in Documents, NEW h \in Handles, Cpp!Insert(d, h)
  PROVE  CppAfter
<1> DEFINE s == native.doc[d].epoch
<1>1. /\ document[d].state = "open"
      /\ document' = document /\ execution' = execution /\ calls' = calls
  BY CppOps DEF Cpp!Insert, IsOpen
<1>2. PICK at \in Chains(native, 1),
           parent \in {NULL} \cup {handle[g].at : g \in {x \in Handles : Cpp!Usable(x)
                                                                /\ handle[x].document = d}} :
           /\ Len(at) = 1 /\ native' = NInsert(native, d, parent, at)
           /\ handle' = [handle EXCEPT ![h] = Node(native', d, at[1], s)]
  BY CppOps DEF Cpp!Insert
<1>3. /\ native \in Natives /\ Heap(native) /\ native.doc[d].alive /\ Base /\ Unmoved
      /\ CppDocuments /\ CppExecutions /\ s \in Nat
  BY <1>1 DEF CppInv, Base, Sound, Lifetimes, Unmoved, Natives, DocumentRecords
<1>4. parent \in Addresses \cup {NULL} /\ (parent # NULL => native.node[parent].document = d)
  <2>1. CASE parent = NULL
    BY <2>1
  <2>2. ASSUME NEW g \in Handles, Cpp!Usable(g), handle[g].document = d, parent = handle[g].at
        PROVE  parent \in NodesOf(native, d)
    BY <2>2, CppUsable
  <2> QED BY <1>2, <2>1, <2>2 DEF NodesOf
<1>5. /\ Edited(native, native', d) /\ native'.exec = native.exec
      /\ native'.doc[d].epoch = native.doc[d].epoch
      /\ \A i \in 1 .. Len(at) : at[i] \in Addresses /\ native'.node[at[i]].document = d
  BY <1>2, <1>3, <1>4, InsertSound
<1>6. at[1] \in NodesOf(native', d) /\ Same(native', native', at[1]) /\ s = native'.doc[d].epoch
  BY <1>2, <1>5 DEF NodesOf, Same
<1> HIDE DEF s
<1>7. Steady(d)
  BY <1>1, <1>3, <1>5, BaseEdit
<1>8. CppDocuments' /\ CppExecutions'
  BY <1>1, <1>3, <1>5 DEF CppDocuments, CppExecutions, Edited
<1> DEFINE x == Node(native', d, at[1], s)
<1>9. x \in HandleObjects /\ Granted(x) /\ CppSeen(native', x)
  <2>1. native' \in Natives /\ Heap(native') /\ native.identity <= native'.identity
    BY <1>5 DEF Edited, Evolves, Newer
  <2> QED BY <1>1, <1>3, <1>6, <2>1, CppMade
<1>10. handle' = [handle EXCEPT ![h] = x]
  BY <1>2
<1> HIDE DEF x
<1> QED BY <1>1, <1>7, <1>8, <1>9, <1>10, CppTake

LEMMA CppCloseProgram ==
  ASSUME CppInv, Cpp!CloseProgram
  PROVE  CppAfter
<1>1. /\ native' = native /\ document' = document /\ execution' = execution /\ handle' = handle
      /\ calls' = calls
  BY DEF Cpp!CloseProgram, Cpp!DoRelease
<1>2. CppInv'
  BY <1>1 DEF CppInv, Base, CppHandles, CppDocuments, CppExecutions, CppSeen, Sound, Objects,
              Lifetimes, Running, Taken, Untaken, Denotes
<1>3. \E e \in Documents : Evolves(native, native', e)
  <2>1. PICK d \in Documents : TRUE
    BY BindingBounds
  <2>2. Base /\ Unmoved
    BY <1>1 DEF CppInv, Unmoved
  <2> QED BY <1>1, <2>2, BaseStill DEF Steady
<1> QED BY <1>2, <1>3 DEF CppAfter

\* An execution that is not running is made, reset or freed.
LEMMA CppSet ==
  ASSUME CppInv, NEW q \in Executions, ~native.exec[q].busy,
         NEW z \in {Fresh, NoExec}, native' = [native EXCEPT !.exec[q] = z],
         document' = document, handle' = handle, calls' = calls,
         execution' \in [Executions -> ExecutionObjects],
         \A p \in Executions \ {q} : execution'[p] = execution[p]
  PROVE  CppAfter
<1>1. Base /\ Running /\ CppExecutions /\ Sound(native)
  BY DEF CppInv, Base
<1>2. \A i \in 1 .. Len(calls) : calls[i].execution # q
  BY <1>1 DEF Running
<1>3. Idled(q)
  BY <1>1, <1>2, IdledSet
<1>4. z \in ExecRecords /\ z.owner = NULL /\ ~z.busy
  BY ExecConstants
<1>5. native'.exec[q] = z /\ ExecOnly(native, native', q)
  BY <1>1, <1>4, ExecSound
<1>6. CppExecutions'
  BY <1>1, <1>4, <1>5 DEF CppExecutions, ExecOnly
<1> QED BY <1>3, <1>6, CppIdle

LEMMA CppNewExecution ==
  ASSUME CppInv, NEW q \in Executions, Cpp!NewExecution(q)
  PROVE  CppAfter
<1>1. /\ native.exec[q].phase = "none" /\ native' = [native EXCEPT !.exec[q] = Fresh]
      /\ execution' = [execution EXCEPT ![q].open = TRUE]
      /\ document' = document /\ handle' = handle /\ calls' = calls
  BY CppOps DEF Cpp!NewExecution, Cpp!DoCreate
<1>2. ~native.exec[q].busy
  BY <1>1 DEF CppInv, CppExecutions
<1>3. Objects /\ execution[q] \in ExecutionObjects
  BY DEF CppInv, Base, Objects
<1> DEFINE z == [execution[q] EXCEPT !.open = TRUE]
<1>4. z \in ExecutionObjects
  BY <1>3, ExecutionValues
<1>5. execution' = [execution EXCEPT ![q] = z]
  BY <1>1, <1>3 DEF Objects
<1> HIDE DEF z
<1>6. /\ execution' \in [Executions -> ExecutionObjects]
      /\ \A p \in Executions \ {q} : execution'[p] = execution[p]
  BY <1>3, <1>4, <1>5, ExecutionSet
<1> QED BY <1>1, <1>2, <1>6, CppSet

LEMMA CppCloseExecution ==
  ASSUME CppInv, NEW q \in Executions, Cpp!CloseExecution(q)
  PROVE  CppAfter
<1> DEFINE z == [Idle EXCEPT !.invalid = TRUE]
<1>1. /\ ~native.exec[q].busy /\ native' = [native EXCEPT !.exec[q] = NoExec]
      /\ execution' = [execution EXCEPT ![q] = z]
      /\ document' = document /\ handle' = handle /\ calls' = calls
  BY CppOps DEF Cpp!CloseExecution, Cpp!DoDispose
<1>2. Objects
  BY DEF CppInv, Base
<1>3. z \in ExecutionObjects
  BY <1>2, ExecutionValues DEF Objects
<1> HIDE DEF z
<1>4. /\ execution' \in [Executions -> ExecutionObjects]
      /\ \A p \in Executions \ {q} : execution'[p] = execution[p]
  BY <1>1, <1>2, <1>3, ExecutionSet
<1> QED BY <1>1, <1>4, CppSet

LEMMA CppReset ==
  ASSUME CppInv, NEW q \in Executions, Cpp!Reset(q)
  PROVE  CppAfter
<1>1. /\ ~native.exec[q].busy /\ native' = [native EXCEPT !.exec[q] = Fresh]
      /\ execution' = execution /\ document' = document /\ handle' = handle /\ calls' = calls
  BY CppOps DEF Cpp!Reset
<1>2. execution \in [Executions -> ExecutionObjects]
  BY DEF CppInv, Base, Objects
<1> QED BY <1>1, <1>2, CppSet

LEMMA CppDrain ==
  ASSUME CppInv, NEW q \in Executions, Cpp!Drain(q)
  PROVE  CppAfter
<1>1. /\ NVisits(native, q) /\ native' = NDrive(native, q) /\ calls' = Call(q, NULL, FALSE)
      /\ execution' = execution /\ document' = document /\ handle' = handle
  BY CppOps DEF Cpp!Drain
<1>2. Base /\ Objects /\ CppExecutions /\ native \in Natives
  BY DEF CppInv, Base, Sound
<1>3. Idled(q) /\ native'.exec[q].owner = NULL
  BY <1>1, <1>2, IdledDrive
<1>4. native'.exec[q].phase = native.exec[q].phase /\ native.exec[q].phase # "none"
  BY <1>1, <1>2 DEF NDrive, NVisits, NDrives, Natives, ExecRecords
<1>5. CppExecutions'
  BY <1>1, <1>2, <1>3, <1>4 DEF CppExecutions, Idled, ExecOnly
<1>6. execution' \in [Executions -> ExecutionObjects]
  BY <1>1, <1>2 DEF Objects
<1> QED BY <1>1, <1>3, <1>5, <1>6, CppIdle

LEMMA CppDrainReturn ==
  ASSUME CppInv, Cpp!DrainReturn
  PROVE  CppAfter
<1> DEFINE q == Head(calls).execution
           z == [execution[q] EXCEPT !.busy = FALSE]
<1>1. /\ calls # <<>> /\ Head(calls).document = NULL /\ calls' = Tail(calls)
      /\ execution' = [execution EXCEPT ![q].busy = FALSE]
      /\ document' = document /\ handle' = handle
  BY DEF Cpp!DrainReturn, Cpp!DoDriven
<1>2. PICK phase \in Phases(native, q) : native' = NDriven(native, q, phase)
  BY CppOps DEF Cpp!DrainReturn, Cpp!DoDriven
<1>3. Base /\ Objects /\ CppExecutions /\ native \in Natives
  BY DEF CppInv, Base, Sound
<1>4. q \in Executions /\ Idled(q) /\ native'.exec[q].owner = NULL
  BY <1>1, <1>2, <1>3, IdledDriven
<1>5. execution[q] \in ExecutionObjects /\ execution' = [execution EXCEPT ![q] = z]
  BY <1>1, <1>3, <1>4 DEF Objects
<1>6. z \in ExecutionObjects
  BY <1>5, ExecutionValues
<1> HIDE DEF z
<1>7. /\ execution' \in [Executions -> ExecutionObjects]
      /\ \A p \in Executions \ {q} : execution'[p] = execution[p]
  BY <1>3, <1>4, <1>5, <1>6, ExecutionSet
<1> HIDE DEF q
<1>8. native'.exec[q].phase = phase /\ phase # "none"
  BY <1>2, <1>3, <1>4 DEF NDriven, Phases, Natives, ExecRecords
<1>9. CppExecutions'
  BY <1>3, <1>4, <1>7, <1>8 DEF CppExecutions, Idled, ExecOnly
<1> QED BY <1>1, <1>4, <1>7, <1>9, CppIdle

LEMMA CppEvaluateDocument ==
  ASSUME CppInv, NEW q \in Executions, NEW d \in Documents, Cpp!EvaluateDocument(q, d)
  PROVE  CppAfter
<1>1. /\ document[d].state = "open" /\ NEvaluates(native, q, d)
      /\ native' = NEvaluate(native, q, d) /\ calls' = Call(q, d, TRUE)
      /\ document' = document /\ execution' = execution /\ handle' = handle
  BY CppOps DEF Cpp!EvaluateDocument, IsOpen
<1>2. Base /\ Objects /\ CppDocuments /\ CppExecutions /\ Unmoved
  BY <1>1 DEF CppInv, Base, Unmoved
<1>3. /\ Steady(d) /\ calls' \in Seq(CallRecords)
      /\ \A r \in Executions \ {q} : native'.exec[r] = native.exec[r]
      /\ native'.exec[q].phase = "fresh"
      /\ \A f \in Documents \ {d} : native'.doc[f] = native.doc[f]
      /\ native'.doc[d].pending = native.doc[d].pending
  BY <1>1, <1>2, BaseEvaluate
<1>4. Objects'
  BY <1>1, <1>2, <1>3 DEF Objects
<1>5. CppDocuments'
  BY <1>1, <1>2, <1>3 DEF CppDocuments
<1>6. CppExecutions'
  BY <1>1, <1>2, <1>3 DEF CppExecutions
<1> QED BY <1>1, <1>3, <1>4, <1>5, <1>6, CppKeeps DEF Steady

LEMMA CppEvaluateReturn ==
  ASSUME CppInv, Cpp!EvaluateReturn
  PROVE  CppAfter
<1> DEFINE q == Head(calls).execution
           d == Head(calls).document
           z == [execution[q] EXCEPT !.document = d]
<1>1. /\ calls # <<>> /\ d # NULL /\ calls' = Tail(calls)
      /\ execution' = IF native'.exec[q].phase = "finished"
                      THEN [execution EXCEPT ![q].document = d] ELSE execution
      /\ document' = document /\ handle' = handle
  BY DEF Cpp!EvaluateReturn
<1>2. PICK ok \in BOOLEAN, S \in SUBSET NodesOf(native, d) : native' = NEvaluated(native, q, ok, S)
  BY CppOps DEF Cpp!EvaluateReturn, Selections
<1>3. Base /\ Objects /\ CppDocuments /\ CppExecutions /\ Unmoved
  BY <1>1 DEF CppInv, Base, Unmoved
<1>4. q \in Executions /\ d \in Documents /\ document[d].state # "unborn"
  BY <1>1, <1>3, Innermost
<1>5. execution[q] \in ExecutionObjects
  BY <1>3, <1>4 DEF Objects
<1>6. Head(calls).execution = q /\ Head(calls).document = d
  OBVIOUS
<1> HIDE DEF q, d
<1>7. z \in ExecutionObjects /\ z.document = d
  BY <1>4, <1>5 DEF ExecutionObjects
<1>8. /\ execution' \in [Executions -> ExecutionObjects]
      /\ \A p \in Executions \ {q} : execution'[p] = execution[p]
      /\ native'.exec[q].phase = "finished" => execution'[q].document = d
  <2>1. CASE native'.exec[q].phase = "finished"
    <3>1. execution' = [execution EXCEPT ![q] = z]
      BY <1>1, <1>3, <2>1 DEF Objects
    <3> HIDE DEF z
    <3> QED BY <1>3, <1>4, <1>7, <3>1, ExecutionSet
  <2>2. CASE native'.exec[q].phase # "finished"
    BY <1>1, <1>3, <2>2 DEF Objects
  <2> QED BY <2>1, <2>2
<1>9. native.doc[d].pending = 2 => document[d].state = "closed"
  BY <1>3, <1>4 DEF CppDocuments, Objects, DocumentObjects
<1>10. /\ Steady(d) /\ calls' \in Seq(CallRecords)
       /\ \A r \in Executions \ {q} : native'.exec[r] = native.exec[r]
       /\ native'.exec[q].owner \in {d, NULL} /\ native'.exec[q].phase \in {"finished", "invalid"}
       /\ \A f \in Documents \ {d} : native'.doc[f] = native.doc[f]
       /\ native'.doc[d].pending = 2 => native.doc[d].pending = 2
  BY <1>1, <1>2, <1>3, <1>4, <1>6, <1>9, BaseEvaluated
<1>11. Objects' /\ CppDocuments'
  BY <1>1, <1>3, <1>8, <1>10 DEF Objects, CppDocuments
<1>12. CppExecutions'
  BY <1>3, <1>4, <1>8, <1>10 DEF CppExecutions
<1> QED BY <1>1, <1>4, <1>10, <1>11, <1>12, CppKeeps DEF Steady

LEMMA CppNextDocument ==
  ASSUME CppInv, NEW q \in Executions, NEW h \in Handles, Cpp!NextDocument(q, h)
  PROVE  CppAfter
<1> DEFINE d == execution[q].document
           s == native.doc[d].epoch
<1>1. /\ Base /\ Objects /\ Lifetimes /\ Sound(native) /\ native \in Natives /\ Heap(native)
      /\ CppDocuments /\ CppExecutions
  BY DEF CppInv, Base, Sound
<1>2. /\ d # NULL /\ document[d].state = "open" /\ NPulls(native, q)
      /\ document' = document /\ execution' = execution /\ calls' = calls
  BY CppOps DEF Cpp!NextDocument, Cpp!DoNext, Cpp!Check, IsOpen
<1>3. PICK a \in native.exec[q].results :
        /\ native' = NPull(native, q, a)
        /\ handle' = [handle EXCEPT ![h] = Node(native, d, a, s)]
  BY CppOps DEF Cpp!NextDocument, Cpp!DoNext
<1>4. d \in Documents /\ native.exec[q].owner = d
  BY <1>1, <1>2 DEF Objects, ExecutionObjects, CppExecutions, NPulls
<1>5. s \in Nat /\ s = native.doc[d].epoch
  BY <1>1, <1>4 DEF Natives, DocumentRecords
<1> HIDE DEF d, s
<1>6. a \in NodesOf(native, d)
  <2>1. native.doc[d].alive
    BY <1>1, <1>2, <1>4 DEF Lifetimes
  <2> QED BY <1>1, <1>2, <1>3, <1>4, <2>1, Editable
<1>7. /\ Sound(native') /\ ExecOnly(native, native', q)
      /\ native'.exec[q].owner = native.exec[q].owner /\ native'.exec[q].phase = native.exec[q].phase
      /\ native'.exec[q].busy = native.exec[q].busy
  BY <1>1, <1>3, PullKeepsSound
<1>8. Running' /\ Unmoved
  BY <1>1, <1>2, <1>7, ExecIdle DEF Unmoved
<1>9. Steady(d) /\ \A b \in Addresses : Same(native, native', b)
  BY <1>1, <1>4, <1>7, <1>8, BaseExec
<1>10. CppDocuments' /\ CppExecutions' /\ native' \in Natives /\ s = native'.doc[d].epoch
       /\ native.identity <= native'.identity
  BY <1>1, <1>2, <1>5, <1>7 DEF CppDocuments, CppExecutions, ExecOnly, Sound, Natives
<1> DEFINE x == Node(native, d, a, s)
<1>11. x \in HandleObjects /\ Granted(x) /\ CppSeen(native', x)
  <2>1. Same(native, native', a)
    BY <1>6, <1>9 DEF NodesOf
  <2> QED BY <1>1, <1>2, <1>4, <1>5, <1>6, <1>10, <2>1, CppMade
<1>12. handle' = [handle EXCEPT ![h] = x]
  BY <1>3
<1> HIDE DEF x
<1> QED BY <1>2, <1>4, <1>9, <1>10, <1>11, <1>12, CppTake

LEMMA CppEditQuery ==
  ASSUME CppInv, NEW q \in Executions, NEW d \in Documents, Cpp!EditQuery(q, d)
  PROVE  /\ CppAfter /\ native'.exec[q] = NoExec
         /\ \A p \in Executions \ {q} : native'.exec[p] = native.exec[p]
         /\ \A f \in Documents : /\ native'.doc[f].alive = native.doc[f].alive
                                 /\ native'.doc[f].pending = native.doc[f].pending
<1>1. /\ native.exec[q].phase = "none" /\ document[d].state = "open"
      /\ document' = document /\ execution' = execution /\ handle' = handle /\ calls' = calls
  BY CppOps DEF Cpp!EditQuery, IsOpen
<1>2. /\ Base /\ Objects /\ Lifetimes /\ Running /\ Sound(native) /\ native \in Natives /\ Heap(native)
      /\ CppDocuments /\ CppExecutions
  BY DEF CppInv, Base, Sound
<1>3. PICK S \in SUBSET NodesOf(native, d) :
        LET own == [native EXCEPT !.exec[q] = [Fresh EXCEPT
                      !.phase = "finished", !.owner = d, !.results = S,
                      !.revision = native.doc[d].revision]]
        IN  \E r \in NEdits(own, q, d) : native' = [r.native EXCEPT !.exec[q] = NoExec]
  BY CppOps DEF Cpp!EditQuery, Selections
<1> DEFINE z == [Fresh EXCEPT !.phase = "finished", !.owner = d, !.results = S,
                              !.revision = native.doc[d].revision]
           own == [native EXCEPT !.exec[q] = z]
           bare == [native EXCEPT !.exec[q] = NoExec]
<1>4. PICK r \in NEdits(own, q, d) : native' = [r.native EXCEPT !.exec[q] = NoExec]
  BY <1>3
<1>5. native.doc[d].alive /\ native.doc[d].revision \in Nat /\ S \in SUBSET Addresses
  BY <1>1, <1>2 DEF Lifetimes, Natives, DocumentRecords, NodesOf
<1>6. z \in ExecRecords /\ z.results = S
  <2> DEFINE v == native.doc[d].revision
             y == [Fresh EXCEPT !.phase = "finished", !.owner = d, !.results = S, !.revision = v]
  <2>1. v \in Nat
    BY <1>5
  <2> HIDE DEF v
  <2>2. y \in ExecRecords /\ y.results = S
    BY <1>5, <2>1, ExecConstants DEF ExecRecords, PhaseNames
  <2> QED BY <2>2 DEF v
<1> HIDE DEF z
<1>7. /\ own \in Natives /\ own.node = native.node /\ own.doc = native.doc /\ own.identity = native.identity
      /\ own.exec[q] = z /\ \A p \in Executions \ {q} : own.exec[p] = native.exec[p]
  BY <1>2, <1>6, ExecSet
<1>8. NoExec \in ExecRecords /\ NoExec.owner = NULL /\ ~NoExec.busy
  BY ExecConstants
<1>9. Sound(bare) /\ ExecOnly(native, bare, q) /\ bare.exec[q] = NoExec
  BY <1>2, <1>8, ExecSound
<1> HIDE DEF own, bare
<1>10. Heap(own) /\ own.doc[d].alive /\ own.exec[q].results \subseteq NodesOf(own, d)
  <2>1. Heap(own)
    BY <1>2, <1>7, HeapFrame
  <2> QED BY <1>5, <1>6, <1>7, <2>1 DEF NodesOf
<1> DEFINE m == r.native
<1>11. Edited(own, m, d) /\ \A p \in Executions \ {q} : m.exec[p] = own.exec[p]
  BY <1>7, <1>10, EditsSound
<1>12. native' = [m EXCEPT !.exec[q] = NoExec] /\ m \in Natives
  BY <1>4, <1>11 DEF Edited
<1> HIDE DEF m
<1>13. /\ native' \in Natives /\ native'.node = m.node /\ native'.doc = m.doc
       /\ native'.identity = m.identity /\ native'.exec[q] = NoExec
       /\ \A p \in Executions \ {q} : native'.exec[p] = m.exec[p]
  BY <1>8, <1>12, ExecSet
<1>14. Edited(own, native', d)
  BY <1>7, <1>11, <1>12, <1>13, ExecFrame
<1>15. /\ Heap(native') /\ Evolves(own, native', d)
       /\ \A f \in Documents : /\ native'.doc[f].alive = native.doc[f].alive
                               /\ native'.doc[f].pending = native.doc[f].pending
  BY <1>7, <1>14 DEF Edited
<1>16. Shape(native, own) /\ Shape(bare, own)
  BY <1>7, <1>9 DEF Shape, ExecOnly
<1>17. Evolves(native, native', d) /\ Evolves(bare, native', d)
  BY <1>15, <1>16, ShapeThenEvolves
<1>18. \A p \in Executions : native'.exec[p] = bare.exec[p]
  BY <1>7, <1>9, <1>11, <1>13 DEF ExecOnly
<1>19. Sound(native')
  <2>1. native'.doc[d].alive => bare.doc[d].alive
    BY <1>5, <1>9 DEF ExecOnly
  <2> QED BY <1>9, <1>13, <1>15, <1>17, <1>18, <2>1, SoundKeeps
<1>20. Running'
  <2>1. ~native.exec[q].busy
    BY <1>1, <1>2 DEF CppExecutions
  <2>2. \A p \in Executions \ {q} : native'.exec[p] = native.exec[p]
    BY <1>9, <1>18 DEF ExecOnly
  <2> QED BY <1>1, <1>2, <2>1, <2>2, RunningSame
<1>21. Carried /\ Assigned
  BY <1>1, <1>8, <1>9, <1>15, <1>18 DEF Carried, Assigned, ExecOnly
<1>22. Objects' /\ CppDocuments'
  BY <1>1, <1>2, <1>15 DEF Objects, CppDocuments
<1>23. CppExecutions'
  BY <1>1, <1>2, <1>8, <1>9, <1>18 DEF CppExecutions, ExecOnly
<1>24. CppAfter
  BY <1>1, <1>17, <1>19, <1>20, <1>21, <1>22, <1>23, CppKeeps
<1>25. \A p \in Executions \ {q} : native'.exec[p] = native.exec[p]
  BY <1>9, <1>18 DEF ExecOnly
<1> QED BY <1>13, <1>15, <1>24, <1>25

LEMMA CppStep ==
  ASSUME CppInv, Cpp!Next
  PROVE  CppAfter
<1>1. ASSUME NEW d \in Documents, Cpp!Parse(d) \/ Cpp!CloseDocument(d) PROVE CppAfter
  BY <1>1, CppParse, CppCloseDocument
<1>2. ASSUME NEW h \in Handles, NEW d \in Documents,
             Cpp!Insert(d, h) \/ \E a \in Addresses : Cpp!Navigate(h, d, a)
      PROVE  CppAfter
  BY <1>2, CppInsert, CppNavigate
<1>3. ASSUME NEW h \in Handles, Cpp!SetValue(h) \/ Cpp!Erase(h) \/ Cpp!Observe(h) PROVE CppAfter
  BY <1>3, CppSetValue, CppErase, CppObserve
<1>4. CASE Cpp!CloseProgram
  BY <1>4, CppCloseProgram
<1>5. ASSUME NEW q \in Executions, \/ Cpp!NewExecution(q) \/ Cpp!CloseExecution(q) \/ Cpp!Reset(q)
                                   \/ Cpp!Drain(q)
      PROVE  CppAfter
  BY <1>5, CppNewExecution, CppCloseExecution, CppReset, CppDrain
<1>6. ASSUME NEW q \in Executions, NEW d \in Documents, Cpp!EvaluateDocument(q, d) \/ Cpp!EditQuery(q, d)
      PROVE  CppAfter
  BY <1>6, CppEvaluateDocument, CppEditQuery
<1>7. ASSUME NEW q \in Executions, NEW h \in Handles, Cpp!NextDocument(q, h) PROVE CppAfter
  BY <1>7, CppNextDocument
<1>8. CASE Cpp!DrainReturn
  BY <1>8, CppDrainReturn
<1>9. CASE Cpp!EvaluateReturn
  BY <1>9, CppEvaluateReturn
<1> QED BY <1>1, <1>2, <1>3, <1>4, <1>5, <1>6, <1>7, <1>8, <1>9 DEF Cpp!Next

-----------------------------------------------------------------------------
(* Go, Lua and C++ together. *)

\* Nothing is there at first.
LEMMA BaseInit ==
  ASSUME BindingInit
  PROVE  Base /\ Guarded /\ \A h \in Handles : ~Taken(h)
<1>1. NoNode \in NodeRecords /\ NoDocument \in DocumentRecords /\ NoExec \in ExecRecords
  BY DEF NoNode, NodeRecords, NoDocument, DocumentRecords, NoExec, ExecRecords, PhaseNames
<1>2. native = NativeInit /\ native \in Natives
  BY <1>1 DEF BindingInit, NativeInit, Natives
<1>3. /\ \A a \in Addresses : native.node[a] = NoNode
      /\ \A d \in Documents : native.doc[d] = NoDocument
      /\ \A q \in Executions : native.exec[q] = NoExec
      /\ native.identity = 0
  BY <1>2 DEF NativeInit
<1>4. Sound(native)
  <2>1. Heap(native)
    BY <1>3 DEF Heap, Placed, NoNode
  <2>2. \A q \in Executions : Picked(native, q)
    BY <1>3 DEF Picked, NoExec
  <2> QED BY <1>2, <2>1, <2>2 DEF Sound
<1>5. /\ \A d \in Documents : document[d] = Unborn
      /\ \A q \in Executions : execution[q] = Idle
      /\ \A h \in Handles : handle[h] = Untaken
      /\ calls = <<>> /\ Len(calls) = 0
  BY DEF BindingInit
<1>6. Objects
  <2>1. Unborn \in DocumentObjects /\ Idle \in ExecutionObjects /\ Untaken \in HandleObjects
    BY DEF Unborn, Idle, Untaken, DocumentObjects, ExecutionObjects, HandleObjects
  <2> QED BY <2>1 DEF Objects, BindingInit
<1>7. Lifetimes
  BY <1>3, <1>5 DEF Lifetimes, Taken, Unborn, NoDocument, NoExec
<1>8. Running /\ Busy
  BY <1>5 DEF Running, Busy
<1>9. Counted
  BY <1>3, <1>5 DEF Counted, Unborn, NoDocument
<1> QED BY <1>4, <1>5, <1>6, <1>7, <1>8, <1>9 DEF Base, Guarded, Taken

LEMMA BindingInvInit == MCInit => BindingInv
<1> SUFFICES ASSUME BindingInit PROVE GoInv /\ LuaInv /\ CppInv
  BY DEF MCInit, BindingInv
<1>1. Base /\ Guarded /\ \A h \in Handles : ~Taken(h)
  BY BaseInit
<1>2. \A q \in Executions : native.exec[q] = NoExec
  BY DEF BindingInit, NativeInit
<1>3. LuaExecutions /\ CppExecutions
  BY <1>2 DEF LuaExecutions, CppExecutions, NoExec
<1>4. CppDocuments
  BY <1>1 DEF Guarded, Counted, CppDocuments
<1>5. GoHandles /\ LuaHandles /\ CppHandles
  BY <1>1 DEF GoHandles, LuaHandles, CppHandles
<1> QED BY <1>1, <1>3, <1>4, <1>5 DEF GoInv, LuaInv, CppInv

\* Each binding's calls keep its invariant, and a program keeps to its language.
LEMMA BindingInvStep == BindingInv /\ Tame /\ [MCNext]_mcVars => BindingInv'
<1> SUFFICES ASSUME BindingInv, Tame, [MCNext]_mcVars PROVE BindingInv'
  OBVIOUS
<1>1. CASE UNCHANGED mcVars
  <2>1. /\ native' = native /\ document' = document /\ execution' = execution
        /\ handle' = handle /\ calls' = calls /\ language' = language
    BY <1>1 DEF mcVars, bindingVars
  <2>2. (Base' <=> Base) /\ (Guarded' <=> Guarded)
    BY <2>1 DEF Base, Objects, Lifetimes, Running, Guarded, Counted, Busy, Taken
  <2>3. (GoHandles' <=> GoHandles) /\ (LuaHandles' <=> LuaHandles) /\ (CppHandles' <=> CppHandles)
    BY <2>1 DEF GoHandles, LuaHandles, CppHandles, Taken
  <2>4. /\ LuaExecutions' <=> LuaExecutions
        /\ CppExecutions' <=> CppExecutions
        /\ CppDocuments' <=> CppDocuments
    BY <2>1 DEF LuaExecutions, CppExecutions, CppDocuments
  <2> QED BY <2>1, <2>2, <2>3, <2>4 DEF BindingInv, GoInv, LuaInv, CppInv
<1>2. CASE MCNext
  <2>1. language' = language
    BY <1>2 DEF MCNext
  <2>2. CASE language = "go"
    <3>1. Go!Next /\ GoTame
      BY <1>2, <2>2 DEF MCNext, Tame, Stray, GoTame
    <3> QED BY <2>1, <2>2, <3>1, GoStep DEF BindingInv
  <2>3. CASE language = "lua"
    <3>1. Lua!Next
      BY <1>2, <2>3 DEF MCNext
    <3> QED BY <2>1, <2>3, <3>1, LuaStep DEF BindingInv
  <2>4. CASE language = "c++"
    <3>1. Cpp!Next
      BY <1>2, <2>4 DEF MCNext
    <3> QED BY <2>1, <2>4, <3>1, CppStep DEF BindingInv, CppAfter
  <2> QED BY <2>1, <2>2, <2>3, <2>4 DEF BindingInv
<1> QED BY <1>1, <1>2

\* What a binding asks of a handle is what its invariant speaks of.
LEMMA BindingInvDenotes ==
  ASSUME BindingInv, language \in {"go", "lua", "c++"}
  PROVE  HandlesDenote
<1> SUFFICES ASSUME NEW h \in Handles, Usable(h), ~Stray(h)
             PROVE  /\ handle[h].at \in NodesOf(native, handle[h].document)
                    /\ native.node[handle[h].at].identity = handle[h].identity
  BY DEF HandlesDenote, Tame, LeadsHome
<1>1. CASE language = "go"
  <2>1. Go!Usable(h) /\ ~Go!Stray(h) /\ GoHandles
    BY <1>1 DEF Usable, Stray, BindingInv, GoInv
  <2>2. Taken(h) /\ document[handle[h].document].state = "open"
        /\ handle[h].stamp = document[handle[h].document].generation
        /\ handle[h].origin = handle[h].document
    BY <2>1 DEF Go!Usable, Go!Stray, Go!Taken, Go!IsOpen, Go!Untaken, Taken, Untaken
  <2> QED BY <2>1, <2>2 DEF GoHandles, Denotes
<1>2. CASE language = "lua"
  <2>1. Lua!Usable(h) /\ LuaHandles
    BY <1>2 DEF Usable, BindingInv, LuaInv
  <2>2. Taken(h) /\ handle[h].at # NULL /\ document[handle[h].document].state = "open"
    BY <2>1 DEF Lua!Usable, Lua!Taken, Lua!IsOpen, Lua!Untaken, Taken, Untaken
  <2> QED BY <2>1, <2>2 DEF LuaHandles, Denotes
<1>3. CASE language = "c++"
  <2>1. Cpp!Usable(h) /\ CppInv
    BY <1>3 DEF Usable, BindingInv
  <2> QED BY <2>1, CppUsable
<1> QED BY <1>1, <1>2, <1>3

-----------------------------------------------------------------------------
(* Handles expire for good, and only with an edit or a close of their document. *)

\* What a step does to a Go document: nothing to its generation, unless it is parsed or closed, or
\* edited, which its revision shows too.
Renewed(d) ==
  \/ document'[d].state = document[d].state /\ document'[d].generation = document[d].generation
  \/ document[d].state = "unborn" \/ document'[d].state = "closed"
  \/ /\ document'[d].state = document[d].state
     /\ document[d].generation < document'[d].generation
     /\ native.doc[d].revision < native'.doc[d].revision
\* No step touches a handle that was handed out.
HandedOut == \A h \in Handles : Taken(h) => handle'[h] = handle[h]

LEMMA HandedOutSet ==
  ASSUME Objects, NEW h \in Handles, ~Taken(h), NEW x, handle' = [handle EXCEPT ![h] = x]
  PROVE  HandedOut
  BY DEF Objects, HandedOut

LEMMA RevisionMoved ==
  ASSUME native \in Natives, NEW d \in Documents,
         native'.doc[d].revision = native.doc[d].revision + 1
  PROVE  native.doc[d].revision < native'.doc[d].revision
  BY DEF Natives, DocumentRecords

\* An edit of d that makes it a new generation.
LEMMA GoRenewed ==
  ASSUME GoInv, NEW d \in Documents,
         document' = [document EXCEPT ![d].generation = @ + 1],
         native.doc[d].revision < native'.doc[d].revision
  PROVE  \A e \in Documents : Renewed(e)
<1>1. /\ document'[d].state = document[d].state
      /\ \A e \in Documents \ {d} : document'[e] = document[e]
      /\ document[d].generation \in Nat /\ document'[d].generation = document[d].generation + 1
  BY DocumentChanged DEF GoInv, Base
<1> QED BY <1>1 DEF Renewed

LEMMA GoRenewsClose ==
  ASSUME GoInv, NEW d \in Documents, Go!Parse(d) \/ Go!CloseDocument(d)
  PROVE  HandedOut /\ \A e \in Documents : Renewed(e)
<1>1. Objects
  BY DEF GoInv, Base
<1>2. CASE Go!Parse(d)
  BY <1>1, <1>2 DEF Go!Parse, Go!DoParse, Objects, HandedOut, Renewed
<1>3. CASE Go!CloseDocument(d)
  <2>1. /\ document' = [document EXCEPT ![d].state = "closed", ![d].generation = @ + 1]
        /\ handle' = handle
    BY <1>3 DEF Go!CloseDocument
  <2>2. document'[d].state = "closed" /\ \A e \in Documents \ {d} : document'[e] = document[e]
    BY <1>1, <2>1 DEF Objects, DocumentObjects
  <2> QED BY <2>1, <2>2 DEF HandedOut, Renewed
<1> QED BY <1>2, <1>3

LEMMA GoRenewsSetValue ==
  ASSUME GoInv, GoTame, NEW h \in Handles, Go!SetValue(h)
  PROVE  HandedOut /\ \A e \in Documents : Renewed(e)
<1> DEFINE d == handle[h].document
           a == handle[h].at
<1>1. /\ Go!Usable(h) /\ ~Go!Stray(h) /\ handle' = handle
      /\ document' = [document EXCEPT ![d].generation = @ + 1]
  BY DEF Go!SetValue, Go!Changed, GoTame
<1>2. PICK at \in Chains(native, 1) : native' = NSetValue(native, a, at)
  BY GoOps DEF Go!SetValue
<1>3. d \in Documents /\ a \in NodesOf(native, d)
  BY <1>1, GoUsable
<1>4. native \in Natives /\ Heap(native)
  BY DEF GoInv, Base, Sound
<1> HIDE DEF d, a
<1>5. native'.doc[d].revision = native.doc[d].revision + 1
  BY <1>2, <1>3, <1>4, SetValueSound
<1>6. native.doc[d].revision < native'.doc[d].revision
  BY <1>3, <1>4, <1>5, RevisionMoved
<1> QED BY <1>1, <1>3, <1>6, GoRenewed DEF HandedOut

LEMMA GoRenewsErase ==
  ASSUME GoInv, GoTame, NEW h \in Handles, Go!Erase(h)
  PROVE  HandedOut /\ \A e \in Documents : Renewed(e)
<1> DEFINE d == handle[h].document
           a == handle[h].at
<1>1. /\ Go!Usable(h) /\ ~Go!Stray(h) /\ document[d].active = 0
      /\ native' = NErase(native, a) /\ handle' = handle
      /\ document' = [document EXCEPT ![d].generation = @ + 1]
  BY GoOps DEF Go!Erase, Go!Changed, Go!Quiet, GoTame
<1>2. d \in Documents /\ a \in NodesOf(native, d)
  BY <1>1, GoUsable
<1>3. native \in Natives /\ Heap(native) /\ Counted
  BY DEF GoInv, Base, Sound, Guarded
<1> HIDE DEF d, a
<1>4. native' = Erased(native, a)
  <2>1. native.node[a].document = d /\ ~(native.doc[d].callbacks > 0)
    BY <1>1, <1>2, <1>3 DEF Counted, NodesOf
  <2> QED BY <1>1, <2>1 DEF NErase
<1>5. native'.doc[d].revision = native.doc[d].revision + 1
  BY <1>2, <1>3, <1>4, ErasedSound
<1>6. native.doc[d].revision < native'.doc[d].revision
  BY <1>2, <1>3, <1>5, RevisionMoved
<1> QED BY <1>1, <1>2, <1>6, GoRenewed DEF HandedOut

LEMMA GoRenewsInsert ==
  ASSUME GoInv, GoTame, NEW d \in Documents, NEW h \in Handles, Go!Insert(d, h)
  PROVE  HandedOut /\ \A e \in Documents : Renewed(e)
<1>1. /\ document[d].state = "open" /\ ~Taken(h)
      /\ document' = [document EXCEPT ![d].generation = @ + 1]
  BY GoOps DEF Go!Insert, Go!Changed, IsOpen
<1>2. PICK at \in Chains(native, 1),
           parent \in {NULL} \cup {handle[g].at : g \in {x \in Handles : Go!Usable(x)
                                                                /\ handle[x].document = d}} :
           /\ Len(at) = 1 /\ native' = NInsert(native, d, parent, at)
           /\ handle' = [handle EXCEPT ![h] = Node(native', d, at[1], document[d].generation + 1)]
  BY GoOps DEF Go!Insert
<1>3. native \in Natives /\ Heap(native) /\ native.doc[d].alive /\ Objects
  BY <1>1 DEF GoInv, Base, Sound, Lifetimes
<1>4. parent \in Addresses \cup {NULL} /\ (parent # NULL => native.node[parent].document = d)
  <2>1. CASE parent = NULL
    BY <2>1
  <2>2. ASSUME NEW g \in Handles, Go!Usable(g), handle[g].document = d, parent = handle[g].at
        PROVE  parent \in NodesOf(native, d)
    BY <2>2, GoUsable DEF GoTame
  <2> QED BY <1>2, <2>1, <2>2 DEF NodesOf
<1>5. Edited(native, native', d) /\ native'.doc[d].revision = native.doc[d].revision + 1
  BY <1>2, <1>3, <1>4, InsertSound
<1>6. HandedOut
  BY <1>1, <1>2, <1>3, HandedOutSet
<1>7. native.doc[d].revision < native'.doc[d].revision
  BY <1>3, <1>5, RevisionMoved
<1> QED BY <1>1, <1>6, <1>7, GoRenewed

LEMMA GoRenewsEdit ==
  ASSUME GoInv, NEW q \in Executions, Go!EditDocument(q)
  PROVE  HandedOut /\ \A e \in Documents : Renewed(e)
<1> DEFINE d == execution[q].document
<1>1. Base /\ Objects /\ Sound(native) /\ native \in Natives /\ Heap(native) /\ Lifetimes
  BY DEF GoInv, Base, Sound
<1>2. d # NULL /\ document[d].state = "open" /\ handle' = handle /\ NEditable(native, q, d)
  BY GoOps DEF Go!EditDocument, Go!Check, IsOpen
<1>3. PICK r \in NEdits(native, q, d) :
         /\ native' = r.native
         /\ document' = IF r.applied > 0 THEN [document EXCEPT ![d].generation = @ + 1] ELSE document
  BY GoOps DEF Go!EditDocument, Go!Changed
<1>4. d \in Documents
  BY <1>1, <1>2 DEF Objects, ExecutionObjects
<1> HIDE DEF d
<1>5. native.doc[d].alive /\ native.exec[q].results \subseteq NodesOf(native, d)
  BY <1>1, <1>2, <1>4, Editable DEF NEditable, Lifetimes
<1>6. r.applied \in Nat /\ native'.doc[d].revision = native.doc[d].revision + r.applied
  BY <1>1, <1>3, <1>4, <1>5, EditsSound
<1>7. CASE r.applied > 0
  <2>1. document' = [document EXCEPT ![d].generation = @ + 1]
    BY <1>3, <1>7
  <2>2. native.doc[d].revision < native'.doc[d].revision
    BY <1>1, <1>4, <1>6, <1>7 DEF Natives, DocumentRecords
  <2> QED BY <1>2, <1>4, <2>1, <2>2, GoRenewed DEF HandedOut
<1>8. CASE ~(r.applied > 0)
  BY <1>2, <1>3, <1>8 DEF HandedOut, Renewed
<1> QED BY <1>7, <1>8

LEMMA GoRenewsEvaluate ==
  ASSUME GoInv, \/ \E q \in Executions, d \in Documents : Go!EvaluateDocument(q, d)
                \/ Go!EvaluateReturn
  PROVE  HandedOut /\ \A e \in Documents : Renewed(e)
<1>1. Objects
  BY DEF GoInv, Base
<1> DEFINE A == handle' = handle /\ \/ document' = document
                                     \/ \E d, k : document' = [document EXCEPT ![d].active = k]
<1>2. A
  <2>1. ASSUME NEW q \in Executions, NEW d \in Documents, Go!EvaluateDocument(q, d)
        PROVE  A
    BY <2>1 DEF Go!EvaluateDocument
  <2>2. CASE Go!EvaluateReturn
    BY <2>2 DEF Go!EvaluateReturn, Go!DoEvaluated
  <2> HIDE DEF A
  <2> QED BY <2>1, <2>2
<1>3. \A e \in Documents : /\ document'[e].state = document[e].state
                           /\ document'[e].generation = document[e].generation
  <2>1. ASSUME NEW d, NEW k, document' = [document EXCEPT ![d].active = k], NEW e \in Documents
        PROVE  /\ document'[e].state = document[e].state
               /\ document'[e].generation = document[e].generation
    BY <1>1, <2>1 DEF Objects, DocumentObjects
  <2> QED BY <1>2, <2>1
<1> QED BY <1>2, <1>3 DEF HandedOut, Renewed

LEMMA GoRenews ==
  ASSUME GoInv, GoTame, Go!Next
  PROVE  HandedOut /\ \A e \in Documents : Renewed(e)
<1> DEFINE Goal == HandedOut /\ \A e \in Documents : Renewed(e)
<1>1. Objects
  BY DEF GoInv, Base
<1>2. ASSUME document' = document, handle' = handle PROVE Goal
  BY <1>2 DEF HandedOut, Renewed
<1>3. ASSUME NEW d \in Documents, Go!Parse(d) \/ Go!CloseDocument(d) PROVE Goal
  BY <1>3, GoRenewsClose
<1>4. ASSUME NEW h \in Handles, NEW d \in Documents, Go!Insert(d, h) PROVE Goal
  BY <1>4, GoRenewsInsert
<1>5. ASSUME NEW h \in Handles, NEW d \in Documents, NEW a \in Addresses, Go!Navigate(h, d, a) PROVE Goal
  <2>1. ~Taken(h) /\ document' = document
        /\ handle' = [handle EXCEPT ![h] = Node(native, d, a, document[d].generation)]
    BY <1>5, GoOps DEF Go!Navigate
  <2> QED BY <1>1, <2>1, HandedOutSet DEF Renewed
<1>6. ASSUME NEW h \in Handles, Go!SetValue(h) \/ Go!Erase(h) PROVE Goal
  BY <1>6, GoRenewsSetValue, GoRenewsErase
<1>7. CASE Go!CloseProgram
  BY <1>2, <1>7 DEF Go!CloseProgram, Go!DoRelease
<1>8. ASSUME NEW q \in Executions, \/ Go!NewExecution(q) \/ Go!CloseExecution(q) \/ Go!Reset(q)
                                   \/ Go!SetInput(q) \/ Go!Bind(q) \/ Go!Feed(q) \/ Go!Drain(q)
      PROVE  Goal
  <2>1. document' = document /\ handle' = handle
    BY <1>8 DEF Go!NewExecution, Go!CloseExecution, Go!Reset, Go!SetInput, Go!Bind, Go!Feed, Go!Drain,
                Go!DoCreate, Go!DoDispose, Go!DoReset, Go!DoFeed, Go!DoDrive
  <2> QED BY <1>2, <2>1
<1>9. ASSUME NEW q \in Executions, Go!EditDocument(q) PROVE Goal
  BY <1>9, GoRenewsEdit
<1>10. ASSUME NEW q \in Executions, NEW d \in Documents, Go!EvaluateDocument(q, d) PROVE Goal
  BY <1>10, GoRenewsEvaluate
<1>11. ASSUME NEW q \in Executions, NEW h \in Handles, Go!NextDocument(q, h) PROVE Goal
  <2>1. ~Taken(h) /\ document' = document /\ \E x : handle' = [handle EXCEPT ![h] = x]
    BY <1>11, GoOps DEF Go!NextDocument, Go!DoNext, Go!NextFreed
  <2> QED BY <1>1, <2>1, HandedOutSet DEF Renewed
<1>12. CASE Go!DrainReturn
  BY <1>2, <1>12 DEF Go!DrainReturn, Go!DoDriven
<1>13. CASE Go!EvaluateReturn
  BY <1>13, GoRenewsEvaluate
<1> QED BY <1>3, <1>4, <1>5, <1>6, <1>7, <1>8, <1>9, <1>10, <1>11, <1>12, <1>13 DEF Go!Next

\* What HandlesKept asks of a step, for one handle.
Kept(h, before, after) ==
  /\ ~before => ~after
  /\ before /\ ~after =>
       LET d == handle[h].document
       IN  ~IsOpen(d)' \/ native'.doc[d].revision > native.doc[d].revision

LEMMA GoKept ==
  ASSUME GoInv, GoTame, Go!Next, NEW h \in Handles, Taken(h)
  PROVE  Kept(h, Go!Usable(h), Go!Usable(h)')
<1> DEFINE d == handle[h].document
<1>1. HandedOut /\ Renewed(d) /\ d \in Documents /\ document[d].state # "unborn"
  BY GoRenews DEF GoInv, Base, Objects, HandleObjects, Lifetimes
<1>2. /\ handle[h].stamp \in Nat /\ document[d].generation \in Nat
      /\ handle[h].stamp <= document[d].generation
      /\ native.doc[d].revision \in Nat
  BY <1>1 DEF GoInv, GoHandles, Base, Objects, HandleObjects, DocumentObjects, Sound, Natives, DocumentRecords
<1>3. handle'[h] = handle[h]
  BY <1>1 DEF HandedOut
<1>4. Go!Usable(h) <=> document[d].state = "open" /\ handle[h].stamp = document[d].generation
  BY GoOps DEF Go!Usable, IsOpen
<1>5. Go!Usable(h)' <=> document'[d].state = "open" /\ handle[h].stamp = document'[d].generation
  BY <1>3 DEF Go!Usable, Go!IsOpen, Go!Taken, Taken, Go!Untaken, Untaken
<1>6. IsOpen(d)' <=> document'[d].state = "open"
  BY <1>3 DEF IsOpen
<1>7. CASE /\ document'[d].state = document[d].state
           /\ document'[d].generation = document[d].generation
  BY <1>4, <1>5, <1>7 DEF Kept
<1>8. CASE document'[d].state = "closed"
  BY <1>4, <1>5, <1>6, <1>8 DEF Kept
<1>9. CASE /\ document'[d].state = document[d].state
           /\ document[d].generation < document'[d].generation
           /\ native.doc[d].revision < native'.doc[d].revision
  <2>1. native'.doc[d].revision > native.doc[d].revision
    BY <1>9
  <2>2. handle[h].stamp # document'[d].generation
    BY <1>2, <1>9
  <2> QED BY <1>4, <1>5, <2>1, <2>2 DEF Kept
<1> QED BY <1>1, <1>7, <1>8, <1>9 DEF Renewed

\* Documents of handles stay as they are, or are closed.
Outlast ==
  \A d \in Documents : document[d].state # "unborn" => document'[d].state \in {document[d].state, "closed"}
\* A Lua handle is left alone, or cleared when its document is closed or edited.
LuaLasts(h) ==
  LET d == handle[h].document
  IN  \/ handle'[h] = handle[h]
      \/ /\ handle'[h].document = d /\ handle'[h].at = NULL
         /\ document'[d].state = "closed" \/ native.doc[d].revision < native'.doc[d].revision
LuaLast == Outlast /\ \A h \in Handles : Taken(h) => LuaLasts(h)

LEMMA LuaLastsCleared ==
  ASSUME Objects, NEW d \in Documents, Outlast,
         document'[d].state = "closed" \/ native.doc[d].revision < native'.doc[d].revision,
         NEW S \in SUBSET Lua!Listed(d), handle' = Lua!Cleared(S)
  PROVE  LuaLast
<1> SUFFICES ASSUME NEW h \in Handles PROVE LuaLasts(h)
  BY DEF LuaLast
<1>1. handle[h] \in HandleObjects
  BY DEF Objects
<1>2. handle'[h] = IF h \in S THEN [handle[h] EXCEPT !.at = NULL] ELSE handle[h]
  BY DEF Lua!Cleared
<1>3. CASE h \notin S
  BY <1>2, <1>3 DEF LuaLasts
<1>4. CASE h \in S
  <2>1. handle[h].document = d /\ handle'[h] = [handle[h] EXCEPT !.at = NULL]
    BY <1>2, <1>4 DEF Lua!Listed
  <2>2. handle'[h].document = d /\ handle'[h].at = NULL
    BY <1>1, <2>1 DEF HandleObjects
  <2> QED BY <2>1, <2>2 DEF LuaLasts
<1> QED BY <1>3, <1>4

LEMMA LuaLastsParse ==
  ASSUME LuaInv, NEW d \in Documents, Lua!Parse(d) \/ Lua!CloseDocument(d)
  PROVE  LuaLast
<1>1. Objects
  BY DEF LuaInv, Base
<1>2. CASE Lua!Parse(d)
  <2>1. /\ document[d].state = "unborn" /\ handle' = handle
        /\ document' = [document EXCEPT ![d].state = "open"]
    BY <1>2 DEF Lua!Parse, Lua!DoParse
  <2>2. \A e \in Documents \ {d} : document'[e] = document[e]
    BY <1>1, <2>1, DocumentOpened
  <2> QED BY <2>1, <2>2 DEF LuaLast, LuaLasts, Outlast
<1>3. CASE Lua!CloseDocument(d)
  <2>1. /\ handle' = Lua!Cleared(Lua!Listed(d))
        /\ document' = [document EXCEPT ![d].state = "closed"]
    BY <1>3 DEF Lua!CloseDocument
  <2>2. document'[d].state = "closed" /\ \A e \in Documents \ {d} : document'[e] = document[e]
    BY <1>1, <2>1 DEF Objects, DocumentObjects
  <2>3. Outlast
    BY <2>2 DEF Outlast
  <2> DEFINE S == Lua!Listed(d)
  <2>4. S \in SUBSET Lua!Listed(d) /\ handle' = Lua!Cleared(S)
    BY <2>1
  <2> HIDE DEF S
  <2> QED BY <1>1, <2>2, <2>3, <2>4, LuaLastsCleared
<1> QED BY <1>2, <1>3

LEMMA LuaLastsSetValue ==
  ASSUME LuaInv, NEW d \in Documents, NEW a \in NodesOf(native, d), Lua!SetValue(d, a)
  PROVE  LuaLast
<1> DEFINE S == Lua!Marked(d, a, FALSE)
<1>1. document' = document /\ handle' = Lua!Cleared(S) /\ S \in SUBSET Lua!Listed(d)
  BY DEF Lua!SetValue, Lua!Marked
<1>2. PICK at \in Chains(native, 1) : native' = NSetValue(native, a, at)
  BY LuaOps DEF Lua!SetValue
<1>3. native \in Natives /\ Heap(native) /\ Objects
  BY DEF LuaInv, Base, Sound
<1>4. Edited(native, native', d) /\ native'.doc[d].revision = native.doc[d].revision + 1
  BY <1>2, <1>3, SetValueSound
<1>5. Outlast
  BY <1>1 DEF Outlast
<1> HIDE DEF S
<1> QED BY <1>1, <1>3, <1>4, <1>5, RevisionMoved, LuaLastsCleared

LEMMA LuaLastsErase ==
  ASSUME LuaInv, NEW d \in Documents, NEW a \in NodesOf(native, d), Lua!Erase(d, a)
  PROVE  LuaLast
<1> DEFINE S == Lua!Marked(d, a, TRUE)
<1>1. /\ document' = document /\ handle' = Lua!Cleared(S) /\ S \in SUBSET Lua!Listed(d)
      /\ document[d].active = 0 /\ native' = NErase(native, a)
  BY LuaOps DEF Lua!Erase, Lua!Marked
<1>2. native \in Natives /\ Heap(native) /\ native.node[a].document = d /\ Counted /\ Objects
  BY DEF LuaInv, Base, Sound, NodesOf, Guarded
<1>3. native' = Erased(native, a)
  <2>1. ~(native.doc[d].callbacks > 0)
    BY <1>1, <1>2 DEF Counted
  <2> QED BY <1>1, <1>2, <2>1 DEF NErase
<1>4. Edited(native, native', d) /\ native'.doc[d].revision = native.doc[d].revision + 1
  BY <1>2, <1>3, ErasedSound
<1>5. Outlast
  BY <1>1 DEF Outlast
<1> HIDE DEF S
<1> QED BY <1>1, <1>2, <1>4, <1>5, RevisionMoved, LuaLastsCleared

LEMMA LuaLastsEdit ==
  ASSUME LuaInv, NEW q \in Executions, Lua!EditDocument(q)
  PROVE  LuaLast
<1> DEFINE d == execution[q].document
<1>1. /\ Base /\ Objects /\ Lifetimes /\ Sound(native) /\ native \in Natives /\ Heap(native)
  BY DEF LuaInv, Base, Sound
<1>2. d # NULL /\ document[d].state = "open" /\ NEditable(native, q, d) /\ document' = document
  BY LuaOps DEF Lua!EditDocument, Lua!Check, IsOpen
<1>3. PICK r \in NEdits(native, q, d) :
        /\ native' = r.native
        /\ handle' = IF r.applied > 0 THEN Lua!Cleared(Lua!Listed(d)) ELSE handle
  BY LuaOps DEF Lua!EditDocument
<1>4. d \in Documents
  BY <1>1, <1>2 DEF Objects, ExecutionObjects
<1> HIDE DEF d
<1>5. native.doc[d].alive /\ NPulls(native, q) /\ native.exec[q].owner = d
  BY <1>1, <1>2, <1>4 DEF Lifetimes, NEditable
<1>6. native.exec[q].results \subseteq NodesOf(native, d)
  BY <1>1, <1>4, <1>5, Editable
<1>7. /\ Edited(native, native', d) /\ r.applied \in Nat
      /\ native'.doc[d].revision = native.doc[d].revision + r.applied
  BY <1>1, <1>3, <1>4, <1>5, <1>6, EditsSound
<1>8. Outlast
  BY <1>2 DEF Outlast
<1>9. CASE r.applied > 0
  <2> DEFINE S == Lua!Listed(d)
  <2>1. S \in SUBSET Lua!Listed(d) /\ handle' = Lua!Cleared(S)
    BY <1>3, <1>9
  <2>2. native.doc[d].revision < native'.doc[d].revision
    BY <1>1, <1>4, <1>7, <1>9 DEF Natives, DocumentRecords
  <2> HIDE DEF S
  <2> QED BY <1>1, <1>4, <1>8, <2>1, <2>2, LuaLastsCleared
<1>10. CASE ~(r.applied > 0)
  BY <1>3, <1>8, <1>10 DEF LuaLast, LuaLasts
<1> QED BY <1>9, <1>10

LEMMA LuaLastsEvaluate ==
  ASSUME LuaInv, \/ \E q \in Executions, d \in Documents : Lua!EvaluateDocument(q, d)
                 \/ Lua!EvaluateReturn
  PROVE  LuaLast
<1>1. Objects
  BY DEF LuaInv, Base
<1>2. handle' = handle /\ \/ document' = document
                          \/ \E d, k : document' = [document EXCEPT ![d].active = k]
  BY DEF Lua!EvaluateDocument, Lua!EvaluateReturn, Lua!DoEvaluated
<1>3. \A e \in Documents : /\ document'[e].state = document[e].state
                           /\ document'[e].generation = document[e].generation
  BY <1>1, <1>2 DEF Objects, DocumentObjects
<1> QED BY <1>2, <1>3 DEF LuaLast, LuaLasts, Outlast

LEMMA LuaLastsStep ==
  ASSUME LuaInv, Lua!Next
  PROVE  LuaLast
<1>1. Objects
  BY DEF LuaInv, Base
<1>2. ASSUME document' = document, HandedOut PROVE LuaLast
  BY <1>2 DEF HandedOut, LuaLast, LuaLasts, Outlast
<1>3. handle' = handle => HandedOut
  BY DEF HandedOut
<1>4. ASSUME NEW d \in Documents, \/ Lua!Parse(d) \/ Lua!CloseDocument(d)
                                  \/ \E a \in Lua!NodesOf(native, d) : Lua!SetValue(d, a) \/ Lua!Erase(d, a)
      PROVE  LuaLast
  <2>1. Lua!NodesOf(native, d) = NodesOf(native, d)
    BY LuaOps
  <2> QED BY <1>4, <2>1, LuaLastsParse, LuaLastsSetValue, LuaLastsErase
<1>5. ASSUME NEW h \in Handles, NEW d \in Documents,
             Lua!Insert(d, h) \/ \E a \in Addresses : Lua!Navigate(h, d, a)
      PROVE  LuaLast
  <2>1. ~Taken(h) /\ document' = document /\ \E x : handle' = [handle EXCEPT ![h] = x]
    BY <1>5, LuaOps DEF Lua!Insert, Lua!Navigate
  <2> QED BY <1>1, <1>2, <2>1, HandedOutSet
<1>6. CASE Lua!DropProgram
  BY <1>2, <1>3, <1>6 DEF Lua!DropProgram, Lua!DoRelease
<1>7. ASSUME NEW q \in Executions, \/ Lua!NewExecution(q) \/ Lua!CloseExecution(q) \/ Lua!Reset(q)
                                   \/ Lua!SetInput(q) \/ Lua!Bind(q) \/ Lua!Feed(q) \/ Lua!Drain(q)
      PROVE  LuaLast
  <2>1. document' = document /\ handle' = handle
    BY <1>7 DEF Lua!NewExecution, Lua!CloseExecution, Lua!Reset, Lua!SetInput, Lua!Bind, Lua!Feed, Lua!Drain,
                Lua!DoCreate, Lua!DoDispose, Lua!DoReset, Lua!DoFeed, Lua!DoDrive
  <2> QED BY <1>2, <1>3, <2>1
<1>8. ASSUME NEW q \in Executions, Lua!EditDocument(q) PROVE LuaLast
  BY <1>8, LuaLastsEdit
<1>9. ASSUME NEW q \in Executions, NEW d \in Documents, Lua!EvaluateDocument(q, d) PROVE LuaLast
  BY <1>9, LuaLastsEvaluate
<1>10. ASSUME NEW q \in Executions, NEW h \in Handles, Lua!NextDocument(q, h) PROVE LuaLast
  <2>1. ~Taken(h) /\ document' = document /\ \E x : handle' = [handle EXCEPT ![h] = x]
    BY <1>10, LuaOps DEF Lua!NextDocument, Lua!DoNext
  <2> QED BY <1>1, <1>2, <2>1, HandedOutSet
<1>11. CASE Lua!DrainReturn
  BY <1>2, <1>3, <1>11 DEF Lua!DrainReturn, Lua!DoDriven
<1>12. CASE Lua!EvaluateReturn
  BY <1>12, LuaLastsEvaluate
<1> QED BY <1>4, <1>5, <1>6, <1>7, <1>8, <1>9, <1>10, <1>11, <1>12 DEF Lua!Next

LEMMA LuaKept ==
  ASSUME LuaInv, Lua!Next, NEW h \in Handles, Taken(h)
  PROVE  Kept(h, Lua!Usable(h), Lua!Usable(h)')
<1> DEFINE d == handle[h].document
<1>1. /\ LuaLasts(h) /\ d \in Documents /\ d # NULL
      /\ document'[d].state \in {document[d].state, "closed"}
  <2>1. d \in Documents /\ d # NULL /\ document[d].state # "unborn"
    BY DEF LuaInv, Base, Objects, HandleObjects, Lifetimes
  <2> QED BY <2>1, LuaLastsStep DEF LuaLast, Outlast
<1>2. Lua!Usable(h) <=> handle[h].at # NULL /\ document[d].state = "open"
  BY LuaOps DEF Lua!Usable, IsOpen
<1>3. handle'[h].document = d
  BY <1>1 DEF LuaLasts
<1>4. /\ Lua!Usable(h)' <=> handle'[h].at # NULL /\ document'[d].state = "open"
      /\ IsOpen(d)' <=> document'[d].state = "open"
  BY <1>1, <1>3 DEF Lua!Usable, Lua!IsOpen, Lua!Taken, Lua!Untaken, IsOpen
<1>5. CASE handle'[h] = handle[h]
  BY <1>1, <1>2, <1>4, <1>5 DEF Kept
<1>6. CASE /\ handle'[h].at = NULL
           /\ document'[d].state = "closed" \/ native.doc[d].revision < native'.doc[d].revision
  <2>1. ~Lua!Usable(h)'
    BY <1>4, <1>6
  <2>2. ~IsOpen(d)' \/ native'.doc[d].revision > native.doc[d].revision
    BY <1>4, <1>6
  <2> QED BY <2>1, <2>2 DEF Kept
<1> QED BY <1>1, <1>5, <1>6 DEF LuaLasts

\* c_node of a handle x of an open document: the cache is trusted until the epoch moves.
Looked(n, x) ==
  IF x.at = NULL \/ x.stamp = n.doc[x.document].epoch THEN x
  ELSE [x EXCEPT !.stamp = n.doc[x.document].epoch,
                 !.at = IF n.node[x.at].document = x.document /\ n.node[x.at].identity = x.identity
                        THEN @ ELSE NULL]

LEMMA CppLooked ==
  ASSUME NEW n, NEW x \in HandleObjects, CppSeen(n, x)
  PROVE  /\ Looked(n, x).at # NULL <=> x.at # NULL /\ Denotes(n, x)
         /\ Looked(n, x).at # NULL => Looked(n, x).at = x.at
         /\ Looked(n, x).document = x.document /\ Looked(n, x).identity = x.identity
         /\ x.at = NULL => Looked(n, x).at = NULL
<1> DEFINE s == n.doc[x.document].epoch
           b == IF n.node[x.at].document = x.document /\ n.node[x.at].identity = x.identity
                THEN x.at ELSE NULL
           y == [x EXCEPT !.stamp = s, !.at = b]
<1>1. y.at = b /\ y.document = x.document /\ y.identity = x.identity
  BY DEF HandleObjects
<1>2. Looked(n, x) = IF x.at = NULL \/ x.stamp = s THEN x ELSE y
  BY DEF Looked
<1>3. x.at \in Addresses \cup {NULL}
  BY DEF HandleObjects
<1>4. CASE x.at = NULL \/ x.stamp = s
  BY <1>2, <1>4 DEF CppSeen
<1>5. CASE ~(x.at = NULL \/ x.stamp = s)
  <2>1. Looked(n, x) = y /\ x.at \in Addresses
    BY <1>2, <1>3, <1>5
  <2> HIDE DEF y
  <2> QED BY <1>1, <1>5, <2>1 DEF Denotes, NodesOf
<1> QED BY <1>4, <1>5

\* A C++ handle is left alone, or looks.
CppLasts(h) == handle'[h] = handle[h] \/ handle'[h] = Cpp!Refreshed(h)
CppLast == Outlast /\ \A h \in Handles : Taken(h) => CppLasts(h)

LEMMA CppLastsDocument ==
  ASSUME CppInv, NEW d \in Documents, Cpp!Parse(d) \/ Cpp!CloseDocument(d)
  PROVE  CppLast
<1>1. Objects
  BY DEF CppInv, Base
<1>2. CASE Cpp!Parse(d)
  <2>1. /\ document[d].state = "unborn" /\ handle' = handle
        /\ document' = [document EXCEPT ![d].state = "open"]
    BY <1>2 DEF Cpp!Parse, Cpp!DoParse
  <2>2. \A e \in Documents \ {d} : document'[e] = document[e]
    BY <1>1, <2>1, DocumentOpened
  <2> QED BY <2>1, <2>2 DEF CppLast, CppLasts, Outlast
<1>3. CASE Cpp!CloseDocument(d)
  <2>1. handle' = handle /\ document' = [document EXCEPT ![d].state = "closed"]
    BY <1>3 DEF Cpp!CloseDocument
  <2>2. document'[d].state = "closed" /\ \A e \in Documents \ {d} : document'[e] = document[e]
    BY <1>1, <2>1 DEF Objects, DocumentObjects
  <2> QED BY <2>1, <2>2 DEF CppLast, CppLasts, Outlast
<1> QED BY <1>2, <1>3

LEMMA CppLastsStep ==
  ASSUME CppInv, Cpp!Next
  PROVE  CppLast
<1>1. Objects
  BY DEF CppInv, Base
<1>2. ASSUME document' = document, HandedOut PROVE CppLast
  BY <1>2 DEF HandedOut, CppLast, CppLasts, Outlast
<1>3. handle' = handle => HandedOut
  BY DEF HandedOut
<1>4. ASSUME NEW d \in Documents, Cpp!Parse(d) \/ Cpp!CloseDocument(d) PROVE CppLast
  BY <1>4, CppLastsDocument
<1>5. ASSUME NEW h \in Handles, NEW d \in Documents,
             Cpp!Insert(d, h) \/ \E a \in Addresses : Cpp!Navigate(h, d, a)
      PROVE  CppLast
  <2>1. ~Taken(h) /\ document' = document /\ \E x : handle' = [handle EXCEPT ![h] = x]
    BY <1>5, CppOps DEF Cpp!Insert, Cpp!Navigate
  <2> QED BY <1>1, <1>2, <2>1, HandedOutSet
<1>6. ASSUME NEW h \in Handles, Cpp!SetValue(h) \/ Cpp!Erase(h) \/ Cpp!Observe(h) PROVE CppLast
  <2>1. document' = document /\ handle' = [handle EXCEPT ![h] = Cpp!Refreshed(h)]
    BY <1>6 DEF Cpp!SetValue, Cpp!Erase, Cpp!Observe
  <2>2. handle'[h] = Cpp!Refreshed(h) /\ \A g \in Handles \ {h} : handle'[g] = handle[g]
    BY <1>1, <2>1 DEF Objects
  <2> QED BY <2>1, <2>2 DEF CppLast, CppLasts, Outlast
<1>7. CASE Cpp!CloseProgram
  BY <1>2, <1>3, <1>7 DEF Cpp!CloseProgram, Cpp!DoRelease
<1>8. ASSUME NEW q \in Executions,
             Cpp!NewExecution(q) \/ Cpp!CloseExecution(q) \/ Cpp!Reset(q) \/ Cpp!Drain(q)
      PROVE  CppLast
  <2>1. document' = document /\ handle' = handle
    BY <1>8 DEF Cpp!NewExecution, Cpp!CloseExecution, Cpp!Reset, Cpp!Drain, Cpp!DoCreate, Cpp!DoDispose
  <2> QED BY <1>2, <1>3, <2>1
<1>9. ASSUME NEW q \in Executions, NEW d \in Documents, Cpp!EvaluateDocument(q, d) \/ Cpp!EditQuery(q, d)
      PROVE  CppLast
  BY <1>2, <1>3, <1>9 DEF Cpp!EvaluateDocument, Cpp!EditQuery
<1>10. ASSUME NEW q \in Executions, NEW h \in Handles, Cpp!NextDocument(q, h) PROVE CppLast
  <2>1. ~Taken(h) /\ document' = document /\ \E x : handle' = [handle EXCEPT ![h] = x]
    BY <1>10, CppOps DEF Cpp!NextDocument, Cpp!DoNext
  <2> QED BY <1>1, <1>2, <2>1, HandedOutSet
<1>11. CASE Cpp!DrainReturn
  BY <1>2, <1>3, <1>11 DEF Cpp!DrainReturn, Cpp!DoDriven
<1>12. CASE Cpp!EvaluateReturn
  BY <1>2, <1>3, <1>12 DEF Cpp!EvaluateReturn
<1> QED BY <1>4, <1>5, <1>6, <1>7, <1>8, <1>9, <1>10, <1>11, <1>12 DEF Cpp!Next

\* A node is never found again, and lost only with an edit of its document.
LEMMA DenotesMoves ==
  ASSUME NEW n \in Natives, NEW m \in Natives, NEW e \in Documents, Evolves(n, m, e),
         NEW x \in HandleObjects, x.document \in Documents, x.at # NULL, x.identity <= n.identity,
         n.doc[x.document].alive, m.doc[x.document].alive
  PROVE  /\ Denotes(m, x) => Denotes(n, x)
         /\ Denotes(n, x) => Denotes(m, x) \/ n.doc[x.document].revision < m.doc[x.document].revision
<1> DEFINE d == x.document
           a == x.at
<1>1. d # NULL /\ a \in Addresses /\ x.identity \in Nat /\ n.identity \in Nat
      /\ n.node[a].identity \in Nat /\ m.node[a].identity \in Nat
  BY NullApart DEF HandleObjects, Natives, NodeRecords
<1>2. ASSUME Denotes(m, x) PROVE Denotes(n, x)
  <2>1. m.node[a].document = d /\ m.node[a].identity = x.identity
    BY <1>2 DEF Denotes, NodesOf
  <2>2. ~(n.identity < m.node[a].identity)
    BY <1>1, <2>1
  <2>3. Same(n, m, a)
    BY <1>1, <2>1, <2>2 DEF Evolves, Elsewhere, Newer
  <2> QED BY <1>1, <2>1, <2>3 DEF Same, Denotes, NodesOf
<1>3. ASSUME Denotes(n, x), ~(n.doc[d].revision < m.doc[d].revision) PROVE Denotes(m, x)
  <2>1. n.node[a].document = d /\ n.node[a].identity = x.identity
    BY <1>3 DEF Denotes, NodesOf
  <2>2. Same(n, m, a)
    BY <1>1, <1>3, <2>1 DEF Evolves, Elsewhere, Noted
  <2> QED BY <1>1, <2>1, <2>2 DEF Same, Denotes, NodesOf
<1> QED BY <1>2, <1>3

LEMMA CppKept ==
  ASSUME CppInv, Cpp!Next, NEW h \in Handles, Taken(h)
  PROVE  Kept(h, Cpp!Usable(h), Cpp!Usable(h)')
<1> DEFINE x == handle[h]
           y == handle'[h]
           d == x.document
<1>1. CppInv' /\ CppLast
  BY CppStep, CppLastsStep DEF CppAfter
<1>2. PICK e \in Documents : Evolves(native, native', e)
  BY CppStep DEF CppAfter
<1>3. /\ native \in Natives /\ native' \in Natives /\ x \in HandleObjects /\ y \in HandleObjects
      /\ d \in Documents /\ d # NULL /\ document[d].state # "unborn" /\ x.identity <= native.identity
  BY <1>1 DEF CppInv, Base, Sound, Objects, HandleObjects, Lifetimes
<1>4. document'[d].state \in {document[d].state, "closed"} /\ CppLasts(h)
  BY <1>1, <1>3 DEF CppLast, Outlast
<1>5. /\ document[d].state = "open" => CppSeen(native, x) /\ native.doc[d].alive
                                       /\ Cpp!Refreshed(h) = Looked(native, x)
      /\ document[d].state # "open" => Cpp!Refreshed(h) = x
  <2>1. document[d].state = "open" => CppSeen(native, x) /\ native.doc[d].alive
    BY <1>3 DEF CppInv, CppHandles, Base, Lifetimes
  <2>2. Cpp!Refreshed(h) = IF document[d].state # "open" THEN x ELSE Looked(native, x)
    BY CppOps DEF Cpp!Refreshed, IsOpen, Looked
  <2> QED BY <2>1, <2>2
<1>6. /\ y.document = d /\ y.identity = x.identity /\ y.at \in {x.at, NULL}
      /\ y.at = NULL => x.at = NULL \/ ~Denotes(native, x)
  <2>1. CASE y = x
    BY <2>1
  <2>2. CASE document[d].state = "open" /\ y = Looked(native, x)
    BY <1>3, <1>5, <2>2, CppLooked
  <2> QED BY <1>4, <1>5, <2>1, <2>2 DEF CppLasts
<1>7. handle'[h] # Untaken
  BY <1>3, <1>6 DEF Untaken
<1>8. Cpp!Usable(h) <=> document[d].state = "open" /\ x.at # NULL /\ Denotes(native, x)
  <2>1. Cpp!Usable(h) <=> document[d].state = "open" /\ Cpp!Refreshed(h).at # NULL
    BY CppOps DEF Cpp!Usable, IsOpen
  <2>2. CASE document[d].state = "open"
    BY <1>3, <1>5, <2>1, <2>2, CppLooked
  <2> QED BY <2>1, <2>2
<1>9. /\ Cpp!Usable(h)' <=> document'[d].state = "open" /\ y.at # NULL /\ Denotes(native', y)
      /\ document'[d].state = "open" => native'.doc[d].alive
  <2>1. Cpp!Usable(h)' <=> document'[d].state = "open" /\ (Cpp!Refreshed(h)').at # NULL
    BY <1>6, <1>7 DEF Cpp!Usable, Cpp!IsOpen, Cpp!Taken, Cpp!Untaken, Untaken
  <2>2. document'[d].state = "open" => CppSeen(native', y) /\ native'.doc[d].alive
    BY <1>1, <1>3, <1>6, <1>7 DEF CppInv, CppHandles, Base, Lifetimes, Taken, Untaken
  <2>3. document'[d].state = "open" => (Cpp!Refreshed(h)') = Looked(native', y)
    BY <1>6 DEF Cpp!Refreshed, Cpp!IsOpen, Looked
  <2>4. CASE document'[d].state = "open"
    BY <1>3, <2>1, <2>2, <2>3, <2>4, CppLooked
  <2> QED BY <2>1, <2>2, <2>4
<1>10. IsOpen(d)' <=> document'[d].state = "open"
  BY <1>6 DEF IsOpen
<1>11. y.at = x.at => (Denotes(native', y) <=> Denotes(native', x))
  BY <1>6 DEF Denotes, NodesOf
<1> HIDE DEF x, y, d
<1>12. ASSUME Cpp!Usable(h)' PROVE Cpp!Usable(h)
  <2>1. document[d].state = "open" /\ y.at # NULL /\ x.at # NULL /\ Denotes(native', x)
        /\ native'.doc[d].alive /\ native.doc[d].alive
    BY <1>4, <1>5, <1>6, <1>9, <1>11, <1>12
  <2>2. Denotes(native, x)
    BY <1>2, <1>3, <2>1, DenotesMoves DEF d
  <2> QED BY <1>8, <2>1, <2>2
<1>13. ASSUME Cpp!Usable(h), ~Cpp!Usable(h)', document'[d].state = "open"
       PROVE  native.doc[d].revision < native'.doc[d].revision
  <2>1. document[d].state = "open" /\ x.at # NULL /\ Denotes(native, x) /\ y.at = x.at
        /\ native'.doc[d].alive /\ native.doc[d].alive
    BY <1>5, <1>6, <1>8, <1>9, <1>13
  <2>2. ~Denotes(native', x)
    BY <1>9, <1>11, <1>13, <2>1
  <2> QED BY <1>2, <1>3, <2>1, <2>2, DenotesMoves DEF d
<1>14. native.doc[d].revision < native'.doc[d].revision => native'.doc[d].revision > native.doc[d].revision
  OBVIOUS
<1> QED BY <1>10, <1>12, <1>13, <1>14 DEF Kept, d, x

-----------------------------------------------------------------------------
LEMMA ComparedKept ==
  ASSUME BindingInv, Tame, language \in {"go", "lua", "c++"}, MCNext, NEW h \in Handles, Taken(h)
  PROVE  Kept(h, Usable(h), Usable(h)')
<1>1. language' = language
  BY DEF MCNext
<1>2. CASE language = "go"
  <2>1. Go!Next /\ GoInv /\ GoTame
    BY <1>2 DEF MCNext, BindingInv, Tame, Stray, GoTame
  <2>2. Usable(h) = Go!Usable(h) /\ Usable(h)' = Go!Usable(h)'
    BY <1>1, <1>2 DEF Usable
  <2> QED BY <2>1, <2>2, GoKept
<1>3. CASE language = "lua"
  <2>1. Lua!Next /\ LuaInv
    BY <1>3 DEF MCNext, BindingInv
  <2>2. Usable(h) = Lua!Usable(h) /\ Usable(h)' = Lua!Usable(h)'
    BY <1>1, <1>3 DEF Usable
  <2> QED BY <2>1, <2>2, LuaKept
<1>4. CASE language = "c++"
  <2>1. Cpp!Next /\ CppInv
    BY <1>4 DEF MCNext, BindingInv
  <2>2. Usable(h) = Cpp!Usable(h) /\ Usable(h)' = Cpp!Usable(h)'
    BY <1>1, <1>4 DEF Usable
  <2> QED BY <2>1, <2>2, CppKept
<1> QED BY <1>2, <1>3, <1>4

-----------------------------------------------------------------------------
(* Go, Lua and C++: a native document belongs to its object. *)

LEMMA OwnedEdited ==
  ASSUME Owned, program' = program, Unpinned, native'.exec = native.exec, Unmoved,
         \A d \in Documents : /\ native'.doc[d].alive = native.doc[d].alive
                              /\ native'.doc[d].pending = 2 <=> native.doc[d].pending = 2
  PROVE  Owned'
<1>1. Lent
  BY DEF Owned
<1> QED BY <1>1, LentEdited, OwnedStays

LEMMA OwnedErase ==
  ASSUME Base, Owned, program' = program, Unpinned, Unmoved, NEW d \in Documents,
         NEW a \in NodesOf(native, d), native' = NErase(native, a)
  PROVE  Owned'
<1>1. Lent /\ Sound(native)
  BY DEF Owned, Base
<1> QED BY <1>1, LentErase, OwnedStays

LEMMA OwnedCreate ==
  ASSUME Base, Owned, Unmoved, NEW q \in Executions, execution[q] = Idle,
         native' = [native EXCEPT !.exec[q] = Fresh], execution' = [execution EXCEPT ![q].open = TRUE],
         program' = [program EXCEPT !.references = @ + 1]
  PROVE  Owned'
<1>1. Lent /\ Sound(native) /\ Objects
  BY DEF Owned, Base
<1>2. /\ Undisposed /\ native'.exec[q] = Fresh
      /\ \A p \in Executions \ {q} : native'.exec[p] = native.exec[p]
  BY <1>1, ExecReplaced
<1> QED BY <1>1, <1>2, LentCreate, OwnedStays

LEMMA OwnedDispose ==
  ASSUME Base, Owned, Unmoved, NEW q \in Executions, execution[q].open,
         native' = [native EXCEPT !.exec[q] = NoExec],
         execution' = [execution EXCEPT ![q] = [Idle EXCEPT !.invalid = TRUE]],
         program' = [program EXCEPT !.references = @ - 1]
  PROVE  Owned'
<1>1. Lent /\ Sound(native) /\ Objects
  BY DEF Owned, Base
<1>2. /\ Undisposed /\ native'.exec[q] = NoExec
      /\ \A p \in Executions \ {q} : native'.exec[p] = native.exec[p]
  BY <1>1, ExecReplaced
<1> QED BY <1>1, <1>2, LentDispose, OwnedStays

LEMMA OwnedReset ==
  ASSUME Base, Owned, Unmoved, NEW q \in Executions, execution[q].open,
         native' = [native EXCEPT !.exec[q] = Fresh], program' = program,
         execution' \in {execution, [execution EXCEPT ![q] = [Idle EXCEPT !.open = TRUE]]}
  PROVE  Owned'
<1>1. Lent /\ Sound(native) /\ Objects /\ native \in Natives
  BY DEF Owned, Base, Sound
<1>2. /\ Undisposed /\ native'.exec[q] = Fresh
      /\ \A p \in Executions \ {q} : native'.exec[p] = native.exec[p]
  BY <1>1, ExecReplaced
<1> QED BY <1>1, <1>2, LentReset, OwnedStays

LEMMA OwnedLent ==
  ASSUME Base, Owned, Unmoved, NEW q \in Executions, ExecOnly(native, native', q),
         program' = program, execution'[q].open = execution[q].open,
         \A p \in Executions \ {q} : execution'[p] = execution[p],
         native'.exec[q].phase = "none" => native.exec[q].phase = "none",
         \/ /\ native'.exec[q].windows = native.exec[q].windows
            /\ execution'[q].pins \in {execution[q].pins, execution[q].pins + 1}
         \/ /\ native'.exec[q].windows = native.exec[q].windows + 1
            /\ execution'[q].pins = execution[q].pins + 1
  PROVE  Owned'
<1>1. Lent /\ Sound(native) /\ Objects
  BY DEF Owned, Base
<1> QED BY <1>1, LentMore, OwnedStays

LEMMA OwnedRelease ==
  ASSUME Owned, native' = native, document' = document, execution' = execution, program.open,
         program' = [open |-> FALSE, references |-> program.references - 1]
  PROVE  Owned'
<1>1. Lent
  BY DEF Owned
<1> QED BY <1>1, LentRelease, OwnedStays DEF Undisposed

LEMMA OwnedDrive ==
  ASSUME Base, Owned, Unmoved, NEW q \in Executions, NDrives(native, q) \/ NVisits(native, q),
         native' = NDrive(native, q), program' = program, Unpinned,
         \A p \in Executions \ {q} : execution'[p] = execution[p]
  PROVE  Owned'
<1>1. Lent /\ Sound(native) /\ Objects
  BY DEF Owned, Base
<1> QED BY <1>1, LentDrive, OwnedStays

LEMMA OwnedFeed ==
  ASSUME Base, Owned, Unmoved, NEW q \in Executions, NEW b \in BOOLEAN, program' = program,
         execution' = [execution EXCEPT ![q].pins = @ + 1, ![q].fed = TRUE, ![q].busy = b],
         native' = IF NDrives(native, q)
                   THEN NDrive([native EXCEPT !.exec[q].windows = @ + 1], q) ELSE native
  PROVE  Owned'
<1>1. Lent /\ Sound(native) /\ Objects
  BY DEF Owned, Base
<1>2. /\ execution'[q].open = execution[q].open /\ execution'[q].pins = execution[q].pins + 1
      /\ \A p \in Executions \ {q} : execution'[p] = execution[p]
  BY <1>1 DEF Objects, ExecutionObjects
<1> QED BY <1>1, <1>2, LentFeed, OwnedStays

LEMMA OwnedDriven ==
  ASSUME Base, Owned, Unmoved, calls # <<>>, Head(calls).document = NULL,
         NEW q, Head(calls).execution = q, NEW phase \in Phases(native, q),
         native' = NDriven(native, q, phase), program' = program, Unpinned,
         \A p \in Executions \ {q} : execution'[p] = execution[p]
  PROVE  Owned'
<1>1. Lent /\ Sound(native) /\ Objects
  BY DEF Owned, Base
<1>2. q \in Executions /\ native.exec[q].owner = NULL
  BY DrivenInput
<1> QED BY <1>1, <1>2, LentDriven, OwnedStays

LEMMA OwnedPull ==
  ASSUME Base, Owned, Unmoved, NEW q \in Executions, NEW a, native' = NPull(native, q, a),
         program' = program, execution' = execution
  PROVE  Owned'
<1>1. Lent /\ Sound(native) /\ Objects
  BY DEF Owned, Base
<1> QED BY <1>1, LentPull, OwnedStays

LEMMA OwnedEvaluate ==
  ASSUME Base, Owned, Unmoved, NEW q \in Executions, NEW d \in Documents, document[d].state = "open",
         NEvaluates(native, q, d), native' = NEvaluate(native, q, d), program' = program, Unpinned
  PROVE  Owned'
<1>1. Lent /\ Sound(native) /\ native.doc[d].alive
  BY DEF Owned, Base, Lifetimes
<1> QED BY <1>1, LentEvaluate, OwnedStays

LEMMA OwnedEdits ==
  ASSUME Base, Owned, Unmoved, NEW q \in Executions, NEW d \in Documents, document[d].state = "open",
         NEditable(native, q, d), NEW r \in NEdits(native, q, d), native' = r.native,
         program' = program, execution' = execution
  PROVE  Owned'
<1>1. Lent /\ Sound(native) /\ native.doc[d].alive
  BY DEF Owned, Base, Lifetimes
<1> QED BY <1>1, LentEdits, OwnedStays

\* Go.
LEMMA GoOwnedDocument ==
  ASSUME GoInv, Owned, NEW d \in Documents, Go!Parse(d) \/ Go!CloseDocument(d)
  PROVE  Owned'
<1>1. Base /\ Objects
  BY DEF GoInv, Base
<1>2. CASE Go!Parse(d)
  <2>1. /\ document[d].state = "unborn" /\ document' = [document EXCEPT ![d].state = "open"]
        /\ execution' = execution /\ program' = program
        /\ \E at \in Chains(native, 2) : native' = NParse(native, d, at)
    BY <1>2, GoOps DEF Go!Parse, Go!DoParse
  <2> QED BY <1>1, <2>1, OwnedParse
<1>3. CASE Go!CloseDocument(d)
  <2>1. /\ document[d].state = "open" /\ native' = NFree(native, d)
        /\ document' = [document EXCEPT ![d].state = "closed", ![d].generation = @ + 1]
        /\ execution' = execution /\ program' = program
    BY <1>3, GoOps DEF Go!CloseDocument, IsOpen
  <2>2. document'[d].state = "closed" /\ \A e \in Documents \ {d} : document'[e].state = document[e].state
    BY <1>1, <2>1 DEF Objects, DocumentObjects
  <2> QED BY <1>1, <2>1, <2>2, OwnedFree
<1> QED BY <1>2, <1>3

LEMMA GoOwnedEdit ==
  ASSUME GoInv, GoTame, Owned, NEW h \in Handles,
         Go!SetValue(h) \/ Go!Erase(h) \/ \E d \in Documents : Go!Insert(d, h)
  PROVE  Owned'
<1>1. Base /\ Objects /\ native \in Natives /\ Heap(native) /\ Lifetimes
  BY DEF GoInv, Base, Sound
<1>2. ASSUME NEW d, document' = [document EXCEPT ![d].generation = @ + 1] PROVE Unmoved
  BY <1>1, <1>2 DEF Unmoved, Objects, DocumentObjects
<1>3. execution' = execution => Unpinned
  BY DEF Unpinned
<1>4. CASE Go!SetValue(h)
  <2> DEFINE d == handle[h].document
             a == handle[h].at
  <2>1. /\ Go!Usable(h) /\ ~Go!Stray(h) /\ execution' = execution /\ program' = program
        /\ document' = [document EXCEPT ![d].generation = @ + 1]
    BY <1>4 DEF Go!SetValue, Go!Changed, GoTame
  <2>2. PICK at \in Chains(native, 1) : native' = NSetValue(native, a, at)
    BY <1>4, GoOps DEF Go!SetValue
  <2>3. d \in Documents /\ a \in NodesOf(native, d)
    BY <2>1, GoUsable
  <2> HIDE DEF d, a
  <2>4. Edited(native, native', d) /\ native'.exec = native.exec
    BY <1>1, <2>2, <2>3, SetValueSound
  <2> QED BY <1>2, <1>3, <2>1, <2>4, OwnedEdited DEF Edited
<1>5. CASE Go!Erase(h)
  <2> DEFINE d == handle[h].document
             a == handle[h].at
  <2>1. /\ Go!Usable(h) /\ ~Go!Stray(h) /\ execution' = execution /\ program' = program
        /\ native' = NErase(native, a)
        /\ document' = [document EXCEPT ![d].generation = @ + 1]
    BY <1>5, GoOps DEF Go!Erase, Go!Changed, GoTame
  <2>2. d \in Documents /\ a \in NodesOf(native, d)
    BY <2>1, GoUsable
  <2> HIDE DEF d, a
  <2> QED BY <1>1, <1>2, <1>3, <2>1, <2>2, OwnedErase
<1>6. ASSUME NEW d \in Documents, Go!Insert(d, h) PROVE Owned'
  <2>1. /\ document[d].state = "open" /\ execution' = execution /\ program' = program
        /\ document' = [document EXCEPT ![d].generation = @ + 1]
    BY <1>6, GoOps DEF Go!Insert, Go!Changed, IsOpen
  <2>2. PICK at \in Chains(native, 1),
             parent \in {NULL} \cup {handle[g].at : g \in {x \in Handles : Go!Usable(x)
                                                                  /\ handle[x].document = d}} :
             native' = NInsert(native, d, parent, at)
    BY <1>6, GoOps DEF Go!Insert
  <2>3. parent \in Addresses \cup {NULL} /\ (parent # NULL => native.node[parent].document = d)
    <3>1. ASSUME NEW g \in Handles, Go!Usable(g), handle[g].document = d, parent = handle[g].at
          PROVE  parent \in NodesOf(native, d)
      BY <3>1, GoUsable DEF GoTame
    <3> QED BY <2>2, <3>1 DEF NodesOf
  <2>4. Edited(native, native', d) /\ native'.exec = native.exec
    BY <1>1, <2>1, <2>2, <2>3, InsertSound DEF Lifetimes
  <2> QED BY <1>2, <1>3, <2>1, <2>4, OwnedEdited DEF Edited
<1> QED BY <1>4, <1>5, <1>6

LEMMA GoOwnedExecution ==
  ASSUME GoInv, Owned, NEW q \in Executions,
         \/ Go!NewExecution(q) \/ Go!CloseExecution(q) \/ Go!Reset(q) \/ Go!SetInput(q)
         \/ Go!Bind(q) \/ Go!Feed(q) \/ Go!Drain(q)
  PROVE  Owned'
<1>1. Base /\ Objects /\ Sound(native)
  BY DEF GoInv, Base
<1>2. document' = document /\ Unmoved
  BY DEF Go!NewExecution, Go!CloseExecution, Go!Reset, Go!SetInput, Go!Bind, Go!Feed, Go!Drain,
         Go!DoCreate, Go!DoDispose, Go!DoReset, Go!DoFeed, Go!DoDrive, Unmoved
<1>3. CASE Go!NewExecution(q)
  <2>1. /\ execution[q] = Idle /\ native' = [native EXCEPT !.exec[q] = Fresh]
        /\ execution' = [execution EXCEPT ![q].open = TRUE]
        /\ program' = [program EXCEPT !.references = @ + 1]
    BY <1>3, GoOps DEF Go!NewExecution, Go!DoCreate
  <2> QED BY <1>1, <1>2, <2>1, OwnedCreate
<1>4. CASE Go!CloseExecution(q)
  <2>1. /\ execution[q].open /\ native' = [native EXCEPT !.exec[q] = NoExec]
        /\ execution' = [execution EXCEPT ![q] = [Idle EXCEPT !.invalid = TRUE]]
        /\ program' = [program EXCEPT !.references = @ - 1]
    BY <1>4, GoOps DEF Go!CloseExecution, Go!DoDispose
  <2> QED BY <1>1, <1>2, <2>1, OwnedDispose
<1>5. CASE Go!Reset(q)
  <2>1. /\ execution[q].open /\ native' = [native EXCEPT !.exec[q] = Fresh] /\ program' = program
        /\ execution' = [execution EXCEPT ![q] = [Idle EXCEPT !.open = TRUE]]
    BY <1>5, GoOps DEF Go!Reset, Go!DoReset
  <2> QED BY <1>1, <1>2, <2>1, OwnedReset
<1>6. CASE Go!SetInput(q) \/ Go!Bind(q)
  <2>1. /\ native' = [native EXCEPT !.exec[q].windows = @ + 1] /\ program' = program
        /\ \/ execution' = [execution EXCEPT ![q].pins = @ + 1, ![q].reader = TRUE]
           \/ execution' = [execution EXCEPT ![q].pins = @ + 1]
    BY <1>6 DEF Go!SetInput, Go!Bind
  <2>2. /\ execution'[q].open = execution[q].open /\ execution'[q].pins = execution[q].pins + 1
        /\ \A p \in Executions \ {q} : execution'[p] = execution[p]
    BY <1>1, <2>1 DEF Objects, ExecutionObjects
  <2>3. /\ ExecOnly(native, native', q) /\ native'.exec[q].phase = native.exec[q].phase
        /\ native'.exec[q].windows = native.exec[q].windows + 1
    BY <1>1, <2>1, WindowSound
  <2> QED BY <1>1, <1>2, <2>1, <2>2, <2>3, OwnedLent
<1>7. CASE Go!Feed(q)
  <2>1. /\ \E b \in BOOLEAN :
             execution' = [execution EXCEPT ![q].pins = @ + 1, ![q].fed = TRUE, ![q].busy = b]
        /\ native' = IF NDrives(native, q)
                     THEN NDrive([native EXCEPT !.exec[q].windows = @ + 1], q) ELSE native
        /\ program' = program
    BY <1>7, GoOps DEF Go!Feed, Go!DoFeed, Go!NDrives
  <2> QED BY <1>1, <1>2, <2>1, OwnedFeed
<1>8. CASE Go!Drain(q)
  <2>1. /\ NVisits(native, q) /\ native' = NDrive(native, q) /\ program' = program
        /\ execution' = [execution EXCEPT ![q].busy = TRUE]
    BY <1>8, GoOps DEF Go!Drain, Go!DoDrive
  <2>2. Unpinned /\ \A p \in Executions \ {q} : execution'[p] = execution[p]
    BY <1>1, <2>1 DEF Objects, ExecutionObjects, Unpinned
  <2> QED BY <1>1, <1>2, <2>1, <2>2, OwnedDrive
<1> QED BY <1>3, <1>4, <1>5, <1>6, <1>7, <1>8

LEMMA GoOwnedEvaluate ==
  ASSUME GoInv, Owned, \/ \E q \in Executions, d \in Documents : Go!EvaluateDocument(q, d)
                       \/ Go!DrainReturn \/ Go!EvaluateReturn
  PROVE  Owned'
<1>1. Base /\ Objects /\ Counted
  BY DEF GoInv, Base, Guarded
<1>2. ASSUME NEW q \in Executions, NEW d \in Documents, Go!EvaluateDocument(q, d) PROVE Owned'
  <2>1. /\ document[d].state = "open" /\ program' = program
        /\ \E x, b : execution' = [execution EXCEPT ![q].document = d, ![q].holds = x, ![q].busy = b]
        /\ \/ native' = native /\ document' = document
           \/ /\ NEvaluates(native, q, d) /\ native' = NEvaluate(native, q, d)
              /\ document' = [document EXCEPT ![d].active = @ + 1]
    BY <1>2, GoOps DEF Go!EvaluateDocument, IsOpen
  <2>2. Unpinned
    BY <1>1, <2>1 DEF Unpinned, Objects, ExecutionObjects
  <2>3. Unmoved
    <3>1. CASE document' = document
      BY <3>1 DEF Unmoved
    <3>2. CASE document' = [document EXCEPT ![d].active = @ + 1]
      BY <1>1, <3>2 DEF Unmoved, Objects, DocumentObjects
    <3> QED BY <2>1, <3>1, <3>2
  <2>4. CASE native' = native
    BY <2>1, <2>2, <2>3, <2>4, OwnedEdited
  <2> QED BY <1>1, <2>1, <2>2, <2>3, <2>4, OwnedEvaluate
<1>3. CASE Go!DrainReturn
  <2> DEFINE q == Head(calls).execution
  <2>1. /\ calls # <<>> /\ Head(calls).document = NULL /\ program' = program /\ document' = document
        /\ \E phase \in Phases(native, q) : native' = NDriven(native, q, phase)
        /\ execution' = [execution EXCEPT ![q].busy = FALSE]
    BY <1>3, GoOps DEF Go!DrainReturn, Go!DoDriven
  <2>2. Unpinned /\ Unmoved /\ \A p \in Executions \ {q} : execution'[p] = execution[p]
    BY <1>1, <2>1 DEF Unpinned, Objects, ExecutionObjects, Unmoved
  <2> QED BY <1>1, <2>1, <2>2, OwnedDriven
<1>4. CASE Go!EvaluateReturn
  <2> DEFINE q == Head(calls).execution
             d == Head(calls).document
  <2>1. /\ calls # <<>> /\ d # NULL /\ program' = program
        /\ execution' = [execution EXCEPT ![q].busy = FALSE]
        /\ document' = [document EXCEPT ![d].active = @ - 1]
    BY <1>4 DEF Go!EvaluateReturn, Go!DoEvaluated
  <2>2. PICK ok \in BOOLEAN, S \in SUBSET NodesOf(native, d) : native' = NEvaluated(native, q, ok, S)
    BY <1>4, GoOps DEF Go!EvaluateReturn, Go!DoEvaluated, Selections
  <2>3. native.doc[d].pending = 0
    BY <1>1, <2>1, Innermost DEF Counted
  <2>4. Unpinned /\ Unmoved
    BY <1>1, <2>1 DEF Unpinned, Objects, ExecutionObjects, DocumentObjects, Unmoved
  <2> QED BY <1>1, <2>1, <2>2, <2>3, <2>4, OwnedEvaluated
<1> QED BY <1>2, <1>3, <1>4

LEMMA GoOwned ==
  ASSUME GoInv, GoTame, Owned, Go!Next
  PROVE  Owned'
<1>1. Base /\ Objects
  BY DEF GoInv, Base
<1>2. ASSUME NEW d \in Documents, Go!Parse(d) \/ Go!CloseDocument(d) PROVE Owned'
  BY <1>2, GoOwnedDocument
<1>3. ASSUME NEW h \in Handles, NEW d \in Documents, Go!Insert(d, h) PROVE Owned'
  BY <1>3, GoOwnedEdit
<1>4. ASSUME NEW h \in Handles, NEW d \in Documents, NEW a \in Addresses, Go!Navigate(h, d, a)
      PROVE  Owned'
  <2>1. native' = native /\ document' = document /\ execution' = execution /\ program' = program
    BY <1>4 DEF Go!Navigate
  <2> QED BY <2>1, OwnedEdited DEF Unpinned, Unmoved
<1>5. ASSUME NEW h \in Handles, Go!SetValue(h) \/ Go!Erase(h) PROVE Owned'
  BY <1>5, GoOwnedEdit
<1>6. CASE Go!CloseProgram
  <2>1. /\ native' = native /\ document' = document /\ execution' = execution /\ program.open
        /\ program' = [open |-> FALSE, references |-> program.references - 1]
    BY <1>6 DEF Go!CloseProgram, Go!DoRelease
  <2> QED BY <2>1, OwnedRelease
<1>7. ASSUME NEW q \in Executions, \/ Go!NewExecution(q) \/ Go!CloseExecution(q) \/ Go!Reset(q)
                                   \/ Go!SetInput(q) \/ Go!Bind(q) \/ Go!Feed(q) \/ Go!Drain(q)
      PROVE  Owned'
  BY <1>7, GoOwnedExecution
<1>8. ASSUME NEW q \in Executions, Go!EditDocument(q) PROVE Owned'
  <2> DEFINE d == execution[q].document
  <2>1. /\ d # NULL /\ document[d].state = "open" /\ NEditable(native, q, d)
        /\ execution' = execution /\ program' = program
    BY <1>8, GoOps DEF Go!EditDocument, Go!Check, IsOpen
  <2>2. PICK r \in NEdits(native, q, d) :
          /\ native' = r.native
          /\ document' = IF r.applied > 0 THEN [document EXCEPT ![d].generation = @ + 1] ELSE document
    BY <1>8, GoOps DEF Go!EditDocument, Go!Changed
  <2>3. d \in Documents
    BY <1>1, <2>1 DEF Objects, ExecutionObjects
  <2>4. Unmoved
    BY <1>1, <2>2 DEF Unmoved, Objects, DocumentObjects
  <2> QED BY <1>1, <2>1, <2>2, <2>3, <2>4, OwnedEdits
<1>9. ASSUME NEW q \in Executions, NEW h \in Handles, Go!NextDocument(q, h) PROVE Owned'
  <2>1. /\ document' = document /\ execution' = execution /\ program' = program
        /\ \E a : native' = NPull(native, q, a)
    BY <1>9, GoOps DEF Go!NextDocument, Go!DoNext, Go!NextFreed
  <2> QED BY <1>1, <2>1, OwnedPull DEF Unmoved
<1>10. CASE \/ \E q \in Executions, d \in Documents : Go!EvaluateDocument(q, d)
            \/ Go!DrainReturn \/ Go!EvaluateReturn
  BY <1>10, GoOwnedEvaluate
<1> QED BY <1>2, <1>3, <1>4, <1>5, <1>6, <1>7, <1>8, <1>9, <1>10 DEF Go!Next

\* Lua.
LEMMA LuaOwnedDocument ==
  ASSUME LuaInv, Owned, NEW d \in Documents, Lua!Parse(d) \/ Lua!CloseDocument(d)
  PROVE  Owned'
<1>1. Base /\ Objects
  BY DEF LuaInv, Base
<1>2. CASE Lua!Parse(d)
  <2>1. /\ document[d].state = "unborn" /\ document' = [document EXCEPT ![d].state = "open"]
        /\ execution' = execution /\ program' = program
        /\ \E at \in Chains(native, 2) : native' = NParse(native, d, at)
    BY <1>2, LuaOps DEF Lua!Parse, Lua!DoParse
  <2> QED BY <1>1, <2>1, OwnedParse
<1>3. CASE Lua!CloseDocument(d)
  <2>1. /\ document[d].state = "open" /\ native' = NFree(native, d)
        /\ document' = [document EXCEPT ![d].state = "closed"]
        /\ execution' = execution /\ program' = program
    BY <1>3, LuaOps DEF Lua!CloseDocument, IsOpen
  <2>2. document'[d].state = "closed" /\ \A e \in Documents \ {d} : document'[e].state = document[e].state
    BY <1>1, <2>1 DEF Objects, DocumentObjects
  <2> QED BY <1>1, <2>1, <2>2, OwnedFree
<1> QED BY <1>2, <1>3

LEMMA LuaOwnedEdit ==
  ASSUME LuaInv, Owned, NEW d \in Documents,
         \/ \E a \in NodesOf(native, d) : Lua!SetValue(d, a) \/ Lua!Erase(d, a)
         \/ \E h \in Handles : Lua!Insert(d, h)
  PROVE  Owned'
<1>1. Base /\ Objects /\ native \in Natives /\ Heap(native) /\ Lifetimes
  BY DEF LuaInv, Base, Sound
<1>2. /\ document[d].state = "open" /\ document' = document /\ execution' = execution
      /\ program' = program
  BY LuaOps DEF Lua!SetValue, Lua!Erase, Lua!Insert, IsOpen
<1>3. Unpinned /\ Unmoved
  BY <1>2 DEF Unpinned, Unmoved
<1>4. ASSUME NEW a \in NodesOf(native, d), Lua!SetValue(d, a) PROVE Owned'
  <2>1. PICK at \in Chains(native, 1) : native' = NSetValue(native, a, at)
    BY <1>4, LuaOps DEF Lua!SetValue
  <2>2. Edited(native, native', d) /\ native'.exec = native.exec
    BY <1>1, <2>1, SetValueSound
  <2> QED BY <1>2, <1>3, <2>2, OwnedEdited DEF Edited
<1>5. ASSUME NEW a \in NodesOf(native, d), Lua!Erase(d, a) PROVE Owned'
  <2>1. native' = NErase(native, a)
    BY <1>5, LuaOps DEF Lua!Erase
  <2> QED BY <1>1, <1>2, <1>3, <2>1, OwnedErase
<1>6. ASSUME NEW h \in Handles, Lua!Insert(d, h) PROVE Owned'
  <2>1. PICK at \in Chains(native, 1), parent \in {NULL} \cup NodesOf(native, d) :
             native' = NInsert(native, d, parent, at)
    BY <1>6, LuaOps DEF Lua!Insert
  <2>2. parent \in Addresses \cup {NULL} /\ (parent # NULL => native.node[parent].document = d)
    BY <2>1 DEF NodesOf
  <2>3. Edited(native, native', d) /\ native'.exec = native.exec
    BY <1>1, <1>2, <2>1, <2>2, InsertSound DEF Lifetimes
  <2> QED BY <1>2, <1>3, <2>3, OwnedEdited DEF Edited
<1> QED BY <1>4, <1>5, <1>6

LEMMA LuaOwnedExecution ==
  ASSUME LuaInv, Owned, NEW q \in Executions,
         \/ Lua!NewExecution(q) \/ Lua!CloseExecution(q) \/ Lua!Reset(q) \/ Lua!SetInput(q)
         \/ Lua!Bind(q) \/ Lua!Feed(q) \/ Lua!Drain(q)
  PROVE  Owned'
<1>1. Base /\ Objects /\ Sound(native)
  BY DEF LuaInv, Base
<1>2. document' = document /\ Unmoved
  BY DEF Lua!NewExecution, Lua!CloseExecution, Lua!Reset, Lua!SetInput, Lua!Bind, Lua!Feed, Lua!Drain,
         Lua!DoCreate, Lua!DoDispose, Lua!DoReset, Lua!DoFeed, Lua!DoDrive, Unmoved
<1>3. CASE Lua!NewExecution(q)
  <2>1. /\ execution[q] = Idle /\ native' = [native EXCEPT !.exec[q] = Fresh]
        /\ execution' = [execution EXCEPT ![q].open = TRUE]
        /\ program' = [program EXCEPT !.references = @ + 1]
    BY <1>3, LuaOps DEF Lua!NewExecution, Lua!DoCreate
  <2> QED BY <1>1, <1>2, <2>1, OwnedCreate
<1>4. CASE Lua!CloseExecution(q)
  <2>1. /\ execution[q].open /\ native' = [native EXCEPT !.exec[q] = NoExec]
        /\ execution' = [execution EXCEPT ![q] = [Idle EXCEPT !.invalid = TRUE]]
        /\ program' = [program EXCEPT !.references = @ - 1]
    BY <1>4, LuaOps DEF Lua!CloseExecution, Lua!DoDispose
  <2> QED BY <1>1, <1>2, <2>1, OwnedDispose
<1>5. CASE Lua!Reset(q)
  <2>1. /\ execution[q].open /\ native' = [native EXCEPT !.exec[q] = Fresh] /\ program' = program
        /\ execution' = [execution EXCEPT ![q] = [Idle EXCEPT !.open = TRUE]]
    BY <1>5, LuaOps DEF Lua!Reset, Lua!Ready, Lua!DoReset
  <2> QED BY <1>1, <1>2, <2>1, OwnedReset
<1>6. CASE Lua!SetInput(q) \/ Lua!Bind(q)
  <2>1. /\ native' \in {native, [native EXCEPT !.exec[q].windows = @ + 1]} /\ program' = program
        /\ \/ \E taken : execution' = [execution EXCEPT ![q].pins = @ + 1, ![q].reader = @ \/ taken]
           \/ execution' = [execution EXCEPT ![q].pins = @ + 1]
    BY <1>6 DEF Lua!SetInput, Lua!Bind
  <2>2. /\ execution'[q].open = execution[q].open /\ execution'[q].pins = execution[q].pins + 1
        /\ \A p \in Executions \ {q} : execution'[p] = execution[p]
    BY <1>1, <2>1 DEF Objects, ExecutionObjects
  <2>3. CASE native' = native
    BY <1>1, <1>2, <2>1, <2>2, <2>3, OwnedLent DEF ExecOnly
  <2>4. CASE native' = [native EXCEPT !.exec[q].windows = @ + 1]
    <3>1. /\ ExecOnly(native, native', q) /\ native'.exec[q].phase = native.exec[q].phase
          /\ native'.exec[q].windows = native.exec[q].windows + 1
      BY <1>1, <2>4, WindowSound
    <3> QED BY <1>1, <1>2, <2>1, <2>2, <3>1, OwnedLent
  <2> QED BY <2>1, <2>3, <2>4
<1>7. CASE Lua!Feed(q)
  <2>1. /\ \E b \in BOOLEAN :
             execution' = [execution EXCEPT ![q].pins = @ + 1, ![q].fed = TRUE, ![q].busy = b]
        /\ native' = IF NDrives(native, q)
                     THEN NDrive([native EXCEPT !.exec[q].windows = @ + 1], q) ELSE native
        /\ program' = program
    BY <1>7, LuaOps DEF Lua!Feed, Lua!DoFeed, Lua!NDrives
  <2> QED BY <1>1, <1>2, <2>1, OwnedFeed
<1>8. CASE Lua!Drain(q)
  <2>1. /\ NVisits(native, q) /\ native' = NDrive(native, q) /\ program' = program
        /\ execution' = [execution EXCEPT ![q].busy = TRUE]
    BY <1>8, LuaOps DEF Lua!Drain, Lua!DoDrive
  <2>2. Unpinned /\ \A p \in Executions \ {q} : execution'[p] = execution[p]
    BY <1>1, <2>1 DEF Objects, ExecutionObjects, Unpinned
  <2> QED BY <1>1, <1>2, <2>1, <2>2, OwnedDrive
<1> QED BY <1>3, <1>4, <1>5, <1>6, <1>7, <1>8

LEMMA LuaOwnedEvaluate ==
  ASSUME LuaInv, Owned, \/ \E q \in Executions, d \in Documents : Lua!EvaluateDocument(q, d)
                        \/ Lua!DrainReturn \/ Lua!EvaluateReturn
  PROVE  Owned'
<1>1. Base /\ Objects /\ Counted
  BY DEF LuaInv, Base, Guarded
<1>2. ASSUME NEW q \in Executions, NEW d \in Documents, Lua!EvaluateDocument(q, d) PROVE Owned'
  <2>1. /\ document[d].state = "open" /\ program' = program
        /\ \E b : execution' = [execution EXCEPT ![q].document = d, ![q].busy = b]
        /\ \/ native' = native /\ document' = document
           \/ /\ NEvaluates(native, q, d) /\ native' = NEvaluate(native, q, d)
              /\ document' = [document EXCEPT ![d].active = @ + 1]
    BY <1>2, LuaOps DEF Lua!EvaluateDocument, IsOpen
  <2>2. Unpinned
    BY <1>1, <2>1 DEF Unpinned, Objects, ExecutionObjects
  <2>3. Unmoved
    <3>1. CASE document' = document
      BY <3>1 DEF Unmoved
    <3>2. CASE document' = [document EXCEPT ![d].active = @ + 1]
      BY <1>1, <3>2 DEF Unmoved, Objects, DocumentObjects
    <3> QED BY <2>1, <3>1, <3>2
  <2>4. CASE native' = native
    BY <2>1, <2>2, <2>3, <2>4, OwnedEdited
  <2> QED BY <1>1, <2>1, <2>2, <2>3, <2>4, OwnedEvaluate
<1>3. CASE Lua!DrainReturn
  <2> DEFINE q == Head(calls).execution
  <2>1. /\ calls # <<>> /\ Head(calls).document = NULL /\ program' = program /\ document' = document
        /\ \E phase \in Phases(native, q) : native' = NDriven(native, q, phase)
        /\ execution' = [execution EXCEPT ![q].busy = FALSE]
    BY <1>3, LuaOps DEF Lua!DrainReturn, Lua!DoDriven
  <2>2. Unpinned /\ Unmoved /\ \A p \in Executions \ {q} : execution'[p] = execution[p]
    BY <1>1, <2>1 DEF Unpinned, Objects, ExecutionObjects, Unmoved
  <2> QED BY <1>1, <2>1, <2>2, OwnedDriven
<1>4. CASE Lua!EvaluateReturn
  <2> DEFINE q == Head(calls).execution
             d == Head(calls).document
  <2>1. /\ calls # <<>> /\ d # NULL /\ program' = program
        /\ execution' = [execution EXCEPT ![q].busy = FALSE]
        /\ document' = [document EXCEPT ![d].active = @ - 1]
    BY <1>4 DEF Lua!EvaluateReturn, Lua!DoEvaluated
  <2>2. PICK ok \in BOOLEAN, S \in SUBSET NodesOf(native, d) : native' = NEvaluated(native, q, ok, S)
    BY <1>4, LuaOps DEF Lua!EvaluateReturn, Lua!DoEvaluated, Selections
  <2>3. native.doc[d].pending = 0
    BY <1>1, <2>1, Innermost DEF Counted
  <2>4. Unpinned /\ Unmoved
    BY <1>1, <2>1 DEF Unpinned, Objects, ExecutionObjects, DocumentObjects, Unmoved
  <2> QED BY <1>1, <2>1, <2>2, <2>3, <2>4, OwnedEvaluated
<1> QED BY <1>2, <1>3, <1>4

LEMMA LuaOwned ==
  ASSUME LuaInv, Owned, Lua!Next
  PROVE  Owned'
<1>1. Base /\ Objects
  BY DEF LuaInv, Base
<1>2. ASSUME NEW d \in Documents, Lua!Parse(d) \/ Lua!CloseDocument(d) PROVE Owned'
  BY <1>2, LuaOwnedDocument
<1>3. ASSUME NEW d \in Documents, \/ \E a \in NodesOf(native, d) : Lua!SetValue(d, a) \/ Lua!Erase(d, a)
                                  \/ \E h \in Handles : Lua!Insert(d, h)
      PROVE  Owned'
  BY <1>3, LuaOwnedEdit
<1>4. ASSUME NEW h \in Handles, NEW d \in Documents, NEW a \in Addresses, Lua!Navigate(h, d, a)
      PROVE  Owned'
  <2>1. native' = native /\ document' = document /\ execution' = execution /\ program' = program
    BY <1>4 DEF Lua!Navigate
  <2> QED BY <2>1, OwnedEdited DEF Unpinned, Unmoved
<1>5. CASE Lua!DropProgram
  <2>1. /\ native' = native /\ document' = document /\ execution' = execution /\ program.open
        /\ program' = [open |-> FALSE, references |-> program.references - 1]
    BY <1>5 DEF Lua!DropProgram, Lua!DoRelease
  <2> QED BY <2>1, OwnedRelease
<1>6. ASSUME NEW q \in Executions, \/ Lua!NewExecution(q) \/ Lua!CloseExecution(q) \/ Lua!Reset(q)
                                   \/ Lua!SetInput(q) \/ Lua!Bind(q) \/ Lua!Feed(q) \/ Lua!Drain(q)
      PROVE  Owned'
  BY <1>6, LuaOwnedExecution
<1>7. ASSUME NEW q \in Executions, Lua!EditDocument(q) PROVE Owned'
  <2> DEFINE d == execution[q].document
  <2>1. /\ d # NULL /\ document[d].state = "open" /\ NEditable(native, q, d)
        /\ execution' = execution /\ program' = program /\ document' = document
        /\ \E r \in NEdits(native, q, d) : native' = r.native
    BY <1>7, LuaOps DEF Lua!EditDocument, Lua!Check, IsOpen
  <2>2. d \in Documents /\ Unmoved
    BY <1>1, <2>1 DEF Objects, ExecutionObjects, Unmoved
  <2> QED BY <1>1, <2>1, <2>2, OwnedEdits
<1>8. ASSUME NEW q \in Executions, NEW h \in Handles, Lua!NextDocument(q, h) PROVE Owned'
  <2>1. /\ document' = document /\ execution' = execution /\ program' = program
        /\ \E a : native' = NPull(native, q, a)
    BY <1>8, LuaOps DEF Lua!NextDocument, Lua!DoNext
  <2> QED BY <1>1, <2>1, OwnedPull DEF Unmoved
<1>9. CASE \/ \E q \in Executions, d \in Documents : Lua!EvaluateDocument(q, d)
           \/ Lua!DrainReturn \/ Lua!EvaluateReturn
  BY <1>9, LuaOwnedEvaluate
<1> QED BY <1>2, <1>3, <1>4, <1>5, <1>6, <1>7, <1>8, <1>9, LuaOps DEF Lua!Next

\* C++.
LEMMA CppOwnedDocument ==
  ASSUME CppInv, Owned, NEW d \in Documents, Cpp!Parse(d) \/ Cpp!CloseDocument(d)
  PROVE  Owned'
<1>1. Base /\ Objects
  BY DEF CppInv, Base
<1>2. CASE Cpp!Parse(d)
  <2>1. /\ document[d].state = "unborn" /\ document' = [document EXCEPT ![d].state = "open"]
        /\ execution' = execution /\ program' = program
        /\ \E at \in Chains(native, 2) : native' = NParse(native, d, at)
    BY <1>2, CppOps DEF Cpp!Parse, Cpp!DoParse
  <2> QED BY <1>1, <2>1, OwnedParse
<1>3. CASE Cpp!CloseDocument(d)
  <2>1. /\ document[d].state = "open" /\ native' = NFree(native, d)
        /\ document' = [document EXCEPT ![d].state = "closed"]
        /\ execution' = execution /\ program' = program
    BY <1>3, CppOps DEF Cpp!CloseDocument, IsOpen
  <2>2. document'[d].state = "closed" /\ \A e \in Documents \ {d} : document'[e].state = document[e].state
    BY <1>1, <2>1 DEF Objects, DocumentObjects
  <2> QED BY <1>1, <2>1, <2>2, OwnedFree
<1> QED BY <1>2, <1>3

LEMMA CppOwnedEdit ==
  ASSUME CppInv, Owned, NEW h \in Handles,
         Cpp!SetValue(h) \/ Cpp!Erase(h) \/ \E d \in Documents : Cpp!Insert(d, h)
  PROVE  Owned'
<1>1. Base /\ Objects /\ native \in Natives /\ Heap(native) /\ Lifetimes
  BY DEF CppInv, Base, Sound
<1>2. document' = document /\ execution' = execution /\ program' = program
  BY DEF Cpp!SetValue, Cpp!Erase, Cpp!Insert
<1>3. Unpinned /\ Unmoved
  BY <1>2 DEF Unpinned, Unmoved
<1> DEFINE d == handle[h].document
           a == handle[h].at
<1>4. CASE Cpp!SetValue(h)
  <2>1. PICK at \in Chains(native, 1) : native' = NSetValue(native, a, at)
    BY <1>4, CppOps DEF Cpp!SetValue
  <2>2. d \in Documents /\ a \in NodesOf(native, d)
    BY <1>4, CppUsable DEF Cpp!SetValue
  <2> HIDE DEF d, a
  <2>3. Edited(native, native', d) /\ native'.exec = native.exec
    BY <1>1, <2>1, <2>2, SetValueSound
  <2> QED BY <1>2, <1>3, <2>3, OwnedEdited DEF Edited
<1>5. CASE Cpp!Erase(h)
  <2>1. native' = NErase(native, a)
    BY <1>5, CppOps DEF Cpp!Erase
  <2>2. d \in Documents /\ a \in NodesOf(native, d)
    BY <1>5, CppUsable DEF Cpp!Erase
  <2> HIDE DEF d, a
  <2> QED BY <1>1, <1>2, <1>3, <2>1, <2>2, OwnedErase
<1>6. ASSUME NEW e \in Documents, Cpp!Insert(e, h) PROVE Owned'
  <2>1. document[e].state = "open"
    BY <1>6, CppOps DEF Cpp!Insert, IsOpen
  <2>2. PICK at \in Chains(native, 1),
             parent \in {NULL} \cup {handle[g].at : g \in {x \in Handles : Cpp!Usable(x)
                                                                  /\ handle[x].document = e}} :
             native' = NInsert(native, e, parent, at)
    BY <1>6, CppOps DEF Cpp!Insert
  <2>3. parent \in Addresses \cup {NULL} /\ (parent # NULL => native.node[parent].document = e)
    <3>1. ASSUME NEW g \in Handles, Cpp!Usable(g), handle[g].document = e, parent = handle[g].at
          PROVE  parent \in NodesOf(native, e)
      BY <3>1, CppUsable
    <3> QED BY <2>2, <3>1 DEF NodesOf
  <2>4. Edited(native, native', e) /\ native'.exec = native.exec
    BY <1>1, <2>1, <2>2, <2>3, InsertSound DEF Lifetimes
  <2> QED BY <1>2, <1>3, <2>4, OwnedEdited DEF Edited
<1> QED BY <1>4, <1>5, <1>6

LEMMA CppOwnedExecution ==
  ASSUME CppInv, Owned, NEW q \in Executions,
         \/ Cpp!NewExecution(q) \/ Cpp!CloseExecution(q) \/ Cpp!Reset(q) \/ Cpp!Drain(q)
         \/ \E d \in Documents : Cpp!EvaluateDocument(q, d) \/ Cpp!EditQuery(q, d)
  PROVE  Owned'
<1>1. Base /\ Objects /\ Sound(native)
  BY DEF CppInv, Base
<1>2. document' = document /\ Unmoved
  BY DEF Cpp!NewExecution, Cpp!CloseExecution, Cpp!Reset, Cpp!Drain, Cpp!EvaluateDocument, Cpp!EditQuery,
         Cpp!DoCreate, Cpp!DoDispose, Unmoved
<1>3. CASE Cpp!NewExecution(q)
  <2>1. /\ execution[q] = Idle /\ native' = [native EXCEPT !.exec[q] = Fresh]
        /\ execution' = [execution EXCEPT ![q].open = TRUE]
        /\ program' = [program EXCEPT !.references = @ + 1]
    BY <1>3, CppOps DEF Cpp!NewExecution, Cpp!DoCreate
  <2> QED BY <1>1, <1>2, <2>1, OwnedCreate
<1>4. CASE Cpp!CloseExecution(q)
  <2>1. /\ execution[q].open /\ native' = [native EXCEPT !.exec[q] = NoExec]
        /\ execution' = [execution EXCEPT ![q] = [Idle EXCEPT !.invalid = TRUE]]
        /\ program' = [program EXCEPT !.references = @ - 1]
    BY <1>4, CppOps DEF Cpp!CloseExecution, Cpp!DoDispose
  <2> QED BY <1>1, <1>2, <2>1, OwnedDispose
<1>5. CASE Cpp!Reset(q)
  <2>1. /\ execution[q].open /\ native' = [native EXCEPT !.exec[q] = Fresh] /\ program' = program
        /\ execution' = execution
    BY <1>5, CppOps DEF Cpp!Reset
  <2> QED BY <1>1, <1>2, <2>1, OwnedReset
<1>6. CASE Cpp!Drain(q)
  <2>1. /\ NVisits(native, q) /\ native' = NDrive(native, q) /\ program' = program /\ execution' = execution
    BY <1>6, CppOps DEF Cpp!Drain
  <2> QED BY <1>1, <1>2, <2>1, OwnedDrive DEF Unpinned
<1>7. ASSUME NEW d \in Documents, Cpp!EvaluateDocument(q, d) PROVE Owned'
  <2>1. /\ document[d].state = "open" /\ NEvaluates(native, q, d) /\ native' = NEvaluate(native, q, d)
        /\ program' = program /\ execution' = execution
    BY <1>7, CppOps DEF Cpp!EvaluateDocument, IsOpen
  <2> QED BY <1>1, <1>2, <2>1, OwnedEvaluate DEF Unpinned
<1>8. ASSUME NEW d \in Documents, Cpp!EditQuery(q, d) PROVE Owned'
  <2>1. ~execution[q].open /\ execution' = execution /\ program' = program
    BY <1>8 DEF Cpp!EditQuery
  <2>2. /\ native'.exec[q] = NoExec /\ \A p \in Executions \ {q} : native'.exec[p] = native.exec[p]
        /\ \A f \in Documents : /\ native'.doc[f].alive = native.doc[f].alive
                                /\ native'.doc[f].pending = native.doc[f].pending
    BY <1>8, CppEditQuery
  <2>3. ProgramOwned'
    BY <2>1, OpenedSame DEF Owned, Lent
  <2>4. native.exec[q].windows \in Int /\ execution[q].pins \in Int /\ NoExec.windows = 0
    BY <1>1 DEF Sound, Natives, ExecRecords, Objects, ExecutionObjects, NoExec
  <2>5. Leased(q)'
    BY <2>1, <2>2, <2>4 DEF Leased, Owned, Lent
  <2>6. \A p \in Executions : Leased(p)'
    BY <2>1, <2>2, <2>5 DEF Leased, Owned, Lent
  <2>7. \A f \in Documents : Held(f)'
    BY <1>2, <2>2 DEF Held, Owned
  <2> QED BY <2>3, <2>6, <2>7 DEF Owned, Lent
<1> QED BY <1>3, <1>4, <1>5, <1>6, <1>7, <1>8

LEMMA CppOwnedReturn ==
  ASSUME CppInv, Owned, Cpp!DrainReturn \/ Cpp!EvaluateReturn
  PROVE  Owned'
<1>1. Base /\ Objects /\ CppDocuments
  BY DEF CppInv, Base
<1> DEFINE q == Head(calls).execution
           d == Head(calls).document
<1>2. CASE Cpp!DrainReturn
  <2>1. /\ calls # <<>> /\ d = NULL /\ program' = program /\ document' = document
        /\ \E phase \in Phases(native, q) : native' = NDriven(native, q, phase)
        /\ execution' = [execution EXCEPT ![q].busy = FALSE]
    BY <1>2, CppOps DEF Cpp!DrainReturn, Cpp!DoDriven
  <2>2. Unpinned /\ Unmoved /\ \A p \in Executions \ {q} : execution'[p] = execution[p]
    BY <1>1, <2>1 DEF Unpinned, Objects, ExecutionObjects, Unmoved
  <2> QED BY <1>1, <2>1, <2>2, OwnedDriven
<1>3. CASE Cpp!EvaluateReturn
  <2>1. /\ calls # <<>> /\ d # NULL /\ program' = program /\ document' = document
        /\ execution' \in {execution, [execution EXCEPT ![q].document = d]}
    BY <1>3 DEF Cpp!EvaluateReturn
  <2>2. PICK ok \in BOOLEAN, S \in SUBSET NodesOf(native, d) : native' = NEvaluated(native, q, ok, S)
    BY <1>3, CppOps DEF Cpp!EvaluateReturn, Selections
  <2>3. native.doc[d].pending = 2 => document[d].state # "open"
    BY <1>1, <2>1, Innermost DEF CppDocuments
  <2>4. Unpinned /\ Unmoved
    BY <1>1, <2>1 DEF Unpinned, Objects, ExecutionObjects, Unmoved
  <2> QED BY <1>1, <2>1, <2>2, <2>3, <2>4, OwnedEvaluated
<1> QED BY <1>2, <1>3

LEMMA CppOwned ==
  ASSUME CppInv, Owned, Cpp!Next
  PROVE  Owned'
<1>1. Base /\ Objects
  BY DEF CppInv, Base
<1>2. ASSUME NEW d \in Documents, Cpp!Parse(d) \/ Cpp!CloseDocument(d) PROVE Owned'
  BY <1>2, CppOwnedDocument
<1>3. ASSUME NEW h \in Handles, Cpp!SetValue(h) \/ Cpp!Erase(h) \/ \E d \in Documents : Cpp!Insert(d, h)
      PROVE  Owned'
  BY <1>3, CppOwnedEdit
<1>4. ASSUME NEW h \in Handles,
             Cpp!Observe(h) \/ \E d \in Documents, a \in Addresses : Cpp!Navigate(h, d, a)
      PROVE  Owned'
  <2>1. native' = native /\ document' = document /\ execution' = execution /\ program' = program
    BY <1>4 DEF Cpp!Navigate, Cpp!Observe
  <2> QED BY <2>1, OwnedEdited DEF Unpinned, Unmoved
<1>5. CASE Cpp!CloseProgram
  <2>1. /\ native' = native /\ document' = document /\ execution' = execution /\ program.open
        /\ program' = [open |-> FALSE, references |-> program.references - 1]
    BY <1>5 DEF Cpp!CloseProgram, Cpp!DoRelease
  <2> QED BY <2>1, OwnedRelease
<1>6. ASSUME NEW q \in Executions,
             \/ Cpp!NewExecution(q) \/ Cpp!CloseExecution(q) \/ Cpp!Reset(q) \/ Cpp!Drain(q)
             \/ \E d \in Documents : Cpp!EvaluateDocument(q, d) \/ Cpp!EditQuery(q, d)
      PROVE  Owned'
  BY <1>6, CppOwnedExecution
<1>7. ASSUME NEW q \in Executions, NEW h \in Handles, Cpp!NextDocument(q, h) PROVE Owned'
  <2>1. /\ document' = document /\ execution' = execution /\ program' = program
        /\ \E a : native' = NPull(native, q, a)
    BY <1>7, CppOps DEF Cpp!NextDocument, Cpp!DoNext
  <2> QED BY <1>1, <2>1, OwnedPull DEF Unmoved
<1>8. CASE Cpp!DrainReturn \/ Cpp!EvaluateReturn
  BY <1>8, CppOwnedReturn
<1> QED BY <1>2, <1>3, <1>4, <1>5, <1>6, <1>7, <1>8 DEF Cpp!Next

-----------------------------------------------------------------------------
LEMMA OwnedInit == MCInit => Owned
<1> SUFFICES ASSUME MCInit PROVE Owned
  OBVIOUS
<1>1. /\ native = NativeInit /\ document = [d \in Documents |-> Unborn]
      /\ execution = [q \in Executions |-> Idle] /\ program = [open |-> TRUE, references |-> 1]
  BY DEF MCInit, BindingInit
<1>2. Opened = {}
  BY <1>1 DEF Opened, Idle
<1>3. ProgramOwned
  BY <1>1, <1>2, FS_EmptySet DEF ProgramOwned
<1>4. \A q \in Executions : Leased(q)
  BY <1>1 DEF Leased, NativeInit, NoExec, Idle
<1>5. \A d \in Documents : Held(d)
  BY <1>1 DEF Held, NativeInit, NoDocument, Unborn
<1> QED BY <1>3, <1>4, <1>5 DEF Owned, Lent

Compared == language \in {"go", "lua", "c++"}

LEMMA OwnedStep ==
  ASSUME BindingInv, Tame, Compared, Owned, [MCNext]_mcVars
  PROVE  Owned'
<1>1. CASE UNCHANGED mcVars
  BY <1>1 DEF mcVars, bindingVars, Owned, Lent, ProgramOwned, Opened, Leased, Held
<1>2. CASE MCNext /\ language = "go"
  BY <1>2, GoOwned DEF MCNext, BindingInv, Tame, Stray, GoTame
<1>3. CASE MCNext /\ language = "lua"
  BY <1>3, LuaOwned DEF MCNext, BindingInv
<1>4. CASE MCNext /\ language = "c++"
  BY <1>4, CppOwned DEF MCNext, BindingInv
<1> QED BY <1>1, <1>2, <1>3, <1>4 DEF Compared

\* The document of an execution that a binding still accepts.
LEMMA AdmitsOpen ==
  ASSUME BindingInv, Compared, NEW q \in Executions, Admits(q), ~Strayed(q),
         native.exec[q].phase = "finished", native.exec[q].owner # NULL
  PROVE  native.doc[native.exec[q].owner].alive
<1>1. Base /\ native.exec[q].owner \in Documents
  BY DEF Compared, BindingInv, GoInv, LuaInv, CppInv, Base, Sound, Natives, ExecRecords
<1>2. execution[q].document = native.exec[q].owner /\ document[execution[q].document].state = "open"
  <2>1. CASE language = "go"
    BY <2>1, GoOps DEF Admits, Strayed, Go!Admits, Go!Check, Go!Strayed, IsOpen
  <2>2. CASE language = "lua"
    <3>1. LuaExecutions /\ Lua!Admits(q)
      BY <2>2 DEF Admits, BindingInv, LuaInv
    <3> QED BY <3>1, LuaOps DEF Lua!Admits, Lua!Check, IsOpen, LuaExecutions
  <2>3. CASE language = "c++"
    <3>1. CppExecutions /\ Cpp!Admits(q)
      BY <2>3 DEF Admits, BindingInv, CppInv
    <3> QED BY <3>1, CppOps DEF Cpp!Admits, Cpp!Check, IsOpen, CppExecutions
  <2> QED BY <2>1, <2>2, <2>3 DEF Compared
<1> QED BY <1>1, <1>2 DEF Base, Lifetimes

LEMMA BindingOwners ==
  ASSUME Compared
  PROVE  /\ ProgramOwners = Cardinality(Opened)
         /\ \A d \in Documents : DocumentOwners(d) = IF document[d].state = "open" THEN 1 ELSE 0
<1>1. /\ \A T : Go!Cardinality(T) = Cardinality(T)
      /\ \A T : Lua!Cardinality(T) = Cardinality(T)
      /\ \A T : Cpp!Cardinality(T) = Cardinality(T)
  BY DEF Go!Cardinality, Lua!Cardinality, Cpp!Cardinality, Cardinality
<1>2. CASE language = "go"
  BY <1>1, <1>2 DEF ProgramOwners, DocumentOwners, Go!ProgramOwners, Go!DocumentOwners, Go!IsOpen, Opened
<1>3. CASE language = "lua"
  BY <1>1, <1>3 DEF ProgramOwners, DocumentOwners, Lua!ProgramOwners, Lua!DocumentOwners, Lua!IsOpen, Opened
<1>4. CASE language = "c++"
  BY <1>1, <1>4 DEF ProgramOwners, DocumentOwners, Cpp!ProgramOwners, Cpp!DocumentOwners, Cpp!IsOpen, Opened
<1> QED BY <1>2, <1>3, <1>4 DEF Compared

LEMMA OwnedSafe ==
  ASSUME BindingInv, Compared, Owned
  PROVE  OwnershipSafe
<1>1. Sound(native) /\ Objects /\ Lent
  BY DEF Compared, BindingInv, GoInv, LuaInv, CppInv, Base, Owned
<1>2. ExecutionsSafe
  BY <1>1, LentSafe, AdmitsOpen DEF ExecutionsSafe
<1>3. program.references = ProgramOwners + (IF program.open THEN 1 ELSE 0)
  BY <1>1, LentSafe, BindingOwners
<1>4. \A d \in Documents : native.doc[d].alive <=> DocumentOwners(d) > 0 \/ native.doc[d].pending = 2
  BY BindingOwners DEF Owned, Held
<1> QED BY <1>1, <1>2, <1>3, <1>4, LentSafe DEF OwnershipSafe, OwnersCounted

-----------------------------------------------------------------------------
(* WebAssembly: a handle is an address and an identity, which the document is asked about. *)

LEMMA WasmOps ==
  /\ \A n, d : Wasm!NodesOf(n, d) = NodesOf(n, d)
  /\ \A n, k : Wasm!Chains(n, k) = Chains(n, k)
  /\ \A n, d, at : Wasm!NParse(n, d, at) = NParse(n, d, at)
  /\ \A n, a, at : Wasm!NSetValue(n, a, at) = NSetValue(n, a, at)
  /\ \A n, a : Wasm!NErase(n, a) = NErase(n, a)
  /\ \A n, d : Wasm!NFree(n, d) = NFree(n, d)
  /\ \A n, q, d : Wasm!NEdits(n, q, d) = NEdits(n, q, d)
  /\ \A n, q, ok, results : Wasm!NEvaluated(n, q, ok, results) = NEvaluated(n, q, ok, results)
  /\ \A n, d : Wasm!Roots(n, d) = Roots(n, d)
  /\ \A n, a : Wasm!Related(n, a) = Related(n, a)
  /\ \A n, d, a, s : Wasm!Node(n, d, a, s) = Node(n, d, a, s)
  /\ \A n, q, d : Wasm!NEvaluates(n, q, d) <=> NEvaluates(n, q, d)
  /\ \A n, q, d : Wasm!NEvaluate(n, q, d) = NEvaluate(n, q, d)
  /\ \A n, q : Wasm!NDrive(n, q) = NDrive(n, q)
  /\ \A n, q, p : Wasm!NDriven(n, q, p) = NDriven(n, q, p)
  /\ \A n, q : Wasm!NDrives(n, q) <=> NDrives(n, q)
  /\ \A n, q : Wasm!NVisits(n, q) <=> NVisits(n, q)
  /\ \A n, q : Wasm!Phases(n, q) = Phases(n, q)
  /\ \A n, q : Wasm!NPulls(n, q) <=> NPulls(n, q)
  /\ \A n, q, a : Wasm!NPull(n, q, a) = NPull(n, q, a)
  /\ \A n, q, d : Wasm!NEditable(n, q, d) <=> NEditable(n, q, d)
  /\ Wasm!Fresh = Fresh
  /\ Wasm!NoExec = NoExec
  /\ Wasm!Idle = Idle
  /\ Wasm!Untaken = Untaken
  /\ \A h : Wasm!Taken(h) <=> Taken(h)
  /\ \A d : Wasm!IsOpen(d) <=> IsOpen(d)
  /\ \A d : Wasm!Selections(d) = Selections(d)
  /\ \A q, d, p : Wasm!Call(q, d, p) = Call(q, d, p)
  /\ \A n, d : Wasm!Dropped(n, d) = Dropped(n, d)
  /\ \A s, d : Wasm!Disowned(s, d) = Disowned(s, d)
<1>1. \A T : Wasm!Cardinality(T) = Cardinality(T)
  BY DEF Wasm!Cardinality, Cardinality
<1>2. \A n, d : Wasm!NodesOf(n, d) = NodesOf(n, d)
  BY DEF Wasm!NodesOf, NodesOf
<1>3. \A n, a : Wasm!Above(n, a) = Above(n, a)
  BY DEF Wasm!Above, Above
<1>4. \A n, a : Wasm!Subtree(n, a) = Subtree(n, a)
  BY DEF Wasm!Above, Above, Wasm!Subtree, Subtree, Wasm!NodesOf, NodesOf
<1>5. \A n, S : Wasm!Release(n, S) = Release(n, S)
  BY DEF Wasm!Release, Release, Wasm!NoNode, NoNode
<1>6. \A n, d, p, at : Wasm!Allocate(n, d, p, at) = Allocate(n, d, p, at)
  BY DEF Wasm!Allocate, Allocate
<1>7. \A n, d, r, e : Wasm!Moved(n, d, r, e) = Moved(n, d, r, e)
  BY DEF Wasm!Moved, Moved
<1>8. \A n, k : Wasm!Chains(n, k) = Chains(n, k)
  BY DEF Wasm!Chains, Chains, Wasm!Vacant, Vacant, Wasm!Live, Live, Wasm!IsInjective, IsInjective
<1>9. \A n, d : Wasm!Freed(n, d) = Freed(n, d)
  BY <1>5 DEF Wasm!Freed, Freed, Wasm!NodesOf, NodesOf, Wasm!NoDocument, NoDocument
<1>10. \A n, T : Wasm!Tops(n, T) = Tops(n, T)
  BY DEF Wasm!Tops, Tops, Wasm!Above, Above
<1>11. \A n, T : Wasm!Under(n, T) = Under(n, T)
  BY DEF Wasm!Under, Under, Wasm!Above, Above, Wasm!Subtree, Subtree, Wasm!NodesOf, NodesOf
<1>12. \A n, T : Wasm!Below(n, T) = Below(n, T)
  BY DEF Wasm!Below, Below, Wasm!Above, Above, Wasm!Subtree, Subtree, Wasm!NodesOf, NodesOf
<1>13. \A n, d : Wasm!Doomed(n, d) = Doomed(n, d)
  BY DEF Wasm!Doomed, Doomed, Wasm!Above, Above, Wasm!Tops, Tops, Wasm!NodesOf, NodesOf
<1>14. \A n, d : Wasm!Purged(n, d) = Purged(n, d)
  BY <1>1, <1>11, <1>5, <1>7, <1>13 DEF Wasm!Purged, Purged
<1>15. \A n, d : Wasm!Deferred(n, d) = Deferred(n, d)
  BY <1>14, <1>9 DEF Wasm!Deferred, Deferred
<1>16. \A n, q : Wasm!Spent(n, q) = Spent(n, q)
  BY DEF Wasm!Spent, Spent
<1>17. \A n, d, at : Wasm!NParse(n, d, at) = NParse(n, d, at)
  BY <1>6 DEF Wasm!NParse, NParse, Wasm!NoDocument, NoDocument
<1>18. \A n, a, at : Wasm!NSetValue(n, a, at) = NSetValue(n, a, at)
  BY <1>6, <1>5, <1>7, <1>4 DEF Wasm!NSetValue, NSetValue
<1>19. \A n, d, p, at : Wasm!NInsert(n, d, p, at) = NInsert(n, d, p, at)
  BY <1>6, <1>7 DEF Wasm!NInsert, NInsert
<1>20. \A n, a : Wasm!Erased(n, a) = Erased(n, a)
  BY <1>7, <1>5, <1>4 DEF Wasm!Erased, Erased
<1>21. \A n, a : Wasm!NErase(n, a) = NErase(n, a)
  BY <1>20 DEF Wasm!NErase, NErase
<1>22. \A n, d : Wasm!NFree(n, d) = NFree(n, d)
  BY <1>9 DEF Wasm!NFree, NFree
<1>23. \A n, q : Wasm!Dominant(n, q) = Dominant(n, q)
  BY <1>10 DEF Wasm!Dominant, Dominant
<1>24. \A n, q, d : Wasm!NRemoved(n, q, d) = NRemoved(n, q, d)
  BY <1>1, <1>11, <1>5, <1>7, <1>23, <1>16 DEF Wasm!NRemoved, NRemoved
<1>25. \A n, q, d, T : Wasm!NReplaced(n, q, d, T) = NReplaced(n, q, d, T)
  BY <1>1, <1>12, <1>5, <1>7, <1>16, <1>4 DEF Wasm!NReplaced, NReplaced
<1>26. \A n, q, d, a, at : Wasm!NInserted(n, q, d, a, at) = NInserted(n, q, d, a, at)
  BY <1>19, <1>16 DEF Wasm!NInserted, NInserted
<1>27. \A n, q, d : Wasm!NEdits(n, q, d) = NEdits(n, q, d)
  BY <1>24, <1>25, <1>26, <1>1, <1>23, <1>8 DEF Wasm!NEdits, NEdits
<1>28. \A n, q, ok, results : Wasm!NEvaluated(n, q, ok, results) = NEvaluated(n, q, ok, results)
  <2> TAKE n, q, ok, results
  <2> DEFINE x == Deferred(n, n.exec[q].owner)
  <2>1. Wasm!Deferred(n, n.exec[q].owner) = x
    BY <1>15
  <2> HIDE DEF x
  <2> QED
    BY <2>1, Zenon DEF Wasm!NEvaluated, NEvaluated, x
<1>29. \A n, d : Wasm!Roots(n, d) = Roots(n, d)
  BY DEF Wasm!Roots, Roots, Wasm!NodesOf, NodesOf
<1>30. \A n, a : Wasm!Related(n, a) = Related(n, a)
  BY DEF Wasm!Related, Related
<1>31. \A n, d, a, s : Wasm!Node(n, d, a, s) = Node(n, d, a, s)
  BY DEF Wasm!Node, Node
<1>32. \A n, q, d : Wasm!NEvaluates(n, q, d) <=> NEvaluates(n, q, d)
  BY DEF Wasm!NEvaluates, NEvaluates, Wasm!Fresh, Fresh, Wasm!NoExec, NoExec
<1>33. \A n, q, d : Wasm!NEvaluate(n, q, d) = NEvaluate(n, q, d)
  BY DEF Wasm!NEvaluate, NEvaluate
<1>34. \A n, q : Wasm!NDrive(n, q) = NDrive(n, q)
  BY DEF Wasm!NDrive, NDrive
<1>35. \A n, q, p : Wasm!NDriven(n, q, p) = NDriven(n, q, p)
  BY DEF Wasm!NDriven, NDriven
<1>36. \A n, q : Wasm!NDrives(n, q) <=> NDrives(n, q)
  BY DEF Wasm!NDrives, NDrives
<1>37. \A n, q : Wasm!NVisits(n, q) <=> NVisits(n, q)
  BY DEF Wasm!NVisits, NVisits, Wasm!NDrives, NDrives
<1>38. \A n, q : Wasm!Phases(n, q) = Phases(n, q)
  BY DEF Wasm!Phases, Phases
<1>39. \A n, q : Wasm!NPulls(n, q) <=> NPulls(n, q)
  BY DEF Wasm!NPulls, NPulls
<1>40. \A n, q, a : Wasm!NPull(n, q, a) = NPull(n, q, a)
  BY DEF Wasm!NPull, NPull
<1>41. \A n, q, d : Wasm!NEditable(n, q, d) <=> NEditable(n, q, d)
  BY DEF Wasm!NEditable, NEditable, Wasm!NPulls, NPulls
<1>42. Wasm!Fresh = Fresh
  BY DEF Wasm!Fresh, Fresh, Wasm!NoExec, NoExec
<1>43. Wasm!NoExec = NoExec
  BY DEF Wasm!NoExec, NoExec
<1>44. Wasm!Idle = Idle
  BY DEF Wasm!Idle, Idle
<1>45. Wasm!Untaken = Untaken
  BY DEF Wasm!Untaken, Untaken
<1>46. \A h : Wasm!Taken(h) <=> Taken(h)
  BY DEF Wasm!Taken, Taken, Wasm!Untaken, Untaken
<1>47. \A d : Wasm!IsOpen(d) <=> IsOpen(d)
  BY DEF Wasm!IsOpen, IsOpen
<1>48. \A d : Wasm!Selections(d) = Selections(d)
  BY DEF Wasm!Selections, Selections, Wasm!NodesOf, NodesOf
<1>49. \A q, d, p : Wasm!Call(q, d, p) = Call(q, d, p)
  BY DEF Wasm!Call, Call
<1>50. \A n, d : Wasm!Dropped(n, d) = Dropped(n, d)
  BY <1>22 DEF Wasm!Dropped, Dropped
<1>51. \A s, d : Wasm!Disowned(s, d) = Disowned(s, d)
  BY DEF Wasm!Disowned, Disowned
<1> QED
  BY <1>2, <1>3, <1>8, <1>17, <1>18, <1>19, <1>21, <1>22, <1>27, <1>28, <1>29, <1>30, <1>31, <1>32, <1>33, <1>34, <1>35, <1>36, <1>37, <1>38, <1>39, <1>40, <1>41, <1>42, <1>43, <1>44, <1>45, <1>46, <1>47, <1>48, <1>49,
     <1>50, <1>51

\* Nothing of a program is called inside one of its providers: only the innermost call can be in
\* one, and only such a call evaluates a document.
Inner == IF calls = <<>> THEN NULL ELSE Head(calls).document
WasmCalls ==
  /\ \A i \in 2 .. Len(calls) : ~calls[i].provider /\ calls[i].document = NULL
  /\ calls # <<>> =>
       IF Head(calls).provider THEN native.exec[Head(calls).execution].owner = Head(calls).document
                               ELSE Head(calls).document = NULL
WasmCounted ==
  \A d \in Documents :
    /\ document[d].active = native.doc[d].callbacks /\ native.doc[d].pending = 0
    /\ native.doc[d].callbacks = IF Inner = d THEN 1 ELSE 0
WasmHandles == \A h \in Handles : Taken(h) => handle[h].at # NULL
WasmInv == /\ Sound(native) /\ Objects /\ Lifetimes /\ WasmCalls /\ WasmCounted
           /\ Sharing /\ Clung /\ Lent /\ WasmHandles
\* What a step does to handles and nodes.
WasmAfter == /\ WasmInv' /\ Carried /\ HandedOut
             /\ \E d \in Documents : Evolves(native, native', d)

LEMMA WasmKeeps ==
  ASSUME WasmInv, Sound(native'), Objects', Carried, Assigned, NEW d \in Documents,
         Evolves(native, native', d), WasmCalls', WasmCounted', Sharing', Clung', Lent',
         \A h \in Handles :
           \/ handle'[h] = handle[h]
           \/ ~Taken(h) /\ Granted(handle'[h]) /\ handle'[h].at # NULL
  PROVE  WasmAfter
<1>1. /\ Sound(native) /\ Objects /\ Lifetimes /\ WasmHandles /\ native \in Natives /\ native' \in Natives
  BY DEF WasmInv, Sound
<1>2. native.identity <= native'.identity
  BY DEF Evolves, Newer
<1>3. Lifetimes'
  <2>1. \A h \in Handles :
           \/ /\ handle'[h].document = handle[h].document /\ handle'[h].identity = handle[h].identity
              /\ handle'[h] # Untaken => handle[h] # Untaken
           \/ Granted(handle'[h])
    OBVIOUS
  <2> QED BY <1>1, <1>2, <2>1, LifetimesKeep
<1>4. WasmHandles'
  BY <1>1 DEF WasmHandles, Taken, Untaken
<1>5. HandedOut
  BY DEF HandedOut
<1> QED BY <1>3, <1>4, <1>5 DEF WasmAfter, WasmInv

-----------------------------------------------------------------------------
\* The calls in progress stay, one is entered, one is left.
LEMMA WasmCallsSame ==
  ASSUME WasmCalls, calls' = calls,
         calls # <<>> /\ Head(calls).provider =>
           native'.exec[Head(calls).execution].owner = native.exec[Head(calls).execution].owner
  PROVE  WasmCalls' /\ Inner' = Inner
  BY DEF WasmCalls, Inner

LEMMA WasmInner ==
  ASSUME Objects, calls # <<>>
  PROVE  /\ Head(calls) \in CallRecords /\ Head(calls).execution \in Executions
         /\ Head(calls).document \in Documents \cup {NULL} /\ Inner = Head(calls).document
<1>1. Head(calls) \in CallRecords
  BY CallsPopped DEF Objects
<1> QED BY <1>1 DEF CallRecords, Inner

LEMMA WasmPushed ==
  ASSUME WasmCalls, Objects, calls = <<>> \/ ~Head(calls).provider, NEW q \in Executions,
         NEW d \in Documents \cup {NULL}, NEW p \in BOOLEAN, calls' = Call(q, d, p),
         IF p THEN native'.exec[q].owner = d ELSE d = NULL
  PROVE  WasmCalls' /\ calls' \in Seq(CallRecords) /\ Inner' = d
<1> DEFINE c == [execution |-> q, document |-> d, provider |-> p]
           t == <<c>> \o calls
<1>1. c \in CallRecords /\ calls \in Seq(CallRecords) /\ calls' = t
  BY DEF CallRecords, Objects, Call
<1>2. /\ t \in Seq(CallRecords) /\ Len(t) = Len(calls) + 1 /\ t[1] = c
      /\ \A i \in 2 .. Len(t) : i - 1 \in 1 .. Len(calls) /\ t[i] = calls[i - 1]
  BY <1>1, CallsPushed
<1>3. t # <<>> /\ Head(t) = c
  BY <1>1
<1>4. c.execution = q /\ c.document = d /\ c.provider = p
  OBVIOUS
<1> HIDE DEF c, t
<1>5. ASSUME NEW i \in 1 .. Len(calls) PROVE ~calls[i].provider /\ calls[i].document = NULL
  <2>1. calls # <<>> /\ Head(calls) = calls[1]
    BY <1>1
  <2>2. i = 1 \/ i \in 2 .. Len(calls)
    BY <1>1
  <2> QED BY <2>1, <2>2 DEF WasmCalls
<1>6. \A i \in 2 .. Len(t) : ~t[i].provider /\ t[i].document = NULL
  BY <1>2, <1>5
<1> QED BY <1>1, <1>2, <1>3, <1>4, <1>6 DEF WasmCalls, Inner

LEMMA WasmPopped ==
  ASSUME WasmCalls, Objects, calls # <<>>, calls' = Tail(calls)
  PROVE  WasmCalls' /\ calls' \in Seq(CallRecords) /\ Inner' = NULL
<1> DEFINE t == Tail(calls)
<1>1. calls \in Seq(CallRecords)
  BY DEF Objects
<1>2. /\ t \in Seq(CallRecords)
      /\ \A i \in 1 .. Len(t) : i + 1 \in 2 .. Len(calls) /\ t[i] = calls[i + 1]
  BY <1>1, CallsPopped
<1>3. calls' = t
  OBVIOUS
<1> HIDE DEF t
<1>4. \A i \in 1 .. Len(t) : ~t[i].provider /\ t[i].document = NULL
  BY <1>2 DEF WasmCalls
<1>5. t # <<>> => Head(t) = t[1] /\ 1 \in 1 .. Len(t)
  BY <1>2
<1>6. \A i \in 2 .. Len(t) : i \in 1 .. Len(t)
  BY <1>2
<1> QED BY <1>2, <1>3, <1>4, <1>5, <1>6 DEF WasmCalls, Inner

\* An edit of a document.
LEMMA WasmEdited ==
  ASSUME WasmInv, NEW d \in Documents, Edited(native, native', d), document' = document,
         execution' = execution, handle' = handle, calls' = calls, Lent',
         \A q \in Executions :
           /\ native'.exec[q].owner = native.exec[q].owner
           /\ native'.exec[q].revision = native.exec[q].revision
           /\ native'.exec[q].phase = native.exec[q].phase
           /\ native'.exec[q].busy = native.exec[q].busy
           /\ native'.exec[q].results \subseteq native.exec[q].results
  PROVE  WasmAfter
<1>1. Sound(native) /\ Objects /\ WasmCalls /\ WasmCounted /\ Sharing /\ Clung
  BY DEF WasmInv
<1>2. /\ native' \in Natives /\ Heap(native') /\ Evolves(native, native', d)
      /\ \A f \in Documents : /\ native'.doc[f].alive = native.doc[f].alive
                              /\ native'.doc[f].callbacks = native.doc[f].callbacks
                              /\ native'.doc[f].pending = native.doc[f].pending
  BY DEF Edited
<1>3. Sound(native')
  BY <1>1, <1>2, SoundKeeps
<1>4. Objects'
  BY <1>1 DEF Objects
<1>5. Carried /\ Assigned
  BY <1>2 DEF Carried, Assigned
<1>6. WasmCalls' /\ Inner' = Inner
  <2>1. calls # <<>> => Head(calls).execution \in Executions
    BY <1>1, WasmInner
  <2> QED BY <1>1, <2>1, WasmCallsSame
<1>7. WasmCounted'
  BY <1>1, <1>2, <1>6 DEF WasmCounted
<1>8. Sharing'
  BY <1>1, <1>2, SharingSame
<1>9. Clung'
  BY <1>1 DEF Clung
<1> QED BY <1>2, <1>3, <1>4, <1>5, <1>6, <1>7, <1>8, <1>9, WasmKeeps

\* A step of one execution, which changes no document.
LEMMA WasmExec ==
  ASSUME WasmInv, NEW q \in Executions, Sound(native'), ExecOnly(native, native', q),
         native'.exec[q].owner \in {NULL, native.exec[q].owner}, document' = document,
         execution' \in [Executions -> ExecutionObjects], execution'[q].holds = execution[q].holds,
         \A p \in Executions \ {q} : execution'[p] = execution[p],
         calls' \in Seq(CallRecords), WasmCalls', Inner' = Inner, Lent',
         handle' \in [Handles -> HandleObjects],
         \A h \in Handles :
           \/ handle'[h] = handle[h]
           \/ ~Taken(h) /\ Granted(handle'[h]) /\ handle'[h].at # NULL
  PROVE  WasmAfter
<1>1. Sound(native) /\ Objects /\ WasmCounted /\ Sharing /\ Clung /\ native \in Natives /\ native' \in Natives
  BY DEF WasmInv, Sound
<1>2. PICK d \in Documents : TRUE
  BY BindingBounds
<1>3. Shape(native, native') /\ native'.doc = native.doc
  BY DEF ExecOnly, Shape
<1>4. Evolves(native, native', d)
  BY <1>1, <1>3, ShapeEvolves
<1>5. Objects'
  BY <1>1 DEF Objects
<1>6. Carried /\ Assigned
  BY <1>3 DEF Carried, Assigned, ExecOnly
<1>7. WasmCounted'
  BY <1>1, <1>3 DEF WasmCounted
<1>8. Sharing'
  <2>1. \A p \in Executions : execution'[p].holds = execution[p].holds
    OBVIOUS
  <2> QED BY <1>1, <1>3, <2>1, SharingSame
<1>9. Clung'
  BY <1>1 DEF Clung, ExecOnly
<1> QED BY <1>4, <1>5, <1>6, <1>7, <1>8, <1>9, WasmKeeps

\* The handles it accepts.
LEMMA WasmUsable ==
  ASSUME WasmInv, NEW h \in Handles, Wasm!Usable(h)
  PROVE  /\ Taken(h) /\ handle[h].document \in Documents /\ document[handle[h].document].state = "open"
         /\ handle[h].at \in NodesOf(native, handle[h].document) /\ Denotes(native, handle[h])
<1>1. Objects /\ Lifetimes /\ WasmHandles
  BY DEF WasmInv
<1>2. /\ Taken(h) /\ document[handle[h].document].state = "open"
      /\ native.node[handle[h].at].document = handle[h].document
      /\ native.node[handle[h].at].identity = handle[h].identity
  BY WasmOps DEF Wasm!Usable, IsOpen
<1>3. handle[h].document \in Documents /\ handle[h].at \in Addresses
  BY <1>1, <1>2 DEF Objects, HandleObjects, Lifetimes, WasmHandles
<1> QED BY <1>2, <1>3 DEF Denotes, NodesOf

-----------------------------------------------------------------------------
LEMMA WasmEdit ==
  ASSUME WasmInv, NEW h \in Handles, Wasm!SetValue(h) \/ Wasm!Erase(h)
  PROVE  WasmAfter
<1> DEFINE d == handle[h].document
           a == handle[h].at
<1>1. /\ Wasm!Usable(h) /\ document[d].active = 0 /\ document' = document /\ execution' = execution
      /\ handle' = handle /\ program' = program /\ calls' = calls
      /\ \/ \E at \in Chains(native, 1) : native' = NSetValue(native, a, at)
         \/ native' = NErase(native, a)
  BY WasmOps DEF Wasm!SetValue, Wasm!Erase
<1>2. d \in Documents /\ a \in NodesOf(native, d)
  BY <1>1, WasmUsable
<1> HIDE DEF d, a
<1>3. native \in Natives /\ Heap(native) /\ Lent /\ native.doc[d].callbacks = 0 /\ native.node[a].document = d
  BY <1>1, <1>2 DEF WasmInv, Sound, WasmCounted, NodesOf
<1>4. Edited(native, native', d) /\ native'.exec = native.exec
  <2>1. CASE native' = NErase(native, a)
    <3>1. native' = Erased(native, a)
      BY <1>3, <2>1 DEF NErase
    <3> QED BY <1>2, <1>3, <3>1, ErasedSound
  <2> QED BY <1>1, <1>2, <1>3, <2>1, SetValueSound
<1>5. Lent'
  BY <1>1, <1>3, <1>4, LentStill DEF Unpinned
<1> QED BY <1>1, <1>2, <1>4, <1>5, WasmEdited

LEMMA WasmEditDocument ==
  ASSUME WasmInv, NEW q \in Executions, Wasm!EditDocument(q)
  PROVE  WasmAfter
<1> DEFINE d == execution[q].holds
<1>1. /\ NEditable(native, q, d) /\ document' = document /\ execution' = execution
      /\ handle' = handle /\ program' = program /\ calls' = calls
  BY WasmOps DEF Wasm!EditDocument
<1>2. PICK r \in NEdits(native, q, d) : native' = r.native
  BY WasmOps DEF Wasm!EditDocument
<1>3. Sound(native) /\ native \in Natives /\ Heap(native) /\ Objects /\ Sharing /\ Lent
  BY DEF WasmInv, Sound
<1>4. d \in Documents
  <2>1. d # NULL
    BY <1>1 DEF NEditable, NPulls
  <2> QED BY <1>3, <2>1 DEF Objects, ExecutionObjects
<1>5. native.doc[d].alive
  BY <1>3, <1>4, HeldAlive
<1> HIDE DEF d
<1>6. native.exec[q].results \subseteq NodesOf(native, d)
  BY <1>1, <1>3, <1>4, <1>5, Editable DEF NEditable
<1>7. /\ Edited(native, native', d)
      /\ native'.exec[q].results = {} /\ native'.exec[q].owner = native.exec[q].owner
      /\ native'.exec[q].revision = native.exec[q].revision /\ native'.exec[q].phase = native.exec[q].phase
      /\ native'.exec[q].busy = native.exec[q].busy
      /\ \A p \in Executions \ {q} : native'.exec[p] = native.exec[p]
  BY <1>2, <1>3, <1>4, <1>5, <1>6, EditsSound
<1>8. \A p \in Executions :
           /\ native'.exec[p].owner = native.exec[p].owner
           /\ native'.exec[p].revision = native.exec[p].revision
           /\ native'.exec[p].phase = native.exec[p].phase
           /\ native'.exec[p].busy = native.exec[p].busy
           /\ native'.exec[p].results \subseteq native.exec[p].results
  BY <1>7
<1>9. Lent'
  BY <1>1, <1>2, <1>3, <1>4, <1>5, LentEdits DEF Unmoved
<1> QED BY <1>1, <1>4, <1>7, <1>8, <1>9, WasmEdited

LEMMA WasmParse ==
  ASSUME WasmInv, NEW d \in Documents, Wasm!Parse(d)
  PROVE  WasmAfter
<1>1. /\ document[d].state = "unborn" /\ execution' = execution /\ handle' = handle
      /\ program' = program /\ calls' = calls
      /\ document' = [document EXCEPT ![d].state = "open", ![d].references = 1]
  BY DEF Wasm!Parse
<1>2. PICK at \in Chains(native, 2) : native' = NParse(native, d, at)
  BY WasmOps DEF Wasm!Parse
<1>3. /\ Sound(native) /\ native \in Natives /\ Heap(native) /\ Objects /\ Lifetimes /\ Lent
      /\ WasmCalls /\ WasmCounted /\ Sharing /\ Clung
  BY DEF WasmInv, Sound
<1>4. ~native.doc[d].alive /\ \A q \in Executions : native.exec[q].owner # d
  BY <1>1, <1>3, NullApart DEF Lifetimes
<1>5. /\ native' \in Natives /\ Heap(native') /\ Evolves(native, native', d)
      /\ native'.exec = native.exec
      /\ native'.doc[d].alive /\ native'.doc[d].callbacks = 0 /\ native'.doc[d].pending = 0
      /\ \A f \in Documents \ {d} : native'.doc[f] = native.doc[f]
  BY <1>2, <1>3, <1>4, ParseSound
<1>6. Sound(native')
  BY <1>3, <1>4, <1>5, SoundKeeps
<1>7. /\ document' \in [Documents -> DocumentObjects] /\ document'[d].state = "open"
      /\ document'[d].references = 1 /\ document'[d].active = document[d].active
      /\ \A e \in Documents \ {d} : document'[e] = document[e]
  <2>1. document[d] \in DocumentObjects
    BY <1>3 DEF Objects
  <2>9. PICK k \in Int : k = 1
    OBVIOUS
  <2> DEFINE z == [document[d] EXCEPT !.state = "open", !.references = k]
  <2>2. z \in DocumentObjects /\ z.state = "open" /\ z.references = k /\ z.active = document[d].active
    BY <2>1 DEF DocumentObjects
  <2>3. document' = [document EXCEPT ![d] = z]
    BY <1>1, <1>3, <2>9 DEF Objects
  <2> HIDE DEF z
  <2> QED BY <1>3, <2>9, <2>2, <2>3, DocumentSet
<1>8. Objects'
  BY <1>1, <1>3, <1>7 DEF Objects
<1>9. Carried /\ Assigned
  BY <1>1, <1>5, <1>7 DEF Carried, Assigned
<1>10. WasmCalls' /\ Inner' = Inner
  BY <1>1, <1>3, <1>5, WasmCallsSame
<1>11. Inner # d
  <2>1. CASE calls # <<>> /\ Head(calls).provider
    BY <1>3, <1>4, <2>1, WasmInner DEF WasmCalls
  <2> QED BY <1>3, <2>1, NullApart DEF WasmCalls, Inner
<1>12. WasmCounted'
  BY <1>3, <1>5, <1>7, <1>10, <1>11 DEF WasmCounted
<1>13. Sharing'
  BY <1>1, <1>3, <1>5, <1>7, SharingParse
<1>14. Clung' /\ Lent'
  BY <1>1, <1>3, <1>5, LentStill DEF Clung, Unpinned
<1> QED BY <1>1, <1>5, <1>6, <1>8, <1>9, <1>10, <1>12, <1>13, <1>14, WasmKeeps

LEMMA WasmNavigate ==
  ASSUME WasmInv, NEW h \in Handles, NEW d \in Documents, NEW a \in Addresses, Wasm!Navigate(h, d, a)
  PROVE  WasmAfter
<1>1. /\ document[d].state = "open" /\ ~Taken(h) /\ handle' = [handle EXCEPT ![h] = Node(native, d, a, 0)]
      /\ native' = native /\ document' = document /\ execution' = execution /\ program' = program
      /\ calls' = calls
  BY WasmOps DEF Wasm!Navigate, IsOpen
<1>2. Sound(native) /\ native \in Natives /\ Heap(native) /\ Objects /\ WasmCalls /\ WasmCounted
      /\ Sharing /\ Clung /\ Lent
  BY DEF WasmInv, Sound
<1>3. /\ Node(native, d, a, 0) \in HandleObjects /\ Node(native, d, a, 0).document = d
      /\ Node(native, d, a, 0).at = a /\ Node(native, d, a, 0).identity <= native.identity
  BY <1>2, NodeMade
<1>4. /\ handle' \in [Handles -> HandleObjects] /\ Granted(handle'[h]) /\ handle'[h].at # NULL
      /\ \A g \in Handles \ {h} : handle'[g] = handle[g]
  BY <1>1, <1>2, <1>3, HandleSet, NullApart DEF Granted
<1>5. Objects'
  BY <1>1, <1>2, <1>4 DEF Objects
<1>6. Evolves(native, native', d) /\ Carried /\ Assigned
  BY <1>1, <1>2, ShapeEvolves DEF Shape, Carried, Assigned
<1>7. WasmCalls' /\ Inner' = Inner
  BY <1>1, <1>2, WasmCallsSame
<1>8. WasmCounted' /\ Sharing' /\ Clung' /\ Lent'
  BY <1>1, <1>2, <1>7, SharingSame, LentStill DEF WasmCounted, Clung, Unpinned
<1> QED BY <1>1, <1>2, <1>4, <1>5, <1>6, <1>7, <1>8, WasmKeeps

LEMMA WasmCloseProgram ==
  ASSUME WasmInv, Wasm!CloseProgram
  PROVE  WasmAfter
<1>1. /\ native' = native /\ document' = document /\ execution' = execution /\ handle' = handle
      /\ calls' = calls /\ program.open
      /\ program' = [open |-> FALSE, references |-> program.references - 1]
  BY DEF Wasm!CloseProgram, Wasm!DoRelease
<1>2. Sound(native) /\ native \in Natives /\ Objects /\ WasmCalls /\ WasmCounted /\ Sharing /\ Clung /\ Lent
  BY DEF WasmInv, Sound
<1>3. PICK d \in Documents : TRUE
  BY BindingBounds
<1>4. Objects' /\ Evolves(native, native', d) /\ Carried /\ Assigned
  BY <1>1, <1>2, ShapeEvolves DEF Objects, Shape, Carried, Assigned
<1>5. WasmCalls' /\ Inner' = Inner
  BY <1>1, <1>2, WasmCallsSame
<1>6. WasmCounted' /\ Sharing' /\ Clung' /\ Lent'
  BY <1>1, <1>2, <1>5, SharingSame, LentRelease DEF WasmCounted, Clung
<1> QED BY <1>1, <1>2, <1>4, <1>5, <1>6, WasmKeeps

-----------------------------------------------------------------------------
\* Outside a provider.
Outside == calls = <<>> \/ ~Head(calls).provider

LEMMA WasmOutside ==
  ASSUME WasmInv, Outside
  PROVE  /\ Inner = NULL /\ \A d \in Documents : native.doc[d].callbacks = 0
         /\ calls' = calls => WasmCalls' /\ Inner' = Inner
<1>1. WasmCalls /\ WasmCounted
  BY DEF WasmInv
<1>2. Inner = NULL
  BY <1>1 DEF WasmCalls, Inner, Outside
<1>3. \A d \in Documents : native.doc[d].callbacks = 0
  BY <1>1, <1>2, NullApart DEF WasmCounted
<1>4. calls' = calls => WasmCalls' /\ Inner' = Inner
  BY <1>1, WasmCallsSame DEF Outside
<1> QED BY <1>2, <1>3, <1>4

\* A step of one execution, outside a provider, that calls nothing.
LEMMA WasmQuiet ==
  ASSUME WasmInv, Outside, NEW q \in Executions, Sound(native'), ExecOnly(native, native', q),
         native'.exec[q].owner \in {NULL, native.exec[q].owner}, document' = document,
         NEW z \in ExecutionObjects, execution' = [execution EXCEPT ![q] = z],
         z.holds = execution[q].holds, calls' = calls, handle' = handle, Lent'
  PROVE  WasmAfter
<1>1. Objects /\ calls \in Seq(CallRecords) /\ handle \in [Handles -> HandleObjects]
  BY DEF WasmInv, Objects
<1>2. /\ execution' \in [Executions -> ExecutionObjects] /\ execution'[q] = z
      /\ \A p \in Executions \ {q} : execution'[p] = execution[p]
  BY <1>1, ExecutionSet
<1>3. WasmCalls' /\ Inner' = Inner
  BY WasmOutside
<1> QED BY <1>1, <1>2, <1>3, WasmExec

LEMMA WasmNewExecution ==
  ASSUME WasmInv, NEW q \in Executions, Wasm!NewExecution(q)
  PROVE  WasmAfter
<1> DEFINE z == [execution[q] EXCEPT !.open = TRUE]
<1>1. /\ Outside /\ execution[q] = Idle /\ native' = [native EXCEPT !.exec[q] = Fresh]
      /\ execution' = [execution EXCEPT ![q].open = TRUE] /\ document' = document
      /\ program' = [program EXCEPT !.references = @ + 1] /\ handle' = handle /\ calls' = calls
  BY WasmOps DEF Wasm!NewExecution, Wasm!DoCreate, Wasm!Providing, Outside
<1>2. Sound(native) /\ Objects /\ Lent /\ execution[q] \in ExecutionObjects
  BY DEF WasmInv, Objects
<1>3. Sound(native') /\ ExecOnly(native, native', q) /\ native'.exec[q] = Fresh /\ Fresh.owner = NULL
  BY <1>1, <1>2, ExecConstants, ExecSound
<1>4. Lent'
  BY <1>1, <1>2, <1>3, LentCreate DEF ExecOnly
<1>5. z \in ExecutionObjects /\ z.holds = execution[q].holds /\ execution' = [execution EXCEPT ![q] = z]
  BY <1>1, <1>2 DEF ExecutionObjects
<1> HIDE DEF z
<1> QED BY <1>1, <1>3, <1>4, <1>5, WasmQuiet

LEMMA WasmInput ==
  ASSUME WasmInv, NEW q \in Executions, Wasm!SetInput(q) \/ Wasm!Bind(q)
  PROVE  WasmAfter
<1>1. /\ Outside /\ native' \in {native, [native EXCEPT !.exec[q].windows = @ + 1]}
      /\ \/ \E taken \in BOOLEAN : execution' = [execution EXCEPT ![q].pins = @ + 1, ![q].reader = @ \/ taken]
         \/ execution' = [execution EXCEPT ![q].pins = @ + 1]
      /\ document' = document /\ handle' = handle /\ program' = program /\ calls' = calls
  BY DEF Wasm!SetInput, Wasm!Bind, Wasm!Check, Wasm!Ready, Wasm!Providing, Outside
<1>2. Sound(native) /\ Objects /\ Lent /\ execution[q] \in ExecutionObjects
  BY DEF WasmInv, Objects
<1>3. PICK z \in ExecutionObjects :
        /\ execution' = [execution EXCEPT ![q] = z] /\ z.holds = execution[q].holds
        /\ z.open = execution[q].open /\ z.pins = execution[q].pins + 1
  <2>1. PICK k \in Int : k = execution[q].pins + 1
    BY <1>2 DEF ExecutionObjects
  <2>2. ASSUME NEW r \in BOOLEAN, execution' = [execution EXCEPT ![q].pins = k, ![q].reader = @ \/ r]
        PROVE  execution' = [execution EXCEPT ![q] = [execution[q] EXCEPT !.pins = k, !.reader = @ \/ r]]
    BY <1>2, <2>2 DEF Objects
  <2>3. ASSUME execution' = [execution EXCEPT ![q].pins = k]
        PROVE  execution' = [execution EXCEPT ![q] = [execution[q] EXCEPT !.pins = k]]
    BY <1>2, <2>3 DEF Objects
  <2>4. ASSUME NEW r \in BOOLEAN
        PROVE  LET z == [execution[q] EXCEPT !.pins = k, !.reader = @ \/ r]
               IN  /\ z \in ExecutionObjects /\ z.holds = execution[q].holds
                   /\ z.open = execution[q].open /\ z.pins = k
    BY <1>2 DEF ExecutionObjects
  <2>5. LET z == [execution[q] EXCEPT !.pins = k]
        IN  /\ z \in ExecutionObjects /\ z.holds = execution[q].holds
            /\ z.open = execution[q].open /\ z.pins = k
    BY <1>2 DEF ExecutionObjects
  <2>6. CASE execution' = [execution EXCEPT ![q].pins = k]
    BY <2>1, <2>3, <2>5, <2>6
  <2>7. ASSUME NEW r \in BOOLEAN, execution' = [execution EXCEPT ![q].pins = k, ![q].reader = @ \/ r]
        PROVE  \E z \in ExecutionObjects :
                 /\ execution' = [execution EXCEPT ![q] = z] /\ z.holds = execution[q].holds
                 /\ z.open = execution[q].open /\ z.pins = execution[q].pins + 1
    BY <2>1, <2>2, <2>4, <2>7
  <2> QED BY <1>1, <2>1, <2>6, <2>7
<1>4. /\ Sound(native') /\ ExecOnly(native, native', q)
      /\ native'.exec[q].owner = native.exec[q].owner /\ native'.exec[q].phase = native.exec[q].phase
      /\ native'.exec[q].windows \in {native.exec[q].windows, native.exec[q].windows + 1}
  <2>1. CASE native' = native
    BY <1>2, <2>1 DEF ExecOnly
  <2>2. CASE native' = [native EXCEPT !.exec[q].windows = @ + 1]
    BY <1>2, <2>2, WindowSound
  <2> QED BY <1>1, <2>1, <2>2
<1>5. execution'[q] = z /\ \A p \in Executions \ {q} : execution'[p] = execution[p]
  BY <1>2, <1>3, ExecutionSet
<1>6. Lent'
  BY <1>1, <1>2, <1>3, <1>4, <1>5, LentMore DEF Unmoved
<1> QED BY <1>1, <1>3, <1>4, <1>6, WasmQuiet

\* A call returns to its execution.
LEMMA ExecutionReturns ==
  ASSUME Objects, NEW q \in Executions, NEW b \in BOOLEAN, NEW i \in BOOLEAN,
         execution' = [execution EXCEPT ![q] = [execution[q] EXCEPT !.busy = b, !.invalid = i]]
  PROVE  /\ execution' \in [Executions -> ExecutionObjects] /\ execution'[q].holds = execution[q].holds
         /\ \A p \in Executions \ {q} : execution'[p] = execution[p]
         /\ Unpinned
<1> DEFINE z == [execution[q] EXCEPT !.busy = b, !.invalid = i]
<1>1. execution[q] \in ExecutionObjects
  BY DEF Objects
<1>2. /\ z \in ExecutionObjects /\ z.holds = execution[q].holds /\ z.open = execution[q].open
      /\ z.pins = execution[q].pins
  BY <1>1 DEF ExecutionObjects
<1>3. execution' = [execution EXCEPT ![q] = z]
  OBVIOUS
<1> HIDE DEF z
<1>4. /\ execution' \in [Executions -> ExecutionObjects] /\ execution'[q] = z
      /\ \A p \in Executions \ {q} : execution'[p] = execution[p]
  BY <1>2, <1>3, ExecutionSet
<1> QED BY <1>2, <1>4 DEF Unpinned

LEMMA WasmFeed ==
  ASSUME WasmInv, NEW q \in Executions, Wasm!Feed(q)
  PROVE  WasmAfter
<1>1. /\ Outside /\ execution' = [execution EXCEPT ![q].pins = @ + 1, ![q].fed = TRUE]
      /\ native' = IF NDrives(native, q)
                   THEN NDrive([native EXCEPT !.exec[q].windows = @ + 1], q) ELSE native
      /\ calls' = IF NDrives(native, q) THEN Call(q, NULL, TRUE) ELSE calls
      /\ document' = document /\ handle' = handle /\ program' = program
  BY WasmOps DEF Wasm!Feed, Wasm!Check, Wasm!Ready, Wasm!Providing, Outside
<1>2. /\ Sound(native) /\ Objects /\ Lent /\ execution[q] \in ExecutionObjects /\ WasmCalls
      /\ calls \in Seq(CallRecords) /\ handle \in [Handles -> HandleObjects]
  BY DEF WasmInv, Objects
<1>3. PICK k \in Int : k = execution[q].pins + 1
  BY <1>2 DEF ExecutionObjects
<1> DEFINE z == [execution[q] EXCEPT !.pins = k, !.fed = TRUE]
<1>4. /\ z \in ExecutionObjects /\ z.holds = execution[q].holds /\ z.open = execution[q].open
      /\ z.pins = k
  BY <1>2, <1>3 DEF ExecutionObjects
<1>5. execution' = [execution EXCEPT ![q] = z]
  BY <1>1, <1>2, <1>3 DEF Objects
<1> HIDE DEF z
<1>6. /\ execution' \in [Executions -> ExecutionObjects] /\ execution'[q] = z
      /\ \A p \in Executions \ {q} : execution'[p] = execution[p]
  BY <1>2, <1>4, <1>5, ExecutionSet
<1>7. Lent'
  BY <1>1, <1>2, <1>3, <1>4, <1>6, LentFeed DEF Unmoved
<1>8. CASE ~NDrives(native, q)
  <2>1. native' = native /\ calls' = calls
    BY <1>1, <1>8
  <2>2. Sound(native') /\ ExecOnly(native, native', q)
    BY <1>2, <2>1 DEF ExecOnly
  <2> QED BY <1>1, <1>4, <1>5, <1>7, <2>1, <2>2, WasmQuiet
<1>9. CASE NDrives(native, q)
  <2> DEFINE m == [native EXCEPT !.exec[q].windows = @ + 1]
  <2>1. native.exec[q].owner = NULL
    BY <1>2, <1>9, DrivenIsInput
  <2>2. Sound(m) /\ ExecOnly(native, m, q) /\ m.exec[q].owner = NULL
    BY <1>2, <2>1, WindowSound
  <2>3. native' = NDrive(m, q)
    BY <1>1, <1>9
  <2> HIDE DEF m
  <2>4. Sound(native') /\ ExecOnly(m, native', q) /\ native'.exec[q].owner = NULL
    BY <2>2, <2>3, DriveSound
  <2>5. ExecOnly(native, native', q)
    BY <2>2, <2>4 DEF ExecOnly
  <2>6. WasmCalls' /\ calls' \in Seq(CallRecords) /\ Inner' = NULL /\ Inner = NULL
    BY <1>1, <1>2, <1>9, <2>4, WasmPushed, WasmOutside DEF Outside
  <2> QED BY <1>1, <1>2, <1>4, <1>6, <1>7, <2>4, <2>5, <2>6, WasmExec
<1> QED BY <1>8, <1>9

LEMMA WasmDrain ==
  ASSUME WasmInv, NEW q \in Executions, Wasm!Drain(q)
  PROVE  WasmAfter
<1>1. /\ Outside /\ NVisits(native, q) /\ native' = NDrive(native, q) /\ calls' = Call(q, NULL, TRUE)
      /\ document' = document /\ execution' = execution /\ handle' = handle /\ program' = program
  BY WasmOps DEF Wasm!Drain, Wasm!Check, Wasm!Ready, Wasm!Providing, Outside
<1>2. /\ Sound(native) /\ Objects /\ Lent /\ WasmCalls
      /\ execution \in [Executions -> ExecutionObjects] /\ handle \in [Handles -> HandleObjects]
  BY DEF WasmInv, Objects
<1>3. native.exec[q].owner = NULL
  BY <1>1, <1>2, DrivenIsInput
<1>4. Sound(native') /\ ExecOnly(native, native', q) /\ native'.exec[q].owner = NULL
  BY <1>1, <1>2, <1>3, DriveSound
<1>5. WasmCalls' /\ calls' \in Seq(CallRecords) /\ Inner' = NULL /\ Inner = NULL
  BY <1>1, <1>2, <1>4, WasmPushed, WasmOutside DEF Outside
<1>6. Lent'
  BY <1>1, <1>2, LentDrive DEF Unmoved, Unpinned
<1> QED BY <1>1, <1>2, <1>4, <1>5, <1>6, WasmExec

LEMMA WasmDrainReturn ==
  ASSUME WasmInv, Wasm!DrainReturn
  PROVE  WasmAfter
<1> DEFINE q == Head(calls).execution
<1>1. /\ calls # <<>> /\ Head(calls).document = NULL /\ Head(calls).provider /\ calls' = Tail(calls)
      /\ document' = document /\ handle' = handle /\ program' = program
      /\ execution' \in {execution, [execution EXCEPT ![q].invalid = TRUE]}
  BY DEF Wasm!DrainReturn
<1>2. PICK phase \in Phases(native, q) : native' = NDriven(native, q, phase)
  BY WasmOps DEF Wasm!DrainReturn
<1>3. /\ Sound(native) /\ Objects /\ Lent /\ WasmCalls /\ handle \in [Handles -> HandleObjects]
      /\ execution \in [Executions -> ExecutionObjects]
  BY DEF WasmInv, Objects
<1>4. q \in Executions /\ native.exec[q].owner = NULL /\ Inner = NULL
  BY <1>1, <1>3, WasmInner DEF WasmCalls
<1>5. WasmCalls' /\ calls' \in Seq(CallRecords) /\ Inner' = NULL
  BY <1>1, <1>3, WasmPopped
<1> HIDE DEF q
<1>6. phase \in PhaseNames
  BY <1>2 DEF Phases, PhaseNames
<1>7. Sound(native') /\ ExecOnly(native, native', q) /\ native'.exec[q].owner = NULL
  BY <1>2, <1>3, <1>4, <1>6, DrivenSound
<1>8. /\ execution' \in [Executions -> ExecutionObjects] /\ execution'[q].holds = execution[q].holds
      /\ \A p \in Executions \ {q} : execution'[p] = execution[p]
      /\ Unpinned
  <2>1. CASE execution' = execution
    BY <1>3, <2>1 DEF Unpinned
  <2>2. CASE execution' = [execution EXCEPT ![q].invalid = TRUE]
    <3>1. execution[q].busy \in BOOLEAN
      BY <1>3, <1>4 DEF ExecutionObjects
    <3>2. execution' = [execution EXCEPT ![q] = [execution[q] EXCEPT !.busy = execution[q].busy, !.invalid = TRUE]]
      BY <1>3, <1>4, <2>2 DEF ExecutionObjects
    <3> QED BY <1>3, <1>4, <3>1, <3>2, ExecutionReturns
  <2> QED BY <1>1, <2>1, <2>2
<1>9. Lent'
  BY <1>1, <1>2, <1>3, <1>4, <1>8, LentDriven DEF Unmoved
<1> QED BY <1>1, <1>3, <1>4, <1>5, <1>7, <1>8, <1>9, WasmExec

LEMMA WasmVisit ==
  ASSUME WasmInv, NEW q \in Executions, Wasm!Visit(q)
  PROVE  WasmAfter
<1>1. /\ Outside /\ execution' = [execution EXCEPT ![q].busy = TRUE] /\ calls' = Call(q, NULL, FALSE)
      /\ native' = native /\ document' = document /\ handle' = handle /\ program' = program
  BY WasmOps DEF Wasm!Visit, Wasm!Check, Wasm!Ready, Wasm!Providing, Outside
<1>2. /\ Sound(native) /\ Objects /\ Lent /\ WasmCalls /\ handle \in [Handles -> HandleObjects]
      /\ execution \in [Executions -> ExecutionObjects]
  BY DEF WasmInv, Objects
<1>3. Sound(native') /\ ExecOnly(native, native', q)
  BY <1>1, <1>2 DEF ExecOnly
<1>4. WasmCalls' /\ calls' \in Seq(CallRecords) /\ Inner' = NULL /\ Inner = NULL
  BY <1>1, <1>2, WasmPushed, WasmOutside DEF Outside
<1>5. /\ execution' \in [Executions -> ExecutionObjects] /\ execution'[q].holds = execution[q].holds
      /\ \A p \in Executions \ {q} : execution'[p] = execution[p]
      /\ Unpinned
  BY <1>1, <1>2 DEF ExecutionObjects, Unpinned
<1>6. Lent'
  BY <1>1, <1>2, <1>5, LentStill
<1> QED BY <1>1, <1>2, <1>3, <1>4, <1>5, <1>6, WasmExec

LEMMA WasmVisitReturn ==
  ASSUME WasmInv, Wasm!VisitReturn
  PROVE  WasmAfter
<1> DEFINE q == Head(calls).execution
<1>1. /\ calls # <<>> /\ ~Head(calls).provider /\ calls' = Tail(calls)
      /\ \E thrown \in BOOLEAN :
           execution' = [execution EXCEPT ![q].busy = FALSE, ![q].invalid = @ \/ thrown]
      /\ native' = native /\ document' = document /\ handle' = handle /\ program' = program
  BY DEF Wasm!VisitReturn
<1>2. /\ Sound(native) /\ Objects /\ Lent /\ WasmCalls /\ handle \in [Handles -> HandleObjects]
      /\ execution \in [Executions -> ExecutionObjects]
  BY DEF WasmInv, Objects
<1>3. q \in Executions /\ Inner = NULL
  BY <1>1, <1>2, WasmInner DEF WasmCalls
<1>4. WasmCalls' /\ calls' \in Seq(CallRecords) /\ Inner' = NULL
  BY <1>1, <1>2, WasmPopped
<1> HIDE DEF q
<1>5. Sound(native') /\ ExecOnly(native, native', q)
  BY <1>1, <1>2 DEF ExecOnly
<1>6. /\ execution' \in [Executions -> ExecutionObjects] /\ execution'[q].holds = execution[q].holds
      /\ \A p \in Executions \ {q} : execution'[p] = execution[p]
      /\ Unpinned
  <2>1. PICK thrown \in BOOLEAN :
           execution' = [execution EXCEPT ![q].busy = FALSE, ![q].invalid = @ \/ thrown]
    BY <1>1
  <2>2. PICK i \in BOOLEAN : i = (execution[q].invalid \/ thrown)
    OBVIOUS
  <2>3. execution' = [execution EXCEPT ![q] = [execution[q] EXCEPT !.busy = FALSE, !.invalid = i]]
    BY <1>2, <2>1, <2>2
  <2> QED BY <1>2, <1>3, <2>3, ExecutionReturns
<1>7. Lent'
  BY <1>1, <1>2, <1>6, LentStill
<1> QED BY <1>1, <1>2, <1>3, <1>4, <1>5, <1>6, <1>7, WasmExec

LEMMA WasmNextDocument ==
  ASSUME WasmInv, NEW q \in Executions, NEW h \in Handles, Wasm!NextDocument(q, h)
  PROVE  WasmAfter
<1> DEFINE d == execution[q].document
<1>1. /\ Outside /\ d # NULL /\ document[d].state = "open" /\ ~Taken(h) /\ NPulls(native, q)
      /\ document' = document /\ execution' = execution /\ program' = program /\ calls' = calls
  BY WasmOps DEF Wasm!NextDocument, Wasm!DoNext, Wasm!Check, Wasm!Ready, Wasm!Providing, Outside, IsOpen
<1>2. PICK a \in native.exec[q].results :
        /\ native' = NPull(native, q, a)
        /\ handle' = [handle EXCEPT ![h] = Node(native, d, a, 0)]
  BY WasmOps DEF Wasm!NextDocument, Wasm!DoNext
<1>3. /\ Sound(native) /\ native \in Natives /\ Heap(native) /\ Objects /\ Lent
      /\ execution \in [Executions -> ExecutionObjects] /\ calls \in Seq(CallRecords)
  BY DEF WasmInv, Sound, Objects
<1>4. d \in Documents /\ a \in Addresses
  BY <1>1, <1>2, <1>3 DEF ExecutionObjects, Natives, ExecRecords
<1> HIDE DEF d
<1>5. /\ Sound(native') /\ ExecOnly(native, native', q) /\ native'.exec[q].owner = native.exec[q].owner
  BY <1>2, <1>3, PullKeepsSound
<1>6. /\ Node(native, d, a, 0) \in HandleObjects /\ Node(native, d, a, 0).document = d
      /\ Node(native, d, a, 0).at = a /\ Node(native, d, a, 0).identity <= native.identity
  BY <1>3, <1>4, NodeMade
<1>7. /\ handle' \in [Handles -> HandleObjects] /\ handle'[h].document = d
      /\ handle'[h].at = a /\ handle'[h].identity <= native.identity
      /\ \A g \in Handles \ {h} : handle'[g] = handle[g]
  BY <1>2, <1>3, <1>6, HandleSet
<1>8. Granted(handle'[h]) /\ handle'[h].at # NULL
  BY <1>1, <1>4, <1>5, <1>7, NullApart DEF Granted, ExecOnly
<1>9. WasmCalls' /\ Inner' = Inner
  BY <1>1, WasmOutside
<1>10. Lent'
  BY <1>1, <1>2, <1>3, LentPull DEF Unmoved
<1> QED BY <1>1, <1>3, <1>5, <1>7, <1>8, <1>9, <1>10, WasmExec

\* One owner less; the document's object, or an execution.
LEMMA DocumentDisowned ==
  ASSUME Objects, NEW d \in Documents, NEW s \in {"unborn", "open", "closed"},
         document' = [document EXCEPT ![d] = [document[d] EXCEPT !.state = s,
                                                                 !.references = document[d].references - 1]]
  PROVE  /\ document' \in [Documents -> DocumentObjects] /\ document'[d].state = s
         /\ document'[d].references = document[d].references - 1
         /\ document'[d].active = document[d].active
         /\ \A e \in Documents \ {d} : document'[e] = document[e]
<1>1. document[d] \in DocumentObjects
  BY DEF Objects
<1>2. PICK k \in Int : k = document[d].references - 1
  BY <1>1 DEF DocumentObjects
<1> DEFINE z == [document[d] EXCEPT !.state = s, !.references = k]
<1>3. /\ z \in DocumentObjects /\ z.state = s /\ z.references = k /\ z.active = document[d].active
  BY <1>1 DEF DocumentObjects
<1>4. document' = [document EXCEPT ![d] = z]
  BY <1>2
<1> HIDE DEF z
<1> QED BY <1>2, <1>3, <1>4, DocumentSet

\* Where no callback runs the last owner frees it.
LEMMA DroppedSound ==
  ASSUME NEW n, Sound(n), NEW d \in Documents, n.doc[d].callbacks = 0, n.doc[d].alive, n.doc[d].pending = 0
  PROVE  LET m == Dropped(n, d)
         IN  /\ Sound(m) /\ Evolves(n, m, d) /\ m.exec = n.exec
             /\ \A f \in Documents \ {d} : m.doc[f] = n.doc[f]
             /\ m.doc[d].alive <=> document[d].references # 1
             /\ m.doc[d].callbacks = 0 /\ m.doc[d].pending = 0
<1>1. n \in Natives /\ Heap(n)
  BY DEF Sound
<1>2. CASE document[d].references = 1
  <2> DEFINE m == Freed(n, d)
  <2>1. Dropped(n, d) = m
    BY <1>2, NullApart DEF Dropped, NFree
  <2>2. /\ m \in Natives /\ Heap(m) /\ Evolves(n, m, d) /\ m.exec = n.exec
        /\ m.doc[d] = NoDocument /\ \A f \in Documents \ {d} : m.doc[f] = n.doc[f]
    BY <1>1, FreedSound
  <2> HIDE DEF m
  <2>3. ~m.doc[d].alive /\ m.doc[d].callbacks = 0 /\ m.doc[d].pending = 0
    BY <2>2 DEF NoDocument
  <2>4. \A q \in Executions : /\ m.exec[q].owner = n.exec[q].owner /\ m.exec[q].revision = n.exec[q].revision
                              /\ m.exec[q].phase = n.exec[q].phase /\ m.exec[q].busy = n.exec[q].busy
                              /\ m.exec[q].results \subseteq n.exec[q].results
    BY <2>2
  <2>5. Sound(m)
    BY <2>2, <2>3, <2>4, SoundKeeps
  <2> QED BY <1>2, <2>1, <2>2, <2>3, <2>5
<1>3. CASE document[d].references # 1
  <2>1. Dropped(n, d) = n
    BY <1>3 DEF Dropped
  <2>2. Evolves(n, n, d)
    BY <1>1, ShapeEvolves DEF Shape
  <2> QED BY <1>3, <2>1, <2>2
<1> QED BY <1>2, <1>3

LEMMA WasmCloseDocument ==
  ASSUME WasmInv, NEW d \in Documents, Wasm!CloseDocument(d)
  PROVE  WasmAfter
<1>1. /\ document[d].state = "open" /\ document[d].active = 0 /\ native' = Dropped(native, d)
      /\ document' = [Disowned(document, d) EXCEPT ![d].state = "closed"]
      /\ execution' = execution /\ handle' = handle /\ program' = program /\ calls' = calls
  BY WasmOps DEF Wasm!CloseDocument, IsOpen
<1>2. /\ Sound(native) /\ native \in Natives /\ Heap(native) /\ Objects /\ Lifetimes /\ Lent
      /\ WasmCalls /\ WasmCounted /\ Sharing /\ Clung /\ document \in [Documents -> DocumentObjects]
  BY DEF WasmInv, Sound, Objects
<1>3. native.doc[d].callbacks = 0 /\ Inner # d /\ native.doc[d].alive /\ native.doc[d].pending = 0
  BY <1>1, <1>2 DEF WasmCounted, Lifetimes
<1>4. /\ document' \in [Documents -> DocumentObjects] /\ document'[d].state = "closed"
      /\ document'[d].references = document[d].references - 1
      /\ document'[d].active = document[d].active
      /\ \A e \in Documents \ {d} : document'[e] = document[e]
  <2>1. document' = [document EXCEPT ![d] = [document[d] EXCEPT !.state = "closed",
                                                               !.references = document[d].references - 1]]
    BY <1>1, <1>2, NullApart DEF Disowned, DocumentObjects
  <2> QED BY <1>2, <2>1, DocumentDisowned
<1>5. /\ Sound(native') /\ Evolves(native, native', d) /\ native'.exec = native.exec
      /\ \A f \in Documents \ {d} : native'.doc[f] = native.doc[f]
      /\ native'.doc[d].alive <=> document[d].references # 1
      /\ native'.doc[d].callbacks = 0 /\ native'.doc[d].pending = 0
  BY <1>1, <1>2, <1>3, DroppedSound
<1>6. Objects'
  BY <1>1, <1>2, <1>4 DEF Objects
<1>7. Carried /\ Assigned
  BY <1>4, <1>5 DEF Carried, Assigned
<1>8. WasmCalls' /\ Inner' = Inner
  BY <1>1, <1>2, <1>5, WasmCallsSame
<1>9. WasmCounted'
  BY <1>1, <1>2, <1>3, <1>4, <1>5, <1>8 DEF WasmCounted
<1>10. Sharing'
  BY <1>1, <1>2, <1>4, <1>5, SharingClose
<1>11. Clung' /\ Lent'
  BY <1>1, <1>2, <1>5, LentStill DEF Clung, Unpinned
<1> QED BY <1>1, <1>5, <1>6, <1>7, <1>8, <1>9, <1>10, <1>11, WasmKeeps

\* An execution that is freed or reset lets go of its document.
LEMMA WasmDrop ==
  ASSUME WasmInv, Outside, NEW q \in Executions, NEW z \in {Fresh, NoExec},
         native' = Dropped([native EXCEPT !.exec[q] = z], execution[q].holds),
         document' = Disowned(document, execution[q].holds),
         NEW y \in ExecutionObjects, y.holds = NULL, execution' = [execution EXCEPT ![q] = y],
         handle' = handle, calls' = calls
  PROVE  /\ native'.exec[q] = z /\ \A p \in Executions \ {q} : native'.exec[p] = native.exec[p]
         /\ Lent' => WasmAfter
<1> DEFINE n == [native EXCEPT !.exec[q] = z]
           d == execution[q].holds
<1>1. /\ Sound(native) /\ native \in Natives /\ Objects /\ Lifetimes /\ WasmCounted /\ Sharing /\ Clung
      /\ document \in [Documents -> DocumentObjects]
  BY DEF WasmInv, Sound, Objects
<1>2. Sound(n) /\ ExecOnly(native, n, q) /\ n.exec[q] = z /\ z.owner = NULL
  BY <1>1, ExecConstants, ExecSound
<1>3. d \in Documents \cup {NULL} /\ native' = Dropped(n, d) /\ document' = Disowned(document, d)
  BY <1>1 DEF Objects, ExecutionObjects
<1>4. /\ execution' \in [Executions -> ExecutionObjects] /\ execution'[q] = y
      /\ \A p \in Executions \ {q} : execution'[p] = execution[p]
  BY <1>1, ExecutionSet
<1>5. execution[q].holds = d
  OBVIOUS
<1> HIDE DEF n, d
<1>6. CASE d = NULL
  <2>1. native' = n /\ document' = document
    BY <1>3, <1>6 DEF Dropped, Disowned
  <2>2. Lent' => WasmAfter
    BY <1>2, <1>5, <1>6, <2>1, WasmQuiet
  <2> QED BY <1>2, <2>1, <2>2 DEF ExecOnly
<1>7. CASE d # NULL
  <2>1. d \in Documents
    BY <1>3, <1>7
  <2>2. n.node = native.node /\ n.doc = native.doc /\ n.identity = native.identity
        /\ \A p \in Executions \ {q} : n.exec[p] = native.exec[p]
    BY <1>2 DEF ExecOnly
  <2>3. native.doc[d].alive /\ native.doc[d].callbacks = 0 /\ native.doc[d].pending = 0
    BY <1>1, <1>5, <2>1, HeldAlive, WasmOutside DEF WasmCounted
  <2>4. /\ Sound(native') /\ Evolves(n, native', d) /\ native'.exec = n.exec
        /\ \A f \in Documents \ {d} : native'.doc[f] = native.doc[f]
        /\ native'.doc[d].alive <=> document[d].references # 1
        /\ native'.doc[d].callbacks = 0 /\ native'.doc[d].pending = 0
    BY <1>2, <1>3, <2>1, <2>2, <2>3, DroppedSound
  <2>5. Evolves(native, native', d)
    BY <2>2, <2>4, EvolvesAlike
  <2>6. /\ document' \in [Documents -> DocumentObjects] /\ document'[d].state = document[d].state
        /\ document'[d].references = document[d].references - 1
        /\ document'[d].active = document[d].active
        /\ \A e \in Documents \ {d} : document'[e] = document[e]
    <3>1. document' = [document EXCEPT ![d] = [document[d] EXCEPT !.state = document[d].state,
                                                                 !.references = document[d].references - 1]]
      BY <1>1, <1>3, <1>7, <2>1 DEF Disowned, DocumentObjects
    <3>2. document[d].state \in {"unborn", "open", "closed"}
      BY <1>1, <2>1 DEF DocumentObjects
    <3> QED BY <1>1, <2>1, <3>1, <3>2, DocumentDisowned
  <2>7. Objects'
    BY <1>1, <1>4, <2>6 DEF Objects
  <2>8. Shared(d) /\ Cardinality(Holders(d)) \in Nat /\ Cardinality(Holders(d)) > 0
    <3>1. Shared(d) /\ q \in Holders(d)
      BY <1>1, <1>5, <2>1 DEF Sharing, Holders
    <3> QED BY <2>1, <3>1, HoldersCounted
  <2>9. document[d].references = 1 => document[d].state = "closed"
    <3>1. document[d].references = 1 => document[d].state # "open"
      BY <2>8 DEF Shared
    <3>2. document[d].state # "unborn"
      BY <1>1, <2>1, <2>3 DEF Lifetimes
    <3> QED BY <1>1, <2>1, <3>1, <3>2 DEF DocumentObjects
  <2>10. Carried
    <3>1. native.doc[d].alive \in BOOLEAN /\ native'.doc[d].alive \in BOOLEAN
      BY <1>1, <2>1, <2>4 DEF Sound, Natives, DocumentRecords
    <3>2. native'.doc[d].alive = native.doc[d].alive \/ document[d].state = "closed"
      BY <2>3, <2>4, <2>9, <3>1
    <3> QED BY <2>4, <2>6, <3>2 DEF Carried
  <2>11. native'.exec[q] = z /\ \A p \in Executions \ {q} : native'.exec[p] = native.exec[p]
    BY <1>2, <2>2, <2>4
  <2>12. Assigned
    BY <1>2, <2>11 DEF Assigned
  <2>13. WasmCalls' /\ Inner' = Inner
    BY WasmOutside
  <2>14. WasmCounted'
    BY <1>1, <2>1, <2>3, <2>4, <2>6, <2>13 DEF WasmCounted
  <2>15. Sharing'
    BY <1>1, <1>4, <1>5, <2>1, <2>4, <2>6, SharingDrop
  <2>16. Clung'
    BY <1>1, <1>2, <1>4, <2>11 DEF Clung
  <2>17. Lent' => WasmAfter
    BY <2>1, <2>4, <2>5, <2>7, <2>10, <2>12, <2>13, <2>14, <2>15, <2>16, WasmKeeps
  <2> QED BY <2>11, <2>17
<1> QED BY <1>6, <1>7

LEMMA WasmCloseExecution ==
  ASSUME WasmInv, NEW q \in Executions, Wasm!CloseExecution(q)
  PROVE  WasmAfter
<1>1. /\ Outside /\ execution[q].open
      /\ native' = Dropped([native EXCEPT !.exec[q] = NoExec], execution[q].holds)
      /\ document' = Disowned(document, execution[q].holds)
      /\ execution' = [execution EXCEPT ![q] = [Idle EXCEPT !.invalid = TRUE]]
      /\ program' = [program EXCEPT !.references = @ - 1] /\ handle' = handle /\ calls' = calls
  BY WasmOps DEF Wasm!CloseExecution, Wasm!Ready, Wasm!Providing, Outside
<1>2. [Idle EXCEPT !.invalid = TRUE] \in ExecutionObjects /\ [Idle EXCEPT !.invalid = TRUE].holds = NULL
  <2>1. Idle \in ExecutionObjects /\ Idle.holds = NULL
    BY DEF Idle, ExecutionObjects
  <2> QED BY <2>1 DEF ExecutionObjects
<1>3. /\ native'.exec[q] = NoExec /\ \A p \in Executions \ {q} : native'.exec[p] = native.exec[p]
      /\ Lent' => WasmAfter
  BY <1>1, <1>2, WasmDrop
<1>4. Lent'
  BY <1>1, <1>3, LentDispose DEF WasmInv
<1> QED BY <1>3, <1>4

LEMMA WasmReset ==
  ASSUME WasmInv, NEW q \in Executions, Wasm!Reset(q)
  PROVE  WasmAfter
<1>1. /\ Outside /\ execution[q].open
      /\ native' = Dropped([native EXCEPT !.exec[q] = Fresh], execution[q].holds)
      /\ document' = Disowned(document, execution[q].holds)
      /\ execution' = [execution EXCEPT ![q] = [Idle EXCEPT !.open = TRUE]]
      /\ program' = program /\ handle' = handle /\ calls' = calls
  BY WasmOps DEF Wasm!Reset, Wasm!Ready, Wasm!Providing, Outside
<1>2. [Idle EXCEPT !.open = TRUE] \in ExecutionObjects /\ [Idle EXCEPT !.open = TRUE].holds = NULL
  <2>1. Idle \in ExecutionObjects /\ Idle.holds = NULL
    BY DEF Idle, ExecutionObjects
  <2> QED BY <2>1 DEF ExecutionObjects
<1>3. /\ native'.exec[q] = Fresh /\ \A p \in Executions \ {q} : native'.exec[p] = native.exec[p]
      /\ Lent' => WasmAfter
  BY <1>1, <1>2, WasmDrop
<1>4. Lent'
  BY <1>1, <1>3, LentReset DEF WasmInv, Sound
<1> QED BY <1>3, <1>4

LEMMA WasmEvaluateDocument ==
  ASSUME WasmInv, NEW q \in Executions, NEW d \in Documents, Wasm!EvaluateDocument(q, d)
  PROVE  WasmAfter
<1> DEFINE runs == Wasm!NEvaluates(native, q, d)
<1>1. /\ Outside /\ execution[q].holds = NULL /\ document[d].state = "open"
      /\ execution' = [execution EXCEPT ![q].holds = d]
      /\ document' = [document EXCEPT ![d].references = @ + 1,
                                      ![d].active = IF runs THEN @ + 1 ELSE @]
      /\ native' = IF runs THEN NEvaluate(native, q, d) ELSE native
      /\ calls' = IF runs THEN Call(q, d, TRUE) ELSE calls
      /\ handle' = handle /\ program' = program
  <2>2. NEvaluate(native, q, d) = Wasm!NEvaluate(native, q, d)
    BY WasmOps
  <2>3. Call(q, d, TRUE) = Wasm!Call(q, d, TRUE)
    BY WasmOps
  <2>4. Wasm!Check(q) /\ execution[q].holds = NULL /\ Wasm!IsOpen(d) /\ handle' = handle /\ program' = program
    BY DEF Wasm!EvaluateDocument
  <2>5. execution' = [execution EXCEPT ![q].holds = d]
    BY DEF Wasm!EvaluateDocument
  <2>6. document' = [document EXCEPT ![d].references = @ + 1,
                                      ![d].active = IF runs THEN @ + 1 ELSE @]
    BY DEF Wasm!EvaluateDocument
  <2>7. native' = (IF runs THEN NEvaluate(native, q, d) ELSE native) /\ calls' = (IF runs THEN Call(q, d, TRUE) ELSE calls)
    BY <2>2, <2>3 DEF Wasm!EvaluateDocument
  <2>8. Outside /\ document[d].state = "open"
    BY <2>4, WasmOps DEF Wasm!Check, Wasm!Ready, Wasm!Providing, Outside, IsOpen, Wasm!IsOpen
  <2> QED BY <2>4, <2>5, <2>6, <2>7, <2>8
<1>2. /\ Sound(native) /\ native \in Natives /\ Objects /\ Lifetimes /\ Lent
      /\ WasmCalls /\ WasmCounted /\ Sharing /\ Clung
      /\ document[d] \in DocumentObjects /\ execution[q] \in ExecutionObjects
      /\ calls \in Seq(CallRecords)
  BY DEF WasmInv, Sound, Objects
<1>3. native.doc[d].alive /\ native.doc[d].callbacks = 0 /\ document[d].active = 0 /\ native.exec[q].owner = NULL
      /\ Inner = NULL
  BY <1>1, <1>2, WasmOutside DEF Lifetimes, WasmCounted, Clung
<1>4. /\ execution' \in [Executions -> ExecutionObjects] /\ execution'[q].holds = d
      /\ \A p \in Executions \ {q} : execution'[p] = execution[p]
      /\ Unpinned
  <2> DEFINE y == [execution[q] EXCEPT !.holds = d]
  <2>1. /\ y \in ExecutionObjects /\ y.holds = d /\ y.open = execution[q].open /\ y.pins = execution[q].pins
    BY <1>2 DEF ExecutionObjects
  <2>2. execution' = [execution EXCEPT ![q] = y]
    BY <1>1, <1>2 DEF Objects
  <2> HIDE DEF y
  <2>3. /\ execution' \in [Executions -> ExecutionObjects] /\ execution'[q] = y
        /\ \A p \in Executions \ {q} : execution'[p] = execution[p]
    BY <1>2, <2>1, <2>2, ExecutionSet
  <2> QED BY <2>1, <2>3 DEF Unpinned
<1>5. /\ document' \in [Documents -> DocumentObjects] /\ document'[d].state = document[d].state
      /\ document'[d].references = document[d].references + 1
      /\ document'[d].active = IF runs THEN 1 ELSE 0
      /\ \A e \in Documents \ {d} : document'[e] = document[e]
  <2>1. PICK k \in Int : k = document[d].references + 1
    BY <1>2 DEF DocumentObjects
  <2>2. PICK i \in Int : i = IF runs THEN 1 ELSE 0
    OBVIOUS
  <2> DEFINE y == [document[d] EXCEPT !.references = k, !.active = i]
  <2>3. y \in DocumentObjects /\ y.state = document[d].state /\ y.references = k /\ y.active = i
    BY <1>2 DEF DocumentObjects
  <2>4. i = IF runs THEN document[d].active + 1 ELSE document[d].active
    BY <1>3, <2>2
  <2>5. document' = [document EXCEPT ![d] = y]
    BY <1>1, <1>2, <2>1, <2>4 DEF Objects
  <2> HIDE DEF y
  <2> QED BY <1>2, <2>1, <2>2, <2>3, <2>5, DocumentSet
<1>6. Unmoved
  BY <1>5 DEF Unmoved
<1>7. CASE ~runs
  <2>1. native' = native /\ calls' = calls
    BY <1>1, <1>7
  <2>2. WasmCalls' /\ Inner' = Inner
    BY <1>1, <2>1, WasmOutside
  <2>3. Evolves(native, native', d) /\ Carried /\ Assigned
    BY <1>2, <1>6, <2>1, ShapeEvolves DEF Shape, Carried, Assigned, Unmoved
  <2>4. Objects'
    BY <1>1, <1>2, <1>4, <1>5, <2>1 DEF Objects
  <2>5. WasmCounted'
    BY <1>2, <1>3, <1>5, <1>7, <2>1, <2>2 DEF WasmCounted
  <2>6. Sharing'
    BY <1>1, <1>2, <1>4, <1>5, <2>1, SharingHold
  <2>7. Clung'
    BY <1>2, <1>3, <1>4, <2>1 DEF Clung
  <2>8. Lent'
    BY <1>1, <1>2, <1>4, <2>1, LentStill
  <2> QED BY <1>1, <1>2, <2>1, <2>2, <2>3, <2>4, <2>5, <2>6, <2>7, <2>8, WasmKeeps
<1>8. CASE runs
  <2>1. native' = NEvaluate(native, q, d) /\ calls' = Call(q, d, TRUE) /\ NEvaluates(native, q, d)
    BY <1>1, <1>8, WasmOps
  <2>2. /\ Sound(native') /\ Shape(native, native') /\ native'.exec[q].owner = d
        /\ \A p \in Executions \ {q} : native'.exec[p] = native.exec[p]
        /\ native'.doc[d].callbacks = 1 /\ native'.doc[d].pending = native.doc[d].pending
        /\ \A f \in Documents \ {d} : native'.doc[f] = native.doc[f]
    BY <1>2, <1>3, <1>8, <2>1, EvaluateSound
  <2>3. WasmCalls' /\ calls' \in Seq(CallRecords) /\ Inner' = d
    BY <1>1, <1>2, <2>1, <2>2, WasmPushed DEF Outside
  <2>4. native' \in Natives
    BY <2>2 DEF Sound
  <2>5. Evolves(native, native', d)
    BY <1>2, <2>2, <2>4, ShapeEvolves
  <2>6. Carried /\ Assigned
    BY <1>1, <1>6, <2>2 DEF Shape, Carried, Assigned, Unmoved
  <2>7. Objects'
    BY <1>1, <1>2, <1>4, <1>5, <2>3 DEF Objects
  <2>8. WasmCounted'
    BY <1>2, <1>3, <1>5, <1>8, <2>2, <2>3, NullApart DEF WasmCounted
  <2>9. Sharing'
    BY <1>1, <1>2, <1>4, <1>5, <2>2, SharingHold DEF Shape
  <2>10. Clung'
    BY <1>2, <1>4, <2>2 DEF Clung
  <2>11. Lent'
    BY <1>1, <1>2, <1>3, <1>4, <1>6, <1>8, <2>1, LentEvaluate
  <2> QED BY <1>1, <2>2, <2>3, <2>5, <2>6, <2>7, <2>8, <2>9, <2>10, <2>11, WasmKeeps
<1> QED BY <1>7, <1>8

LEMMA WasmEvaluateReturn ==
  ASSUME WasmInv, Wasm!EvaluateReturn
  PROVE  WasmAfter
<1> DEFINE q == Head(calls).execution
           d == Head(calls).document
<1>1. /\ calls # <<>> /\ d # NULL /\ calls' = Tail(calls) /\ handle' = handle /\ program' = program
      /\ document' = [document EXCEPT ![d].active = @ - 1]
      /\ execution' \in {execution, [execution EXCEPT ![q].invalid = TRUE], [execution EXCEPT ![q].document = d]}
  BY DEF Wasm!EvaluateReturn
<1>2. PICK ok \in BOOLEAN, S \in SUBSET NodesOf(native, d) : native' = NEvaluated(native, q, ok, S)
  BY WasmOps DEF Wasm!EvaluateReturn, Selections
<1>3. /\ Sound(native) /\ native \in Natives /\ Objects /\ Lifetimes /\ Lent
      /\ WasmCalls /\ WasmCounted /\ Sharing /\ Clung
      /\ execution \in [Executions -> ExecutionObjects]
  BY DEF WasmInv, Sound, Objects
<1>4. q \in Executions /\ d \in Documents /\ native.exec[q].owner = d /\ Inner = d
  BY <1>1, <1>3, WasmInner DEF WasmCalls
<1>5. WasmCalls' /\ calls' \in Seq(CallRecords) /\ Inner' = NULL
  BY <1>1, <1>3, WasmPopped
<1> HIDE DEF q, d
<1>6. /\ document[d].active = 1 /\ native.doc[d].callbacks = 1 /\ native.doc[d].pending = 0
      /\ \A e \in Documents \ {d} : /\ document[e].active = 0 /\ native.doc[e].callbacks = 0
                                    /\ native.doc[e].pending = 0
  BY <1>3, <1>4 DEF WasmCounted
<1>7. /\ Sound(native') /\ Evolves(native, native', d) /\ native'.exec[q].owner \in {d, NULL}
      /\ \A p \in Executions \ {q} : native'.exec[p] = native.exec[p]
      /\ \A f \in Documents \ {d} : native'.doc[f] = native.doc[f]
      /\ native'.doc[d].alive = native.doc[d].alive
      /\ native'.doc[d].callbacks = 0 /\ native'.doc[d].pending = 0
  BY <1>2, <1>3, <1>4, <1>6, EvaluatedSound
<1>8. /\ document' \in [Documents -> DocumentObjects] /\ document'[d].state = document[d].state
      /\ document'[d].active = 0 /\ document'[d].references = document[d].references
      /\ \A e \in Documents \ {d} : document'[e] = document[e]
  <2> DEFINE y == [document[d] EXCEPT !.active = 0]
  <2>1. document[d] \in DocumentObjects /\ document[d].active - 1 = 0
    BY <1>3, <1>4, <1>6 DEF Objects
  <2>2. /\ y \in DocumentObjects /\ y.state = document[d].state /\ y.references = document[d].references
        /\ y.active = 0
    BY <2>1 DEF DocumentObjects
  <2>3. document' = [document EXCEPT ![d] = y]
    BY <1>1, <1>3, <2>1 DEF Objects
  <2> HIDE DEF y
  <2>4. document \in [Documents -> DocumentObjects]
    BY <1>3 DEF Objects
  <2> QED BY <1>4, <2>2, <2>3, <2>4, DocumentSet
<1>9. /\ execution' \in [Executions -> ExecutionObjects] /\ execution'[q].holds = execution[q].holds
      /\ \A p \in Executions \ {q} : execution'[p] = execution[p]
      /\ Unpinned
  <2>1. CASE execution' = execution
    BY <1>3, <2>1 DEF Unpinned
  <2>2. CASE execution' = [execution EXCEPT ![q].invalid = TRUE]
    BY <1>3, <1>4, <2>2 DEF ExecutionObjects, Unpinned
  <2>3. CASE execution' = [execution EXCEPT ![q].document = d]
    BY <1>3, <1>4, <2>3 DEF ExecutionObjects, Unpinned
  <2> QED BY <1>1, <2>1, <2>2, <2>3
<1>10. Objects'
  BY <1>1, <1>3, <1>5, <1>8, <1>9 DEF Objects
<1>11. Carried /\ Assigned
  BY <1>4, <1>7, <1>8 DEF Carried, Assigned
<1>12. WasmCounted'
  BY <1>4, <1>5, <1>6, <1>7, <1>8, NullApart DEF WasmCounted
<1>13. Sharing'
  <2>1. \A p \in Executions : execution'[p].holds = execution[p].holds
    BY <1>9
  <2> QED BY <1>3, <1>7, <1>8, <2>1, SharingSame
<1>14. Clung'
  BY <1>3, <1>4, <1>7, <1>9 DEF Clung
<1>15. Lent'
  BY <1>1, <1>2, <1>3, <1>4, <1>9, LentEvaluated
<1> QED BY <1>1, <1>4, <1>5, <1>7, <1>10, <1>11, <1>12, <1>13, <1>14, <1>15, WasmKeeps

LEMMA WasmNext ==
  ASSUME WasmInv, Wasm!Next
  PROVE  WasmAfter
<1>1. ASSUME NEW d \in Documents, Wasm!Parse(d) \/ Wasm!CloseDocument(d) PROVE WasmAfter
  BY <1>1, WasmParse, WasmCloseDocument
<1>2. ASSUME NEW h \in Handles, NEW d \in Documents, NEW a \in Addresses, Wasm!Navigate(h, d, a)
      PROVE  WasmAfter
  BY <1>2, WasmNavigate
<1>3. ASSUME NEW h \in Handles, Wasm!SetValue(h) \/ Wasm!Erase(h) PROVE WasmAfter
  BY <1>3, WasmEdit
<1>4. CASE Wasm!CloseProgram
  BY <1>4, WasmCloseProgram
<1>5. ASSUME NEW q \in Executions,
             \/ Wasm!NewExecution(q) \/ Wasm!CloseExecution(q) \/ Wasm!Reset(q) \/ Wasm!SetInput(q)
             \/ Wasm!Bind(q) \/ Wasm!Feed(q) \/ Wasm!Drain(q) \/ Wasm!Visit(q) \/ Wasm!EditDocument(q)
      PROVE  WasmAfter
  BY <1>5, WasmNewExecution, WasmCloseExecution, WasmReset, WasmInput, WasmFeed, WasmDrain, WasmVisit,
     WasmEditDocument
<1>6. ASSUME NEW q \in Executions, NEW d \in Documents, Wasm!EvaluateDocument(q, d) PROVE WasmAfter
  BY <1>6, WasmEvaluateDocument
<1>7. ASSUME NEW q \in Executions, NEW h \in Handles, Wasm!NextDocument(q, h) PROVE WasmAfter
  BY <1>7, WasmNextDocument
<1>8. CASE Wasm!DrainReturn \/ Wasm!VisitReturn \/ Wasm!EvaluateReturn
  BY <1>8, WasmDrainReturn, WasmVisitReturn, WasmEvaluateReturn
<1> QED BY <1>1, <1>2, <1>3, <1>4, <1>5, <1>6, <1>7, <1>8 DEF Wasm!Next

LEMMA WasmInvInit == MCInit => WasmInv
<1> SUFFICES ASSUME MCInit PROVE WasmInv
  OBVIOUS
<1>1. Sound(native) /\ Objects /\ Lifetimes /\ \A h \in Handles : ~Taken(h)
  BY BaseInit DEF MCInit, Base
<1>2. /\ native = NativeInit /\ document = [d \in Documents |-> Unborn]
      /\ execution = [q \in Executions |-> Idle] /\ calls = <<>>
  BY DEF MCInit, BindingInit
<1>3. WasmCalls /\ Inner = NULL
  BY <1>2 DEF WasmCalls, Inner
<1>4. WasmCounted
  BY <1>2, <1>3, NullApart DEF WasmCounted, NativeInit, NoDocument, Unborn
<1>5. Sharing
  <2> SUFFICES ASSUME NEW d \in Documents PROVE Shared(d)
    BY DEF Sharing
  <2>1. Holders(d) = {}
    BY <1>2, NullApart DEF Holders, Idle
  <2> QED BY <1>2, <2>1, FS_EmptySet DEF Shared, NativeInit, NoDocument, Unborn
<1>6. Clung
  BY <1>2 DEF Clung, NativeInit, NoExec
<1>7. Lent
  BY OwnedInit DEF Owned
<1>8. WasmHandles
  BY <1>1 DEF WasmHandles
<1> QED BY <1>1, <1>3, <1>4, <1>5, <1>6, <1>7, <1>8 DEF WasmInv

LEMMA WasmInvStep ==
  ASSUME WasmInv, language = "wasm", [MCNext]_mcVars
  PROVE  WasmInv'
<1>1. CASE UNCHANGED mcVars
  <2>1. /\ native' = native /\ document' = document /\ execution' = execution
        /\ handle' = handle /\ calls' = calls /\ program' = program
    BY <1>1 DEF mcVars, bindingVars
  <2>2. (Objects' <=> Objects) /\ (Lifetimes' <=> Lifetimes) /\ (WasmHandles' <=> WasmHandles)
    BY <2>1 DEF Objects, Lifetimes, WasmHandles, Taken
  <2>3. (WasmCalls' <=> WasmCalls) /\ (WasmCounted' <=> WasmCounted)
    BY <2>1 DEF WasmCalls, WasmCounted, Inner
  <2>4. (Sharing' <=> Sharing) /\ (Clung' <=> Clung)
    BY <2>1 DEF Sharing, Shared, Holders, Clung
  <2>5. Lent' <=> Lent
    BY <2>1 DEF Lent, ProgramOwned, Opened, Leased
  <2> QED BY <2>1, <2>2, <2>3, <2>4, <2>5 DEF WasmInv
<1>2. CASE MCNext
  <2>1. Wasm!Next
    BY <1>2 DEF MCNext
  <2> QED BY <2>1, WasmNext DEF WasmAfter
<1> QED BY <1>1, <1>2

LEMMA WasmDenotes ==
  ASSUME WasmInv, language = "wasm"
  PROVE  HandlesDenote
<1>1. ASSUME NEW h \in Handles, Usable(h)
      PROVE  /\ handle[h].at \in NodesOf(native, handle[h].document)
             /\ native.node[handle[h].at].identity = handle[h].identity
  <2>1. Wasm!Usable(h)
    BY <1>1 DEF Usable
  <2> QED BY <2>1, WasmUsable DEF Denotes
<1> QED BY <1>1 DEF HandlesDenote, LeadsHome

LEMMA WasmKept ==
  ASSUME WasmInv, Wasm!Next, NEW h \in Handles, Taken(h)
  PROVE  Kept(h, Wasm!Usable(h), Wasm!Usable(h)')
<1> DEFINE x == handle[h]
           d == x.document
<1>1. WasmInv' /\ Carried /\ handle'[h] = x
  BY WasmNext DEF WasmAfter, HandedOut
<1>2. PICK e \in Documents : Evolves(native, native', e)
  BY WasmNext DEF WasmAfter
<1>3. /\ native \in Natives /\ native' \in Natives /\ x \in HandleObjects
      /\ d \in Documents /\ document[d].state # "unborn" /\ x.identity <= native.identity /\ x.at # NULL
      /\ x.at \in Addresses
  BY <1>1 DEF WasmInv, Sound, Objects, HandleObjects, Lifetimes, WasmHandles
<1>4. document'[d].state \in {document[d].state, "closed"}
  BY <1>1, <1>3 DEF Carried
<1>5. /\ document[d].state = "open" => native.doc[d].alive
      /\ document'[d].state = "open" => native'.doc[d].alive
  BY <1>1, <1>3 DEF WasmInv, Lifetimes
<1>6. Wasm!Usable(h) <=> document[d].state = "open" /\ Denotes(native, x)
  BY <1>3, WasmOps DEF Wasm!Usable, IsOpen, Denotes, NodesOf
<1>7. Wasm!Usable(h)' <=> document'[d].state = "open" /\ Denotes(native', x)
  BY <1>1, <1>3 DEF Wasm!Usable, Wasm!IsOpen, Wasm!Taken, Wasm!Untaken, Taken, Untaken, Denotes, NodesOf
<1>8. IsOpen(d)' <=> document'[d].state = "open"
  BY <1>1 DEF IsOpen
<1> HIDE DEF x, d
<1>9. ASSUME Wasm!Usable(h)' PROVE Wasm!Usable(h)
  <2>1. document[d].state = "open" /\ native.doc[d].alive /\ native'.doc[d].alive /\ Denotes(native', x)
    BY <1>4, <1>5, <1>7, <1>9
  <2> QED BY <1>2, <1>3, <1>6, <2>1, DenotesMoves DEF d
<1>10. ASSUME Wasm!Usable(h), ~Wasm!Usable(h)', document'[d].state = "open"
       PROVE  native.doc[d].revision < native'.doc[d].revision
  <2>1. native.doc[d].alive /\ native'.doc[d].alive /\ Denotes(native, x) /\ ~Denotes(native', x)
    BY <1>5, <1>6, <1>7, <1>10
  <2> QED BY <1>2, <1>3, <2>1, DenotesMoves DEF d
<1>11. native.doc[d].revision < native'.doc[d].revision => native'.doc[d].revision > native.doc[d].revision
  OBVIOUS
<1> QED BY <1>8, <1>9, <1>10, <1>11 DEF Kept, d, x

LEMMA WasmSafe ==
  ASSUME WasmInv, language = "wasm"
  PROVE  OwnershipSafe
<1>1. Sound(native) /\ Objects /\ Lent /\ Sharing /\ Clung /\ WasmCounted
  BY DEF WasmInv
<1>2. \A q \in Executions : native.exec[q].owner # NULL => native.doc[native.exec[q].owner].alive
  <2>1. \A q \in Executions : native.exec[q].owner \in Documents \cup {NULL}
    BY <1>1 DEF Sound, Natives, ExecRecords
  <2> QED BY <1>1, <2>1, HeldAlive DEF Clung
<1>3. ExecutionsSafe
  BY <1>1, <1>2, LentSafe DEF ExecutionsSafe
<1>4. \A T : Wasm!Cardinality(T) = Cardinality(T)
  BY DEF Wasm!Cardinality, Cardinality
<1>5. ProgramOwners = Cardinality(Opened)
  BY <1>4 DEF ProgramOwners, Wasm!ProgramOwners, Opened
<1>6. ASSUME NEW d \in Documents
      PROVE  native.doc[d].alive <=> DocumentOwners(d) > 0 \/ native.doc[d].pending = 2
  <2>1. Shared(d) /\ native.doc[d].pending = 0 /\ Cardinality(Holders(d)) \in Nat
    BY <1>1, HoldersCounted DEF Sharing, WasmCounted
  <2>2. DocumentOwners(d) = (IF document[d].state = "open" THEN 1 ELSE 0) + Cardinality(Holders(d))
    BY <1>4 DEF DocumentOwners, Wasm!DocumentOwners, Wasm!IsOpen, Holders
  <2> QED BY <2>1, <2>2 DEF Shared
<1> QED BY <1>1, <1>3, <1>5, <1>6, LentSafe DEF OwnershipSafe, OwnersCounted

-----------------------------------------------------------------------------
(* The four bindings together. *)

Proved == language \in {"go", "lua", "c++", "wasm"}
FacadeInv == BindingInv /\ (Compared => Owned) /\ (language = "wasm" => WasmInv)

LEMMA FacadeInvInit == MCInit => FacadeInv
  BY BindingInvInit, OwnedInit, WasmInvInit DEF FacadeInv

LEMMA FacadeInvStep == FacadeInv /\ Tame /\ [MCNext]_mcVars => FacadeInv'
<1> SUFFICES ASSUME FacadeInv, Tame, [MCNext]_mcVars PROVE FacadeInv'
  OBVIOUS
<1>1. language' = language
  BY DEF MCNext, mcVars
<1>2. BindingInv'
  BY BindingInvStep DEF FacadeInv
<1>3. Compared' => Owned'
  BY <1>1, OwnedStep DEF FacadeInv, Compared
<1>4. language' = "wasm" => WasmInv'
  BY <1>1, WasmInvStep DEF FacadeInv
<1> QED BY <1>2, <1>3, <1>4 DEF FacadeInv

\* A Go Node is never taken back, so a step that leaves no stray Node found none.
Numbered == language = "go" => handle = [h \in Handles |-> handle[h]]

LEMMA GoHandsOut ==
  ASSUME handle = [h \in Handles |-> handle[h]], Go!Next
  PROVE  \/ handle' = handle
         \/ \E h \in Handles : ~Taken(h) /\ \E x : handle' = [handle EXCEPT ![h] = x]
<1> DEFINE Goal == \/ handle' = handle
                   \/ \E h \in Handles : ~Taken(h) /\ \E x : handle' = [handle EXCEPT ![h] = x]
<1> SUFFICES Goal
  OBVIOUS
<1>1. ASSUME NEW d \in Documents, Go!Parse(d) \/ Go!CloseDocument(d) PROVE Goal
  BY <1>1 DEF Go!Parse, Go!DoParse, Go!CloseDocument
<1>2. ASSUME NEW h \in Handles, NEW d \in Documents,
             Go!Insert(d, h) \/ \E a \in Addresses : Go!Navigate(h, d, a)
      PROVE  Goal
  BY <1>2, GoOps DEF Go!Insert, Go!Navigate
<1>3. ASSUME NEW h \in Handles, Go!SetValue(h) \/ Go!Erase(h) PROVE Goal
  BY <1>3 DEF Go!SetValue, Go!Erase
<1>4. CASE Go!CloseProgram \/ Go!DrainReturn \/ Go!EvaluateReturn
  BY <1>4 DEF Go!CloseProgram, Go!DoRelease, Go!DrainReturn, Go!DoDriven, Go!EvaluateReturn, Go!DoEvaluated
<1>5. ASSUME NEW q \in Executions, \/ Go!NewExecution(q) \/ Go!CloseExecution(q) \/ Go!Reset(q)
                                   \/ Go!SetInput(q) \/ Go!Bind(q) \/ Go!Feed(q) \/ Go!Drain(q)
                                   \/ Go!EditDocument(q)
      PROVE  Goal
  BY <1>5 DEF Go!NewExecution, Go!CloseExecution, Go!Reset, Go!SetInput, Go!Bind, Go!Feed, Go!Drain,
              Go!EditDocument, Go!DoCreate, Go!DoDispose, Go!DoReset, Go!DoFeed, Go!DoDrive
<1>6. ASSUME NEW q \in Executions, NEW d \in Documents, Go!EvaluateDocument(q, d) PROVE Goal
  BY <1>6 DEF Go!EvaluateDocument
<1>7. ASSUME NEW q \in Executions, NEW h \in Handles, Go!NextDocument(q, h) PROVE Goal
  BY <1>7, GoOps DEF Go!NextDocument, Go!DoNext, Go!NextFreed
<1> HIDE DEF Goal
<1> QED BY <1>1, <1>2, <1>3, <1>4, <1>5, <1>6, <1>7 DEF Go!Next

LEMMA NumberedStep == Numbered /\ [MCNext]_mcVars => Numbered'
<1> SUFFICES ASSUME Numbered, [MCNext]_mcVars, language' = "go" PROVE handle' = [h \in Handles |-> handle'[h]]
  BY DEF Numbered
<1>1. handle = [h \in Handles |-> handle[h]] /\ (handle' = handle \/ Go!Next)
  BY DEF Numbered, MCNext, mcVars, bindingVars
<1>2. ASSUME NEW h \in Handles, NEW x, handle' = [handle EXCEPT ![h] = x]
      PROVE  handle' = [g \in Handles |-> handle'[g]]
  BY <1>1, <1>2
<1> QED BY <1>1, <1>2, GoHandsOut

LEMMA TameBefore == Numbered /\ Tame' /\ [MCNext]_mcVars => Tame
<1> SUFFICES ASSUME Numbered, Tame', [MCNext]_mcVars, NEW h \in Handles, Stray(h) PROVE FALSE
  BY DEF Tame
<1>1. language = "go" /\ language' = "go" /\ handle = [g \in Handles |-> handle[g]]
  BY DEF Stray, Numbered, MCNext, mcVars
<1>2. Taken(h) /\ handle[h].origin # handle[h].document
  BY GoOps DEF Stray, Go!Stray
<1>3. handle' = handle \/ Go!Next
  BY <1>1 DEF MCNext, mcVars, bindingVars
<1>4. handle'[h] = handle[h]
  <2>1. ASSUME NEW g \in Handles, ~Taken(g), NEW x, handle' = [handle EXCEPT ![g] = x]
        PROVE  handle'[h] = handle[h]
    BY <1>1, <1>2, <2>1
  <2> QED BY <1>1, <1>3, <2>1, GoHandsOut
<1>5. Stray(h)'
  BY <1>1, <1>2, <1>4 DEF Stray, Go!Stray, Go!Taken, Go!Untaken, Taken, Untaken
<1> QED BY <1>5 DEF Tame

\* The invariant of the theorems below.
TameInv == Numbered /\ (Tame => FacadeInv)

LEMMA TameInvInit == MCInit => TameInv
<1>1. MCInit => Numbered
  BY DEF MCInit, BindingInit, Numbered
<1> QED BY <1>1, FacadeInvInit DEF TameInv

LEMMA TameInvStep == TameInv /\ [MCNext]_mcVars => TameInv'
  BY FacadeInvStep, NumberedStep, TameBefore DEF TameInv

LEMMA BindingKept ==
  ASSUME FacadeInv, Tame, Proved, MCNext, NEW h \in Handles, Taken(h)
  PROVE  Kept(h, Usable(h), Usable(h)')
<1>1. language' = language
  BY DEF MCNext
<1>2. CASE Compared
  BY <1>2, ComparedKept DEF FacadeInv, Compared
<1>3. CASE language = "wasm"
  <2>1. Wasm!Next /\ WasmInv
    BY <1>3 DEF MCNext, FacadeInv
  <2>2. Usable(h) = Wasm!Usable(h) /\ Usable(h)' = Wasm!Usable(h)'
    BY <1>1, <1>3 DEF Usable
  <2> QED BY <2>1, <2>2, WasmKept
<1> QED BY <1>2, <1>3 DEF Proved, Compared

\* A Node that Node.Valid in Go, check_node in Lua, node::c_node in C++ or the wasm module's node
\* lookup accepts is the native node it was made for: it is alive, in the Node's document, and its
\* address has not been given to another node since.  For Go it holds of programs that give an
\* execution one document between resets: HandlesDenote says nothing once a Node was wrapped as
\* another document's, since an edit through that one moves the generation of the wrong document.
THEOREM BindingHandlesDenote ==
  MCSpec => [](language \in {"go", "lua", "c++", "wasm"} => HandlesDenote)
<1>1. TameInv => (language \in {"go", "lua", "c++", "wasm"} => HandlesDenote)
  BY BindingInvDenotes, WasmDenotes DEF TameInv, FacadeInv, HandlesDenote
<1> QED BY <1>1, TameInvInit, TameInvStep, PTL DEF MCSpec

\* In Go, Lua, C++ and WebAssembly a Node expires for good, and only when its document was edited
\* or closed: a refused call, a failed evaluation, a callback or a reset takes no Node away, and no
\* later edit, and no reuse of its address, brings one back.  For Go, as long as no Node was
\* wrapped as another document's.
THEOREM BindingHandlesKept ==
  MCSpec => (language \in {"go", "lua", "c++", "wasm"} => HandlesKept)
<1> DEFINE A == Tame' => \A h \in Handles : Taken(h) =>
                  /\ ~Usable(h) => ~Usable(h)'
                  /\ Usable(h) /\ ~Usable(h)' =>
                       LET d == handle[h].document
                       IN  ~IsOpen(d)' \/ native'.doc[d].revision > native.doc[d].revision
<1>1. Proved /\ [MCNext]_mcVars => Proved'
  BY DEF MCNext, mcVars, Proved
<1>2. TameInv /\ Proved /\ [MCNext]_mcVars => [A]_mcVars
  <2> SUFFICES ASSUME TameInv, Proved, MCNext, Tame',
                      NEW h \in Handles, Taken(h)
               PROVE  Kept(h, Usable(h), Usable(h)')
    BY DEF Kept
  <2>1. FacadeInv /\ Tame
    BY TameBefore DEF TameInv
  <2> QED BY <2>1, BindingKept
<1>3. language \in {"go", "lua", "c++", "wasm"} => Proved
  BY DEF Proved
<1> QED BY <1>1, <1>2, <1>3, TameInvInit, TameInvStep, PTL DEF MCSpec, HandlesKept

\* In Go, Lua, C++ and WebAssembly the program is freed with its last owner and not before, and so
\* is each native document (or when the callback that closed it inside returns): in WebAssembly an
\* execution owns the document it was given, and the count of a document is the number of its
\* owners.  An execution that is open has its program and its native state, and pins what that
\* reads; and the document whose nodes it would hand out is there.  For Go, as long as no Node was
\* wrapped as another document's.
THEOREM BindingOwnershipSafe ==
  MCSpec => [](language \in {"go", "lua", "c++", "wasm"} /\ Tame => OwnershipSafe)
<1>1. TameInv => (language \in {"go", "lua", "c++", "wasm"} /\ Tame => OwnershipSafe)
  BY OwnedSafe, WasmSafe DEF TameInv, FacadeInv, Compared
<1> QED BY <1>1, TameInvInit, TameInvStep, PTL DEF MCSpec
=============================================================================
