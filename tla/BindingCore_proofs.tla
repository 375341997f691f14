------------------------- MODULE BindingCore_proofs -------------------------
(***************************************************************************)
(* Lemmas on what the language bindings share, for every number of          *)
(* documents, executions, handles and addresses.                            *)
(*                                                                         *)
(* The native heap comes first: which operations keep it well formed, and   *)
(* how a step of one document leaves the nodes of the others alone and      *)
(* shows in its own revision and epoch (Evolves).  Then the objects that    *)
(* the bindings share (Base), what owns the program, the native executions  *)
(* and the native documents (Lent, Owned), and the owners that a document   *)
(* counts where executions own documents too (Sharing).                     *)
(***************************************************************************)
EXTENDS BindingCore, FiniteSetTheorems, SequenceTheorems, TLAPS

-----------------------------------------------------------------------------
(* The native library. *)

NodeRecords == [document : Documents \cup {NULL}, parent : Addresses \cup {NULL},
                identity : Nat, erase : BOOLEAN]
DocumentRecords == [alive : BOOLEAN, revision : Nat, epoch : Nat, callbacks : Int, pending : Nat]
PhaseNames == {"none", "fresh", "events", "finished", "invalid"}
ExecRecords == [phase : PhaseNames, owner : Documents \cup {NULL}, revision : Nat,
                results : SUBSET Addresses, pulled : BOOLEAN, busy : BOOLEAN, windows : Int]
Natives == [node : [Addresses -> NodeRecords], doc : [Documents -> DocumentRecords],
            exec : [Executions -> ExecRecords], identity : Nat]

\* A free address holds nothing.  A node's document is there; its parent is an older node of the
\* same document; it is marked for erasure only where an erasure is pending.
Placed(n, a) ==
  LET x == n.node[a]
  IN  /\ x.identity <= n.identity
      /\ x.document = NULL => x.parent = NULL /\ ~x.erase
      /\ x.document # NULL => n.doc[x.document].alive
      /\ x.parent # NULL => /\ n.node[x.parent].document = x.document
                            /\ n.node[x.parent].identity < x.identity
      /\ x.erase => n.doc[x.document].pending # 0
Heap(n) == \A a \in Addresses : Placed(n, a)

LEMMA NullApart == /\ NULL \notin Documents /\ NULL \notin Addresses
                   /\ NULL \notin Executions /\ NULL \notin Handles
  BY BindingBounds

LEMMA AboveSelf == ASSUME NEW n, NEW a \in Addresses PROVE a \in Above(n, a)
  BY DEF Above

LEMMA AboveIn == ASSUME NEW n, NEW a PROVE Above(n, a) \subseteq Addresses
  BY DEF Above

LEMMA AboveParent ==
  ASSUME NEW n, NEW b \in Addresses, NEW p \in Addresses, n.node[b].parent = p, NEW a \in Above(n, p)
  PROVE  a \in Above(n, b)
<1> DEFINE Closed(S) == \A c \in S : n.node[c].parent \in S \cup {NULL}
<1>1. a \in Addresses
  BY AboveIn
<1>2. ASSUME NEW S \in SUBSET Addresses, b \in S, Closed(S) PROVE a \in S
  <2>1. p \in S \cup {NULL}
    BY <1>2
  <2>2. p \in S
    BY <2>1, NullApart
  <2> QED BY <1>2, <2>2 DEF Above
<1> QED BY <1>1, <1>2 DEF Above

LEMMA AboveTransitive ==
  ASSUME NEW n, NEW b, NEW c \in Above(n, b), NEW a \in Above(n, c)
  PROVE  a \in Above(n, b)
<1>1. a \in Addresses
  BY AboveIn
<1>2. ASSUME NEW S \in SUBSET Addresses, b \in S,
             \A e \in S : n.node[e].parent \in S \cup {NULL}
      PROVE  a \in S
  <2>1. c \in S
    BY <1>2 DEF Above
  <2> QED BY <1>2, <2>1 DEF Above
<1> QED BY <1>1, <1>2 DEF Above

LEMMA AboveOlder ==
  ASSUME NEW n \in Natives, Heap(n), NEW b \in Addresses, NEW a \in Above(n, b)
  PROVE  /\ a \in Addresses
         /\ n.node[a].document = n.node[b].document
         /\ a = b \/ n.node[a].identity < n.node[b].identity
<1> DEFINE S == {c \in Addresses : /\ n.node[c].document = n.node[b].document
                                   /\ c = b \/ n.node[c].identity < n.node[b].identity}
<1>1. ASSUME NEW c \in S PROVE n.node[c].parent \in S \cup {NULL}
  <2>1. /\ n.node[c] \in NodeRecords /\ n.node[b] \in NodeRecords /\ Placed(n, c)
    BY DEF Natives, Heap
  <2>2. CASE n.node[c].parent = NULL
    BY <2>2
  <2>3. CASE n.node[c].parent # NULL
    <3> DEFINE p == n.node[c].parent
    <3>1. p \in Addresses
      BY <2>1, <2>3 DEF NodeRecords
    <3>2. n.node[p] \in NodeRecords
      BY <3>1 DEF Natives
    <3>3. n.node[p].document = n.node[c].document /\ n.node[p].identity < n.node[c].identity
      BY <2>1, <2>3 DEF Placed
    <3>4. /\ n.node[p].identity \in Nat /\ n.node[c].identity \in Nat /\ n.node[b].identity \in Nat
      BY <2>1, <3>2 DEF NodeRecords
    <3>5. n.node[p].identity < n.node[b].identity
      BY <3>3, <3>4
    <3> QED BY <3>1, <3>3, <3>5
  <2> QED BY <2>2, <2>3
<1>2. b \in S /\ S \in SUBSET Addresses
  OBVIOUS
<1>3. a \in S
  <2> HIDE DEF S
  <2> QED BY <1>1, <1>2 DEF Above
<1> QED BY <1>3

\* What hangs from a node of the subtree is of the subtree.
LEMMA SubtreeClosed ==
  ASSUME NEW n \in Natives, Heap(n), NEW a \in Addresses, NEW b \in Addresses,
         n.node[b].parent \in Subtree(n, a)
  PROVE  b \in Subtree(n, a) /\ b # a
<1> DEFINE p == n.node[b].parent
<1>1. p \in Addresses /\ a \in Above(n, p) /\ n.node[p].document = n.node[a].document
  BY DEF Subtree, NodesOf
<1>2. p # NULL
  BY <1>1, NullApart
<1>3. n.node[p].document = n.node[b].document /\ n.node[p].identity < n.node[b].identity
  BY <1>2 DEF Heap, Placed
<1>4. a \in Above(n, b)
  BY <1>1, AboveParent
<1>5. b \in Subtree(n, a)
  BY <1>1, <1>3, <1>4 DEF Subtree, NodesOf
<1>6. a = p \/ n.node[a].identity < n.node[p].identity
  BY <1>1, AboveOlder
<1>7. /\ n.node[p].identity \in Nat /\ n.node[a].identity \in Nat /\ n.node[b].identity \in Nat
  BY <1>1 DEF Natives, NodeRecords
<1>8. n.node[a].identity < n.node[b].identity
  BY <1>3, <1>6, <1>7
<1> QED BY <1>5, <1>7, <1>8

LEMMA ReleaseSound ==
  ASSUME NEW n \in Natives, Heap(n), NEW S \in SUBSET Addresses,
         \A b \in Addresses : n.node[b].parent \in S => b \in S
  PROVE  LET m == Release(n, S)
         IN  /\ m \in Natives /\ Heap(m)
             /\ m.doc = n.doc /\ m.exec = n.exec /\ m.identity = n.identity
             /\ \A a \in Addresses : m.node[a] = IF a \in S THEN NoNode ELSE n.node[a]
<1> DEFINE m == Release(n, S)
<1>1. /\ m.doc = n.doc /\ m.exec = n.exec /\ m.identity = n.identity
      /\ \A a \in Addresses : m.node[a] = IF a \in S THEN NoNode ELSE n.node[a]
      /\ m.node = [a \in Addresses |-> IF a \in S THEN NoNode ELSE n.node[a]]
      /\ m = [node |-> m.node, doc |-> m.doc, exec |-> m.exec, identity |-> m.identity]
  BY DEF Release, Natives
<1>2. NoNode \in NodeRecords
  BY DEF NoNode, NodeRecords
<1>3. m.node \in [Addresses -> NodeRecords]
  BY <1>1, <1>2 DEF Natives
<1>4. m \in Natives
  BY <1>1, <1>3 DEF Natives
<1>5. ASSUME NEW a \in Addresses PROVE Placed(m, a)
  <2>1. CASE a \in S
    <3>1. m.node[a] = NoNode
      BY <1>1, <2>1
    <3>2. n.identity \in Nat
      BY DEF Natives
    <3> QED BY <1>1, <3>1, <3>2 DEF Placed, NoNode
  <2>2. CASE a \notin S
    <3>1. m.node[a] = n.node[a] /\ Placed(n, a)
      BY <1>1, <2>2 DEF Heap
    <3>2. CASE n.node[a].parent = NULL
      BY <1>1, <3>1, <3>2 DEF Placed
    <3>3. CASE n.node[a].parent # NULL
      <4>1. n.node[a].parent \in Addresses \ S
        BY <2>2, <3>3 DEF Natives, NodeRecords
      <4>2. m.node[n.node[a].parent] = n.node[n.node[a].parent]
        BY <1>1, <4>1
      <4> QED BY <1>1, <3>1, <4>2 DEF Placed
    <3> QED BY <3>2, <3>3
  <2> QED BY <2>1, <2>2
<1>6. Heap(m)
  BY <1>5 DEF Heap
<1> QED BY <1>1, <1>4, <1>6

LEMMA ChainFacts ==
  ASSUME NEW n, NEW k \in Nat, NEW at \in Chains(n, k)
  PROVE  /\ Len(at) \in Nat /\ DOMAIN at = 1 .. Len(at)
         /\ \A i \in 1 .. Len(at) : at[i] \in Addresses /\ n.node[at[i]].document = NULL
         /\ \A i, j \in 1 .. Len(at) : at[i] = at[j] => i = j
<1>1. PICK i \in 0 .. k : at \in [1 .. i -> Vacant(n)]
  BY DEF Chains
<1>2. at \in Seq(Vacant(n))
  BY <1>1, SeqDef
<1>3. Len(at) \in Nat /\ DOMAIN at = 1 .. Len(at)
  BY <1>2
<1>4. \A j \in 1 .. Len(at) : at[j] \in Vacant(n)
  BY <1>2
<1>5. IsInjective(at)
  BY DEF Chains
<1>6. \A x \in Vacant(n) : x \in Addresses /\ n.node[x].document = NULL
  BY DEF Vacant, Live
<1>7. \A x, y \in 1 .. Len(at) : at[x] = at[y] => x = y
  BY <1>3, <1>5, Zenon DEF IsInjective
<1> QED BY <1>3, <1>4, <1>6, <1>7

LEMMA AllocateSound ==
  ASSUME NEW n \in Natives, Heap(n), NEW d \in Documents, n.doc[d].alive,
         NEW parent \in Addresses \cup {NULL}, parent # NULL => n.node[parent].document = d,
         NEW k \in Nat, NEW at \in Chains(n, k)
  PROVE  LET m == Allocate(n, d, parent, at)
         IN  /\ m \in Natives /\ Heap(m)
             /\ m.doc = n.doc /\ m.exec = n.exec /\ m.identity = n.identity + Len(at)
             /\ \A a \in Addresses :
                  \/ m.node[a] = n.node[a]
                  \/ /\ n.node[a].document = NULL /\ m.node[a].document = d
                     /\ n.identity < m.node[a].identity
                     /\ m.node[a].parent = parent \/ n.node[m.node[a].parent].document = NULL
             /\ \A i \in 1 .. Len(at) : at[i] \in Addresses /\ m.node[at[i]].document = d
                                        /\ n.node[at[i]].document = NULL
<1> DEFINE m == Allocate(n, d, parent, at)
           Used(a) == \E i \in DOMAIN at : at[i] = a
           Index(a) == CHOOSE j \in DOMAIN at : at[j] = a
           New(i) == [document |-> d, parent |-> IF i = 1 THEN parent ELSE at[i - 1],
                      identity |-> n.identity + i, erase |-> FALSE]
<1>1. /\ Len(at) \in Nat /\ DOMAIN at = 1 .. Len(at)
      /\ \A i \in 1 .. Len(at) : at[i] \in Addresses /\ n.node[at[i]].document = NULL
      /\ \A i, j \in 1 .. Len(at) : at[i] = at[j] => i = j
  BY ChainFacts
<1>2. /\ m.doc = n.doc /\ m.exec = n.exec /\ m.identity = n.identity + Len(at)
      /\ m.node = [a \in Addresses |-> IF Used(a) THEN New(Index(a)) ELSE n.node[a]]
      /\ m = [node |-> m.node, doc |-> m.doc, exec |-> m.exec, identity |-> m.identity]
  <2> DEFINE f == [a \in Addresses |-> IF Used(a) THEN New(Index(a)) ELSE n.node[a]]
  <2>1. m = [n EXCEPT !.node = f, !.identity = @ + Len(at)]
    BY DEF Allocate
  <2> HIDE DEF f, m
  <2>2. m = [node |-> f, doc |-> n.doc, exec |-> n.exec, identity |-> n.identity + Len(at)]
    BY <2>1 DEF Natives
  <2> QED BY <2>2 DEF f
<1>3. \A i \in 1 .. Len(at) : Used(at[i]) /\ Index(at[i]) = i
  <2> TAKE i \in 1 .. Len(at)
  <2>1. Used(at[i])
    BY <1>1
  <2>2. Index(at[i]) \in DOMAIN at /\ at[Index(at[i])] = at[i]
    BY <2>1
  <2> QED BY <1>1, <2>1, <2>2
<1>4. \A i \in 1 .. Len(at) : m.node[at[i]] = New(i)
  <2> TAKE i \in 1 .. Len(at)
  <2> HIDE DEF m, Used, Index, New
  <2> QED BY <1>1, <1>2, <1>3
<1>5. \A a \in Addresses : \/ m.node[a] = n.node[a]
                           \/ \E i \in 1 .. Len(at) : a = at[i]
  <2> TAKE a \in Addresses
  <2> HIDE DEF m, New, Index
  <2> QED BY <1>1, <1>2
<1> HIDE DEF m, Used, Index
<1>6. \A i \in 1 .. Len(at) : New(i) \in NodeRecords
  <2> TAKE i \in 1 .. Len(at)
  <2>1. n.identity \in Nat
    BY DEF Natives
  <2>2. i # 1 => i - 1 \in 1 .. Len(at)
    BY <1>1
  <2>3. (IF i = 1 THEN parent ELSE at[i - 1]) \in Addresses \cup {NULL}
    BY <1>1, <2>2
  <2>4. n.identity + i \in Nat
    BY <1>1, <2>1
  <2> QED BY <2>3, <2>4 DEF NodeRecords
<1>7. \A a \in Addresses : n.node[a] \in NodeRecords
  BY DEF Natives
<1>8. \A a \in Addresses : m.node[a] \in NodeRecords
  <2> HIDE DEF New
  <2> QED BY <1>4, <1>5, <1>6, <1>7
<1>9. m.node \in [Addresses -> NodeRecords]
  BY <1>2, <1>8
<1>10. m.identity \in Nat /\ n.identity \in Nat
  BY <1>1, <1>2 DEF Natives
<1>11. m \in Natives
  BY <1>2, <1>9, <1>10 DEF Natives
<1>12. ASSUME NEW a \in Addresses PROVE Placed(m, a)
  <2>1. CASE \E i \in 1 .. Len(at) : a = at[i]
    <3>1. PICK i \in 1 .. Len(at) : a = at[i]
      BY <2>1
    <3>2. m.node[a] = New(i)
      BY <1>4, <3>1
    <3>3. i \in Nat /\ i <= Len(at)
      BY <1>1
    <3>4. m.node[a].identity <= m.identity
      BY <1>1, <1>2, <1>10, <3>2, <3>3
    <3>5. m.node[a].parent # NULL => /\ m.node[m.node[a].parent].document = d
                                     /\ m.node[m.node[a].parent].identity < m.node[a].identity
      <4>1. CASE i = 1
        <5>1. m.node[a].parent = parent
          BY <3>2, <4>1
        <5>2. SUFFICES ASSUME parent # NULL
                       PROVE  /\ m.node[parent].document = d
                              /\ m.node[parent].identity < m.node[a].identity
          BY <5>1
        <5>3. parent \in Addresses /\ n.node[parent].document = d
          BY <5>2
        <5>4. m.node[parent] = n.node[parent]
          BY <1>1, <1>5, <5>3, NullApart
        <5>5. n.node[parent].identity <= n.identity /\ n.node[parent].identity \in Nat
          BY <1>7, <5>3 DEF Heap, Placed, NodeRecords
        <5>6. n.node[parent].identity < n.identity + 1
          BY <1>10, <5>5
        <5> QED BY <3>2, <4>1, <5>3, <5>4, <5>6
      <4>2. CASE i # 1
        <5>1. i - 1 \in 1 .. Len(at)
          BY <1>1, <4>2
        <5>2. m.node[at[i - 1]] = New(i - 1)
          BY <1>4, <5>1
        <5>3. m.node[a].parent = at[i - 1]
          BY <3>2, <4>2
        <5>4. n.identity + (i - 1) < n.identity + i
          BY <1>10, <3>3
        <5> QED BY <3>2, <5>2, <5>3, <5>4
      <4> QED BY <4>1, <4>2
    <3>6. m.node[a].document = d /\ ~m.node[a].erase /\ d # NULL
      BY <3>2, NullApart
    <3> QED BY <1>2, <3>4, <3>5, <3>6 DEF Placed
  <2>2. CASE m.node[a] = n.node[a] /\ ~\E i \in 1 .. Len(at) : a = at[i]
    <3>1. Placed(n, a) /\ n.node[a] \in NodeRecords
      BY <1>7 DEF Heap
    <3>2. n.node[a].identity <= m.identity
      <4>1. n.node[a].identity <= n.identity /\ n.node[a].identity \in Nat
        BY <3>1 DEF Placed, NodeRecords
      <4> QED BY <1>1, <1>2, <1>10, <4>1
    <3>3. CASE n.node[a].parent = NULL
      BY <1>2, <2>2, <3>1, <3>2, <3>3 DEF Placed
    <3>4. CASE n.node[a].parent # NULL
      <4> DEFINE p == n.node[a].parent
      <4>1. p \in Addresses
        BY <3>1, <3>4 DEF NodeRecords
      <4>2. n.node[a].document # NULL /\ n.node[p].document = n.node[a].document
        BY <3>1, <3>4 DEF Placed
      <4>3. m.node[p] = n.node[p]
        BY <1>1, <1>5, <4>1, <4>2
      <4> QED BY <1>2, <2>2, <3>1, <3>2, <4>3 DEF Placed
    <3> QED BY <3>3, <3>4
  <2> QED BY <1>5, <2>1, <2>2
<1>13. Heap(m)
  BY <1>12 DEF Heap
<1>14. \A i \in 1 .. Len(at) :
         /\ m.node[at[i]].document = d /\ n.identity < m.node[at[i]].identity
         /\ m.node[at[i]].parent = parent \/ n.node[m.node[at[i]].parent].document = NULL
  <2> TAKE i \in 1 .. Len(at)
  <2>1. m.node[at[i]] = New(i)
    BY <1>4
  <2>2. n.identity < n.identity + i
    BY <1>1, <1>10
  <2>3. i # 1 => i - 1 \in 1 .. Len(at)
    BY <1>1
  <2>4. i # 1 => n.node[at[i - 1]].document = NULL
    BY <1>1, <2>3
  <2> QED BY <2>1, <2>2, <2>4
<1>15. \A a \in Addresses :
         \/ m.node[a] = n.node[a]
         \/ /\ n.node[a].document = NULL /\ m.node[a].document = d
            /\ n.identity < m.node[a].identity
            /\ m.node[a].parent = parent \/ n.node[m.node[a].parent].document = NULL
  <2> TAKE a \in Addresses
  <2> HIDE DEF New
  <2> QED BY <1>1, <1>5, <1>14
<1> QED BY <1>1, <1>2, <1>11, <1>13, <1>14, <1>15 DEF m

-----------------------------------------------------------------------------
(* What a native step may do to one document and to its nodes. *)

\* The same node is at a, or none still.
Same(n, m, a) == /\ m.node[a].document = n.node[a].document
                 /\ m.node[a].identity = n.node[a].identity

\* Other documents and their nodes are left alone.
Elsewhere(n, m, d) ==
  /\ \A e \in Documents \ {d} : /\ m.doc[e].alive = n.doc[e].alive
                                /\ m.doc[e].revision = n.doc[e].revision
                                /\ m.doc[e].epoch = n.doc[e].epoch
  /\ \A a \in Addresses :
       n.node[a].document \notin {NULL, d} \/ m.node[a].document \notin {NULL, d} => Same(n, m, a)
\* An identity is never used again.
Newer(n, m, d) ==
  /\ n.identity <= m.identity
  /\ \A a \in Addresses : m.node[a].document = d => Same(n, m, a) \/ n.identity < m.node[a].identity
\* Every change of d's nodes shows in its revision, and every loss of one in its epoch.
Noted(n, m, d) ==
  n.doc[d].alive /\ m.doc[d].alive =>
    /\ n.doc[d].revision <= m.doc[d].revision
    /\ n.doc[d].epoch <= m.doc[d].epoch
    /\ \/ n.doc[d].revision < m.doc[d].revision
       \/ \A a \in Addresses : d \in {n.node[a].document, m.node[a].document} => Same(n, m, a)
    /\ \/ n.doc[d].epoch < m.doc[d].epoch
       \/ \A a \in Addresses : n.node[a].document = d => Same(n, m, a)
Evolves(n, m, d) == Elsewhere(n, m, d) /\ Newer(n, m, d) /\ Noted(n, m, d)

\* The parts of a native state that a step which only moves counters leaves alone.
Shape(n, m) ==
  /\ m.node = n.node /\ m.identity = n.identity
  /\ \A e \in Documents : /\ m.doc[e].alive = n.doc[e].alive
                          /\ m.doc[e].revision = n.doc[e].revision
                          /\ m.doc[e].epoch = n.doc[e].epoch

LEMMA HeapFrame ==
  ASSUME NEW n \in Natives, Heap(n), NEW m \in Natives, m.node = n.node, m.identity = n.identity,
         \A e \in Documents : m.doc[e].alive = n.doc[e].alive /\ m.doc[e].pending = n.doc[e].pending
  PROVE  Heap(m)
<1>1. ASSUME NEW a \in Addresses PROVE Placed(m, a)
  <2>1. Placed(n, a) /\ n.node[a] \in NodeRecords
    BY DEF Heap, Natives
  <2>2. n.node[a].document # NULL => n.node[a].document \in Documents
    BY <2>1 DEF NodeRecords
  <2> QED BY <2>1, <2>2 DEF Placed
<1> QED BY <1>1 DEF Heap

LEMMA EvolvesAlike ==
  ASSUME NEW n, NEW m, NEW r, NEW d, m.node = n.node, m.doc = n.doc, m.identity = n.identity,
         Evolves(m, r, d)
  PROVE  Evolves(n, r, d)
<1>1. Elsewhere(n, r, d)
  BY DEF Evolves, Elsewhere, Same
<1>2. Newer(n, r, d)
  BY DEF Evolves, Newer, Same
<1>3. Noted(n, r, d)
  BY DEF Evolves, Noted, Same
<1> QED BY <1>1, <1>2, <1>3 DEF Evolves

LEMMA ShapeEvolves ==
  ASSUME NEW n \in Natives, NEW m \in Natives, Shape(n, m), NEW d \in Documents
  PROVE  Evolves(n, m, d)
<1>1. \A a : Same(n, m, a)
  BY DEF Shape, Same
<1>2. /\ n.identity \in Nat /\ n.doc[d].revision \in Nat /\ n.doc[d].epoch \in Nat
  BY DEF Natives, DocumentRecords
<1>3. /\ m.identity = n.identity /\ m.doc[d].revision = n.doc[d].revision
      /\ m.doc[d].epoch = n.doc[d].epoch
  BY DEF Shape
<1>4. /\ n.identity <= m.identity /\ n.doc[d].revision <= m.doc[d].revision
      /\ n.doc[d].epoch <= m.doc[d].epoch
  BY <1>2, <1>3
<1>5. Elsewhere(n, m, d)
  BY <1>1 DEF Elsewhere, Shape
<1>6. Newer(n, m, d)
  BY <1>1, <1>4 DEF Newer
<1>7. Noted(n, m, d)
  BY <1>1, <1>4 DEF Noted
<1> QED BY <1>5, <1>6, <1>7 DEF Evolves

\* An edit of d, which takes r steps in its revision and e in its epoch.
LEMMA EditEvolves ==
  ASSUME NEW n \in Natives, NEW m \in Natives, NEW d \in Documents, NEW r \in Nat, NEW e \in Nat,
         n.identity <= m.identity,
         \A f \in Documents \ {d} : m.doc[f] = n.doc[f],
         m.doc[d].revision = n.doc[d].revision + r, m.doc[d].epoch = n.doc[d].epoch + e,
         \A a \in Addresses :
           \/ Same(n, m, a)
           \/ n.node[a].document = d /\ m.node[a].document = NULL /\ r # 0 /\ e # 0
           \/ /\ n.node[a].document = NULL /\ m.node[a].document = d /\ r # 0
              /\ n.identity < m.node[a].identity
  PROVE  Evolves(n, m, d)
<1>1. /\ n.doc[d].revision \in Nat /\ n.doc[d].epoch \in Nat
  BY DEF Natives, DocumentRecords
<1>2. /\ n.doc[d].revision <= m.doc[d].revision /\ (r # 0 => n.doc[d].revision < m.doc[d].revision)
      /\ n.doc[d].epoch <= m.doc[d].epoch /\ (e # 0 => n.doc[d].epoch < m.doc[d].epoch)
  BY <1>1
<1>3. Elsewhere(n, m, d)
  BY NullApart DEF Elsewhere
<1>4. Newer(n, m, d)
  BY NullApart DEF Newer
<1>5. r # 0 \/ \A a \in Addresses : d \in {n.node[a].document, m.node[a].document} => Same(n, m, a)
  OBVIOUS
<1>6. e # 0 \/ \A a \in Addresses : n.node[a].document = d => Same(n, m, a)
  BY NullApart
<1>7. Noted(n, m, d)
  BY <1>2, <1>5, <1>6 DEF Noted
<1> QED BY <1>3, <1>4, <1>7 DEF Evolves

LEMMA MoveSound ==
  ASSUME NEW x \in Natives, Heap(x), NEW d \in Documents, NEW r \in Nat, NEW e \in Nat
  PROVE  LET m == Moved(x, d, r, e)
         IN  /\ m \in Natives /\ Heap(m)
             /\ m.node = x.node /\ m.exec = x.exec /\ m.identity = x.identity
             /\ \A f \in Documents \ {d} : m.doc[f] = x.doc[f]
             /\ m.doc[d].revision = x.doc[d].revision + r /\ m.doc[d].epoch = x.doc[d].epoch + e
             /\ m.doc[d].alive = x.doc[d].alive /\ m.doc[d].callbacks = x.doc[d].callbacks
             /\ m.doc[d].pending = x.doc[d].pending
<1> DEFINE m == Moved(x, d, r, e)
           y == [x.doc[d] EXCEPT !.revision = @ + r, !.epoch = @ + e]
<1>1. x.doc[d] \in DocumentRecords /\ x.doc \in [Documents -> DocumentRecords]
  BY DEF Natives
<1>2. m = [x EXCEPT !.doc = [x.doc EXCEPT ![d] = y]]
  BY DEF Moved, Natives, DocumentRecords
<1>3. /\ y \in DocumentRecords
      /\ y.revision = x.doc[d].revision + r /\ y.epoch = x.doc[d].epoch + e
      /\ y.alive = x.doc[d].alive /\ y.callbacks = x.doc[d].callbacks
      /\ y.pending = x.doc[d].pending
  <2> DEFINE z == x.doc[d]
  <2>1. z \in DocumentRecords
    BY <1>1
  <2> HIDE DEF z
  <2>2. LET w == [z EXCEPT !.revision = @ + r, !.epoch = @ + e]
        IN  /\ w \in DocumentRecords
            /\ w.revision = z.revision + r /\ w.epoch = z.epoch + e
            /\ w.alive = z.alive /\ w.callbacks = z.callbacks /\ w.pending = z.pending
    <3> DEFINE u == z.revision + r
               v == z.epoch + e
    <3>1. u \in Nat /\ v \in Nat
      BY <2>1 DEF DocumentRecords
    <3> HIDE DEF u, v
    <3>2. LET w == [z EXCEPT !.revision = u, !.epoch = v]
          IN  /\ w \in DocumentRecords
              /\ w.revision = u /\ w.epoch = v
              /\ w.alive = z.alive /\ w.callbacks = z.callbacks /\ w.pending = z.pending
      BY <2>1, <3>1 DEF DocumentRecords
    <3> QED BY <3>2 DEF u, v
  <2> QED BY <2>2 DEF z
<1> HIDE DEF m, y
<1>4. /\ m.node = x.node /\ m.exec = x.exec /\ m.identity = x.identity
      /\ m.doc = [x.doc EXCEPT ![d] = y]
      /\ m \in [node : [Addresses -> NodeRecords], doc : {m.doc},
                exec : [Executions -> ExecRecords], identity : Nat]
  BY <1>2 DEF Natives
<1>5. m.doc \in [Documents -> DocumentRecords]
  BY <1>1, <1>3, <1>4
<1>6. m \in Natives
  BY <1>4, <1>5 DEF Natives
<1>7. /\ \A f \in Documents \ {d} : m.doc[f] = x.doc[f]
      /\ m.doc[d] = y
  BY <1>1, <1>4
<1>8. \A f \in Documents : m.doc[f].alive = x.doc[f].alive /\ m.doc[f].pending = x.doc[f].pending
  BY <1>3, <1>7
<1>9. Heap(m)
  BY <1>4, <1>6, <1>8, HeapFrame
<1> QED BY <1>3, <1>4, <1>6, <1>7, <1>9 DEF m

\* What every native edit of d gives: it stays sound, and no document comes, goes or waits.
Edited(n, m, d) ==
  /\ m \in Natives /\ Heap(m) /\ Evolves(n, m, d)
  /\ \A f \in Documents : /\ m.doc[f].alive = n.doc[f].alive
                          /\ m.doc[f].callbacks = n.doc[f].callbacks
                          /\ m.doc[f].pending = n.doc[f].pending

\* y is n with new nodes of d, below `parent' or below one another.
Grown(n, y, d, parent) ==
  /\ y \in Natives /\ Heap(y)
  /\ y.doc = n.doc /\ y.exec = n.exec /\ n.identity <= y.identity
  /\ \A a \in Addresses :
       \/ y.node[a] = n.node[a]
       \/ /\ n.node[a].document = NULL /\ y.node[a].document = d
          /\ n.identity < y.node[a].identity
          /\ y.node[a].parent = parent \/ n.node[y.node[a].parent].document = NULL

LEMMA GrownSelf == ASSUME NEW n \in Natives, Heap(n), NEW d PROVE Grown(n, n, d, NULL)
<1>1. n.identity <= n.identity
  BY DEF Natives
<1> QED BY <1>1 DEF Grown

LEMMA GrownChain ==
  ASSUME NEW n \in Natives, Heap(n), NEW d \in Documents, n.doc[d].alive,
         NEW parent \in Addresses \cup {NULL}, parent # NULL => n.node[parent].document = d,
         NEW k \in Nat, NEW at \in Chains(n, k)
  PROVE  LET y == Allocate(n, d, parent, at)
         IN  /\ Grown(n, y, d, parent)
             /\ \A i \in 1 .. Len(at) : /\ at[i] \in Addresses /\ y.node[at[i]].document = d
                                        /\ n.node[at[i]].document = NULL
<1> DEFINE y == Allocate(n, d, parent, at)
<1>1. /\ y \in Natives /\ Heap(y)
      /\ y.doc = n.doc /\ y.exec = n.exec /\ y.identity = n.identity + Len(at)
      /\ \A a \in Addresses :
           \/ y.node[a] = n.node[a]
           \/ /\ n.node[a].document = NULL /\ y.node[a].document = d
              /\ n.identity < y.node[a].identity
              /\ y.node[a].parent = parent \/ n.node[y.node[a].parent].document = NULL
      /\ \A i \in 1 .. Len(at) : /\ at[i] \in Addresses /\ y.node[at[i]].document = d
                                 /\ n.node[at[i]].document = NULL
  BY AllocateSound
<1> HIDE DEF y
<1>2. n.identity \in Nat /\ Len(at) \in Nat
  BY ChainFacts DEF Natives
<1>3. n.identity <= y.identity
  BY <1>1, <1>2
<1> QED BY <1>1, <1>3 DEF Grown, y

\* Nodes are added, then others removed, with everything below them.
LEMMA EditSound ==
  ASSUME NEW n \in Natives, Heap(n), NEW d \in Documents,
         NEW parent, parent \in Addresses => n.node[parent].document = d,
         NEW y, Grown(n, y, d, parent),
         NEW S \in SUBSET NodesOf(n, d), parent \notin S,
         \A b \in Addresses : n.node[b].parent \in S => b \in S,
         NEW r \in Nat, NEW e \in Nat, r = 0 => S = {} /\ y = n, e = 0 => S = {}
  PROVE  LET m == Moved(Release(y, S), d, r, e)
         IN  /\ Edited(n, m, d) /\ m.exec = n.exec
             /\ m.doc[d].revision = n.doc[d].revision + r /\ m.doc[d].epoch = n.doc[d].epoch + e
             /\ \A a \in Addresses : y.node[a].document = d /\ a \notin S => Same(y, m, a)
<1> DEFINE x == Release(y, S)
           m == Moved(x, d, r, e)
<1>1. /\ y \in Natives /\ Heap(y)
      /\ y.doc = n.doc /\ y.exec = n.exec /\ n.identity <= y.identity
      /\ \A a \in Addresses :
           \/ y.node[a] = n.node[a]
           \/ /\ n.node[a].document = NULL /\ y.node[a].document = d
              /\ n.identity < y.node[a].identity
              /\ y.node[a].parent = parent \/ n.node[y.node[a].parent].document = NULL
  BY DEF Grown
<1>3. \A a \in S : a \in Addresses /\ n.node[a].document = d /\ d # NULL
  BY NullApart DEF NodesOf
<1>4. \A b \in Addresses : y.node[b].parent \in S => b \in S
  BY <1>1, <1>3
<1>5. S \in SUBSET Addresses
  BY <1>3
<1>6. /\ x \in Natives /\ Heap(x)
      /\ x.doc = n.doc /\ x.exec = n.exec /\ x.identity = y.identity
      /\ \A a \in Addresses : x.node[a] = IF a \in S THEN NoNode ELSE y.node[a]
  BY <1>1, <1>4, <1>5, ReleaseSound
<1> HIDE DEF x
<1>7. /\ m \in Natives /\ Heap(m)
      /\ m.node = x.node /\ m.exec = n.exec /\ m.identity = y.identity
      /\ \A f \in Documents \ {d} : m.doc[f] = n.doc[f]
      /\ m.doc[d].revision = n.doc[d].revision + r /\ m.doc[d].epoch = n.doc[d].epoch + e
      /\ m.doc[d].alive = n.doc[d].alive /\ m.doc[d].callbacks = n.doc[d].callbacks
      /\ m.doc[d].pending = n.doc[d].pending
  <2>1. /\ m \in Natives /\ Heap(m)
        /\ m.node = x.node /\ m.exec = x.exec /\ m.identity = x.identity
        /\ \A f \in Documents \ {d} : m.doc[f] = x.doc[f]
        /\ m.doc[d].revision = x.doc[d].revision + r /\ m.doc[d].epoch = x.doc[d].epoch + e
        /\ m.doc[d].alive = x.doc[d].alive /\ m.doc[d].callbacks = x.doc[d].callbacks
        /\ m.doc[d].pending = x.doc[d].pending
    <3>1. x \in Natives /\ Heap(x)
      BY <1>6
    <3> HIDE <1>6
    <3> QED BY <3>1, MoveSound
  <2> HIDE DEF m
  <2> QED BY <1>6, <2>1
<1> HIDE DEF m
<1>8. n.identity <= m.identity
  BY <1>1, <1>7
<1>10. ASSUME NEW a \in Addresses
       PROVE  \/ Same(n, m, a)
              \/ n.node[a].document = d /\ m.node[a].document = NULL /\ r # 0 /\ e # 0
              \/ /\ n.node[a].document = NULL /\ m.node[a].document = d /\ r # 0
                 /\ n.identity < m.node[a].identity
  <2>1. CASE a \in S
    <3>1. m.node[a] = NoNode /\ r # 0 /\ e # 0
      BY <1>6, <1>7, <2>1
    <3> QED BY <1>3, <2>1, <3>1 DEF NoNode
  <2>2. CASE a \notin S
    <3>1. m.node[a] = y.node[a]
      BY <1>6, <1>7, <2>2
    <3> QED BY <1>1, <3>1 DEF Same
  <2> QED BY <2>1, <2>2
<1>11. Evolves(n, m, d)
  BY <1>7, <1>8, <1>10, EditEvolves
<1>12. \A f \in Documents : /\ m.doc[f].alive = n.doc[f].alive
                            /\ m.doc[f].callbacks = n.doc[f].callbacks
                            /\ m.doc[f].pending = n.doc[f].pending
  BY <1>7
<1>13. Edited(n, m, d)
  BY <1>7, <1>11, <1>12 DEF Edited
<1>14. ASSUME NEW a \in Addresses, a \notin S PROVE Same(y, m, a)
  <2>1. m.node[a] = y.node[a]
    BY <1>6, <1>7, <1>14
  <2> QED BY <2>1 DEF Same
<1> QED BY <1>7, <1>13, <1>14 DEF m, x

LEMMA Counting ==
  ASSUME NEW T \in SUBSET Addresses
  PROVE  Cardinality(T) \in Nat /\ (Cardinality(T) = 0 <=> T = {})
<1>1. IsFiniteSet(T)
  BY BindingBounds, FS_Subset
<1> QED BY <1>1, FS_EmptySet, FS_CardinalityType

LEMMA NoRelease == ASSUME NEW n \in Natives PROVE Release(n, {}) = n
<1>1. n.node = [a \in Addresses |-> n.node[a]]
  BY DEF Natives
<1>2. Release(n, {}) = [n EXCEPT !.node = n.node]
  BY <1>1 DEF Release
<1> QED BY <1>2 DEF Natives

LEMMA ExecSet ==
  ASSUME NEW x \in Natives, NEW q \in Executions, NEW z \in ExecRecords
  PROVE  LET m == [x EXCEPT !.exec[q] = z]
         IN  /\ m \in Natives
             /\ m.node = x.node /\ m.doc = x.doc /\ m.identity = x.identity
             /\ m.exec[q] = z /\ \A p \in Executions \ {q} : m.exec[p] = x.exec[p]
  BY DEF Natives

LEMMA DocSet ==
  ASSUME NEW x \in Natives, NEW d \in Documents, NEW z \in DocumentRecords
  PROVE  LET m == [x EXCEPT !.doc[d] = z]
         IN  /\ m \in Natives
             /\ m.node = x.node /\ m.exec = x.exec /\ m.identity = x.identity
             /\ m.doc[d] = z /\ \A f \in Documents \ {d} : m.doc[f] = x.doc[f]
  BY DEF Natives

\* What an execution that is spent, reset or the like leaves of a native state.
LEMMA ExecFrame ==
  ASSUME NEW n \in Natives, NEW x \in Natives, NEW d \in Documents, Edited(n, x, d),
         NEW m \in Natives, m.node = x.node, m.doc = x.doc, m.identity = x.identity
  PROVE  Edited(n, m, d)
<1>1. Heap(m)
  BY HeapFrame DEF Edited
<1>2. Evolves(n, m, d)
  BY DEF Edited, Evolves, Elsewhere, Newer, Noted, Same
<1> QED BY <1>1, <1>2 DEF Edited

LEMMA SpentSound ==
  ASSUME NEW n \in Natives, NEW x \in Natives, NEW d \in Documents, Edited(n, x, d),
         NEW q \in Executions
  PROVE  LET m == Spent(x, q)
         IN  /\ Edited(n, m, d) /\ m.node = x.node /\ m.doc = x.doc
             /\ m.exec[q].results = {} /\ m.exec[q].owner = x.exec[q].owner
             /\ m.exec[q].revision = x.exec[q].revision /\ m.exec[q].phase = x.exec[q].phase
             /\ m.exec[q].busy = x.exec[q].busy /\ m.exec[q].windows = x.exec[q].windows
             /\ \A p \in Executions \ {q} : m.exec[p] = x.exec[p]
<1> DEFINE z == [x.exec[q] EXCEPT !.results = {}, !.pulled = TRUE]
           m == Spent(x, q)
<1>1. x.exec[q] \in ExecRecords
  BY DEF Natives
<1>2. /\ z \in ExecRecords /\ z.results = {} /\ z.owner = x.exec[q].owner
      /\ z.revision = x.exec[q].revision /\ z.phase = x.exec[q].phase
      /\ z.busy = x.exec[q].busy /\ z.windows = x.exec[q].windows
  BY <1>1 DEF ExecRecords
<1>3. m = [x EXCEPT !.exec[q] = z]
  BY DEF Spent, Natives, ExecRecords
<1> HIDE DEF z, m
<1>4. /\ m \in Natives
      /\ m.node = x.node /\ m.doc = x.doc /\ m.identity = x.identity
      /\ m.exec[q] = z /\ \A p \in Executions \ {q} : m.exec[p] = x.exec[p]
  BY <1>2, <1>3, ExecSet
<1>5. Edited(n, m, d)
  BY <1>4, ExecFrame
<1> QED BY <1>2, <1>4, <1>5 DEF m

LEMMA SetValueSound ==
  ASSUME NEW n \in Natives, Heap(n), NEW d \in Documents, NEW a \in NodesOf(n, d),
         NEW at \in Chains(n, 1)
  PROVE  LET m == NSetValue(n, a, at)
         IN  /\ Edited(n, m, d) /\ m.exec = n.exec
             /\ m.doc[d].revision = n.doc[d].revision + 1
             /\ \A b \in NodesOf(n, d) : (b \in Subtree(n, a) /\ b # a) \/ Same(n, m, b)
<1> DEFINE old == Subtree(n, a) \ {a}
           y == Allocate(n, d, a, at)
           e == IF old = {} THEN 0 ELSE 1
           m == Moved(Release(y, old), d, 1, e)
<1>1. a \in Addresses /\ n.node[a].document = d /\ d # NULL /\ Placed(n, a) /\ n.doc[d].alive
  BY NullApart DEF NodesOf, Heap, Placed
<1>2. NSetValue(n, a, at) = m
  BY <1>1 DEF NSetValue
<1>3. Grown(n, y, d, a)
  BY <1>1, GrownChain
<1>4. old \in SUBSET NodesOf(n, d) /\ a \notin old
  BY <1>1 DEF Subtree
<1>5. \A b \in Addresses : n.node[b].parent \in old => b \in old
  BY <1>1, SubtreeClosed
<1>6. e \in Nat /\ (e = 0 => old = {})
  OBVIOUS
<1>7. ASSUME NEW b \in NodesOf(n, d) PROVE y.node[b] = n.node[b] /\ b \in Addresses
  BY <1>1, <1>3 DEF NodesOf, Grown
<1> HIDE DEF y, e, old
<1>8. /\ Edited(n, m, d) /\ m.exec = n.exec
      /\ m.doc[d].revision = n.doc[d].revision + 1
      /\ \A b \in Addresses : y.node[b].document = d /\ b \notin old => Same(y, m, b)
  <2> DEFINE r == 1
             k == Moved(Release(y, old), d, r, e)
  <2>1. /\ r \in Nat /\ (r = 0 => old = {} /\ y = n) /\ k = m
        /\ a \in Addresses => n.node[a].document = d
        /\ a \notin old /\ old \in SUBSET NodesOf(n, d)
    BY <1>1, <1>4
  <2>2. r = 1
    OBVIOUS
  <2> HIDE DEF r, m
  <2>3. /\ Edited(n, k, d) /\ k.exec = n.exec
        /\ k.doc[d].revision = n.doc[d].revision + r
        /\ \A b \in Addresses : y.node[b].document = d /\ b \notin old => Same(y, k, b)
    BY <1>3, <1>5, <1>6, <2>1, EditSound
  <2> QED BY <2>1, <2>2, <2>3
<1> HIDE DEF m
<1>9. ASSUME NEW b \in NodesOf(n, d), b \notin old PROVE Same(n, m, b)
  <2>1. y.node[b] = n.node[b] /\ b \in Addresses /\ n.node[b].document = d
    BY <1>7 DEF NodesOf
  <2>2. Same(y, m, b)
    BY <1>8, <1>9, <2>1
  <2> QED BY <2>1, <2>2 DEF Same
<1> QED BY <1>2, <1>8, <1>9 DEF old

LEMMA InsertSound ==
  ASSUME NEW n \in Natives, Heap(n), NEW d \in Documents, n.doc[d].alive,
         NEW parent \in Addresses \cup {NULL}, parent # NULL => n.node[parent].document = d,
         NEW k \in Nat, NEW at \in Chains(n, k)
  PROVE  LET m == NInsert(n, d, parent, at)
         IN  /\ Edited(n, m, d) /\ m.exec = n.exec
             /\ m.doc[d].revision = n.doc[d].revision + 1 /\ m.doc[d].epoch = n.doc[d].epoch
             /\ \A i \in 1 .. Len(at) : at[i] \in Addresses /\ m.node[at[i]].document = d
             /\ \A b \in NodesOf(n, d) : Same(n, m, b)
<1> DEFINE y == Allocate(n, d, parent, at)
           m == Moved(Release(y, {}), d, 1, 0)
<1>1. /\ Grown(n, y, d, parent)
      /\ \A i \in 1 .. Len(at) : at[i] \in Addresses /\ y.node[at[i]].document = d
  BY GrownChain
<1>2. y \in Natives
  BY <1>1 DEF Grown
<1>3. NInsert(n, d, parent, at) = m
  BY <1>2, NoRelease DEF NInsert
<1> HIDE DEF y
<1>4. /\ Edited(n, m, d) /\ m.exec = n.exec
      /\ m.doc[d].revision = n.doc[d].revision + 1 /\ m.doc[d].epoch = n.doc[d].epoch + 0
      /\ \A b \in Addresses : y.node[b].document = d /\ b \notin {} => Same(y, m, b)
  <2>1. /\ {} \in SUBSET NodesOf(n, d) /\ parent \notin {}
        /\ \A b \in Addresses : n.node[b].parent \in {} => b \in {}
        /\ parent \in Addresses => n.node[parent].document = d
    BY NullApart
  <2> QED BY <1>1, <2>1, EditSound
<1> HIDE DEF m
<1>5. n.doc[d].epoch + 0 = n.doc[d].epoch
  BY DEF Natives, DocumentRecords
<1>6. ASSUME NEW b \in NodesOf(n, d) PROVE Same(n, m, b)
  <2>1. y.node[b] = n.node[b] /\ b \in Addresses /\ n.node[b].document = d
    BY <1>1, NullApart DEF NodesOf, Grown
  <2> QED BY <1>4, <2>1 DEF Same
<1>7. \A i \in 1 .. Len(at) : at[i] \in Addresses /\ m.node[at[i]].document = d
  BY <1>1, <1>4 DEF Same
<1> QED BY <1>3, <1>4, <1>5, <1>6, <1>7

\* Removing nodes of d with everything below them.
LEMMA RemoveSound ==
  ASSUME NEW n \in Natives, Heap(n), NEW d \in Documents, NEW S \in SUBSET NodesOf(n, d),
         \A b \in Addresses : n.node[b].parent \in S => b \in S,
         NEW r \in Nat, NEW e \in Nat, r = 0 => S = {}, e = 0 => S = {}
  PROVE  LET m == Moved(Release(n, S), d, r, e)
         IN  /\ Edited(n, m, d) /\ m.exec = n.exec
             /\ m.doc[d].revision = n.doc[d].revision + r /\ m.doc[d].epoch = n.doc[d].epoch + e
             /\ \A b \in NodesOf(n, d) \ S : Same(n, m, b)
             /\ \A b \in Addresses : m.node[b] = IF b \in S THEN NoNode ELSE n.node[b]
<1> DEFINE m == Moved(Release(n, S), d, r, e)
<1>1. Grown(n, n, d, NULL)
  BY GrownSelf
<1>2. NULL \notin S /\ (NULL \in Addresses => n.node[NULL].document = d)
  BY NullApart DEF NodesOf
<1>3. r = 0 => S = {} /\ n = n
  OBVIOUS
<1>4. /\ Edited(n, m, d) /\ m.exec = n.exec
      /\ m.doc[d].revision = n.doc[d].revision + r /\ m.doc[d].epoch = n.doc[d].epoch + e
      /\ \A a \in Addresses : n.node[a].document = d /\ a \notin S => Same(n, m, a)
  BY <1>1, <1>2, <1>3, EditSound
<1>5. \A b \in NodesOf(n, d) \ S : Same(n, m, b)
  BY <1>4 DEF NodesOf
<1>6. S \in SUBSET Addresses
  BY DEF NodesOf
<1>7. /\ Release(n, S) \in Natives /\ Heap(Release(n, S))
      /\ \A b \in Addresses : Release(n, S).node[b] = IF b \in S THEN NoNode ELSE n.node[b]
  BY <1>6, ReleaseSound
<1>8. m.node = Release(n, S).node
  BY <1>7, MoveSound
<1> QED BY <1>4, <1>5, <1>7, <1>8

LEMMA ErasedSound ==
  ASSUME NEW n \in Natives, Heap(n), NEW d \in Documents, NEW a \in NodesOf(n, d)
  PROVE  LET m == Erased(n, a)
         IN  /\ Edited(n, m, d) /\ m.exec = n.exec
             /\ m.doc[d].revision = n.doc[d].revision + 1
             /\ \A b \in NodesOf(n, d) : b \in Subtree(n, a) \/ Same(n, m, b)
<1> DEFINE S == Subtree(n, a)
           m == Moved(Release(n, S), d, 1, 1)
<1>1. a \in Addresses /\ n.node[a].document = d
  BY DEF NodesOf
<1>2. Erased(n, a) = m
  BY <1>1 DEF Erased
<1>3. S \in SUBSET NodesOf(n, d)
  BY <1>1 DEF Subtree
<1>4. \A b \in Addresses : n.node[b].parent \in S => b \in S
  BY <1>1, SubtreeClosed
<1> HIDE DEF S
<1>5. /\ 1 \in Nat /\ (1 = 0 => S = {})
  OBVIOUS
<1>6. /\ Edited(n, m, d) /\ m.exec = n.exec
      /\ m.doc[d].revision = n.doc[d].revision + 1
      /\ \A b \in NodesOf(n, d) \ S : Same(n, m, b)
  BY <1>3, <1>4, <1>5, RemoveSound
<1> HIDE DEF m
<1> QED BY <1>2, <1>6 DEF S

\* An erasure that is put off marks the node.
\* A node that is marked, its erasure put off (tlv_node_erase in a callback).
ErasePending(n, d, a) == [n EXCEPT !.node[a].erase = TRUE, !.doc[d].pending = IF @ = 0 THEN 1 ELSE @]

LEMMA MarkSound ==
  ASSUME NEW n \in Natives, Heap(n), NEW d \in Documents, NEW a \in NodesOf(n, d)
  PROVE  LET m == ErasePending(n, d, a)
         IN  /\ m \in Natives /\ Heap(m) /\ Evolves(n, m, d) /\ m.exec = n.exec
             /\ \A f \in Documents : /\ m.doc[f].alive = n.doc[f].alive
                                     /\ m.doc[f].callbacks = n.doc[f].callbacks
                                     /\ m.doc[f].revision = n.doc[f].revision
                                     /\ m.doc[f].epoch = n.doc[f].epoch
                                     /\ m.doc[f].pending = 2 <=> n.doc[f].pending = 2
             /\ \A b \in Addresses : Same(n, m, b)
<1> DEFINE m == ErasePending(n, d, a)
           x == [n.node[a] EXCEPT !.erase = TRUE]
           p == IF n.doc[d].pending = 0 THEN 1 ELSE n.doc[d].pending
           z == [n.doc[d] EXCEPT !.pending = p]
<1>1. a \in Addresses /\ n.node[a].document = d /\ n.node[a] \in NodeRecords
  BY DEF NodesOf, Natives
<1>2. n.doc[d] \in DocumentRecords /\ p \in Nat /\ p # 0
  BY DEF Natives, DocumentRecords
<1>3. /\ x \in NodeRecords /\ x.document = n.node[a].document /\ x.parent = n.node[a].parent
      /\ x.identity = n.node[a].identity
  BY <1>1 DEF NodeRecords
<1> HIDE DEF p
<1>4. /\ z \in DocumentRecords /\ z.pending = p /\ z.alive = n.doc[d].alive
      /\ z.callbacks = n.doc[d].callbacks /\ z.revision = n.doc[d].revision
      /\ z.epoch = n.doc[d].epoch
  BY <1>2 DEF DocumentRecords
<1>5. m = [n EXCEPT !.node = [n.node EXCEPT ![a] = x], !.doc = [n.doc EXCEPT ![d] = z]]
  BY DEF Natives, p, ErasePending
<1> HIDE DEF m, x, z
<1>6. /\ m.node = [n.node EXCEPT ![a] = x] /\ m.doc = [n.doc EXCEPT ![d] = z]
      /\ m.exec = n.exec /\ m.identity = n.identity
      /\ m \in [node : {m.node}, doc : {m.doc}, exec : [Executions -> ExecRecords], identity : Nat]
  BY <1>5 DEF Natives
<1>7. m.node \in [Addresses -> NodeRecords] /\ m.doc \in [Documents -> DocumentRecords]
  BY <1>1, <1>3, <1>4, <1>6 DEF Natives
<1>8. m \in Natives
  BY <1>6, <1>7 DEF Natives
<1>9. /\ m.doc[d] = z /\ \A f \in Documents \ {d} : m.doc[f] = n.doc[f]
      /\ m.node[a] = x /\ \A b \in Addresses \ {a} : m.node[b] = n.node[b]
  BY <1>1, <1>6 DEF Natives
<1>10. \A b \in Addresses : Same(n, m, b) /\ m.node[b].parent = n.node[b].parent
  BY <1>3, <1>9 DEF Same
<1>11. \A f \in Documents : /\ m.doc[f].alive = n.doc[f].alive
                            /\ m.doc[f].callbacks = n.doc[f].callbacks
                            /\ m.doc[f].revision = n.doc[f].revision
                            /\ m.doc[f].epoch = n.doc[f].epoch
  BY <1>4, <1>9
<1>12. Evolves(n, m, d)
  <2>1. /\ n.identity \in Nat /\ n.doc[d].revision \in Nat /\ n.doc[d].epoch \in Nat
    BY <1>2 DEF Natives, DocumentRecords
  <2>2. /\ n.identity <= m.identity /\ n.doc[d].revision <= m.doc[d].revision
        /\ n.doc[d].epoch <= m.doc[d].epoch
    BY <1>6, <1>11, <2>1
  <2>3. Elsewhere(n, m, d)
    BY <1>10, <1>11 DEF Elsewhere
  <2>4. Newer(n, m, d)
    BY <1>10, <2>2 DEF Newer
  <2>5. Noted(n, m, d)
    BY <1>10, <2>2 DEF Noted
  <2> QED BY <2>3, <2>4, <2>5 DEF Evolves
<1>13. ASSUME NEW b \in Addresses PROVE Placed(m, b)
  <2>1. Placed(n, b) /\ n.node[b] \in NodeRecords
    BY DEF Heap, Natives
  <2>2. n.node[b].document # NULL => n.node[b].document \in Documents
    BY <2>1 DEF NodeRecords
  <2>3. n.node[b].parent # NULL => n.node[b].parent \in Addresses
    BY <2>1 DEF NodeRecords
  <2>4. /\ m.node[b].document = n.node[b].document /\ m.node[b].identity = n.node[b].identity
        /\ m.node[b].parent = n.node[b].parent
    BY <1>10 DEF Same
  <2>5. m.node[b].erase => m.doc[m.node[b].document].pending # 0
    <3>1. CASE b = a
      BY <1>1, <1>2, <1>4, <1>9, <2>4, <3>1
    <3>2. CASE b # a
      <4>1. m.node[b].erase => n.node[b].document # NULL /\ n.doc[n.node[b].document].pending # 0
        BY <1>9, <2>1, <3>2 DEF Placed
      <4>2. CASE n.node[b].document = d
        BY <1>2, <1>4, <1>9, <2>4, <4>2
      <4>3. CASE n.node[b].document # d
        BY <1>9, <2>2, <2>4, <4>1, <4>3
      <4> QED BY <4>2, <4>3
    <3> QED BY <3>1, <3>2
  <2>6. m.node[b].document = NULL => ~m.node[b].erase
    <3>1. CASE b = a
      BY <1>1, <2>4, <3>1, NullApart
    <3>2. CASE b # a
      BY <1>9, <2>1, <3>2 DEF Placed
    <3> QED BY <3>1, <3>2
  <2>7. m.node[b].parent # NULL => /\ m.node[m.node[b].parent].document = m.node[b].document
                                   /\ m.node[m.node[b].parent].identity < m.node[b].identity
    BY <1>10, <2>1, <2>3, <2>4 DEF Placed, Same
  <2>8. m.node[b].document # NULL => m.doc[m.node[b].document].alive
    BY <1>11, <2>1, <2>2, <2>4 DEF Placed
  <2>9. m.node[b].identity <= m.identity /\ (m.node[b].document = NULL => m.node[b].parent = NULL)
    BY <1>6, <2>1, <2>4 DEF Placed
  <2> QED BY <2>5, <2>6, <2>7, <2>8, <2>9 DEF Placed
<1>14. Heap(m)
  BY <1>13 DEF Heap
<1>15. \A f \in Documents : m.doc[f].pending = 2 <=> n.doc[f].pending = 2
  <2>1. p = 2 <=> n.doc[d].pending = 2
    BY DEF p
  <2> QED BY <1>4, <1>9, <2>1
<1> QED BY <1>6, <1>8, <1>10, <1>11, <1>12, <1>14, <1>15 DEF m

\* A document that is freed in a callback waits.
LEMMA WaitSound ==
  ASSUME NEW n \in Natives, Heap(n), NEW d \in Documents
  PROVE  LET m == [n EXCEPT !.doc[d].pending = 2]
         IN  /\ m \in Natives /\ Heap(m) /\ Shape(n, m) /\ m.exec = n.exec
             /\ m.doc[d].pending = 2 /\ \A f \in Documents \ {d} : m.doc[f] = n.doc[f]
<1> DEFINE m == [n EXCEPT !.doc[d].pending = 2]
           z == [n.doc[d] EXCEPT !.pending = 2]
<1>1. n.doc[d] \in DocumentRecords
  BY DEF Natives
<1>2. /\ z \in DocumentRecords /\ z.pending = 2 /\ z.alive = n.doc[d].alive
      /\ z.revision = n.doc[d].revision /\ z.epoch = n.doc[d].epoch
  BY <1>1 DEF DocumentRecords
<1>3. m = [n EXCEPT !.doc[d] = z]
  BY DEF Natives
<1> HIDE DEF m, z
<1>4. /\ m \in Natives /\ m.node = n.node /\ m.exec = n.exec /\ m.identity = n.identity
      /\ m.doc[d] = z /\ \A f \in Documents \ {d} : m.doc[f] = n.doc[f]
  BY <1>2, <1>3, DocSet
<1>5. Shape(n, m)
  BY <1>2, <1>4 DEF Shape
<1>6. ASSUME NEW b \in Addresses PROVE Placed(m, b)
  <2>1. Placed(n, b) /\ n.node[b] \in NodeRecords
    BY DEF Heap, Natives
  <2>2. n.node[b].document # NULL => n.node[b].document \in Documents
    BY <2>1 DEF NodeRecords
  <2>3. m.node[b].document # NULL => m.doc[m.node[b].document].alive
    BY <1>4, <1>5, <2>1, <2>2 DEF Placed, Shape
  <2>4. m.node[b].erase => m.doc[m.node[b].document].pending # 0
    <3>1. CASE n.node[b].document = d
      BY <1>2, <1>4, <3>1
    <3>2. CASE n.node[b].document # d
      BY <1>4, <2>1, <2>2, <3>2 DEF Placed
    <3> QED BY <3>1, <3>2
  <2> QED BY <1>4, <2>1, <2>3, <2>4 DEF Placed
<1> QED BY <1>2, <1>4, <1>5, <1>6 DEF Heap, m

\* tlv_document_free, when it happens: d is gone with its nodes.
LEMMA FreedSound ==
  ASSUME NEW n \in Natives, Heap(n), NEW d \in Documents
  PROVE  LET m == Freed(n, d)
         IN  /\ m \in Natives /\ Heap(m) /\ Evolves(n, m, d) /\ m.exec = n.exec
             /\ m.doc[d] = NoDocument /\ \A f \in Documents \ {d} : m.doc[f] = n.doc[f]
<1> DEFINE S == NodesOf(n, d)
           x == Release(n, S)
           m == Freed(n, d)
<1>1. S \in SUBSET Addresses /\ (\A b \in S : n.node[b].document = d) /\ d # NULL
  BY NullApart DEF NodesOf
<1>2. \A b \in Addresses : n.node[b].parent \in S => b \in S
  <2> TAKE b \in Addresses
  <2>1. n.node[b].parent \in S => n.node[b].parent # NULL
    BY <1>1, NullApart
  <2>2. n.node[b].parent # NULL => n.node[n.node[b].parent].document = n.node[b].document
    BY DEF Heap, Placed
  <2> QED BY <1>1, <2>1, <2>2 DEF NodesOf
<1>3. \A b \in Addresses : n.node[b].document = d => b \in S
  BY DEF NodesOf
<1> HIDE DEF S
<1>4. /\ x \in Natives /\ Heap(x)
      /\ x.doc = n.doc /\ x.exec = n.exec /\ x.identity = n.identity
      /\ \A b \in Addresses : x.node[b] = IF b \in S THEN NoNode ELSE n.node[b]
  BY <1>1, <1>2, ReleaseSound
<1>5. NoDocument \in DocumentRecords /\ ~NoDocument.alive
  BY DEF NoDocument, DocumentRecords
<1>6. m = [x EXCEPT !.doc[d] = NoDocument]
  BY DEF Freed, S
<1> HIDE DEF x, m
<1>7. /\ m \in Natives
      /\ m.node = x.node /\ m.exec = n.exec /\ m.identity = n.identity
      /\ m.doc[d] = NoDocument /\ \A f \in Documents \ {d} : m.doc[f] = n.doc[f]
  BY <1>4, <1>5, <1>6, DocSet
<1>8. \A b \in Addresses : m.node[b].document # d
  BY <1>1, <1>3, <1>4, <1>7 DEF NoNode
<1>9. ASSUME NEW b \in Addresses PROVE Placed(m, b)
  <2>1. Placed(x, b) /\ x.node[b] \in NodeRecords
    BY <1>4 DEF Heap, Natives
  <2>2. x.node[b].document # NULL => x.node[b].document \in Documents \ {d}
    BY <1>7, <1>8, <2>1 DEF NodeRecords
  <2> QED BY <1>4, <1>7, <2>1, <2>2 DEF Placed
<1>10. Heap(m)
  BY <1>9 DEF Heap
<1>11. \A b \in Addresses : \/ Same(n, m, b)
                            \/ n.node[b].document = d /\ m.node[b].document = NULL
  BY <1>1, <1>4, <1>7 DEF Same, NoNode
<1>12. n.identity <= m.identity
  BY <1>7 DEF Natives
<1>13. Evolves(n, m, d)
  BY <1>1, <1>5, <1>7, <1>11, <1>12 DEF Evolves, Elsewhere, Newer, Noted
<1> QED BY <1>7, <1>10, <1>13 DEF m

\* tlv_document_parse of a document that was not there.
LEMMA ParseSound ==
  ASSUME NEW n \in Natives, Heap(n), NEW d \in Documents, ~n.doc[d].alive,
         NEW k \in Nat, NEW at \in Chains(n, k)
  PROVE  LET m == NParse(n, d, at)
         IN  /\ m \in Natives /\ Heap(m) /\ Evolves(n, m, d) /\ m.exec = n.exec
             /\ m.doc[d].alive /\ m.doc[d].callbacks = 0 /\ m.doc[d].pending = 0
             /\ \A f \in Documents \ {d} : m.doc[f] = n.doc[f]
<1> DEFINE z == [NoDocument EXCEPT !.alive = TRUE]
           x == [n EXCEPT !.doc[d] = z]
           m == NParse(n, d, at)
<1>1. z \in DocumentRecords /\ z.alive /\ z.callbacks = 0 /\ z.pending = 0
  <2>1. NoDocument \in DocumentRecords /\ NoDocument.callbacks = 0 /\ NoDocument.pending = 0
    BY DEF NoDocument, DocumentRecords
  <2> QED BY <2>1 DEF DocumentRecords
<1>2. m = Allocate(x, d, NULL, at)
  BY DEF NParse
<1> HIDE DEF z
<1>3. /\ x \in Natives
      /\ x.node = n.node /\ x.exec = n.exec /\ x.identity = n.identity
      /\ x.doc[d] = z /\ \A f \in Documents \ {d} : x.doc[f] = n.doc[f]
  BY <1>1, DocSet
<1> HIDE DEF x, m
<1>4. \A b \in Addresses : n.node[b].document # d
  BY NullApart DEF Heap, Placed
<1>5. ASSUME NEW b \in Addresses PROVE Placed(x, b)
  <2>1. Placed(n, b) /\ n.node[b] \in NodeRecords
    BY DEF Heap, Natives
  <2>2. n.node[b].document # NULL => n.node[b].document \in Documents \ {d}
    BY <1>4, <2>1 DEF NodeRecords
  <2> QED BY <1>3, <2>1, <2>2 DEF Placed
<1>6. Heap(x)
  BY <1>5 DEF Heap
<1>7. Chains(x, k) = Chains(n, k)
  BY <1>3 DEF Chains, Vacant, Live
<1>8. /\ m \in Natives /\ Heap(m)
      /\ m.doc = x.doc /\ m.exec = x.exec /\ m.identity = x.identity + Len(at)
      /\ \A a \in Addresses :
           \/ m.node[a] = x.node[a]
           \/ /\ x.node[a].document = NULL /\ m.node[a].document = d
              /\ x.identity < m.node[a].identity
  BY <1>1, <1>2, <1>3, <1>6, <1>7, AllocateSound
<1>9. \A a \in Addresses : \/ Same(n, m, a)
                           \/ /\ n.node[a].document = NULL /\ m.node[a].document = d
                              /\ n.identity < m.node[a].identity
  BY <1>3, <1>8 DEF Same
<1>10. n.identity <= m.identity
  <2>1. n.identity \in Nat /\ Len(at) \in Nat
    BY ChainFacts DEF Natives
  <2> QED BY <1>3, <1>8, <2>1
<1>11. Evolves(n, m, d)
  BY <1>3, <1>8, <1>9, <1>10, NullApart DEF Evolves, Elsewhere, Newer, Noted
<1> QED BY <1>1, <1>3, <1>8, <1>11 DEF m

LEMMA NatMin ==
  ASSUME NEW T \in SUBSET Nat, T # {}
  PROVE  \E x \in T : \A y \in T : x <= y
<1>1. IsWellFoundedOn(OpToRel(<, Nat), Nat)
  BY NatLessThanWellFounded, Zenon
<1>2. \A x, y \in Nat : x < y => <<x, y>> \in OpToRel(<, Nat)
  BY DEF OpToRel
<1>3. \E R : IsWellFoundedOn(R, Nat) /\ \A x, y \in Nat : x < y => <<x, y>> \in R
  BY <1>1, <1>2, Zenon
<1>4. PICK R : IsWellFoundedOn(R, Nat) /\ \A x, y \in Nat : x < y => <<x, y>> \in R
  BY <1>3
<1>5. IsWellFoundedOn(R, Nat) /\ T \subseteq Nat
  BY <1>4
<1>6. \E x \in T : \A y \in T : ~(<<y, x>> \in R)
  <2> HIDE <1>4
  <2> QED BY <1>5, WFMin, Zenon
<1>7. PICK x \in T : \A y \in T : ~(<<y, x>> \in R)
  BY <1>6
<1>8. ASSUME NEW y \in T PROVE x <= y
  <2>1. x \in Nat /\ y \in Nat
    BY <1>5
  <2>2. ~(y < x)
    BY <1>4, <1>7, <2>1
  <2> QED BY <2>1, <2>2
<1> QED BY <1>8

\* Every node of T lies below a node of T with none of T above it.
LEMMA TopAbove ==
  ASSUME NEW n \in Natives, Heap(n), NEW d \in Documents, NEW D \in SUBSET NodesOf(n, d),
         NEW a \in D
  PROVE  a \in Under(n, Tops(n, D))
<1> DEFINE C == Above(n, a) \cap D
           T == {n.node[b].identity : b \in C}
<1>1. \A b \in D : b \in Addresses /\ n.node[b].document = d
  BY DEF NodesOf
<1>2. a \in C
  BY <1>1, AboveSelf
<1>3. \A b \in C : b \in Addresses /\ n.node[b].identity \in Nat
  BY <1>1 DEF Natives, NodeRecords
<1>4. T \in SUBSET Nat /\ T # {}
  BY <1>2, <1>3
<1> HIDE DEF T, C
<1>5. PICK x \in T : \A y \in T : x <= y
  BY <1>4, NatMin
<1>6. PICK t \in C : n.node[t].identity = x
  BY <1>5 DEF T
<1>7. ASSUME NEW c \in Above(n, t) \cap D PROVE c = t
  <2>1. c \in C
    BY <1>6, AboveTransitive DEF C
  <2>2. x <= n.node[c].identity
    BY <1>5, <2>1 DEF T
  <2>3. c = t \/ n.node[c].identity < n.node[t].identity
    BY <1>3, AboveOlder
  <2>4. n.node[c].identity \in Nat /\ n.node[t].identity \in Nat
    BY <1>3, <2>1
  <2> QED BY <1>6, <2>2, <2>3, <2>4
<1>8. t \in D /\ t \in Above(n, a) /\ t \in Above(n, t)
  BY <1>3, AboveSelf DEF C
<1>9. t \in Tops(n, D)
  BY <1>7, <1>8 DEF Tops
<1>10. a \in Subtree(n, t)
  BY <1>1, <1>8 DEF Subtree, NodesOf
<1> QED BY <1>9, <1>10 DEF Under

\* What lies under nodes of d, with or without these, is closed below.
LEMMA UnderClosed ==
  ASSUME NEW n \in Natives, Heap(n), NEW d \in Documents, NEW T \in SUBSET NodesOf(n, d)
  PROVE  /\ Under(n, T) \in SUBSET NodesOf(n, d) /\ Below(n, T) \in SUBSET NodesOf(n, d)
         /\ \A b \in Addresses : n.node[b].parent \in Under(n, T) => b \in Under(n, T)
         /\ \A b \in Addresses : n.node[b].parent \in Below(n, T) => b \in Below(n, T)
<1>1. \A a \in T : a \in Addresses /\ n.node[a].document = d
  BY DEF NodesOf
<1>2. \A a \in T : Subtree(n, a) \in SUBSET NodesOf(n, d)
  BY <1>1 DEF Subtree
<1>3. ASSUME NEW a \in T, NEW b \in Addresses, n.node[b].parent \in Subtree(n, a)
      PROVE  b \in Subtree(n, a) /\ b # a
  BY <1>1, <1>3, SubtreeClosed
<1>4. /\ Under(n, T) \in SUBSET NodesOf(n, d) /\ Below(n, T) \in SUBSET NodesOf(n, d)
  BY <1>2 DEF Under, Below
<1>5. \A b \in Addresses : n.node[b].parent \in Under(n, T) => b \in Under(n, T)
  BY <1>3 DEF Under
<1>6. \A b \in Addresses : n.node[b].parent \in Below(n, T) => b \in Below(n, T)
  BY <1>3 DEF Below
<1> QED BY <1>4, <1>5, <1>6

LEMMA ShapeThenEvolves ==
  ASSUME NEW n, NEW c, NEW m, NEW d \in Documents, Shape(n, c), Evolves(c, m, d)
  PROVE  Evolves(n, m, d)
<1>1. Elsewhere(n, m, d)
  BY DEF Shape, Evolves, Elsewhere, Same
<1>2. Newer(n, m, d)
  BY DEF Shape, Evolves, Newer, Same
<1>3. Noted(n, m, d)
  <2>1. Noted(c, m, d)
    BY DEF Evolves
  <2>2. /\ c.node = n.node /\ c.doc[d].alive = n.doc[d].alive
        /\ c.doc[d].revision = n.doc[d].revision /\ c.doc[d].epoch = n.doc[d].epoch
    BY DEF Shape
  <2> QED BY <2>1, <2>2, Zenon DEF Noted, Same
<1> QED BY <1>1, <1>2, <1>3 DEF Evolves

\* Entering and leaving a callback count in the document, and change nothing else.
LEMMA CallbackSound ==
  ASSUME NEW n \in Natives, Heap(n), NEW d \in Documents, NEW k \in Int
  PROVE  LET c == [n EXCEPT !.doc[d].callbacks = k]
         IN  /\ c \in Natives /\ Heap(c) /\ Shape(n, c) /\ c.exec = n.exec
             /\ c.doc[d].callbacks = k /\ c.doc[d].pending = n.doc[d].pending
             /\ \A f \in Documents \ {d} : c.doc[f] = n.doc[f]
<1> DEFINE z == [n.doc[d] EXCEPT !.callbacks = k]
           c == [n EXCEPT !.doc[d].callbacks = k]
<1>1. n.doc[d] \in DocumentRecords
  BY DEF Natives
<1>2. /\ z \in DocumentRecords /\ z.callbacks = k /\ z.pending = n.doc[d].pending
      /\ z.alive = n.doc[d].alive /\ z.revision = n.doc[d].revision /\ z.epoch = n.doc[d].epoch
  BY <1>1 DEF DocumentRecords
<1>3. c = [n EXCEPT !.doc[d] = z]
  BY DEF Natives
<1> HIDE DEF z, c
<1>4. /\ c \in Natives
      /\ c.node = n.node /\ c.exec = n.exec /\ c.identity = n.identity
      /\ c.doc[d] = z /\ \A f \in Documents \ {d} : c.doc[f] = n.doc[f]
  BY <1>2, <1>3, DocSet
<1>5. \A f \in Documents : /\ c.doc[f].alive = n.doc[f].alive /\ c.doc[f].pending = n.doc[f].pending
                           /\ c.doc[f].revision = n.doc[f].revision
                           /\ c.doc[f].epoch = n.doc[f].epoch
  BY <1>2, <1>4
<1>6. Heap(c)
  BY <1>4, <1>5, HeapFrame
<1>7. Shape(n, c)
  BY <1>4, <1>5 DEF Shape
<1> QED BY <1>2, <1>4, <1>6, <1>7 DEF c

\* The erasures that a callback put off happen: whatever is marked goes.
LEMMA PurgedSound ==
  ASSUME NEW n \in Natives, Heap(n), NEW d \in Documents
  PROVE  LET m == Purged(n, d)
         IN  /\ m \in Natives /\ Heap(m) /\ Evolves(n, m, d) /\ m.exec = n.exec
             /\ \A f \in Documents \ {d} : m.doc[f] = n.doc[f]
             /\ m.doc[d].alive = n.doc[d].alive /\ m.doc[d].pending = 0
             /\ m.doc[d].callbacks = n.doc[d].callbacks
             /\ n.doc[d].pending = 0 =>
                  /\ \A a \in Addresses : Same(n, m, a)
                  /\ m.doc[d].revision = n.doc[d].revision /\ m.doc[d].epoch = n.doc[d].epoch
<1> DEFINE D == {a \in NodesOf(n, d) : n.node[a].erase}
           T == Doomed(n, d)
           U == Under(n, T)
           t == Cardinality(T)
           w == Release(n, U)
           x == Moved(w, d, t, t)
           y == [x EXCEPT !.doc[d].pending = 0]
<1>1. Purged(n, d) = y
  BY DEF Purged
<1>2. T = Tops(n, D) /\ D \in SUBSET NodesOf(n, d)
  BY DEF Doomed
<1>3. T \in SUBSET NodesOf(n, d) /\ T \in SUBSET Addresses
  BY <1>2 DEF Tops, NodesOf
<1>4. t \in Nat /\ (t = 0 <=> T = {})
  BY <1>3, Counting
<1>5. U \in SUBSET NodesOf(n, d) /\ \A b \in Addresses : n.node[b].parent \in U => b \in U
  BY <1>3, UnderClosed
<1>6. T = {} => U = {}
  BY DEF Under
<1> HIDE DEF t, U, T
<1>7. /\ Edited(n, x, d) /\ x.exec = n.exec
      /\ x.doc[d].revision = n.doc[d].revision + t /\ x.doc[d].epoch = n.doc[d].epoch + t
      /\ \A b \in Addresses : x.node[b] = IF b \in U THEN NoNode ELSE n.node[b]
  <2>1. t = 0 => U = {}
    BY <1>4, <1>6
  <2> HIDE <1>4
  <2>2. t \in Nat
    BY <1>4
  <2> QED BY <1>5, <2>1, <2>2, RemoveSound
<1>8. \A f \in Documents \ {d} : x.doc[f] = n.doc[f]
  <2>1. U \in SUBSET Addresses
    BY <1>5 DEF NodesOf
  <2>2. w \in Natives /\ Heap(w) /\ w.doc = n.doc
    BY <1>5, <2>1, ReleaseSound
  <2> HIDE DEF w
  <2>3. \A f \in Documents \ {d} : Moved(w, d, t, t).doc[f] = w.doc[f]
    <3> HIDE <1>4
    <3>1. t \in Nat
      BY <1>4
    <3> QED BY <2>2, <3>1, MoveSound
  <2> QED BY <2>2, <2>3
<1> HIDE DEF x
<1>9. x \in Natives /\ Heap(x) /\ Evolves(n, x, d)
  BY <1>7 DEF Edited
<1> DEFINE z == [x.doc[d] EXCEPT !.pending = 0]
<1>10. x.doc[d] \in DocumentRecords
  BY <1>9 DEF Natives
<1>11. /\ z \in DocumentRecords /\ z.pending = 0 /\ z.alive = x.doc[d].alive
       /\ z.callbacks = x.doc[d].callbacks /\ z.revision = x.doc[d].revision
       /\ z.epoch = x.doc[d].epoch
  BY <1>10 DEF DocumentRecords
<1>12. y = [x EXCEPT !.doc[d] = z]
  BY <1>9 DEF Natives
<1> HIDE DEF y, z
<1>13. /\ y \in Natives
       /\ y.node = x.node /\ y.exec = x.exec /\ y.identity = x.identity
       /\ y.doc[d] = z /\ \A f \in Documents \ {d} : y.doc[f] = x.doc[f]
  BY <1>9, <1>11, <1>12, DocSet
<1>14. ASSUME NEW b \in Addresses PROVE Placed(y, b)
  <2>1. Placed(x, b) /\ x.node[b] \in NodeRecords
    BY <1>9 DEF Heap, Natives
  <2>2. x.node[b].document # NULL => x.node[b].document \in Documents
    BY <2>1 DEF NodeRecords
  <2>3. \A f \in Documents : y.doc[f].alive = x.doc[f].alive
    BY <1>11, <1>13
  <2>4. x.node[b].erase => x.node[b].document # d
    <3>1. SUFFICES ASSUME x.node[b].erase, x.node[b].document = d PROVE FALSE
      OBVIOUS
    <3>2. b \notin U
      BY <1>7, <3>1 DEF NoNode
    <3>3. x.node[b] = n.node[b]
      BY <1>7, <3>2
    <3>4. b \in D
      BY <3>1, <3>3 DEF NodesOf
    <3>5. b \in Under(n, T)
      BY <1>2, <3>4, TopAbove
    <3> QED BY <3>2, <3>5 DEF U
  <2> QED BY <1>13, <2>1, <2>2, <2>3, <2>4 DEF Placed
<1>15. Heap(y)
  BY <1>14 DEF Heap
<1>16. Evolves(n, y, d)
  <2>1. \A a : y.node[a] = x.node[a]
    BY <1>13
  <2>2. /\ y.identity = x.identity /\ y.doc[d].alive = x.doc[d].alive
        /\ y.doc[d].revision = x.doc[d].revision /\ y.doc[d].epoch = x.doc[d].epoch
    BY <1>11, <1>13
  <2>3. Elsewhere(n, y, d)
    BY <1>9, <1>13 DEF Evolves, Elsewhere, Same
  <2>4. Newer(n, y, d)
    BY <1>9, <1>13 DEF Evolves, Newer, Same
  <2>5. Noted(n, y, d)
    <3>1. Noted(n, x, d)
      BY <1>9 DEF Evolves
    <3> QED BY <2>1, <2>2, <3>1, Zenon DEF Noted, Same
  <2> QED BY <2>3, <2>4, <2>5 DEF Evolves
<1>17. /\ y.doc[d].alive = n.doc[d].alive /\ y.doc[d].callbacks = n.doc[d].callbacks
       /\ y.doc[d].pending = 0
  BY <1>7, <1>11, <1>13 DEF Edited
<1>18. \A f \in Documents \ {d} : y.doc[f] = n.doc[f]
  BY <1>8, <1>13
<1>19. ASSUME n.doc[d].pending = 0
       PROVE  /\ \A a \in Addresses : Same(n, y, a)
              /\ y.doc[d].revision = n.doc[d].revision /\ y.doc[d].epoch = n.doc[d].epoch
  <2>1. ASSUME NEW b \in D PROVE FALSE
    <3>1. b \in Addresses /\ n.node[b].erase /\ n.node[b].document = d
      BY <2>1 DEF NodesOf
    <3> QED BY <1>19, <3>1 DEF Heap, Placed
  <2>2. T = {}
    BY <1>2, <2>1 DEF Tops
  <2>3. t = 0 /\ U = {}
    BY <1>4, <1>6, <2>2
  <2>4. \A a \in Addresses : Same(n, y, a)
    BY <1>7, <1>13, <2>3 DEF Same
  <2>5. n.doc[d].revision \in Nat /\ n.doc[d].epoch \in Nat
    BY DEF Natives, DocumentRecords
  <2>6. y.doc[d].revision = n.doc[d].revision /\ y.doc[d].epoch = n.doc[d].epoch
    BY <1>7, <1>11, <1>13, <2>3, <2>5
  <2> QED BY <2>4, <2>6
<1> QED BY <1>1, <1>7, <1>13, <1>15, <1>16, <1>17, <1>18, <1>19

LEMMA DeferredSound ==
  ASSUME NEW n \in Natives, Heap(n), NEW d \in Documents
  PROVE  LET m == Deferred(n, d)
         IN  /\ m \in Natives /\ Heap(m) /\ Evolves(n, m, d) /\ m.exec = n.exec
             /\ \A f \in Documents \ {d} : m.doc[f] = n.doc[f]
             /\ m.doc[d].alive => n.doc[d].alive
             /\ n.doc[d].pending # 2 => m.doc[d].alive = n.doc[d].alive
             /\ m.doc[d].pending = 2 => n.doc[d].pending = 2
             /\ n.doc[d].pending = 2 => (m.doc[d].alive <=> n.doc[d].alive /\ m.doc[d].pending = 2)
             /\ n.doc[d].pending = 0 =>
                  /\ \A a \in Addresses : Same(n, m, a)
                  /\ m.doc[d].revision = n.doc[d].revision /\ m.doc[d].epoch = n.doc[d].epoch
                  /\ m.doc[d].callbacks = n.doc[d].callbacks - 1 /\ m.doc[d].pending = 0
<1> DEFINE k == n.doc[d].callbacks - 1
           c == [n EXCEPT !.doc[d].callbacks = k]
           m == Deferred(n, d)
<1>1. k \in Int
  BY DEF Natives, DocumentRecords
<1>2. m = IF c.doc[d].callbacks > 0 THEN c
          ELSE IF c.doc[d].pending = 2 THEN Freed(c, d) ELSE Purged(c, d)
  BY DEF Deferred
<1>3. /\ c \in Natives /\ Heap(c) /\ Shape(n, c) /\ c.exec = n.exec
      /\ c.doc[d].callbacks = k /\ c.doc[d].pending = n.doc[d].pending
      /\ \A f \in Documents \ {d} : c.doc[f] = n.doc[f]
  <2> HIDE DEF k
  <2> QED BY <1>1, CallbackSound
<1> HIDE DEF c, m
<1>4. /\ c.doc[d].alive = n.doc[d].alive /\ c.doc[d].revision = n.doc[d].revision
      /\ c.doc[d].epoch = n.doc[d].epoch /\ c.node = n.node
  BY <1>3 DEF Shape
<1>5. CASE k > 0
  <2>1. m = c
    BY <1>2, <1>3, <1>5
  <2>2. Evolves(n, c, d)
    BY <1>3, ShapeEvolves
  <2>3. \A a : Same(n, c, a)
    BY <1>4 DEF Same
  <2> QED BY <1>3, <1>4, <2>1, <2>2, <2>3 DEF m
<1>6. CASE ~(k > 0) /\ n.doc[d].pending = 2
  <2>1. m = Freed(c, d)
    BY <1>2, <1>3, <1>6
  <2>2. /\ m \in Natives /\ Heap(m) /\ Evolves(c, m, d) /\ m.exec = c.exec
        /\ m.doc[d] = NoDocument /\ \A f \in Documents \ {d} : m.doc[f] = c.doc[f]
    BY <1>3, <2>1, FreedSound
  <2>3. Evolves(n, m, d)
    BY <1>3, <2>2, ShapeThenEvolves
  <2> QED BY <1>3, <1>6, <2>2, <2>3 DEF m, NoDocument
<1>7. CASE ~(k > 0) /\ n.doc[d].pending # 2
  <2>1. m = Purged(c, d)
    BY <1>2, <1>3, <1>7
  <2>2. /\ m \in Natives /\ Heap(m) /\ Evolves(c, m, d) /\ m.exec = c.exec
        /\ \A f \in Documents \ {d} : m.doc[f] = c.doc[f]
        /\ m.doc[d].alive = c.doc[d].alive /\ m.doc[d].pending = 0
        /\ m.doc[d].callbacks = c.doc[d].callbacks
        /\ c.doc[d].pending = 0 =>
             /\ \A a \in Addresses : Same(c, m, a)
             /\ m.doc[d].revision = c.doc[d].revision /\ m.doc[d].epoch = c.doc[d].epoch
    BY <1>3, <2>1, PurgedSound
  <2>3. Evolves(n, m, d)
    BY <1>3, <2>2, ShapeThenEvolves
  <2>4. \A a : Same(c, m, a) => Same(n, m, a)
    BY <1>4 DEF Same
  <2> QED BY <1>3, <1>4, <1>7, <2>2, <2>3, <2>4 DEF m
<1> QED BY <1>5, <1>6, <1>7

\* tlv_document_query_edit, whatever it does: it notes every target it changed.
LEMMA EditsSound ==
  ASSUME NEW n \in Natives, Heap(n), NEW d \in Documents, n.doc[d].alive, NEW q \in Executions,
         n.exec[q].results \subseteq NodesOf(n, d), NEW r \in NEdits(n, q, d)
  PROVE  LET m == r.native
         IN  /\ Edited(n, m, d) /\ r.applied \in Nat
             /\ m.doc[d].revision = n.doc[d].revision + r.applied
             /\ m.exec[q].results = {} /\ m.exec[q].owner = n.exec[q].owner
             /\ m.exec[q].revision = n.exec[q].revision /\ m.exec[q].phase = n.exec[q].phase
             /\ m.exec[q].busy = n.exec[q].busy /\ m.exec[q].windows = n.exec[q].windows
             /\ \A p \in Executions \ {q} : m.exec[p] = n.exec[p]
<1> DEFINE Good(m, k) ==
             /\ Edited(n, m, d) /\ k \in Nat
             /\ m.doc[d].revision = n.doc[d].revision + k
             /\ m.exec[q].results = {} /\ m.exec[q].owner = n.exec[q].owner
             /\ m.exec[q].revision = n.exec[q].revision /\ m.exec[q].phase = n.exec[q].phase
             /\ m.exec[q].busy = n.exec[q].busy /\ m.exec[q].windows = n.exec[q].windows
             /\ \A p \in Executions \ {q} : m.exec[p] = n.exec[p]
<1>1. ASSUME NEW x, NEW k \in Nat, Edited(n, x, d), x.exec = n.exec,
             x.doc[d].revision = n.doc[d].revision + k
      PROVE  Good(Spent(x, q), k)
  <2>1. x \in Natives
    BY <1>1 DEF Edited
  <2> DEFINE m == Spent(x, q)
  <2>2. /\ Edited(n, m, d) /\ m.node = x.node /\ m.doc = x.doc
        /\ m.exec[q].results = {} /\ m.exec[q].owner = x.exec[q].owner
        /\ m.exec[q].revision = x.exec[q].revision /\ m.exec[q].phase = x.exec[q].phase
        /\ m.exec[q].busy = x.exec[q].busy /\ m.exec[q].windows = x.exec[q].windows
        /\ \A p \in Executions \ {q} : m.exec[p] = x.exec[p]
    BY <1>1, <2>1, SpentSound
  <2> HIDE DEF m
  <2>3. Good(m, k)
    BY <1>1, <2>2
  <2> QED BY <2>3 DEF m
<1>2. /\ n.exec[q].results \in SUBSET NodesOf(n, d) /\ NodesOf(n, d) \in SUBSET Addresses
      /\ Dominant(n, q) \in SUBSET NodesOf(n, d)
      /\ \A a \in NodesOf(n, d) : a \in Addresses /\ n.node[a].document = d
  BY DEF NodesOf, Dominant, Tops
<1>5. ASSUME NEW T \in SUBSET NodesOf(n, d), NEW U \in SUBSET NodesOf(n, d), NEW k \in Nat,
             \A b \in Addresses : n.node[b].parent \in U => b \in U,
             T = {} => U = {}, k = 0 => U = {}
      PROVE  Good(Spent(Moved(Release(n, U), d, Cardinality(T), k), q), Cardinality(T))
  <2> DEFINE t == Cardinality(T)
  <2>1. T \in SUBSET Addresses
    BY <1>2
  <2>2. t \in Nat /\ (t = 0 => U = {})
    BY <1>5, <2>1, Counting
  <2> HIDE DEF t
  <2> DEFINE x == Moved(Release(n, U), d, t, k)
  <2>3. Edited(n, x, d) /\ x.exec = n.exec /\ x.doc[d].revision = n.doc[d].revision + t
    BY <1>5, <2>2, RemoveSound
  <2> HIDE DEF x, Good
  <2>4. Good(Spent(x, q), t)
    BY <1>1, <2>2, <2>3
  <2> QED BY <2>4 DEF x, t
<1> HIDE DEF Good
<1>6. CASE r = [native |-> NRemoved(n, q, d), applied |-> Cardinality(Dominant(n, q))]
  <2> DEFINE T == Dominant(n, q)
             U == Under(n, T)
  <2>1. T \in SUBSET Addresses /\ T \in SUBSET NodesOf(n, d)
    BY <1>2
  <2>2. U \in SUBSET NodesOf(n, d) /\ \A b \in Addresses : n.node[b].parent \in U => b \in U
    BY <2>1, UnderClosed
  <2>3. T = {} => U = {}
    BY DEF Under
  <2>5. Cardinality(T) \in Nat /\ (Cardinality(T) = 0 => U = {})
    BY <2>1, <2>3, Counting
  <2>6. NRemoved(n, q, d) = Spent(Moved(Release(n, U), d, Cardinality(T), Cardinality(T)), q)
    BY DEF NRemoved
  <2> HIDE DEF T, U
  <2>7. Good(NRemoved(n, q, d), Cardinality(T))
    BY <1>5, <2>1, <2>2, <2>3, <2>5, <2>6
  <2>8. Good(r.native, r.applied)
    BY <1>6, <2>7 DEF T
  <2> QED BY <2>8 DEF Good
<1>7. ASSUME NEW T \in SUBSET Dominant(n, q),
             r = [native |-> NReplaced(n, q, d, T), applied |-> Cardinality(T)]
      PROVE  Good(r.native, r.applied)
  <2> DEFINE U == Below(n, T)
             W == {a \in T : Subtree(n, a) # {a}}
  <2>1. T \in SUBSET NodesOf(n, d) /\ W \in SUBSET Addresses
    BY <1>2
  <2>2. U \in SUBSET NodesOf(n, d) /\ \A b \in Addresses : n.node[b].parent \in U => b \in U
    BY <2>1, UnderClosed
  <2>4. (T = {} => U = {}) /\ (W = {} => U = {})
    BY DEF Below
  <2>5. Cardinality(W) \in Nat /\ (Cardinality(W) = 0 => U = {})
    BY <2>1, <2>4, Counting
  <2>6. NReplaced(n, q, d, T) = Spent(Moved(Release(n, U), d, Cardinality(T), Cardinality(W)), q)
    BY DEF NReplaced
  <2> HIDE DEF U, W
  <2>7. Good(NReplaced(n, q, d, T), Cardinality(T))
    BY <1>5, <2>1, <2>2, <2>4, <2>5, <2>6
  <2> QED BY <1>7, <2>7
<1>8. ASSUME NEW a \in n.exec[q].results, NEW at \in Chains(n, 1),
             r = [native |-> NInserted(n, q, d, a, at), applied |-> 1]
      PROVE  Good(r.native, r.applied)
  <2> DEFINE p == n.node[a].parent
             x == NInsert(n, d, p, at)
  <2>1. a \in Addresses /\ n.node[a].document = d /\ n.node[a] \in NodeRecords
    BY <1>2 DEF Natives
  <2>2. p \in Addresses \cup {NULL} /\ (p # NULL => n.node[p].document = d)
    BY <2>1 DEF NodeRecords, Heap, Placed
  <2> HIDE DEF p
  <2>3. Edited(n, x, d) /\ x.exec = n.exec /\ x.doc[d].revision = n.doc[d].revision + 1
    BY <2>2, InsertSound
  <2> HIDE DEF x
  <2>4. Good(Spent(x, q), 1)
    BY <1>1, <2>3
  <2>5. NInserted(n, q, d, a, at) = Spent(x, q)
    BY DEF NInserted, x, p
  <2> QED BY <1>8, <2>4, <2>5
<1>9. Good(r.native, r.applied)
  <2>1. \/ r = [native |-> NRemoved(n, q, d), applied |-> Cardinality(Dominant(n, q))]
        \/ \E T \in SUBSET Dominant(n, q) :
             r = [native |-> NReplaced(n, q, d, T), applied |-> Cardinality(T)]
        \/ \E a \in n.exec[q].results, at \in Chains(n, 1) :
             r = [native |-> NInserted(n, q, d, a, at), applied |-> 1]
    BY DEF NEdits
  <2> QED BY <1>6, <1>7, <1>8, <2>1 DEF Good
<1> QED BY <1>9 DEF Good

-----------------------------------------------------------------------------
(* Executions. *)

\* An execution that has a document and is not running has been evaluated; as long as the
\* document is there and has not been edited since, its results are nodes of it.
Picked(n, q) ==
  LET e == n.exec[q]
  IN  e.owner # NULL =>
        /\ ~e.busy => e.phase \in {"finished", "invalid"}
        /\ n.doc[e.owner].alive => e.revision <= n.doc[e.owner].revision
        /\ /\ n.doc[e.owner].alive /\ e.phase = "finished"
           /\ e.revision = n.doc[e.owner].revision
           => e.results \subseteq NodesOf(n, e.owner)
Sound(n) == n \in Natives /\ Heap(n) /\ \A q \in Executions : Picked(n, q)

LEMMA PickedKeeps ==
  ASSUME NEW n \in Natives, NEW m \in Natives, NEW d \in Documents, Evolves(n, m, d),
         NEW q \in Executions, Picked(n, q),
         m.doc[d].alive => n.doc[d].alive \/ n.exec[q].owner # d,
         m.exec[q].owner = n.exec[q].owner, m.exec[q].revision = n.exec[q].revision,
         m.exec[q].phase = n.exec[q].phase, m.exec[q].busy = n.exec[q].busy,
         m.exec[q].results \subseteq n.exec[q].results
  PROVE  Picked(m, q)
<1> DEFINE o == n.exec[q].owner
           v == n.exec[q].revision
<1>1. SUFFICES ASSUME o # NULL, m.doc[o].alive
               PROVE  /\ v <= m.doc[o].revision
                      /\ n.exec[q].phase = "finished" /\ v = m.doc[o].revision
                         => n.exec[q].results \subseteq NodesOf(m, o)
  BY DEF Picked
<1>2. o \in Documents /\ v \in Nat
  BY <1>1 DEF Natives, ExecRecords
<1> HIDE DEF o, v
<1>3. /\ n.doc[o].revision \in Nat /\ m.doc[o].revision \in Nat
  BY <1>2 DEF Natives, DocumentRecords
<1>4. CASE o = d
  <2>1. n.doc[d].alive /\ m.doc[d].alive
    BY <1>1, <1>4 DEF o
  <2>2. /\ n.doc[d].revision <= m.doc[d].revision
        /\ \/ n.doc[d].revision < m.doc[d].revision
           \/ \A a \in Addresses : d \in {n.node[a].document, m.node[a].document} => Same(n, m, a)
    BY <2>1 DEF Evolves, Noted
  <2>3. /\ v <= n.doc[d].revision
        /\ n.exec[q].phase = "finished" /\ v = n.doc[d].revision
           => n.exec[q].results \subseteq NodesOf(n, d)
    BY <1>1, <1>4, <2>1 DEF Picked, o, v
  <2>4. v <= m.doc[d].revision
    BY <1>2, <1>3, <1>4, <2>2, <2>3
  <2>5. v = m.doc[d].revision => v = n.doc[d].revision /\ ~(n.doc[d].revision < m.doc[d].revision)
    BY <1>2, <1>3, <1>4, <2>2, <2>3
  <2>6. ASSUME \A a \in Addresses : d \in {n.node[a].document, m.node[a].document} => Same(n, m, a)
        PROVE  NodesOf(n, d) \subseteq NodesOf(m, d)
    BY <2>6 DEF NodesOf, Same
  <2> QED BY <1>4, <2>2, <2>3, <2>4, <2>5, <2>6
<1>5. CASE o # d
  <2>1. m.doc[o].alive = n.doc[o].alive /\ m.doc[o].revision = n.doc[o].revision
    BY <1>2, <1>5 DEF Evolves, Elsewhere
  <2>2. \A a \in Addresses : n.node[a].document = o => Same(n, m, a)
    BY <1>1, <1>5 DEF Evolves, Elsewhere
  <2>3. NodesOf(n, o) \subseteq NodesOf(m, o)
    BY <2>2 DEF NodesOf, Same
  <2> QED BY <1>1, <2>1, <2>3 DEF Picked, o, v
<1> QED BY <1>4, <1>5

\* A native state stays sound when no document comes back and executions only lose results.
LEMMA SoundKeeps ==
  ASSUME NEW n, Sound(n), NEW m \in Natives, Heap(m), NEW d \in Documents, Evolves(n, m, d),
         m.doc[d].alive => n.doc[d].alive \/ \A q \in Executions : n.exec[q].owner # d,
         \A q \in Executions :
           /\ m.exec[q].owner = n.exec[q].owner /\ m.exec[q].revision = n.exec[q].revision
           /\ m.exec[q].phase = n.exec[q].phase /\ m.exec[q].busy = n.exec[q].busy
           /\ m.exec[q].results \subseteq n.exec[q].results
  PROVE  Sound(m)
<1>1. n \in Natives /\ \A q \in Executions : Picked(n, q)
  BY DEF Sound
<1>2. ASSUME NEW q \in Executions PROVE Picked(m, q)
  <2>1. Picked(n, q)
    BY <1>1
  <2>2. m.doc[d].alive => n.doc[d].alive \/ n.exec[q].owner # d
    OBVIOUS
  <2> QED
    BY <1>1, <2>1, <2>2, PickedKeeps
<1> QED BY <1>2 DEF Sound

\* Only execution q is touched.
ExecOnly(n, m, q) ==
  /\ m.node = n.node /\ m.doc = n.doc /\ m.identity = n.identity
  /\ \A p \in Executions \ {q} : m.exec[p] = n.exec[p]

LEMMA ExecSound ==
  ASSUME NEW n, Sound(n), NEW q \in Executions, NEW z \in ExecRecords,
         \/ z.owner = NULL
         \/ /\ z.owner = n.exec[q].owner /\ z.revision = n.exec[q].revision
            /\ z.phase = n.exec[q].phase /\ z.busy = n.exec[q].busy
            /\ z.results \subseteq n.exec[q].results
  PROVE  LET m == [n EXCEPT !.exec[q] = z]
         IN  Sound(m) /\ ExecOnly(n, m, q) /\ m.exec[q] = z
<1> DEFINE m == [n EXCEPT !.exec[q] = z]
<1>1. n \in Natives /\ Heap(n) /\ \A p \in Executions : Picked(n, p)
  BY DEF Sound
<1>2. /\ m \in Natives /\ m.node = n.node /\ m.doc = n.doc /\ m.identity = n.identity
      /\ m.exec[q] = z /\ \A p \in Executions \ {q} : m.exec[p] = n.exec[p]
  BY <1>1, ExecSet
<1> HIDE DEF m
<1>3. Heap(m)
  BY <1>1, <1>2, HeapFrame
<1>4. \A d : NodesOf(m, d) = NodesOf(n, d)
  BY <1>2 DEF NodesOf
<1>5. ASSUME NEW p \in Executions PROVE Picked(m, p)
  <2>1. CASE p # q
    BY <1>1, <1>2, <1>4, <2>1 DEF Picked
  <2>2. CASE p = q
    BY <1>1, <1>2, <1>4, <2>2 DEF Picked
  <2> QED BY <2>1, <2>2
<1> QED BY <1>2, <1>3, <1>5 DEF Sound, ExecOnly, m

LEMMA ExecConstants == NoExec \in ExecRecords /\ NoExec.owner = NULL /\ ~NoExec.busy
                       /\ Fresh \in ExecRecords /\ Fresh.owner = NULL /\ ~Fresh.busy
<1>1. NoExec \in ExecRecords
  BY DEF NoExec, ExecRecords, PhaseNames
<1>2. NoExec.owner = NULL /\ ~NoExec.busy
  BY DEF NoExec
<1>3. Fresh \in ExecRecords /\ Fresh.owner = NULL /\ ~Fresh.busy
  BY <1>1, <1>2 DEF Fresh, ExecRecords, PhaseNames
<1> QED BY <1>1, <1>2, <1>3

\* An input is handed over: a window more.
LEMMA WindowSound ==
  ASSUME NEW n, Sound(n), NEW q \in Executions
  PROVE  LET m == [n EXCEPT !.exec[q].windows = @ + 1]
         IN  /\ Sound(m) /\ ExecOnly(n, m, q)
             /\ m.exec[q].owner = n.exec[q].owner /\ m.exec[q].revision = n.exec[q].revision
             /\ m.exec[q].phase = n.exec[q].phase /\ m.exec[q].busy = n.exec[q].busy
             /\ m.exec[q].results = n.exec[q].results /\ m.exec[q].windows = n.exec[q].windows + 1
<1> DEFINE e == n.exec[q]
           u == e.windows + 1
           z == [e EXCEPT !.windows = u]
           m == [n EXCEPT !.exec[q].windows = @ + 1]
<1>1. n \in Natives /\ e \in ExecRecords
  BY DEF Sound, Natives
<1>2. u \in Int
  BY <1>1 DEF ExecRecords
<1>3. m = [n EXCEPT !.exec[q] = z]
  BY <1>1 DEF Natives
<1> HIDE DEF u
<1>4. /\ z \in ExecRecords /\ z.owner = e.owner /\ z.revision = e.revision
      /\ z.phase = e.phase /\ z.busy = e.busy /\ z.results = e.results /\ z.windows = u
  BY <1>1, <1>2 DEF ExecRecords
<1> HIDE DEF z, m
<1>5. Sound(m) /\ ExecOnly(n, m, q) /\ m.exec[q] = z
  BY <1>3, <1>4, ExecSound
<1> QED BY <1>4, <1>5 DEF m, u

\* A native execution over an input is entered and left.
LEMMA DriveSound ==
  ASSUME NEW n, Sound(n), NEW q \in Executions, n.exec[q].owner = NULL
  PROVE  LET m == NDrive(n, q)
         IN  /\ Sound(m) /\ ExecOnly(n, m, q) /\ m.exec[q].owner = NULL /\ m.exec[q].busy
             /\ m.exec[q].phase = n.exec[q].phase /\ m.exec[q].windows = n.exec[q].windows
<1> DEFINE e == n.exec[q]
           z == [e EXCEPT !.busy = TRUE]
           m == NDrive(n, q)
<1>1. n \in Natives /\ e \in ExecRecords
  BY DEF Sound, Natives
<1>2. m = [n EXCEPT !.exec[q] = z]
  BY <1>1 DEF Natives, NDrive
<1>3. z \in ExecRecords /\ z.owner = NULL /\ z.busy /\ z.phase = e.phase /\ z.windows = e.windows
  BY <1>1 DEF ExecRecords
<1> HIDE DEF z, m
<1>4. Sound(m) /\ ExecOnly(n, m, q) /\ m.exec[q] = z
  BY <1>2, <1>3, ExecSound
<1> QED BY <1>3, <1>4 DEF m

LEMMA DrivenSound ==
  ASSUME NEW n, Sound(n), NEW q \in Executions, n.exec[q].owner = NULL, NEW phase \in PhaseNames
  PROVE  LET m == NDriven(n, q, phase)
         IN  /\ Sound(m) /\ ExecOnly(n, m, q) /\ m.exec[q].owner = NULL
             /\ m.exec[q].phase = phase /\ m.exec[q].windows = n.exec[q].windows
<1> DEFINE e == n.exec[q]
           z == [e EXCEPT !.busy = FALSE, !.phase = phase]
           m == NDriven(n, q, phase)
<1>1. n \in Natives /\ e \in ExecRecords
  BY DEF Sound, Natives
<1>2. m = [n EXCEPT !.exec[q] = z]
  BY <1>1 DEF Natives, NDriven
<1>3. z \in ExecRecords /\ z.owner = NULL /\ z.phase = phase /\ z.windows = e.windows
  BY <1>1 DEF ExecRecords
<1> HIDE DEF z, m
<1>4. Sound(m) /\ ExecOnly(n, m, q) /\ m.exec[q] = z
  BY <1>2, <1>3, ExecSound
<1> QED BY <1>3, <1>4 DEF m

LEMMA PullKeepsSound ==
  ASSUME NEW n, Sound(n), NEW q \in Executions, NEW a
  PROVE  LET m == NPull(n, q, a)
         IN  /\ Sound(m) /\ ExecOnly(n, m, q)
             /\ m.exec[q].owner = n.exec[q].owner /\ m.exec[q].phase = n.exec[q].phase
             /\ m.exec[q].busy = n.exec[q].busy /\ m.exec[q].windows = n.exec[q].windows
<1> DEFINE e == n.exec[q]
           S == e.results \ {a}
           z == [e EXCEPT !.results = S, !.pulled = TRUE]
           m == NPull(n, q, a)
<1>1. n \in Natives /\ e \in ExecRecords
  BY DEF Sound, Natives
<1>2. m = [n EXCEPT !.exec[q] = z]
  BY <1>1 DEF Natives, NPull
<1>3. S \in SUBSET Addresses /\ S \subseteq e.results
  BY <1>1 DEF ExecRecords
<1> HIDE DEF S
<1>4. /\ z \in ExecRecords /\ z.owner = e.owner /\ z.revision = e.revision
      /\ z.phase = e.phase /\ z.busy = e.busy /\ z.results = S /\ z.windows = e.windows
  BY <1>1, <1>3 DEF ExecRecords
<1> HIDE DEF z, m
<1>5. Sound(m) /\ ExecOnly(n, m, q) /\ m.exec[q] = z
  BY <1>2, <1>3, <1>4, ExecSound
<1> QED BY <1>4, <1>5 DEF m

\* An execution that may be driven has no document.
LEMMA DrivenIsInput ==
  ASSUME NEW n, Sound(n), NEW q \in Executions, NDrives(n, q) \/ NVisits(n, q)
  PROVE  n.exec[q].owner = NULL /\ ~n.exec[q].busy
  BY DEF Sound, Picked, NDrives, NVisits

\* tlv_document_query_evaluate, up to its callbacks.
LEMMA EvaluateSound ==
  ASSUME NEW n, Sound(n), NEW q \in Executions, NEW d \in Documents, n.doc[d].alive,
         NEvaluates(n, q, d)
  PROVE  LET m == NEvaluate(n, q, d)
         IN  /\ Sound(m) /\ Shape(n, m)
             /\ ~n.exec[q].busy /\ m.exec[q].busy /\ m.exec[q].owner = d /\ m.exec[q].phase = "fresh"
             /\ m.exec[q].windows = n.exec[q].windows
             /\ \A p \in Executions \ {q} : m.exec[p] = n.exec[p]
             /\ m.doc[d].callbacks = n.doc[d].callbacks + 1
             /\ \A f \in Documents \ {d} : m.doc[f] = n.doc[f]
             /\ m.doc[d].pending = n.doc[d].pending
<1> DEFINE k == n.doc[d].callbacks + 1
           c == [n EXCEPT !.doc[d].callbacks = k]
           e == n.exec[q]
           r == n.doc[d].revision
           z == [e EXCEPT !.owner = d, !.revision = r, !.busy = TRUE]
           m == NEvaluate(n, q, d)
<1>1. n \in Natives /\ Heap(n) /\ e \in ExecRecords /\ \A p \in Executions : Picked(n, p)
  BY DEF Sound, Natives
<1>2. k \in Int /\ r \in Nat
  BY <1>1 DEF Natives, DocumentRecords
<1>3. /\ z \in ExecRecords /\ z.owner = d /\ z.revision = r /\ z.busy /\ z.phase = e.phase
      /\ z.windows = e.windows
  <2> HIDE DEF r
  <2> QED BY <1>1, <1>2 DEF ExecRecords
<1>4. ~e.busy /\ e.phase = "fresh"
  BY <1>1 DEF NEvaluates, Fresh, NoExec, ExecRecords
<1>5. m = [c EXCEPT !.exec[q] = z]
  BY <1>1 DEF Natives, NEvaluate
<1> HIDE DEF k
<1>6. /\ c \in Natives /\ Heap(c) /\ Shape(n, c) /\ c.exec = n.exec
      /\ c.doc[d].callbacks = k /\ c.doc[d].pending = n.doc[d].pending
      /\ \A f \in Documents \ {d} : c.doc[f] = n.doc[f]
  BY <1>1, <1>2, CallbackSound
<1> HIDE DEF c, z, m
<1>7. /\ m \in Natives /\ m.node = c.node /\ m.doc = c.doc /\ m.identity = c.identity
      /\ m.exec[q] = z /\ \A p \in Executions \ {q} : m.exec[p] = c.exec[p]
  BY <1>3, <1>5, <1>6, ExecSet
<1>8. Heap(m) /\ Shape(n, m)
  <2>1. Heap(m)
    BY <1>6, <1>7, HeapFrame
  <2>2. Shape(n, m)
    BY <1>6, <1>7 DEF Shape
  <2> QED BY <2>1, <2>2
<1>9. \A f : NodesOf(m, f) = NodesOf(n, f)
  BY <1>8 DEF Shape, NodesOf
<1>10. ASSUME NEW p \in Executions PROVE Picked(m, p)
  <2>1. CASE p = q
    <3>1. m.doc[d].revision = r
      BY <1>8 DEF Shape
    <3>2. z.phase # "finished"
      BY <1>3, <1>4
    <3> QED
      BY <1>2, <1>3, <1>7, <2>1, <3>1, <3>2 DEF Picked
  <2>2. CASE p # q
    <3>1. m.exec[p] = n.exec[p]
      BY <1>6, <1>7, <2>2
    <3>2. Picked(n, p) /\ n.exec[p].owner \in Documents \cup {NULL}
      BY <1>1 DEF Natives, ExecRecords
    <3>3. n.exec[p].owner # NULL =>
            /\ m.doc[n.exec[p].owner].alive = n.doc[n.exec[p].owner].alive
            /\ m.doc[n.exec[p].owner].revision = n.doc[n.exec[p].owner].revision
      BY <1>8, <3>2 DEF Shape
    <3> QED
      BY <1>9, <3>1, <3>2, <3>3 DEF Picked
  <2> QED BY <2>1, <2>2
<1>11. Sound(m)
  BY <1>7, <1>8, <1>10 DEF Sound
<1> QED BY <1>3, <1>4, <1>6, <1>7, <1>8, <1>11 DEF m, k

\* It returns, and what its callbacks put off happens.
LEMMA EvaluatedSound ==
  ASSUME NEW n, Sound(n), NEW q \in Executions, NEW d \in Documents, n.exec[q].owner = d,
         NEW ok \in BOOLEAN, NEW S \in SUBSET NodesOf(n, d)
  PROVE  LET m == NEvaluated(n, q, ok, S)
         IN  /\ Sound(m) /\ Evolves(n, m, d)
             /\ m.exec[q].owner \in {d, NULL} /\ m.exec[q].phase \in {"finished", "invalid"}
             /\ m.exec[q].windows = n.exec[q].windows
             /\ \A p \in Executions \ {q} : m.exec[p] = n.exec[p]
             /\ \A f \in Documents \ {d} : m.doc[f] = n.doc[f]
             /\ m.doc[d].alive => n.doc[d].alive
             /\ n.doc[d].pending # 2 => m.doc[d].alive = n.doc[d].alive
             /\ m.doc[d].pending = 2 => n.doc[d].pending = 2
             /\ n.doc[d].pending = 2 => (m.doc[d].alive <=> n.doc[d].alive /\ m.doc[d].pending = 2)
             /\ n.doc[d].pending = 0 =>
                  /\ \A a \in Addresses : Same(n, m, a)
                  /\ m.doc[d].revision = n.doc[d].revision /\ m.doc[d].epoch = n.doc[d].epoch
                  /\ m.doc[d].callbacks = n.doc[d].callbacks - 1 /\ m.doc[d].pending = 0
<1> DEFINE x == Deferred(n, n.exec[q].owner)
           put == n.doc[n.exec[q].owner].pending
           e == n.exec[q]
           o == IF put = 2 THEN NULL ELSE d
           f == IF ok /\ put = 0 THEN "finished" ELSE "invalid"
           R == IF ok /\ put = 0 THEN S ELSE {}
           z == [e EXCEPT !.busy = FALSE, !.owner = o, !.phase = f, !.results = R]
           m == NEvaluated(n, q, ok, S)
<1>1. n \in Natives /\ Heap(n) /\ e \in ExecRecords /\ \A p \in Executions : Picked(n, p)
  BY DEF Sound, Natives
<1>2. /\ x \in Natives /\ Heap(x) /\ Evolves(n, x, d) /\ x.exec = n.exec
      /\ \A g \in Documents \ {d} : x.doc[g] = n.doc[g]
      /\ x.doc[d].alive => n.doc[d].alive
      /\ put # 2 => x.doc[d].alive = n.doc[d].alive
      /\ x.doc[d].pending = 2 => put = 2
      /\ put = 2 => (x.doc[d].alive <=> n.doc[d].alive /\ x.doc[d].pending = 2)
      /\ put = 0 =>
           /\ \A a \in Addresses : Same(n, x, a)
           /\ x.doc[d].revision = n.doc[d].revision /\ x.doc[d].epoch = n.doc[d].epoch
           /\ x.doc[d].callbacks = n.doc[d].callbacks - 1 /\ x.doc[d].pending = 0
  BY <1>1, DeferredSound
<1> HIDE DEF x
<1>3. m = [x EXCEPT !.exec[q] = z]
  <2>1. x.exec[q] = e /\ e.owner = d
    BY <1>2
  <2>2. m = [x EXCEPT !.exec[q] = [x.exec[q] EXCEPT
               !.busy = FALSE, !.owner = IF put = 2 THEN NULL ELSE n.exec[q].owner,
               !.phase = f, !.results = R]]
    BY DEF NEvaluated, x
  <2> QED BY <2>1, <2>2
<1>4. o \in {d, NULL} /\ f \in {"finished", "invalid"} /\ R \in SUBSET Addresses
  BY DEF NodesOf
<1>5. f = "finished" => put = 0 /\ R = S
  OBVIOUS
<1> HIDE DEF o, f, R, put
<1>6. /\ z \in ExecRecords /\ z.owner = o /\ z.phase = f /\ ~z.busy /\ z.results = R
      /\ z.revision = e.revision /\ z.windows = e.windows
  <2>1. o \in Documents \cup {NULL} /\ f \in PhaseNames
    BY <1>4 DEF PhaseNames
  <2> QED BY <1>1, <1>4, <2>1 DEF ExecRecords
<1> HIDE DEF z, m
<1>7. /\ m \in Natives /\ m.node = x.node /\ m.doc = x.doc /\ m.identity = x.identity
      /\ m.exec[q] = z /\ \A p \in Executions \ {q} : m.exec[p] = n.exec[p]
  BY <1>2, <1>3, <1>6, ExecSet
<1>8. Heap(m)
  BY <1>2, <1>7, HeapFrame
<1>9. Evolves(n, m, d) /\ \A a : Same(n, x, a) <=> Same(n, m, a)
  BY <1>2, <1>7 DEF Evolves, Elsewhere, Newer, Noted, Same
<1>10. Picked(m, q)
  <2>1. SUFFICES ASSUME z.owner = d
                 PROVE  /\ m.doc[d].alive => e.revision <= m.doc[d].revision
                        /\ z.phase = "finished" => z.results \subseteq NodesOf(m, d)
    BY <1>4, <1>6, <1>7 DEF Picked
  <2>2. m.doc[d].alive => e.revision <= m.doc[d].revision
    <3>1. SUFFICES ASSUME m.doc[d].alive PROVE e.revision <= m.doc[d].revision
      OBVIOUS
    <3>2. n.doc[d].alive
      BY <1>2, <1>7, <3>1
    <3>3. Picked(n, q)
      BY <1>1
    <3>4. e.revision <= n.doc[d].revision
      BY <3>2, <3>3, NullApart DEF Picked
    <3>5. n.doc[d].revision <= m.doc[d].revision
      BY <1>9, <3>1, <3>2 DEF Evolves, Noted
    <3>6. e.revision \in Nat /\ n.doc[d].revision \in Nat /\ m.doc[d].revision \in Nat
      BY <1>1, <1>7 DEF Natives, ExecRecords, DocumentRecords
    <3> QED BY <3>4, <3>5, <3>6
  <2>3. z.phase = "finished" => z.results \subseteq NodesOf(m, d)
    <3>1. SUFFICES ASSUME f = "finished" PROVE S \subseteq NodesOf(m, d)
      BY <1>5, <1>6
    <3>2. \A a \in Addresses : Same(n, m, a)
      BY <1>2, <1>5, <1>9, <3>1
    <3> QED BY <3>2 DEF Same, NodesOf
  <2> QED BY <2>2, <2>3
<1>11. ASSUME NEW p \in Executions \ {q} PROVE Picked(m, p)
  <2>1. Picked(n, p) /\ p \in Executions
    BY <1>1
  <2>2. m.exec[p] = n.exec[p] /\ (m.doc[d].alive => n.doc[d].alive)
    BY <1>2, <1>7
  <2> QED BY <1>1, <1>7, <1>9, <2>1, <2>2, PickedKeeps
<1>12. Sound(m)
  BY <1>7, <1>8, <1>10, <1>11 DEF Sound
<1>13. /\ \A g \in Documents \ {d} : m.doc[g] = n.doc[g]
       /\ m.doc[d] = x.doc[d]
  BY <1>2, <1>7
<1>14. put = 0 => \A a \in Addresses : Same(n, m, a)
  BY <1>2, <1>9
<1> QED BY <1>2, <1>4, <1>6, <1>7, <1>9, <1>12, <1>13, <1>14 DEF m, put

-----------------------------------------------------------------------------
(* The objects of a binding. *)

DocumentObjects  == [state : {"unborn", "open", "closed"}, generation : Nat, active : Int, references : Int]
ExecutionObjects == [open : BOOLEAN, document : Documents \cup {NULL}, holds : Documents \cup {NULL},
                     busy : BOOLEAN, reader : BOOLEAN, fed : BOOLEAN, pins : Int, invalid : BOOLEAN]
HandleObjects    == [document : Documents \cup {NULL}, at : Addresses \cup {NULL}, identity : Nat,
                     stamp : Nat, origin : Documents \cup {NULL}]
CallRecords      == [execution : Executions, document : Documents \cup {NULL}, provider : BOOLEAN]
Objects ==
  /\ document \in [Documents -> DocumentObjects] /\ execution \in [Executions -> ExecutionObjects]
  /\ handle \in [Handles -> HandleObjects] /\ calls \in Seq(CallRecords)

\* An open document is there natively and one that was not parsed is not; executions and handles
\* refer to documents that were parsed.
Lifetimes ==
  /\ \A d \in Documents : /\ document[d].state = "open" => native.doc[d].alive
                          /\ document[d].state = "unborn" => ~native.doc[d].alive
  /\ \A q \in Executions : native.exec[q].owner # NULL => document[native.exec[q].owner].state # "unborn"
  /\ \A h \in Handles : Taken(h) => /\ handle[h].document # NULL
                                    /\ document[handle[h].document].state # "unborn"
                                    /\ handle[h].identity <= native.identity

\* Each evaluation in progress is that of an execution of its own, which is busy with its document.
Running ==
  /\ \A i \in 1 .. Len(calls) : /\ native.exec[calls[i].execution].busy
                                /\ native.exec[calls[i].execution].owner = calls[i].document
  /\ \A i, j \in 1 .. Len(calls) : calls[i].execution = calls[j].execution => i = j

Base == Sound(native) /\ Objects /\ Lifetimes /\ Running

\* A binding that refuses to edit a document in a callback knows which documents are in one, and
\* has nothing put off; and it knows which executions are running.
Counted == \A d \in Documents : /\ document[d].active = native.doc[d].callbacks
                                /\ native.doc[d].pending = 0
                                /\ document[d].state = "unborn" => document[d].active = 0
Busy    == \A i \in 1 .. Len(calls) : execution[calls[i].execution].busy
Guarded == Counted /\ Busy

\* x denotes the node it was made for.
Denotes(n, x) == x.at \in NodesOf(n, x.document) /\ n.node[x.at].identity = x.identity

-----------------------------------------------------------------------------
\* What a step may do to documents and to the executions' documents, and how a handle is made.
Carried ==
  \A e \in Documents :
    \/ /\ document'[e].state = document[e].state
       /\ native'.doc[e].alive = native.doc[e].alive \/ document[e].state = "closed"
    \/ document'[e].state = "closed"
    \/ document[e].state = "unborn" /\ document'[e].state = "open" /\ native'.doc[e].alive
Assigned ==
  \A q \in Executions :
    \/ native'.exec[q].owner \in {NULL, native.exec[q].owner}
    \/ native'.exec[q].owner \in Documents /\ document[native'.exec[q].owner].state = "open"
Granted(x) ==
  /\ x.document \in Documents /\ document[x.document].state # "unborn"
  /\ x.identity <= native'.identity

LEMMA LifetimesKeep ==
  ASSUME Lifetimes, Objects, Objects', native \in Natives, native' \in Natives,
         native.identity <= native'.identity, Carried, Assigned,
         \A h \in Handles :
           \/ /\ handle'[h].document = handle[h].document /\ handle'[h].identity = handle[h].identity
              /\ handle'[h] # Untaken => handle[h] # Untaken
           \/ Granted(handle'[h])
  PROVE  Lifetimes'
<1>1. \A e \in Documents : /\ document'[e].state = "open" => native'.doc[e].alive
                           /\ document'[e].state = "unborn" => ~native'.doc[e].alive
  BY DEF Lifetimes, Carried
<1>2. \A e \in Documents : document[e].state # "unborn" => document'[e].state # "unborn"
  BY DEF Carried
<1>3. ASSUME NEW q \in Executions, native'.exec[q].owner # NULL
      PROVE  document'[native'.exec[q].owner].state # "unborn"
  <2>1. native'.exec[q].owner \in Documents
    BY <1>3 DEF Natives, ExecRecords
  <2>2. document[native'.exec[q].owner].state # "unborn"
    BY <1>3, <2>1 DEF Lifetimes, Assigned
  <2> QED BY <1>2, <2>1, <2>2
<1>4. ASSUME NEW h \in Handles, handle'[h] # Untaken
      PROVE  /\ handle'[h].document # NULL
             /\ document'[handle'[h].document].state # "unborn"
             /\ handle'[h].identity <= native'.identity
  <2>1. CASE Granted(handle'[h])
    BY <1>2, <2>1, NullApart DEF Granted
  <2>2. CASE handle'[h].document = handle[h].document /\ handle'[h].identity = handle[h].identity
             /\ handle[h] # Untaken
    <3>1. /\ handle[h].document # NULL /\ document[handle[h].document].state # "unborn"
          /\ handle[h].identity <= native.identity
      BY <2>2 DEF Lifetimes, Taken
    <3>2. /\ handle[h].document \in Documents /\ handle[h].identity \in Nat
          /\ native.identity \in Nat /\ native'.identity \in Nat
      BY <3>1 DEF Objects, HandleObjects, Natives
    <3>3. handle[h].identity <= native'.identity
      BY <3>1, <3>2
    <3> QED BY <1>2, <2>2, <3>1, <3>2, <3>3
  <2> QED BY <1>4, <2>1, <2>2
<1> QED BY <1>1, <1>3, <1>4 DEF Lifetimes, Taken, Untaken

LEMMA CallEntry ==
  ASSUME NEW s \in Seq(CallRecords), NEW i \in 1 .. Len(s)
  PROVE  s[i].execution \in Executions /\ s[i].document \in Documents \cup {NULL}
<1>1. s[i] \in CallRecords
  OBVIOUS
<1> QED BY <1>1 DEF CallRecords

\* The calls in progress stay, one is entered, one is left.
LEMMA RunningSame ==
  ASSUME Running, Objects, calls' = calls,
         \A q \in Executions : native.exec[q].busy =>
           native'.exec[q].busy /\ native'.exec[q].owner = native.exec[q].owner
  PROVE  Running'
<1>1. \A i \in 1 .. Len(calls) : calls[i].execution \in Executions
  BY CallEntry DEF Objects
<1> QED BY <1>1 DEF Running

LEMMA CallsPushed ==
  ASSUME NEW s \in Seq(CallRecords), NEW c \in CallRecords
  PROVE  LET t == <<c>> \o s
         IN  /\ t \in Seq(CallRecords) /\ Len(t) = Len(s) + 1 /\ t[1] = c
             /\ \A i \in 2 .. Len(t) : i - 1 \in 1 .. Len(s) /\ t[i] = s[i - 1]
  OBVIOUS

LEMMA CallsPopped ==
  ASSUME NEW s \in Seq(CallRecords), s # <<>>
  PROVE  LET t == Tail(s)
         IN  /\ t \in Seq(CallRecords) /\ Head(s) = s[1] /\ 1 \in 1 .. Len(s) /\ s[1] \in CallRecords
             /\ \A i \in 1 .. Len(t) : i + 1 \in 2 .. Len(s) /\ t[i] = s[i + 1]
  OBVIOUS

LEMMA RunningPushed ==
  ASSUME Running, Objects, NEW q \in Executions, NEW d \in Documents \cup {NULL},
         NEW p \in BOOLEAN, calls' = Call(q, d, p),
         ~native.exec[q].busy, native'.exec[q].busy, native'.exec[q].owner = d,
         \A r \in Executions \ {q} : native'.exec[r] = native.exec[r]
  PROVE  Running' /\ calls' \in Seq(CallRecords)
<1> DEFINE c == [execution |-> q, document |-> d, provider |-> p]
           t == <<c>> \o calls
<1>1. c \in CallRecords /\ calls \in Seq(CallRecords) /\ calls' = t
  BY DEF CallRecords, Objects, Call
<1>2. /\ t \in Seq(CallRecords) /\ Len(t) = Len(calls) + 1 /\ t[1] = c
      /\ \A i \in 2 .. Len(t) : i - 1 \in 1 .. Len(calls) /\ t[i] = calls[i - 1]
  BY <1>1, CallsPushed
<1>3. c.execution = q /\ c.document = d
  OBVIOUS
<1> HIDE DEF c, t
<1>4. \A i \in 1 .. Len(calls) : calls[i].execution \in Executions \ {q}
  BY <1>1, CallEntry DEF Running
<1>5. ASSUME NEW i \in 1 .. Len(t)
      PROVE  /\ native'.exec[t[i].execution].busy
             /\ native'.exec[t[i].execution].owner = t[i].document
  <2>1. CASE i = 1
    BY <1>2, <1>3, <2>1
  <2>2. CASE i # 1
    <3>1. i \in 2 .. Len(t)
      BY <1>1, <1>2, <2>2
    <3>2. i - 1 \in 1 .. Len(calls) /\ t[i] = calls[i - 1]
      BY <1>2, <3>1
    <3> QED BY <1>4, <3>2 DEF Running
  <2> QED BY <2>1, <2>2
<1>6. ASSUME NEW i \in 1 .. Len(t), NEW j \in 1 .. Len(t), t[i].execution = t[j].execution
      PROVE  i = j
  <2>1. ASSUME NEW k \in 2 .. Len(t) PROVE t[k].execution # q
    <3>1. k - 1 \in 1 .. Len(calls) /\ t[k] = calls[k - 1]
      BY <1>2
    <3> QED BY <1>4, <3>1
  <2>2. CASE i = 1 \/ j = 1
    <3>1. i \in 2 .. Len(t) \/ i = 1
      BY <1>1, <1>2
    <3>2. j \in 2 .. Len(t) \/ j = 1
      BY <1>1, <1>2
    <3> QED BY <1>2, <1>3, <1>6, <2>1, <2>2, <3>1, <3>2
  <2>3. CASE i # 1 /\ j # 1
    <3>1. i \in 2 .. Len(t) /\ j \in 2 .. Len(t)
      BY <1>1, <1>2, <2>3
    <3>2. /\ i - 1 \in 1 .. Len(calls) /\ t[i] = calls[i - 1]
          /\ j - 1 \in 1 .. Len(calls) /\ t[j] = calls[j - 1]
      BY <1>2, <3>1
    <3>3. i - 1 = j - 1
      BY <1>6, <3>2 DEF Running
    <3> QED BY <3>1, <3>3
  <2> QED BY <2>2, <2>3
<1> QED BY <1>1, <1>2, <1>5, <1>6 DEF Running

LEMMA RunningPopped ==
  ASSUME Running, Objects, calls # <<>>, calls' = Tail(calls),
         \A r \in Executions \ {Head(calls).execution} : native'.exec[r] = native.exec[r]
  PROVE  /\ Running' /\ calls' \in Seq(CallRecords)
         /\ Head(calls) \in CallRecords
         /\ native.exec[Head(calls).execution].owner = Head(calls).document
<1> DEFINE t == Tail(calls)
<1>1. calls \in Seq(CallRecords)
  BY DEF Objects
<1>2. /\ t \in Seq(CallRecords) /\ Head(calls) = calls[1] /\ 1 \in 1 .. Len(calls)
      /\ calls[1] \in CallRecords
      /\ \A i \in 1 .. Len(t) : i + 1 \in 2 .. Len(calls) /\ t[i] = calls[i + 1]
  BY <1>1, CallsPopped
<1> HIDE DEF t
<1>3. Len(calls) \in Nat /\ Len(t) \in Nat
  BY <1>1, <1>2
<1>4. ASSUME NEW i \in 1 .. Len(t)
      PROVE  /\ i + 1 \in 1 .. Len(calls) /\ t[i] = calls[i + 1]
             /\ t[i].execution \in Executions \ {Head(calls).execution}
  <2>1. i + 1 \in 1 .. Len(calls) /\ i + 1 # 1 /\ t[i] = calls[i + 1]
    BY <1>2, <1>3
  <2>2. calls[i + 1].execution # calls[1].execution
    BY <1>2, <2>1 DEF Running
  <2>3. t[i].execution \in Executions
    BY <1>1, <2>1, CallEntry
  <2> QED BY <1>2, <2>1, <2>2, <2>3
<1>5. ASSUME NEW i \in 1 .. Len(t)
      PROVE  /\ native'.exec[t[i].execution].busy
             /\ native'.exec[t[i].execution].owner = t[i].document
  <2>1. /\ i + 1 \in 1 .. Len(calls) /\ t[i] = calls[i + 1]
        /\ t[i].execution \in Executions \ {Head(calls).execution}
    BY <1>4
  <2>2. /\ native.exec[calls[i + 1].execution].busy
        /\ native.exec[calls[i + 1].execution].owner = calls[i + 1].document
    BY <2>1 DEF Running
  <2> QED BY <2>1, <2>2
<1>6. ASSUME NEW i \in 1 .. Len(t), NEW j \in 1 .. Len(t), t[i].execution = t[j].execution
      PROVE  i = j
  <2>1. /\ i + 1 \in 1 .. Len(calls) /\ t[i] = calls[i + 1]
        /\ j + 1 \in 1 .. Len(calls) /\ t[j] = calls[j + 1]
    BY <1>4
  <2>2. i + 1 = j + 1
    BY <1>6, <2>1 DEF Running
  <2> QED BY <2>2
<1>7. native.exec[Head(calls).execution].owner = Head(calls).document
  BY <1>2 DEF Running
<1>8. calls' = t
  BY DEF t
<1> QED BY <1>2, <1>5, <1>6, <1>7, <1>8 DEF Running

\* A handle that denotes its node goes on doing so unless a step touches the node.
LEMMA DenotesKept ==
  ASSUME NEW n, NEW m, NEW d, Evolves(n, m, d), NEW x, Denotes(n, x), x.document # NULL,
         x.document # d \/ Same(n, m, x.at)
  PROVE  Denotes(m, x)
<1>1. x.at \in Addresses /\ n.node[x.at].document = x.document /\ n.node[x.at].identity = x.identity
  BY DEF Denotes, NodesOf
<1>2. Same(n, m, x.at)
  BY <1>1 DEF Evolves, Elsewhere
<1> QED BY <1>1, <1>2 DEF Denotes, NodesOf, Same

LEMMA BusySame ==
  ASSUME Busy, Objects, calls' = calls,
         \A q \in Executions : execution[q].busy => execution'[q].busy
  PROVE  Busy'
<1>1. \A i \in 1 .. Len(calls) : calls[i].execution \in Executions
  BY CallEntry DEF Objects
<1> QED BY <1>1 DEF Busy

LEMMA BusyPushed ==
  ASSUME Busy, Objects, NEW q \in Executions, NEW d \in Documents \cup {NULL},
         NEW p \in BOOLEAN, calls' = Call(q, d, p), execution'[q].busy,
         \A r \in Executions \ {q} : execution'[r] = execution[r]
  PROVE  Busy'
<1> DEFINE c == [execution |-> q, document |-> d, provider |-> p]
           t == <<c>> \o calls
<1>1. c \in CallRecords /\ calls \in Seq(CallRecords) /\ calls' = t
  BY DEF CallRecords, Objects, Call
<1>2. /\ Len(t) = Len(calls) + 1 /\ t[1] = c
      /\ \A i \in 2 .. Len(t) : i - 1 \in 1 .. Len(calls) /\ t[i] = calls[i - 1]
  BY <1>1, CallsPushed
<1>3. c.execution = q
  OBVIOUS
<1> HIDE DEF c, t
<1>4. ASSUME NEW i \in 1 .. Len(t) PROVE execution'[t[i].execution].busy
  <2>1. CASE i = 1
    BY <1>2, <1>3, <2>1
  <2>2. CASE i # 1
    <3>1. i \in 2 .. Len(t)
      BY <1>1, <1>2, <2>2
    <3>2. i - 1 \in 1 .. Len(calls) /\ t[i] = calls[i - 1]
      BY <1>2, <3>1
    <3>3. calls[i - 1].execution \in Executions /\ execution[calls[i - 1].execution].busy
      BY <1>1, <3>2, CallEntry DEF Busy
    <3> QED BY <3>2, <3>3
  <2> QED BY <2>1, <2>2
<1> QED BY <1>1, <1>4 DEF Busy

LEMMA BusyPopped ==
  ASSUME Busy, Running, Objects, calls # <<>>, calls' = Tail(calls),
         \A r \in Executions \ {Head(calls).execution} : execution'[r] = execution[r]
  PROVE  Busy'
<1> DEFINE t == Tail(calls)
<1>1. calls \in Seq(CallRecords)
  BY DEF Objects
<1>2. /\ t \in Seq(CallRecords) /\ Head(calls) = calls[1] /\ 1 \in 1 .. Len(calls)
      /\ \A i \in 1 .. Len(t) : i + 1 \in 2 .. Len(calls) /\ t[i] = calls[i + 1]
  BY <1>1, CallsPopped
<1> HIDE DEF t
<1>3. Len(calls) \in Nat /\ Len(t) \in Nat /\ calls' = t
  BY <1>1, <1>2 DEF t
<1>4. ASSUME NEW i \in 1 .. Len(t) PROVE execution'[t[i].execution].busy
  <2>1. i + 1 \in 1 .. Len(calls) /\ i + 1 # 1 /\ t[i] = calls[i + 1]
    BY <1>2, <1>3
  <2>2. calls[i + 1].execution # calls[1].execution
    BY <1>2, <2>1 DEF Running
  <2>3. calls[i + 1].execution \in Executions /\ execution[calls[i + 1].execution].busy
    BY <1>1, <2>1, CallEntry DEF Busy
  <2> QED BY <1>2, <2>1, <2>2, <2>3
<1> QED BY <1>3, <1>4 DEF Busy

\* A new Node.
LEMMA NodeMade ==
  ASSUME NEW n \in Natives, NEW d \in Documents, NEW a \in Addresses, NEW s \in Nat
  PROVE  /\ Node(n, d, a, s) \in HandleObjects
         /\ Node(n, d, a, s).document = d /\ Node(n, d, a, s).at = a /\ Node(n, d, a, s).stamp = s
         /\ Node(n, d, a, s).identity = n.node[a].identity
         /\ Node(n, d, a, s).origin = n.node[a].document
         /\ n.node[a].document = d => Denotes(n, Node(n, d, a, s))
         /\ Heap(n) => n.node[a].identity <= n.identity
<1>1. /\ n.node[a].identity \in Nat /\ n.node[a].document \in Documents \cup {NULL}
  BY DEF Natives, NodeRecords
<1>2. Node(n, d, a, s) \in HandleObjects
  BY <1>1 DEF Node, HandleObjects
<1>3. /\ Node(n, d, a, s).document = d /\ Node(n, d, a, s).at = a /\ Node(n, d, a, s).stamp = s
      /\ Node(n, d, a, s).identity = n.node[a].identity
      /\ Node(n, d, a, s).origin = n.node[a].document
  BY DEF Node
<1> QED BY <1>2, <1>3 DEF Denotes, NodesOf, Heap, Placed

LEMMA DocumentSet ==
  ASSUME Objects, NEW d \in Documents, NEW z \in DocumentObjects,
         document' = [document EXCEPT ![d] = z]
  PROVE  /\ document' \in [Documents -> DocumentObjects] /\ document'[d] = z
         /\ \A e \in Documents \ {d} : document'[e] = document[e]
  BY DEF Objects

LEMMA DocumentOpened ==
  ASSUME Objects, NEW d \in Documents, document' = [document EXCEPT ![d].state = "open"]
  PROVE  /\ document' \in [Documents -> DocumentObjects]
         /\ document'[d].state = "open" /\ document'[d].active = document[d].active
         /\ \A e \in Documents \ {d} : document'[e] = document[e]
         /\ \A e \in Documents : document'[e].generation = document[e].generation
<1> DEFINE z == [document[d] EXCEPT !.state = "open"]
<1>1. document[d] \in DocumentObjects
  BY DEF Objects
<1>2. /\ z \in DocumentObjects /\ z.state = "open" /\ z.active = document[d].active
      /\ z.generation = document[d].generation
  BY <1>1 DEF DocumentObjects
<1>3. document' = [document EXCEPT ![d] = z]
  BY DEF Objects
<1> HIDE DEF z
<1> QED BY <1>2, <1>3, DocumentSet

\* A new generation of a document's nodes.
LEMMA DocumentChanged ==
  ASSUME Objects, NEW d \in Documents, document' = [document EXCEPT ![d].generation = @ + 1]
  PROVE  /\ document' \in [Documents -> DocumentObjects]
         /\ document'[d].state = document[d].state /\ document'[d].active = document[d].active
         /\ \A e \in Documents \ {d} : document'[e] = document[e]
         /\ document[d].generation \in Nat /\ document'[d].generation = document[d].generation + 1
<1> DEFINE z == [document[d] EXCEPT !.generation = document[d].generation + 1]
<1>1. document[d] \in DocumentObjects /\ document[d].generation \in Nat
  BY DEF Objects, DocumentObjects
<1>2. document[d].generation + 1 \in Nat
  BY <1>1
<1>3. /\ z \in DocumentObjects /\ z.state = document[d].state /\ z.active = document[d].active
      /\ z.generation = document[d].generation + 1
  BY <1>1, <1>2 DEF DocumentObjects
<1>4. document' = [document EXCEPT ![d] = z]
  BY DEF Objects
<1> HIDE DEF z
<1> QED BY <1>1, <1>3, <1>4, DocumentSet

\* An evaluation of a document more, or less.
LEMMA DocumentCalled ==
  ASSUME Objects, NEW d \in Documents, NEW k \in Int, document' = [document EXCEPT ![d].active = k]
  PROVE  /\ document' \in [Documents -> DocumentObjects]
         /\ document'[d].state = document[d].state /\ document'[d].active = k
         /\ \A e \in Documents \ {d} : document'[e] = document[e]
         /\ \A e \in Documents : document'[e].generation = document[e].generation
<1> DEFINE z == [document[d] EXCEPT !.active = k]
<1>1. document[d] \in DocumentObjects
  BY DEF Objects
<1>2. /\ z \in DocumentObjects /\ z.state = document[d].state /\ z.active = k
      /\ z.generation = document[d].generation
  BY <1>1 DEF DocumentObjects
<1>3. document' = [document EXCEPT ![d] = z]
  BY DEF Objects
<1> HIDE DEF z
<1> QED BY <1>2, <1>3, DocumentSet

LEMMA ExecutionSet ==
  ASSUME Objects, NEW q \in Executions, NEW z \in ExecutionObjects,
         execution' = [execution EXCEPT ![q] = z]
  PROVE  /\ execution' \in [Executions -> ExecutionObjects] /\ execution'[q] = z
         /\ \A p \in Executions \ {q} : execution'[p] = execution[p]
  BY DEF Objects

\* The values an execution is given.
LEMMA ExecutionValues ==
  ASSUME NEW x \in ExecutionObjects, NEW b \in BOOLEAN
  PROVE  /\ [x EXCEPT !.open = TRUE] \in ExecutionObjects
         /\ [x EXCEPT !.busy = b] \in ExecutionObjects /\ [x EXCEPT !.busy = b].busy = b
         /\ [x EXCEPT !.busy = b].document = x.document
         /\ [x EXCEPT !.pins = x.pins + 1] \in ExecutionObjects
         /\ [x EXCEPT !.pins = x.pins + 1, !.reader = TRUE] \in ExecutionObjects
         /\ [x EXCEPT !.pins = x.pins + 1, !.fed = TRUE, !.busy = b] \in ExecutionObjects
         /\ [x EXCEPT !.pins = x.pins + 1, !.fed = TRUE, !.busy = b].busy = b
         /\ [x EXCEPT !.pins = x.pins + 1, !.fed = TRUE, !.busy = b].document = x.document
         /\ Idle \in ExecutionObjects /\ ~Idle.busy /\ Idle.document = NULL
         /\ [Idle EXCEPT !.open = TRUE] \in ExecutionObjects
         /\ [Idle EXCEPT !.invalid = TRUE] \in ExecutionObjects
<1>1. \E k \in Int : k = x.pins + 1
  BY DEF ExecutionObjects
<1>2. PICK k \in Int : k = x.pins + 1
  BY <1>1
<1>3. /\ [x EXCEPT !.pins = k] \in ExecutionObjects
      /\ [x EXCEPT !.pins = k, !.reader = TRUE] \in ExecutionObjects
      /\ [x EXCEPT !.pins = k, !.fed = TRUE, !.busy = b] \in ExecutionObjects
      /\ [x EXCEPT !.pins = k, !.fed = TRUE, !.busy = b].busy = b
      /\ [x EXCEPT !.pins = k, !.fed = TRUE, !.busy = b].document = x.document
  BY DEF ExecutionObjects
<1>4. /\ [x EXCEPT !.open = TRUE] \in ExecutionObjects
      /\ [x EXCEPT !.busy = b] \in ExecutionObjects /\ [x EXCEPT !.busy = b].busy = b
      /\ [x EXCEPT !.busy = b].document = x.document
  BY DEF ExecutionObjects
<1>5. Idle \in ExecutionObjects /\ ~Idle.busy /\ Idle.document = NULL
  BY DEF ExecutionObjects, Idle
<1>6. [Idle EXCEPT !.open = TRUE] \in ExecutionObjects /\ [Idle EXCEPT !.invalid = TRUE] \in ExecutionObjects
  BY <1>5 DEF ExecutionObjects
<1> QED BY <1>2, <1>3, <1>4, <1>5, <1>6

LEMMA HandleSet ==
  ASSUME Objects, NEW h \in Handles, NEW x \in HandleObjects, handle' = [handle EXCEPT ![h] = x]
  PROVE  /\ handle' \in [Handles -> HandleObjects] /\ handle'[h] = x
         /\ \A g \in Handles \ {h} : handle'[g] = handle[g]
  BY DEF Objects

-----------------------------------------------------------------------------
(* Steps that all bindings take. *)

\* States of documents that do not change.
Unmoved == \A e \in Documents : document'[e].state = document[e].state
\* What all steps leave true of the native state, the calls and the documents.
Steady(d) == /\ Sound(native') /\ Running' /\ Carried /\ Assigned /\ Evolves(native, native', d)

LEMMA BaseKept ==
  ASSUME Base, NEW d \in Documents, native' \in Natives, Heap(native'), Evolves(native, native', d),
         \A f \in Documents : native'.doc[f].alive = native.doc[f].alive,
         Unmoved, calls' = calls,
         \A q \in Executions :
           /\ native'.exec[q].owner = native.exec[q].owner
           /\ native'.exec[q].revision = native.exec[q].revision
           /\ native'.exec[q].phase = native.exec[q].phase
           /\ native'.exec[q].busy = native.exec[q].busy
           /\ native'.exec[q].results \subseteq native.exec[q].results
  PROVE  Steady(d)
<1>1. Sound(native) /\ Running /\ Objects
  BY DEF Base
<1>2. Sound(native')
  BY <1>1, SoundKeeps
<1>3. Running'
  BY <1>1, RunningSame
<1>4. Carried /\ Assigned
  BY DEF Carried, Assigned, Unmoved
<1> QED BY <1>2, <1>3, <1>4 DEF Steady

LEMMA BaseEdit ==
  ASSUME Base, NEW d \in Documents, Edited(native, native', d), Unmoved, calls' = calls,
         \A q \in Executions :
           /\ native'.exec[q].owner = native.exec[q].owner
           /\ native'.exec[q].revision = native.exec[q].revision
           /\ native'.exec[q].phase = native.exec[q].phase
           /\ native'.exec[q].busy = native.exec[q].busy
           /\ native'.exec[q].results \subseteq native.exec[q].results
  PROVE  Steady(d)
<1>1. /\ native' \in Natives /\ Heap(native') /\ Evolves(native, native', d)
      /\ \A f \in Documents : native'.doc[f].alive = native.doc[f].alive
  BY DEF Edited
<1> QED BY <1>1, BaseKept

LEMMA BaseParse ==
  ASSUME Base, NEW d \in Documents, document[d].state = "unborn", NEW k \in Nat,
         NEW at \in Chains(native, k), native' = NParse(native, d, at),
         \A e \in Documents \ {d} : document'[e].state = document[e].state,
         document'[d].state = "open", calls' = calls
  PROVE  /\ Steady(d) /\ native'.exec = native.exec
         /\ \A f \in Documents \ {d} : native'.doc[f] = native.doc[f]
         /\ native'.doc[d].callbacks = 0 /\ native'.doc[d].pending = 0
         /\ \A a \in Addresses : native.node[a].document # d
<1>1. Sound(native) /\ Running /\ Objects /\ Lifetimes /\ native \in Natives /\ Heap(native)
  BY DEF Base, Sound
<1>2. ~native.doc[d].alive /\ \A q \in Executions : native.exec[q].owner # d
  BY <1>1, NullApart DEF Lifetimes
<1>3. /\ native' \in Natives /\ Heap(native') /\ Evolves(native, native', d)
      /\ native'.exec = native.exec
      /\ native'.doc[d].alive /\ native'.doc[d].callbacks = 0 /\ native'.doc[d].pending = 0
      /\ \A f \in Documents \ {d} : native'.doc[f] = native.doc[f]
  BY <1>1, <1>2, ParseSound
<1>4. /\ native'.doc[d].alive /\ native'.doc[d].callbacks = 0 /\ native'.doc[d].pending = 0
  BY <1>3
<1>5. \A a \in Addresses : native.node[a].document # d
  BY <1>1, <1>2, NullApart DEF Heap, Placed
<1>6. \A q \in Executions :
        /\ native'.exec[q].owner = native.exec[q].owner
        /\ native'.exec[q].revision = native.exec[q].revision
        /\ native'.exec[q].phase = native.exec[q].phase
        /\ native'.exec[q].busy = native.exec[q].busy
        /\ native'.exec[q].results \subseteq native.exec[q].results
  BY <1>3
<1>7. Sound(native')
  BY <1>1, <1>2, <1>3, <1>6, SoundKeeps
<1>8. Running'
  BY <1>1, <1>6, RunningSame
<1>9. Carried /\ Assigned
  BY <1>3, <1>4 DEF Carried, Assigned
<1> QED BY <1>3, <1>4, <1>5, <1>7, <1>8, <1>9 DEF Steady

LEMMA BaseFree ==
  ASSUME Base, NEW d \in Documents, native' = Freed(native, d),
         \A e \in Documents \ {d} : document'[e].state = document[e].state,
         document'[d].state = "closed", calls' = calls
  PROVE  /\ Steady(d) /\ native'.exec = native.exec
         /\ \A f \in Documents \ {d} : native'.doc[f] = native.doc[f]
         /\ native'.doc[d].callbacks = 0 /\ native'.doc[d].pending = 0
<1>1. Sound(native) /\ Running /\ Objects /\ native \in Natives /\ Heap(native)
  BY DEF Base, Sound
<1>2. /\ native' \in Natives /\ Heap(native') /\ Evolves(native, native', d)
      /\ native'.exec = native.exec /\ native'.doc[d] = NoDocument
      /\ \A f \in Documents \ {d} : native'.doc[f] = native.doc[f]
  BY <1>1, FreedSound
<1>3. ~native'.doc[d].alive /\ native'.doc[d].callbacks = 0 /\ native'.doc[d].pending = 0
  BY <1>2 DEF NoDocument
<1>4. \A q \in Executions :
        /\ native'.exec[q].owner = native.exec[q].owner
        /\ native'.exec[q].revision = native.exec[q].revision
        /\ native'.exec[q].phase = native.exec[q].phase
        /\ native'.exec[q].busy = native.exec[q].busy
        /\ native'.exec[q].results \subseteq native.exec[q].results
  BY <1>2
<1>5. Sound(native')
  BY <1>1, <1>2, <1>3, <1>4, SoundKeeps
<1>6. Running'
  BY <1>1, <1>4, RunningSame
<1>7. Carried /\ Assigned
  BY <1>2 DEF Carried, Assigned
<1> QED BY <1>2, <1>3, <1>5, <1>6, <1>7 DEF Steady

\* Steps of one execution.
LEMMA BaseExec ==
  ASSUME Base, NEW q \in Executions, Sound(native'), ExecOnly(native, native', q),
         native'.exec[q].owner \in {NULL, native.exec[q].owner}, Unmoved, Running',
         NEW d \in Documents
  PROVE  Steady(d) /\ \A a \in Addresses : Same(native, native', a)
<1>1. native \in Natives /\ native' \in Natives
  BY DEF Base, Sound
<1>2. Shape(native, native')
  BY DEF ExecOnly, Shape
<1>3. Evolves(native, native', d)
  BY <1>1, <1>2, ShapeEvolves
<1>4. Carried /\ Assigned
  BY DEF ExecOnly, Carried, Assigned, Unmoved
<1>5. \A a \in Addresses : Same(native, native', a)
  BY DEF ExecOnly, Same
<1> QED BY <1>3, <1>4, <1>5 DEF Steady

LEMMA ExecIdle ==
  ASSUME Base, NEW q \in Executions, ExecOnly(native, native', q), calls' = calls,
         native.exec[q].busy => native'.exec[q].busy /\ native'.exec[q].owner = native.exec[q].owner
  PROVE  Running'
<1>1. Running /\ Objects
  BY DEF Base
<1>2. \A p \in Executions : native.exec[p].busy =>
           native'.exec[p].busy /\ native'.exec[p].owner = native.exec[p].owner
  BY DEF ExecOnly
<1> QED BY <1>1, <1>2, RunningSame

\* An evaluation is entered and left.
LEMMA BaseEvaluate ==
  ASSUME Base, NEW q \in Executions, NEW d \in Documents, document[d].state = "open",
         NEvaluates(native, q, d), native' = NEvaluate(native, q, d), Unmoved,
         NEW p \in BOOLEAN, calls' = Call(q, d, p)
  PROVE  /\ Steady(d) /\ calls' \in Seq(CallRecords)
         /\ \A a \in Addresses : Same(native, native', a)
         /\ \A r \in Executions \ {q} : native'.exec[r] = native.exec[r]
         /\ native'.exec[q].owner = d /\ native'.exec[q].phase = "fresh"
         /\ native'.doc[d].callbacks = native.doc[d].callbacks + 1
         /\ \A f \in Documents \ {d} : native'.doc[f] = native.doc[f]
         /\ native'.doc[d].pending = native.doc[d].pending
         /\ native'.doc[d].epoch = native.doc[d].epoch
<1>1. Sound(native) /\ Running /\ Objects /\ Lifetimes /\ native \in Natives
  BY DEF Base, Sound
<1>2. native.doc[d].alive
  BY <1>1 DEF Lifetimes
<1>3. /\ Sound(native') /\ Shape(native, native')
      /\ ~native.exec[q].busy /\ native'.exec[q].busy /\ native'.exec[q].owner = d
      /\ native'.exec[q].phase = "fresh"
      /\ \A r \in Executions \ {q} : native'.exec[r] = native.exec[r]
      /\ native'.doc[d].callbacks = native.doc[d].callbacks + 1
      /\ \A f \in Documents \ {d} : native'.doc[f] = native.doc[f]
      /\ native'.doc[d].pending = native.doc[d].pending
  BY <1>1, <1>2, EvaluateSound
<1>4. Running' /\ calls' \in Seq(CallRecords)
  BY <1>1, <1>3, RunningPushed
<1>5. native' \in Natives
  BY <1>3 DEF Sound
<1>6. Evolves(native, native', d)
  BY <1>1, <1>3, <1>5, ShapeEvolves
<1>7. Carried /\ Assigned
  BY <1>3 DEF Shape, Carried, Assigned, Unmoved
<1>8. \A a \in Addresses : Same(native, native', a)
  BY <1>3 DEF Shape, Same
<1>9. native'.doc[d].epoch = native.doc[d].epoch
  BY <1>3 DEF Shape
<1> QED BY <1>3, <1>4, <1>6, <1>7, <1>8, <1>9 DEF Steady

LEMMA BaseEvaluated ==
  ASSUME Base, calls # <<>>, NEW d \in Documents, Head(calls).document = d,
         NEW q \in Executions, Head(calls).execution = q,
         NEW ok \in BOOLEAN, NEW S \in SUBSET NodesOf(native, d),
         native' = NEvaluated(native, q, ok, S), Unmoved,
         native.doc[d].pending = 2 => document[d].state = "closed",
         calls' = Tail(calls)
  PROVE  /\ Steady(d) /\ calls' \in Seq(CallRecords)
         /\ \A r \in Executions \ {q} : native'.exec[r] = native.exec[r]
         /\ native.exec[q].owner = d
         /\ native'.exec[q].owner \in {d, NULL} /\ native'.exec[q].phase \in {"finished", "invalid"}
         /\ \A f \in Documents \ {d} : native'.doc[f] = native.doc[f]
         /\ native'.doc[d].pending = 2 => native.doc[d].pending = 2
         /\ native.doc[d].pending = 0 =>
              /\ \A a \in Addresses : Same(native, native', a)
              /\ native'.doc[d].revision = native.doc[d].revision
              /\ native'.doc[d].epoch = native.doc[d].epoch
              /\ native'.doc[d].callbacks = native.doc[d].callbacks - 1
              /\ native'.doc[d].pending = 0
<1>1. Sound(native) /\ Running /\ Objects /\ Lifetimes /\ native \in Natives
  BY DEF Base, Sound
<1>2. Head(calls) \in CallRecords /\ native.exec[q].owner = d
  <2>1. 1 \in 1 .. Len(calls) /\ Head(calls) = calls[1] /\ Head(calls) \in CallRecords
    BY <1>1, CallsPopped DEF Objects
  <2> QED BY <1>1, <2>1 DEF Running
<1>3. /\ Sound(native') /\ Evolves(native, native', d)
      /\ native'.exec[q].owner \in {d, NULL} /\ native'.exec[q].phase \in {"finished", "invalid"}
      /\ \A p \in Executions \ {q} : native'.exec[p] = native.exec[p]
      /\ \A f \in Documents \ {d} : native'.doc[f] = native.doc[f]
      /\ native'.doc[d].alive => native.doc[d].alive
      /\ native.doc[d].pending # 2 => native'.doc[d].alive = native.doc[d].alive
      /\ native'.doc[d].pending = 2 => native.doc[d].pending = 2
      /\ native.doc[d].pending = 0 =>
           /\ \A a \in Addresses : Same(native, native', a)
           /\ native'.doc[d].revision = native.doc[d].revision
           /\ native'.doc[d].epoch = native.doc[d].epoch
           /\ native'.doc[d].callbacks = native.doc[d].callbacks - 1
           /\ native'.doc[d].pending = 0
  BY <1>1, <1>2, EvaluatedSound
<1>4. Running' /\ calls' \in Seq(CallRecords)
  BY <1>1, <1>3, RunningPopped
<1>5. Carried /\ Assigned
  BY <1>2, <1>3 DEF Carried, Assigned, Unmoved
<1> QED BY <1>2, <1>3, <1>4, <1>5 DEF Steady

\* A step that does not reach the native library.
LEMMA BaseStill ==
  ASSUME Base, native' = native, Unmoved, calls' = calls, NEW d \in Documents
  PROVE  Steady(d) /\ \A a \in Addresses : Same(native, native', a)
<1>1. Sound(native) /\ Running /\ Objects /\ native \in Natives
  BY DEF Base, Sound
<1>2. Running'
  BY <1>1, RunningSame
<1>3. Shape(native, native')
  BY DEF Shape
<1>4. Evolves(native, native', d)
  BY <1>1, <1>3, ShapeEvolves
<1> QED BY <1>1, <1>2, <1>4 DEF Steady, Carried, Assigned, Unmoved, Same

\* The parent and the children of a node are of its document.
LEMMA RelatedIn ==
  ASSUME NEW n \in Natives, Heap(n), NEW d \in Documents, NEW b \in NodesOf(n, d),
         NEW a \in Related(n, b)
  PROVE  a \in NodesOf(n, d)
<1>1. b \in Addresses /\ n.node[b].document = d /\ Placed(n, b) /\ n.node[b] \in NodeRecords
  BY DEF NodesOf, Heap, Natives
<1>2. CASE a \in Addresses /\ n.node[a].parent = b
  <2>1. Placed(n, a) /\ b # NULL
    BY <1>1, <1>2, NullApart DEF Heap
  <2> QED BY <1>1, <1>2, <2>1 DEF Placed, NodesOf
<1>3. CASE a = n.node[b].parent /\ a # NULL
  BY <1>1, <1>3 DEF Placed, NodesOf, NodeRecords
<1> QED BY <1>2, <1>3 DEF Related

\* A step of execution q alone, which leaves its document or drops it.
Idled(q) == /\ Sound(native') /\ ExecOnly(native, native', q) /\ Running'
            /\ native'.exec[q].owner \in {NULL, native.exec[q].owner}
            /\ calls' \in Seq(CallRecords)

LEMMA NotRunning ==
  ASSUME Busy, Objects, NEW q \in Executions, ~execution[q].busy
  PROVE  \A i \in 1 .. Len(calls) : calls[i].execution # q
  BY DEF Busy

\* An execution that is not running is made, reset or freed.
LEMMA IdledSet ==
  ASSUME Base, NEW q \in Executions, \A i \in 1 .. Len(calls) : calls[i].execution # q,
         NEW z \in {Fresh, NoExec}, native' = [native EXCEPT !.exec[q] = z], calls' = calls
  PROVE  Idled(q) /\ native'.exec[q].owner = NULL
<1>1. Sound(native) /\ Running /\ Objects /\ calls \in Seq(CallRecords)
  BY DEF Base, Objects
<1>2. z \in ExecRecords /\ z.owner = NULL
  BY ExecConstants
<1>3. Sound(native') /\ ExecOnly(native, native', q) /\ native'.exec[q] = z
  BY <1>1, <1>2, ExecSound
<1>4. \A i \in 1 .. Len(calls) : calls[i].execution \in Executions \ {q}
  BY <1>1, CallEntry
<1>5. Running'
  BY <1>1, <1>3, <1>4 DEF Running, ExecOnly
<1> QED BY <1>1, <1>2, <1>3, <1>5 DEF Idled

\* An input is given to it.
LEMMA IdledWindow ==
  ASSUME Base, NEW q \in Executions, native' = [native EXCEPT !.exec[q].windows = @ + 1], calls' = calls
  PROVE  /\ Idled(q) /\ native'.exec[q].owner = native.exec[q].owner
         /\ native'.exec[q].phase = native.exec[q].phase
<1>1. Sound(native) /\ Running /\ Objects /\ calls \in Seq(CallRecords)
  BY DEF Base, Objects
<1>2. /\ Sound(native') /\ ExecOnly(native, native', q)
      /\ native'.exec[q].owner = native.exec[q].owner
      /\ native'.exec[q].phase = native.exec[q].phase /\ native'.exec[q].busy = native.exec[q].busy
  BY <1>1, WindowSound
<1>3. Running'
  BY <1>2, ExecIdle
<1> QED BY <1>1, <1>2, <1>3 DEF Idled

LEMMA IdledStill ==
  ASSUME Base, NEW q \in Executions, native' = native, calls' = calls
  PROVE  Idled(q)
<1>1. Sound(native) /\ Running /\ Objects /\ calls \in Seq(CallRecords)
  BY DEF Base, Objects
<1>2. Running'
  BY <1>1, RunningSame
<1> QED BY <1>1, <1>2 DEF Idled, ExecOnly

\* It is driven over its input, with a new part of it or not, and returns.
LEMMA IdledDrive ==
  ASSUME Base, NEW q \in Executions, NDrives(native, q) \/ NVisits(native, q),
         \/ native' = NDrive(native, q)
         \/ native' = NDrive([native EXCEPT !.exec[q].windows = @ + 1], q),
         NEW p \in BOOLEAN, calls' = Call(q, NULL, p)
  PROVE  Idled(q) /\ native'.exec[q].owner = NULL
<1>1. Sound(native) /\ Running /\ Objects
  BY DEF Base
<1>2. native.exec[q].owner = NULL /\ ~native.exec[q].busy
  BY <1>1, DrivenIsInput
<1>3. /\ Sound(native') /\ ExecOnly(native, native', q)
      /\ native'.exec[q].owner = NULL /\ native'.exec[q].busy
  <2>1. CASE native' = NDrive(native, q)
    BY <1>1, <1>2, <2>1, DriveSound
  <2>2. CASE native' = NDrive([native EXCEPT !.exec[q].windows = @ + 1], q)
    <3> DEFINE m == [native EXCEPT !.exec[q].windows = @ + 1]
    <3>1. Sound(m) /\ ExecOnly(native, m, q) /\ m.exec[q].owner = NULL
      BY <1>1, <1>2, WindowSound
    <3>2. native' = NDrive(m, q)
      BY <2>2
    <3> HIDE DEF m
    <3>3. /\ Sound(native') /\ ExecOnly(m, native', q)
          /\ native'.exec[q].owner = NULL /\ native'.exec[q].busy
      BY <3>1, <3>2, DriveSound
    <3> QED BY <3>1, <3>3 DEF ExecOnly
  <2> QED BY <2>1, <2>2
<1>4. Running' /\ calls' \in Seq(CallRecords)
  BY <1>1, <1>2, <1>3, RunningPushed DEF ExecOnly
<1> QED BY <1>3, <1>4 DEF Idled

LEMMA IdledDriven ==
  ASSUME Base, calls # <<>>, Head(calls).document = NULL, NEW q, Head(calls).execution = q,
         NEW phase \in Phases(native, q), native' = NDriven(native, q, phase), calls' = Tail(calls)
  PROVE  q \in Executions /\ Idled(q) /\ native'.exec[q].owner = NULL
<1>1. Sound(native) /\ Running /\ Objects
  BY DEF Base
<1>2. /\ q \in Executions /\ native.exec[q].owner = NULL
  <2>1. 1 \in 1 .. Len(calls) /\ Head(calls) = calls[1] /\ Head(calls) \in CallRecords
    BY <1>1, CallsPopped DEF Objects
  <2> QED BY <1>1, <2>1 DEF Running, CallRecords
<1>3. phase \in PhaseNames
  BY DEF Phases, PhaseNames
<1>4. Sound(native') /\ ExecOnly(native, native', q) /\ native'.exec[q].owner = NULL
  BY <1>1, <1>2, <1>3, DrivenSound
<1>5. Running' /\ calls' \in Seq(CallRecords)
  BY <1>1, <1>4, RunningPopped DEF ExecOnly
<1> QED BY <1>2, <1>4, <1>5 DEF Idled

\* An evaluation of a document in progress is one of an execution, of a document that was parsed.
LEMMA Innermost ==
  ASSUME Base, calls # <<>>
  PROVE  /\ Head(calls).execution \in Executions
         /\ Head(calls).document # NULL => /\ Head(calls).document \in Documents
                                           /\ document[Head(calls).document].state # "unborn"
<1>1. Objects /\ Running /\ Lifetimes
  BY DEF Base
<1>2. 1 \in 1 .. Len(calls) /\ Head(calls) = calls[1] /\ Head(calls) \in CallRecords
  BY <1>1, CallsPopped DEF Objects
<1>3. native.exec[Head(calls).execution].owner = Head(calls).document
  BY <1>1, <1>2 DEF Running
<1> QED BY <1>1, <1>2, <1>3 DEF Lifetimes, CallRecords

\* An execution whose results may be edited selects nodes of its document.
LEMMA Editable ==
  ASSUME NEW n, Sound(n), NEW q \in Executions, NEW d \in Documents, n.doc[d].alive,
         NPulls(n, q), n.exec[q].owner = d
  PROVE  n.exec[q].results \subseteq NodesOf(n, d)
  BY DEF Sound, Picked, NPulls

-----------------------------------------------------------------------------
(* What owns the program, the native executions and the native documents. *)

Opened == {q \in Executions : execution[q].open}
\* Every open execution owns the program, and so does the program's own object.
ProgramOwned ==
  /\ program \in [open : BOOLEAN, references : Int] /\ IsFiniteSet(Opened)
  /\ program.references = Cardinality(Opened) + (IF program.open THEN 1 ELSE 0)
\* An open execution has its native one, and pins whatever that one reads.
Leased(q) ==
  /\ execution[q].open => native.exec[q].phase # "none"
  /\ 0 <= native.exec[q].windows /\ native.exec[q].windows <= execution[q].pins
Lent == ProgramOwned /\ \A q \in Executions : Leased(q)
\* A native document belongs to its open object, or waits for the callback to return.
Held(d) == native.doc[d].alive <=> document[d].state = "open" \/ native.doc[d].pending = 2
Owned == Lent /\ \A d \in Documents : Held(d)

LEMMA OpenedSame ==
  ASSUME ProgramOwned, program' = program,
         \A q \in Executions : execution'[q].open = execution[q].open
  PROVE  ProgramOwned'
<1>1. Opened' = Opened
  BY DEF Opened
<1> QED BY <1>1 DEF ProgramOwned

LEMMA OpenedReleased ==
  ASSUME ProgramOwned, program.open, execution' = execution,
         program' = [open |-> FALSE, references |-> program.references - 1]
  PROVE  ProgramOwned'
<1>1. Opened' = Opened
  BY DEF Opened
<1>2. Cardinality(Opened) \in Nat
  BY FS_CardinalityType DEF ProgramOwned
<1> QED BY <1>1, <1>2 DEF ProgramOwned

LEMMA OpenedMore ==
  ASSUME ProgramOwned, Objects, NEW q \in Executions, ~execution[q].open,
         execution' = [execution EXCEPT ![q].open = TRUE],
         program' = [program EXCEPT !.references = @ + 1]
  PROVE  ProgramOwned'
<1>1. Opened' = Opened \cup {q} /\ q \notin Opened
  BY DEF Opened, Objects, ExecutionObjects
<1>2. Cardinality(Opened) \in Nat /\ IsFiniteSet(Opened)
  BY FS_CardinalityType DEF ProgramOwned
<1>3. IsFiniteSet(Opened') /\ Cardinality(Opened') = Cardinality(Opened) + 1
  BY <1>1, <1>2, FS_AddElement
<1> QED BY <1>2, <1>3 DEF ProgramOwned

LEMMA OpenedFewer ==
  ASSUME ProgramOwned, Objects, NEW q \in Executions, execution[q].open,
         execution' = [execution EXCEPT ![q] = [Idle EXCEPT !.invalid = TRUE]],
         program' = [program EXCEPT !.references = @ - 1]
  PROVE  ProgramOwned'
<1>1. Opened' = Opened \ {q} /\ q \in Opened
  BY DEF Opened, Objects, ExecutionObjects, Idle
<1>2. Cardinality(Opened) \in Nat /\ IsFiniteSet(Opened)
  BY FS_CardinalityType DEF ProgramOwned
<1>3. IsFiniteSet(Opened') /\ Cardinality(Opened') = Cardinality(Opened) - 1
  BY <1>1, <1>2, FS_RemoveElement
<1> QED BY <1>2, <1>3 DEF ProgramOwned

-----------------------------------------------------------------------------
\* A step that opens, closes, pins and lends nothing; and one that leaves the documents where
\* they are.
Unlent(q) ==
  /\ execution'[q].open = execution[q].open /\ execution'[q].pins = execution[q].pins
  /\ native'.exec[q].windows = native.exec[q].windows
  /\ native'.exec[q].phase = "none" => native.exec[q].phase = "none"
Unpinned == \A q \in Executions : /\ execution'[q].open = execution[q].open
                                  /\ execution'[q].pins = execution[q].pins
Undisposed ==
  \A d \in Documents : /\ native'.doc[d].alive = native.doc[d].alive
                       /\ native'.doc[d].pending = 2 <=> native.doc[d].pending = 2
                       /\ document'[d].state = document[d].state

LEMMA LentKept ==
  ASSUME Lent, program' = program, \A q \in Executions : Unlent(q)
  PROVE  Lent'
<1>1. ProgramOwned'
  BY OpenedSame DEF Lent, Unlent
<1>2. \A q \in Executions : Leased(q)'
  BY DEF Lent, Leased, Unlent
<1> QED BY <1>1, <1>2 DEF Lent

LEMMA LentStill ==
  ASSUME Lent, program' = program, Unpinned, native'.exec = native.exec
  PROVE  Lent'
<1>1. \A q \in Executions : Unlent(q)
  BY DEF Unlent, Unpinned
<1> QED BY <1>1, LentKept

LEMMA OwnedStays ==
  ASSUME Owned, Lent', Undisposed
  PROVE  Owned'
<1>1. \A d \in Documents : Held(d)'
  BY DEF Owned, Held, Undisposed
<1> QED BY <1>1 DEF Owned

\* A native edit; nothing else happens.
LEMMA LentEdited ==
  ASSUME Lent, program' = program, Unpinned, native'.exec = native.exec, Unmoved,
         \A d \in Documents : /\ native'.doc[d].alive = native.doc[d].alive
                              /\ native'.doc[d].pending = 2 <=> native.doc[d].pending = 2
  PROVE  Lent' /\ Undisposed
  BY LentStill DEF Undisposed, Unmoved

LEMMA LentErase ==
  ASSUME Sound(native), Lent, program' = program, Unpinned, Unmoved, NEW d \in Documents,
         NEW a \in NodesOf(native, d), native' = NErase(native, a)
  PROVE  Lent' /\ Undisposed
<1>1. native \in Natives /\ Heap(native) /\ native.node[a].document = d
  BY DEF Sound, NodesOf
<1>2. CASE native.doc[d].callbacks > 0
  <2>1. native' = ErasePending(native, d, a)
    BY <1>1, <1>2 DEF NErase, ErasePending
  <2>2. /\ native'.exec = native.exec
        /\ \A f \in Documents : /\ native'.doc[f].alive = native.doc[f].alive
                                /\ native'.doc[f].pending = 2 <=> native.doc[f].pending = 2
    BY <1>1, <2>1, MarkSound
  <2> QED BY <2>2, LentEdited
<1>3. CASE ~(native.doc[d].callbacks > 0)
  <2>1. native' = Erased(native, a)
    BY <1>1, <1>3 DEF NErase
  <2>2. Edited(native, native', d) /\ native'.exec = native.exec
    BY <1>1, <2>1, ErasedSound
  <2> QED BY <2>2, LentEdited DEF Edited
<1> QED BY <1>2, <1>3

\* A document is parsed, and freed.
LEMMA OwnedParse ==
  ASSUME Base, Owned, program' = program, execution' = execution, NEW d \in Documents,
         document[d].state = "unborn", NEW k \in Nat, NEW at \in Chains(native, k),
         native' = NParse(native, d, at), document' = [document EXCEPT ![d].state = "open"]
  PROVE  Owned'
<1>1. native \in Natives /\ Heap(native) /\ ~native.doc[d].alive
  BY DEF Base, Sound, Lifetimes
<1>2. /\ native'.exec = native.exec /\ native'.doc[d].alive
      /\ \A f \in Documents \ {d} : native'.doc[f] = native.doc[f]
  BY <1>1, ParseSound
<1>3. document'[d].state = "open" /\ \A e \in Documents \ {d} : document'[e] = document[e]
  BY DEF Base, Objects, DocumentObjects
<1>4. \A e \in Documents : Held(e)'
  BY <1>2, <1>3 DEF Owned, Held
<1> QED BY <1>2, <1>4, LentStill DEF Unpinned, Owned

LEMMA OwnedFree ==
  ASSUME Base, Owned, program' = program, execution' = execution, NEW d \in Documents,
         document[d].state = "open", native' = NFree(native, d), document'[d].state = "closed",
         \A e \in Documents \ {d} : document'[e].state = document[e].state
  PROVE  Owned'
<1>1. native \in Natives /\ Heap(native) /\ native.doc[d].alive
  BY DEF Base, Sound, Lifetimes
<1>2. /\ native'.exec = native.exec /\ \A f \in Documents \ {d} : native'.doc[f] = native.doc[f]
      /\ native'.doc[d].alive <=> native'.doc[d].pending = 2
  <2>1. CASE native.doc[d].callbacks > 0
    <3>1. native' = [native EXCEPT !.doc[d].pending = 2]
      BY <2>1 DEF NFree
    <3>2. /\ Shape(native, native') /\ native'.exec = native.exec /\ native'.doc[d].pending = 2
          /\ \A f \in Documents \ {d} : native'.doc[f] = native.doc[f]
      BY <1>1, <3>1, WaitSound
    <3> QED BY <1>1, <3>2 DEF Shape
  <2>2. CASE ~(native.doc[d].callbacks > 0)
    <3>1. native' = Freed(native, d)
      BY <2>2 DEF NFree
    <3>2. /\ native'.exec = native.exec /\ native'.doc[d] = NoDocument
          /\ \A f \in Documents \ {d} : native'.doc[f] = native.doc[f]
      BY <1>1, <3>1, FreedSound
    <3> QED BY <3>2 DEF NoDocument
  <2> QED BY <2>1, <2>2
<1>3. \A e \in Documents : Held(e)'
  BY <1>2 DEF Owned, Held
<1> QED BY <1>2, <1>3, LentStill DEF Unpinned, Owned

-----------------------------------------------------------------------------
\* Steps of one execution.
LEMMA LentExec ==
  ASSUME Lent, NEW q \in Executions, ProgramOwned', Leased(q)',
         \A p \in Executions \ {q} : execution'[p] = execution[p] /\ native'.exec[p] = native.exec[p]
  PROVE  Lent'
<1>1. \A p \in Executions : Leased(p)'
  BY DEF Lent, Leased
<1> QED BY <1>1 DEF Lent

\* An execution is made, closed and reset.
LEMMA LentCreate ==
  ASSUME Lent, Objects, NEW q \in Executions, execution[q] = Idle, native'.exec[q] = Fresh,
         \A p \in Executions \ {q} : native'.exec[p] = native.exec[p],
         execution' = [execution EXCEPT ![q].open = TRUE],
         program' = [program EXCEPT !.references = @ + 1]
  PROVE  Lent'
<1>1. /\ execution'[q].pins = execution[q].pins
      /\ \A p \in Executions \ {q} : execution'[p] = execution[p]
  BY DEF Objects, ExecutionObjects
<1>2. Fresh.phase # "none" /\ Fresh.windows = 0 /\ ~execution[q].open /\ execution[q].pins = 0
  BY DEF Fresh, NoExec, Idle
<1>3. ProgramOwned'
  BY <1>2, OpenedMore DEF Lent
<1>4. Leased(q)'
  BY <1>1, <1>2 DEF Leased
<1> QED BY <1>1, <1>3, <1>4, LentExec

LEMMA LentDispose ==
  ASSUME Lent, Objects, NEW q \in Executions, execution[q].open, native'.exec[q] = NoExec,
         \A p \in Executions \ {q} : native'.exec[p] = native.exec[p],
         execution' = [execution EXCEPT ![q] = [Idle EXCEPT !.invalid = TRUE]],
         program' = [program EXCEPT !.references = @ - 1]
  PROVE  Lent'
<1>1. /\ execution'[q] = [Idle EXCEPT !.invalid = TRUE]
      /\ \A p \in Executions \ {q} : execution'[p] = execution[p]
  BY DEF Objects
<1>2. ProgramOwned'
  BY OpenedFewer DEF Lent
<1>3. Leased(q)'
  BY <1>1 DEF Leased, NoExec, Idle
<1> QED BY <1>1, <1>2, <1>3, LentExec

LEMMA LentReset ==
  ASSUME Lent, Objects, native \in Natives, NEW q \in Executions, execution[q].open,
         native'.exec[q] = Fresh, program' = program,
         \A p \in Executions \ {q} : native'.exec[p] = native.exec[p],
         execution' \in {execution, [execution EXCEPT ![q] = [Idle EXCEPT !.open = TRUE]]}
  PROVE  Lent'
<1>1. /\ execution'[q].open = execution[q].open /\ execution'[q].pins \in {execution[q].pins, 0}
      /\ \A p \in Executions \ {q} : execution'[p] = execution[p]
  BY DEF Objects, ExecutionObjects, Idle
<1>2. ProgramOwned'
  BY <1>1, OpenedSame DEF Lent
<1>3. Leased(q) /\ Fresh.phase # "none" /\ Fresh.windows = 0
      /\ execution[q].pins \in Int /\ native.exec[q].windows \in Int
  BY DEF Lent, Fresh, NoExec, Natives, ExecRecords, Objects, ExecutionObjects
<1>4. Leased(q)'
  BY <1>1, <1>3 DEF Leased
<1> QED BY <1>1, <1>2, <1>4, LentExec

\* The native execution that is made or freed is the only one touched.
LEMMA ExecReplaced ==
  ASSUME Sound(native), NEW q \in Executions, NEW z \in {Fresh, NoExec},
         native' = [native EXCEPT !.exec[q] = z], Unmoved
  PROVE  /\ Undisposed /\ native'.exec[q] = z
         /\ \A p \in Executions \ {q} : native'.exec[p] = native.exec[p]
<1>1. ExecOnly(native, native', q) /\ native'.exec[q] = z
  BY ExecConstants, ExecSound
<1> QED BY <1>1 DEF ExecOnly, Undisposed, Unmoved

\* It keeps what it has, and may be lent a part of its input that was pinned.
LEMMA LentMore ==
  ASSUME Sound(native), Objects, Lent, Unmoved, NEW q \in Executions, ExecOnly(native, native', q),
         program' = program, execution'[q].open = execution[q].open,
         \A p \in Executions \ {q} : execution'[p] = execution[p],
         native'.exec[q].phase = "none" => native.exec[q].phase = "none",
         \/ /\ native'.exec[q].windows = native.exec[q].windows
            /\ execution'[q].pins \in {execution[q].pins, execution[q].pins + 1}
         \/ /\ native'.exec[q].windows = native.exec[q].windows + 1
            /\ execution'[q].pins = execution[q].pins + 1
  PROVE  Lent' /\ Undisposed
<1>1. ProgramOwned'
  BY OpenedSame DEF Lent
<1>2. Leased(q) /\ execution[q].pins \in Int /\ native.exec[q].windows \in Int
  BY DEF Lent, Sound, Natives, ExecRecords, Objects, ExecutionObjects
<1>3. Leased(q)'
  BY <1>2 DEF Leased
<1>4. Lent'
  BY <1>1, <1>3, LentExec DEF ExecOnly
<1> QED BY <1>4 DEF ExecOnly, Undisposed, Unmoved

\* The program's own object lets go.
LEMMA LentRelease ==
  ASSUME Lent, native' = native, execution' = execution, program.open,
         program' = [open |-> FALSE, references |-> program.references - 1]
  PROVE  Lent'
<1>1. ProgramOwned'
  BY OpenedReleased DEF Lent
<1> QED BY <1>1 DEF Lent, Leased

\* An execution is driven over its input and returns.
LEMMA LentDrive ==
  ASSUME Sound(native), Objects, Lent, Unmoved, NEW q \in Executions, NDrives(native, q) \/ NVisits(native, q),
         native' = NDrive(native, q), program' = program, Unpinned,
         \A p \in Executions \ {q} : execution'[p] = execution[p]
  PROVE  Lent' /\ Undisposed
<1>1. native.exec[q].owner = NULL
  BY DrivenIsInput
<1>2. /\ ExecOnly(native, native', q) /\ native'.exec[q].phase = native.exec[q].phase
      /\ native'.exec[q].windows = native.exec[q].windows
  BY <1>1, DriveSound
<1> QED BY <1>2, LentMore DEF Unpinned

LEMMA LentFeed ==
  ASSUME Sound(native), Objects, Lent, Unmoved, NEW q \in Executions, program' = program,
         execution'[q].open = execution[q].open, execution'[q].pins = execution[q].pins + 1,
         \A p \in Executions \ {q} : execution'[p] = execution[p],
         native' = IF NDrives(native, q)
                   THEN NDrive([native EXCEPT !.exec[q].windows = @ + 1], q) ELSE native
  PROVE  Lent' /\ Undisposed
<1>1. CASE ~NDrives(native, q)
  <2>1. native' = native
    BY <1>1
  <2> QED BY <2>1, LentMore DEF ExecOnly
<1>2. CASE NDrives(native, q)
  <2> DEFINE m == [native EXCEPT !.exec[q].windows = @ + 1]
  <2>1. native.exec[q].owner = NULL
    BY <1>2, DrivenIsInput
  <2>2. /\ Sound(m) /\ ExecOnly(native, m, q) /\ m.exec[q].owner = NULL
        /\ m.exec[q].phase = native.exec[q].phase /\ m.exec[q].windows = native.exec[q].windows + 1
    BY <2>1, WindowSound
  <2>3. native' = NDrive(m, q)
    BY <1>2
  <2> HIDE DEF m
  <2>4. /\ ExecOnly(m, native', q) /\ native'.exec[q].phase = m.exec[q].phase
        /\ native'.exec[q].windows = m.exec[q].windows
    BY <2>2, <2>3, DriveSound
  <2>5. ExecOnly(native, native', q)
    BY <2>2, <2>4 DEF ExecOnly
  <2> QED BY <2>2, <2>4, <2>5, LentMore
<1> QED BY <1>1, <1>2

LEMMA LentDriven ==
  ASSUME Sound(native), Objects, Lent, Unmoved, NEW q \in Executions, native.exec[q].owner = NULL,
         NEW phase \in Phases(native, q),
         native' = NDriven(native, q, phase), program' = program, Unpinned,
         \A p \in Executions \ {q} : execution'[p] = execution[p]
  PROVE  Lent' /\ Undisposed
<1>1. phase \in PhaseNames /\ phase # "none"
  BY DEF Phases, PhaseNames
<1>2. /\ ExecOnly(native, native', q) /\ native'.exec[q].phase = phase
      /\ native'.exec[q].windows = native.exec[q].windows
  BY <1>1, DrivenSound
<1> QED BY <1>1, <1>2, LentMore DEF Unpinned

LEMMA DrivenInput ==
  ASSUME Base, calls # <<>>, Head(calls).document = NULL, NEW q, Head(calls).execution = q
  PROVE  q \in Executions /\ native.exec[q].owner = NULL
<1>1. Objects /\ Running
  BY DEF Base
<1>2. 1 \in 1 .. Len(calls) /\ Head(calls) = calls[1] /\ Head(calls) \in CallRecords
  BY <1>1, CallsPopped DEF Objects
<1> QED BY <1>1, <1>2 DEF Running, CallRecords

\* A selected node is taken from it.
LEMMA LentPull ==
  ASSUME Sound(native), Objects, Lent, Unmoved, NEW q \in Executions, NEW a, native' = NPull(native, q, a),
         program' = program, execution' = execution
  PROVE  Lent' /\ Undisposed
<1>1. /\ ExecOnly(native, native', q) /\ native'.exec[q].phase = native.exec[q].phase
      /\ native'.exec[q].windows = native.exec[q].windows
  BY PullKeepsSound
<1> QED BY <1>1, LentMore

\* A document is evaluated, and the evaluation returns: what waited for it goes.
LEMMA LentEvaluate ==
  ASSUME Sound(native), Lent, Unmoved, NEW q \in Executions, NEW d \in Documents, native.doc[d].alive,
         NEvaluates(native, q, d), native' = NEvaluate(native, q, d), program' = program, Unpinned
  PROVE  Lent' /\ Undisposed
<1>1. /\ Shape(native, native') /\ native'.exec[q].phase = "fresh"
      /\ native'.exec[q].windows = native.exec[q].windows
      /\ \A p \in Executions \ {q} : native'.exec[p] = native.exec[p]
      /\ \A f \in Documents \ {d} : native'.doc[f] = native.doc[f]
      /\ native'.doc[d].pending = native.doc[d].pending
  BY EvaluateSound
<1>2. \A p \in Executions : Unlent(p)
  BY <1>1 DEF Unlent, Unpinned
<1>3. Lent'
  BY <1>2, LentKept
<1> QED BY <1>1, <1>3 DEF Undisposed, Unmoved, Shape

LEMMA LentEvaluated ==
  ASSUME Sound(native), Lent, NEW q \in Executions, NEW d \in Documents, native.exec[q].owner = d,
         NEW ok \in BOOLEAN, NEW S \in SUBSET NodesOf(native, d), native' = NEvaluated(native, q, ok, S),
         program' = program, Unpinned
  PROVE  Lent'
<1>1. /\ native'.exec[q].phase \in {"finished", "invalid"}
      /\ native'.exec[q].windows = native.exec[q].windows
      /\ \A p \in Executions \ {q} : native'.exec[p] = native.exec[p]
  BY EvaluatedSound
<1>2. \A p \in Executions : Unlent(p)
  BY <1>1 DEF Unlent, Unpinned
<1> QED BY <1>2, LentKept

LEMMA OwnedEvaluated ==
  ASSUME Base, Owned, Unmoved, calls # <<>>, NEW d, d # NULL, Head(calls).document = d,
         NEW q, Head(calls).execution = q,
         NEW ok \in BOOLEAN, NEW S \in SUBSET NodesOf(native, d), native' = NEvaluated(native, q, ok, S),
         native.doc[d].pending = 2 => document[d].state # "open", program' = program, Unpinned
  PROVE  Owned'
<1>1. Sound(native) /\ Running /\ Objects
  BY DEF Base
<1>2. q \in Executions /\ d \in Documents
  BY Innermost
<1>3. native.exec[q].owner = d
  <2>1. 1 \in 1 .. Len(calls) /\ Head(calls) = calls[1]
    BY <1>1, CallsPopped DEF Objects
  <2> QED BY <1>1, <2>1 DEF Running
<1>4. /\ \A f \in Documents \ {d} : native'.doc[f] = native.doc[f]
      /\ native.doc[d].pending # 2 => native'.doc[d].alive = native.doc[d].alive
      /\ native'.doc[d].pending = 2 => native.doc[d].pending = 2
      /\ native.doc[d].pending = 2 => (native'.doc[d].alive <=> native.doc[d].alive /\ native'.doc[d].pending = 2)
  BY <1>1, <1>2, <1>3, EvaluatedSound
<1>5. Lent'
  BY <1>1, <1>2, <1>3, LentEvaluated DEF Owned
<1>6. Held(d)'
  BY <1>2, <1>4 DEF Held, Unmoved, Owned
<1>7. \A e \in Documents \ {d} : Held(e)'
  BY <1>4 DEF Held, Unmoved, Owned
<1> QED BY <1>5, <1>6, <1>7 DEF Owned

\* Its selection is edited.
LEMMA LentEdits ==
  ASSUME Sound(native), Lent, Unmoved, NEW q \in Executions, NEW d \in Documents, native.doc[d].alive,
         NEditable(native, q, d), NEW r \in NEdits(native, q, d), native' = r.native,
         program' = program, execution' = execution
  PROVE  Lent' /\ Undisposed
<1>1. native \in Natives /\ Heap(native)
  BY DEF Sound
<1>2. native.exec[q].results \subseteq NodesOf(native, d)
  BY Editable DEF NEditable
<1>3. /\ Edited(native, native', d)
      /\ native'.exec[q].phase = native.exec[q].phase /\ native'.exec[q].windows = native.exec[q].windows
      /\ \A p \in Executions \ {q} : native'.exec[p] = native.exec[p]
  BY <1>1, <1>2, EditsSound
<1>4. \A p \in Executions : Unlent(p)
  BY <1>3 DEF Unlent
<1>5. Lent'
  BY <1>4, LentKept
<1> QED BY <1>3, <1>5 DEF Undisposed, Unmoved, Edited

\* An open execution has the program and its native one, pins what that reads, and no node is in a
\* document that is gone.
LEMMA LentSafe ==
  ASSUME Sound(native), Objects, Lent
  PROVE  /\ \A q \in Executions :
              /\ execution[q].open => program.references > 0 /\ native.exec[q].phase # "none"
              /\ execution[q].pins >= native.exec[q].windows
         /\ program.references = Cardinality(Opened) + (IF program.open THEN 1 ELSE 0)
         /\ \A a \in Live(native) : native.doc[native.node[a].document].alive
<1>1. native \in Natives /\ Heap(native)
  BY DEF Sound
<1>2. Cardinality(Opened) \in Nat /\ ProgramOwned /\ IsFiniteSet(Opened)
  BY FS_CardinalityType DEF Lent, ProgramOwned
<1>3. ASSUME NEW q \in Executions
      PROVE  /\ execution[q].open => program.references > 0 /\ native.exec[q].phase # "none"
             /\ execution[q].pins >= native.exec[q].windows
  <2>1. Leased(q)
    BY DEF Lent
  <2>2. ASSUME execution[q].open PROVE program.references > 0
    <3>1. q \in Opened
      BY <2>2 DEF Opened
    <3>2. Cardinality(Opened) # 0
      BY <1>2, <3>1, FS_EmptySet
    <3> QED BY <1>2, <3>2 DEF ProgramOwned
  <2>3. execution[q].pins \in Int /\ native.exec[q].windows \in Int
    BY <1>1 DEF Natives, ExecRecords, Objects, ExecutionObjects
  <2> QED BY <2>1, <2>2, <2>3 DEF Leased
<1>4. \A a \in Live(native) : native.doc[native.node[a].document].alive
  BY <1>1 DEF Live, Heap, Placed
<1> QED BY <1>2, <1>3, <1>4 DEF ProgramOwned

-----------------------------------------------------------------------------
(* Where executions own documents too, each document counts its owners. *)

Holders(d) == {q \in Executions : execution[q].holds = d}
\* It has as many as it counts, and is there while it has one.
Shared(d) ==
  /\ IsFiniteSet(Holders(d))
  /\ document[d].references = Cardinality(Holders(d)) + (IF document[d].state = "open" THEN 1 ELSE 0)
  /\ native.doc[d].alive <=> document[d].references > 0
Sharing == \A d \in Documents : Shared(d)
\* The document whose nodes an execution selected is the one it owns.
Clung == \A q \in Executions : native.exec[q].owner # NULL => execution[q].holds = native.exec[q].owner

LEMMA HoldersCounted ==
  ASSUME NEW d \in Documents, Shared(d)
  PROVE  /\ Cardinality(Holders(d)) \in Nat
         /\ \A q \in Holders(d) : Cardinality(Holders(d)) > 0
  BY FS_CardinalityType, FS_EmptySet DEF Shared

\* The document of an execution is there.
LEMMA HeldAlive ==
  ASSUME Sharing, NEW q \in Executions, NEW d \in Documents, execution[q].holds = d
  PROVE  native.doc[d].alive
<1>1. Shared(d) /\ q \in Holders(d)
  BY DEF Sharing, Holders
<1>2. Cardinality(Holders(d)) \in Nat /\ Cardinality(Holders(d)) > 0
  BY <1>1, HoldersCounted
<1> QED BY <1>1, <1>2 DEF Shared

LEMMA HoldersSame ==
  ASSUME \A q \in Executions : execution'[q].holds = execution[q].holds, NEW d
  PROVE  Holders(d)' = Holders(d)
  BY DEF Holders

LEMMA SharedSame ==
  ASSUME NEW d \in Documents, Shared(d), Holders(d)' = Holders(d),
         document'[d].state = document[d].state, document'[d].references = document[d].references,
         native'.doc[d].alive = native.doc[d].alive
  PROVE  Shared(d)'
  BY DEF Shared

LEMMA SharingSame ==
  ASSUME Sharing, \A q \in Executions : execution'[q].holds = execution[q].holds,
         \A d \in Documents : /\ document'[d].state = document[d].state
                              /\ document'[d].references = document[d].references
                              /\ native'.doc[d].alive = native.doc[d].alive
  PROVE  Sharing'
  BY HoldersSame, SharedSame DEF Sharing

LEMMA SharingParse ==
  ASSUME Sharing, Lifetimes, Objects, NEW d \in Documents, document[d].state = "unborn",
         execution' = execution, document'[d].state = "open", document'[d].references = 1,
         native'.doc[d].alive,
         \A e \in Documents \ {d} : document'[e] = document[e] /\ native'.doc[e] = native.doc[e]
  PROVE  Sharing'
<1>1. \A e \in Documents : Shared(e) /\ Holders(e)' = Holders(e)
  BY HoldersSame DEF Sharing
<1>2. \A e \in Documents \ {d} : Shared(e)'
  BY <1>1, SharedSame
<1>3. Cardinality(Holders(d)) \in Nat /\ ~native.doc[d].alive
  BY <1>1, HoldersCounted DEF Lifetimes
<1>4. Shared(d)'
  BY <1>1, <1>3 DEF Shared
<1> QED BY <1>2, <1>4 DEF Sharing

\* Its own object lets go of it; and an execution does.
LEMMA SharingClose ==
  ASSUME Sharing, Objects, NEW d \in Documents, document[d].state = "open", execution' = execution,
         document'[d].state = "closed", document'[d].references = document[d].references - 1,
         native'.doc[d].alive <=> document[d].references # 1,
         \A e \in Documents \ {d} : document'[e] = document[e] /\ native'.doc[e] = native.doc[e]
  PROVE  Sharing'
<1>1. \A e \in Documents : Shared(e) /\ Holders(e)' = Holders(e)
  BY HoldersSame DEF Sharing
<1>2. \A e \in Documents \ {d} : Shared(e)'
  BY <1>1, SharedSame
<1>3. Cardinality(Holders(d)) \in Nat
  BY <1>1, HoldersCounted
<1>4. Shared(d)'
  BY <1>1, <1>3 DEF Shared
<1> QED BY <1>2, <1>4 DEF Sharing

LEMMA SharingDrop ==
  ASSUME Sharing, Objects, NEW q \in Executions, execution'[q].holds = NULL,
         \A p \in Executions \ {q} : execution'[p] = execution[p],
         NEW d \in Documents, execution[q].holds = d, document'[d].state = document[d].state,
         document'[d].references = document[d].references - 1,
         native'.doc[d].alive <=> document[d].references # 1,
         \A e \in Documents \ {d} : document'[e] = document[e] /\ native'.doc[e] = native.doc[e]
  PROVE  Sharing'
<1>1. Holders(d)' = Holders(d) \ {q} /\ q \in Holders(d) /\ \A e \in Documents \ {d} : Holders(e)' = Holders(e)
  BY NullApart DEF Holders
<1>2. \A e \in Documents \ {d} : Shared(e)'
  BY <1>1, SharedSame DEF Sharing
<1>3. Shared(d) /\ Cardinality(Holders(d)) \in Nat /\ Cardinality(Holders(d)) > 0
  BY <1>1, HoldersCounted DEF Sharing
<1>4. IsFiniteSet(Holders(d)') /\ Cardinality(Holders(d)') = Cardinality(Holders(d)) - 1
  BY <1>1, <1>3, FS_RemoveElement DEF Shared
<1>5. Shared(d)'
  BY <1>3, <1>4 DEF Shared
<1> QED BY <1>2, <1>5 DEF Sharing

\* An execution takes it.
LEMMA SharingHold ==
  ASSUME Sharing, Objects, NEW q \in Executions, execution[q].holds = NULL,
         NEW d \in Documents, document[d].state = "open", execution'[q].holds = d,
         \A p \in Executions \ {q} : execution'[p] = execution[p],
         document'[d].state = document[d].state,
         document'[d].references = document[d].references + 1,
         \A e \in Documents \ {d} : document'[e] = document[e],
         \A e \in Documents : native'.doc[e].alive = native.doc[e].alive
  PROVE  Sharing'
<1>1. Holders(d)' = Holders(d) \cup {q} /\ q \notin Holders(d) /\ \A e \in Documents \ {d} : Holders(e)' = Holders(e)
  BY NullApart DEF Holders
<1>2. \A e \in Documents \ {d} : Shared(e)'
  BY <1>1, SharedSame DEF Sharing
<1>3. Shared(d) /\ Cardinality(Holders(d)) \in Nat
  BY HoldersCounted DEF Sharing
<1>4. IsFiniteSet(Holders(d)') /\ Cardinality(Holders(d)') = Cardinality(Holders(d)) + 1
  BY <1>1, <1>3, FS_AddElement DEF Shared
<1>5. Shared(d)'
  BY <1>3, <1>4 DEF Shared
<1> QED BY <1>2, <1>5 DEF Sharing
=============================================================================
