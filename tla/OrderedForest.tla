---------------------------- MODULE OrderedForest ----------------------------
(***************************************************************************)
(* What include/tlv/document/document.h promises of a document, without     *)
(* pointers, memory or limits: an ordered forest of nodes named by their    *)
(* identities, where an edit succeeds completely or changes nothing, the    *)
(* revision counts the edits, the retirement epoch counts those that took   *)
(* nodes away, and an identity is never used again.  Identity 0 stands for  *)
(* the document itself.                                                     *)
(***************************************************************************)
EXTENDS Integers, Sequences, FiniteSets, SequencesExt

VARIABLES
  alive,      \* there is a document
  kids,       \* for 0 and every node, its children in order
  revision,
  epoch,
  spent       \* identities up to this one are used up

vars == <<alive, kids, revision, epoch, spent>>

None == [n \in {0} |-> <<>>]
Init == alive = FALSE /\ kids = None /\ revision = 0 /\ epoch = 0 /\ spent = 0

\* n and everything below it.
Below(k, n) ==
  LET Down[i \in Nat, m \in DOMAIN k] ==
        IF i = 0 THEN {m} ELSE {m} \cup UNION {Down[i - 1, c] : c \in ToSet(k[m])}
  IN  Down[Cardinality(DOMAIN k), n]

\* Every node is the child of exactly one node, once, and is reached from the document.
Forest(k) ==
  /\ Below(k, 0) = DOMAIN k
  /\ \A m, n \in DOMAIN k : \A i \in DOMAIN k[m] : \A j \in DOMAIN k[n] :
       k[m][i] = k[n][j] => m = n /\ i = j

\* Nodes may only be added under identities not spent before.
Grows == /\ spent' >= spent
         /\ DOMAIN kids' \ DOMAIN kids \subseteq spent + 1 .. spent'
         /\ Forest(kids')

SameElsewhere(changed) ==
  \A m \in (DOMAIN kids \cap DOMAIN kids') \ changed : kids'[m] = kids[m]

Create == /\ ~alive /\ alive' = TRUE
          /\ revision' = 0 /\ epoch' = 0
          /\ Forest(kids') /\ DOMAIN kids' \subseteq 0 .. spent'

Destroy == /\ alive /\ alive' = FALSE
           /\ kids' = None /\ revision' = 0 /\ epoch' = 0 /\ spent' = 0

\* One new node with all its descendants, somewhere among the children of p.
Graft(p) ==
  /\ DOMAIN kids \subseteq DOMAIN kids'
  /\ \E i \in 1 .. Len(kids[p]) + 1 : \E n \in DOMAIN kids' \ DOMAIN kids :
       /\ kids'[p] = InsertAt(kids[p], i, n)
       /\ DOMAIN kids' = DOMAIN kids \cup Below(kids', n)
  /\ SameElsewhere({p}) /\ Grows
  /\ epoch' = epoch

\* A node and everything below it goes.
Prune(n) ==
  /\ DOMAIN kids' = DOMAIN kids \ Below(kids, n)
  /\ \A m \in DOMAIN kids' : kids'[m] = SelectSeq(kids[m], LAMBDA c : c # n)
  /\ epoch' = epoch + 1 /\ spent' = spent

\* A node's value is replaced: its children by new ones, or its bytes.
Revalue(n) ==
  /\ DOMAIN kids' \cap Below(kids, n) = {n}
  /\ DOMAIN kids' = (DOMAIN kids \ Below(kids, n)) \cup Below(kids', n)
  /\ SameElsewhere({n}) /\ Grows
  /\ epoch' = IF kids[n] = <<>> THEN epoch ELSE epoch + 1

Edit == /\ alive /\ alive' /\ revision' = revision + 1
        /\ \/ \E p \in DOMAIN kids : Graft(p)
           \/ \E n \in DOMAIN kids \ {0} : Prune(n) \/ Revalue(n)

\* An edit that fails may have used up identities, nothing else.
Fail == alive /\ UNCHANGED <<alive, kids, revision, epoch>> /\ spent' >= spent

Next == Create \/ Destroy \/ Edit \/ Fail

Spec == Init /\ [][Next]_vars
=============================================================================
