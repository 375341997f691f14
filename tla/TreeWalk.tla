------------------------------ MODULE TreeWalk ------------------------------
(***************************************************************************)
(* What a tree reader promises (include/tlv/reader/tree.h): the nodes of    *)
(* one byte stream in preorder, each exactly once, except the descendants   *)
(* of a node the caller cut off, then one verdict.  The tree is the         *)
(* recursive reading of the whole stream: no windows, frames or events.     *)
(***************************************************************************)
EXTENDS Integers, Sequences

CONSTANTS
  Streams,
  Decode(_, _, _)   \* tlv_format_decode on the bytes i+1 .. j of stream s, i < j

VARIABLES
  stream,    \* the logical stream
  nodes,     \* history: the nodes handed out; `cut' marks a subtree the caller skipped
  outcome    \* the verdict where the walk stands [rc, loc]; rc = "OPEN" when it can go on

vars == <<stream, nodes, outcome>>

Open == [rc |-> "OPEN", loc |-> {}]

\* The entries of a scope of s, the bytes at+1 .. end: its nodes with their descendants, and
\* where decoding fails the error, which ends the scope.
Entries(s) ==
  LET Scope[w \in [at : 0 .. Len(s), end : 0 .. Len(s), depth : Nat]] ==
        LET d       == Decode(s, w.at, w.end)
            valueAt == w.at + d.value.offset
        IN  IF w.at >= w.end THEN {}
            ELSE {[offset |-> w.at, depth |-> w.depth, source |-> d, end |-> w.end]} \cup
                 IF d.rc # "OK" THEN {}
                 ELSE Scope[[at |-> w.at + d.size, end |-> w.end, depth |-> w.depth]] \cup
                      (IF d.constructed
                         THEN Scope[[at |-> valueAt, end |-> valueAt + d.value.size,
                                     depth |-> w.depth + 1]]
                         ELSE {})
  IN  Scope[[at |-> 0, end |-> Len(s), depth |-> 0]]

\* Where the walk goes on: past the last node's own start, or past all of a cut one.
Resume == IF nodes = <<>> THEN 0
          ELSE LET n == nodes[Len(nodes)]
               IN  IF n.cut THEN n.offset + n.source.size ELSE n.offset + 1

\* The entry the walk meets next: none at the end of the stream.
Ahead == LET rest == {e \in Entries(stream) : e.offset >= Resume}
         IN  {e \in rest : \A f \in rest : e.offset <= f.offset}

Init == /\ stream \in Streams
        /\ nodes = <<>>
        /\ outcome = Open

Visit == \E e \in Ahead :
           /\ e.source.rc = "OK"
           /\ nodes' = Append(nodes, [offset |-> e.offset, depth |-> e.depth,
                                      source |-> e.source, cut |-> FALSE])
           /\ outcome' = Open
           /\ UNCHANGED stream

Cut == LET n == nodes[Len(nodes)]
       IN  /\ nodes # <<>> /\ n.source.constructed /\ n.source.value.size > 0 /\ ~n.cut
           /\ nodes' = [nodes EXCEPT ![Len(nodes)].cut = TRUE]
           /\ outcome' = Open
           /\ UNCHANGED stream

Fail == \E e \in Ahead :
          /\ e.source.rc # "OK"
          /\ outcome' = [rc |-> e.source.rc,
                         loc |-> {e.offset + w : w \in {x \in {e.source.where} :
                                                          x <= e.end - e.offset}}]
          /\ UNCHANGED <<stream, nodes>>

End == /\ Ahead = {}
       /\ outcome' = [rc |-> "END", loc |-> {Len(stream)}]
       /\ UNCHANGED <<stream, nodes>>

Next == Visit \/ Cut \/ Fail \/ End

Spec == Init /\ [][Next]_vars
=============================================================================
