----------------------------- MODULE TreeReader -----------------------------
(***************************************************************************)
(* The depth-first reader of src/tlv/src/reader/tree.c and the visitor loop *)
(* tlv_tree_reader_visit of visitor.c, with their caller: a pull reader     *)
(* whose scopes live in a caller-supplied array of frames [end, resume],    *)
(* both absolute offsets.  One traversal serves two projections: BEGIN,     *)
(* ELEMENT and END events, or nodes only, where the END events are drained  *)
(* inside the call.  The loops inside one call are steps of their own here  *)
(* (`pc'); only the caller's choices are made between calls.                *)
(***************************************************************************)
EXTENDS ReaderCore

CONSTANT Limits   \* the [capacity, depth, elements] a reader may be given

ASSUME LimitsAssumption ==
  \A l \in Limits : l.capacity \in Nat /\ l.depth \in Nat /\ l.elements \in Nat

VARIABLES
  stream,    \* the logical stream the caller's buffers come from
  limits,    \* frame capacity, max_depth and max_elements
  tree,      \* the tlv_tree_reader_t: input, frames[0 .. depth-1], pending, flags, count
  pc,        \* inside a call: "next" (loop of tlv_tree_reader_next), "drain" (drain_ends),
             \* "verdict" (the visitor callback runs); "idle" between calls
  visiting,  \* the call is tlv_tree_reader_visit
  result,    \* what the last call returned
  nodes,     \* history: nodes handed out, `cut' once their subtree was skipped
  outcome,   \* history: the verdict of the decoder where the walk stands
  pure,      \* history: only event pulls so far
  begun,     \* history: BEGIN events whose END is still to come (while pure)
  ended      \* history: the last END event with the BEGIN it closed

vars == <<stream, limits, tree, pc, visiting, result, nodes, outcome, pure, begun, ended>>

Open == [rc |-> "OPEN", loc |-> {}]
NoEnd == [depth |-> 0, offset |-> 0, skipped |-> FALSE,
          begin |-> [depth |-> 0, end |-> 0, cut |-> FALSE]]

Results == {"OK", "END", "NEED_MORE_DATA", "INVALID_ARG", "INVALID_STATE", "OVERFLOW",
            "BUFFER_TOO_SHORT", "VISITOR"} \cup DecodeResults

Frames == [end : Nat, resume : Nat]
TreeReaders == [input : Readers, frames : Seq(Frames), pending : Frames, descend : BOOLEAN,
                endPending : BOOLEAN, skipped : BOOLEAN, items : BOOLEAN, count : Nat]

\* tlv_tree_reader_init and tlv_tree_reader_init_incremental
TreeInit(n, final) ==
  [input |-> ReaderInit(n, final), frames |-> <<>>, pending |-> [end |-> 0, resume |-> 0],
   descend |-> FALSE, endPending |-> FALSE, skipped |-> FALSE, items |-> FALSE, count |-> 0]

Init == /\ stream \in Streams /\ limits \in Limits
        /\ \E n \in 0 .. Available(stream, 0) : \E final \in BOOLEAN :
             /\ final => n = Len(stream)
             /\ tree = TreeInit(n, final)
        /\ pc = "idle" /\ visiting = FALSE /\ result = "OK"
        /\ nodes = <<>> /\ outcome = Open
        /\ pure = TRUE /\ begun = <<>> /\ ended = NoEnd

-----------------------------------------------------------------------------
Depth(t) == Len(t.frames)

\* close_event: an empty or skipped container first, then the scope the cursor has
\* reached the end of.
InnermostEnds(t) == /\ ~t.descend /\ t.frames # <<>>
                    /\ ReaderOffset(t.input) = t.frames[Depth(t)].end
Closes(t) == t.endPending \/ InnermostEnds(t)
ClosedFrame(t) == IF t.endPending THEN t.pending ELSE t.frames[Depth(t)]

\* A close that leaves the cursor at the end of the value, before the trailer.
Closed_AtEnd(t) ==
  [t EXCEPT !.endPending = FALSE, !.skipped = FALSE,
            !.frames = IF t.endPending THEN @ ELSE SubSeq(@, 1, Len(@) - 1),
            !.input.pos = SizeSub(ClosedFrame(t).end, t.input.base)]

Closed(t) ==
  [t EXCEPT !.endPending = FALSE, !.skipped = @ /\ ~t.endPending,
            !.frames = IF t.endPending THEN @ ELSE SubSeq(@, 1, Len(@) - 1),
            !.input.pos = SizeSub(ClosedFrame(t).resume, t.input.base)]

\* The window of the scope the next node is pulled from, final because it is complete.
Nested(t)   == t.descend \/ t.frames # <<>>
ScopeEnd(t) == IF t.descend THEN t.pending.end ELSE t.frames[Depth(t)].end

\* A scope that takes the window's own final flag along.
Scoped_OpenEnded(t) ==
  IF Nested(t) THEN [t.input EXCEPT !.size = SizeSub(ScopeEnd(t), t.input.base)] ELSE t.input

Scoped(t) == IF Nested(t) THEN [t.input EXCEPT !.size = SizeSub(ScopeEnd(t), t.input.base),
                                               !.final = TRUE]
             ELSE t.input

\* Checks that forget the frame array's own size.
Preflight_NoCapacity(t) ==
  IF t.descend /\ Depth(t) = limits.depth THEN "LIMIT"
  ELSE IF Scoped(t).pos < Scoped(t).size /\ t.count = limits.elements THEN "LIMIT"
  ELSE "OK"

\* The limits of tlv_tree_reader_next_event, checked before anything is decoded.
Preflight(t) ==
  IF t.descend /\ Depth(t) = limits.depth THEN "LIMIT"
  ELSE IF t.descend /\ Depth(t) = limits.capacity THEN "BUFFER_TOO_SHORT"
  ELSE IF Scoped(t).pos < Scoped(t).size /\ t.count = limits.elements THEN "LIMIT"
  ELSE "OK"

PullResult(t) == IF Preflight(t) # "OK" THEN Preflight(t) ELSE NextResult(stream, Scoped(t))

\* The reader after a node was pulled: inside a constructed node, else past the node.
AfterPull(t) ==
  LET input == Scoped(t)
      d     == ReadImpl(stream, input)
      start == SizeAdd(ReaderOffset(input), d.value.offset)
      past  == Advance(stream, input)
  IN  [t EXCEPT !.frames     = IF t.descend THEN Append(@, t.pending) ELSE @,
                !.count      = @ + 1, !.items = FALSE,
                !.descend    = d.constructed /\ d.value.size > 0,
                !.endPending = d.constructed /\ d.value.size = 0,
                !.pending    = IF d.constructed THEN [end    |-> SizeAdd(start, d.value.size),
                                                      resume |-> ReaderOffset(past)] ELSE @,
                !.input.pos  = IF d.constructed THEN SizeSub(start, input.base) ELSE past.pos]

\* tlv_tree_reader_at_end
TreeAtEnd(t) == ~t.descend /\ ~t.endPending /\ t.frames = <<>> /\ ReaderAtEnd(t.input)

\* The node AfterPull publishes.
PulledNode(t) ==
  [offset |-> ReaderOffset(t.input), depth |-> Depth(t) + (IF t.descend THEN 1 ELSE 0),
   source |-> ReadImpl(stream, Scoped(t)), cut |-> FALSE]

\* The verdict a pull without a node leaves: limits and missing bytes decide nothing.
Undecided(t) == Preflight(t) # "OK" \/ PullResult(t) = "NEED_MORE_DATA"
OutcomeAfter(t) == IF Undecided(t) THEN outcome
                   ELSE [rc |-> PullResult(t), loc |-> Location(stream, Scoped(t))]

-----------------------------------------------------------------------------
Idle == pc = "idle" /\ ~visiting

\* tlv_tree_reader_next_event: an END that is known, ...
EventEnd ==
  /\ Idle /\ Closes(tree)
  /\ tree' = [Closed(tree) EXCEPT !.items = FALSE]
  /\ result' = "OK"
  /\ IF pure /\ begun # <<>>
       THEN /\ ended' = [depth |-> Depth(Closed(tree)), offset |-> ClosedFrame(tree).end,
                         skipped |-> tree.endPending /\ tree.skipped,
                         begin |-> begun[Len(begun)]]
            /\ begun' = SubSeq(begun, 1, Len(begun) - 1)
       ELSE UNCHANGED <<begun, ended>>
  /\ UNCHANGED <<stream, limits, pc, visiting, nodes, outcome, pure>>

\* ... or the next node as BEGIN or ELEMENT, ...
EventNode ==
  LET d == ReadImpl(stream, Scoped(tree))
  IN  /\ Idle /\ ~Closes(tree) /\ PullResult(tree) = "OK"
      /\ tree' = AfterPull(tree)
      /\ result' = "OK"
      /\ nodes' = Append(nodes, PulledNode(tree))
      /\ outcome' = Open
      /\ begun' = IF pure /\ d.constructed
                   THEN Append(begun, [depth |-> PulledNode(tree).depth, cut |-> FALSE,
                                      end |-> ReaderOffset(tree.input) + d.value.offset
                                                + d.value.size])
                   ELSE begun
      /\ UNCHANGED <<stream, limits, pc, visiting, pure, ended>>

\* ... or no event, with nothing changed.
EventNone ==
  /\ Idle /\ ~Closes(tree) /\ PullResult(tree) # "OK"
  /\ result' = PullResult(tree)
  /\ outcome' = OutcomeAfter(tree)
  /\ UNCHANGED <<stream, limits, tree, pc, visiting, nodes, pure, begun, ended>>

NextEvent == EventEnd \/ EventNode \/ EventNone

-----------------------------------------------------------------------------
\* tlv_tree_reader_next and tlv_tree_reader_visit are called; the visitor loop stops at
\* the end of final input.
CallNext ==
  /\ Idle
  /\ pc' = "next" /\ pure' = FALSE /\ begun' = <<>>
  /\ UNCHANGED <<stream, limits, tree, visiting, result, nodes, outcome, ended>>

CallVisit ==
  /\ Idle
  /\ visiting' = TRUE /\ pure' = FALSE /\ begun' = <<>>
  /\ UNCHANGED <<stream, limits, tree, pc, result, nodes, outcome, ended>>

VisitLoop ==
  /\ visiting /\ pc = "idle"
  /\ IF TreeAtEnd(tree) THEN visiting' = FALSE /\ result' = "OK" /\ UNCHANGED pc
                        ELSE pc' = "next" /\ UNCHANGED <<visiting, result>>
  /\ UNCHANGED <<stream, limits, tree, nodes, outcome, pure, begun, ended>>

\* tlv_tree_reader_next: hide END events, ...
NextHidesEnd ==
  /\ pc = "next" /\ Closes(tree)
  /\ tree' = [Closed(tree) EXCEPT !.items = FALSE]
  /\ UNCHANGED <<stream, limits, pc, visiting, result, nodes, outcome, pure, begun, ended>>

\* ... publish the node and go on to drain, or return without one (so does a visit).
NextNode ==
  /\ pc = "next" /\ ~Closes(tree) /\ PullResult(tree) = "OK"
  /\ tree' = [AfterPull(tree) EXCEPT !.items = TRUE]
  /\ pc' = "drain"
  /\ nodes' = Append(nodes, PulledNode(tree))
  /\ outcome' = Open
  /\ UNCHANGED <<stream, limits, visiting, result, pure, begun, ended>>

NextNone ==
  /\ pc = "next" /\ ~Closes(tree) /\ PullResult(tree) # "OK"
  /\ pc' = "idle" /\ visiting' = FALSE
  /\ result' = PullResult(tree)
  /\ outcome' = OutcomeAfter(tree)
  /\ UNCHANGED <<stream, limits, tree, nodes, pure, begun, ended>>

\* drain_ends, at the end of tlv_tree_reader_next and of a node-only skip
Drain ==
  /\ pc = "drain"
  /\ IF Closes(tree)
       THEN tree' = Closed(tree) /\ UNCHANGED <<pc, result>>
       ELSE /\ pc' = IF visiting THEN "verdict" ELSE "idle"
            /\ result' = "OK"
            /\ UNCHANGED tree
  /\ UNCHANGED <<stream, limits, visiting, nodes, outcome, pure, begun, ended>>

\* The visitor's answer.  A NULL visitor is one that always continues.
VisitVerdict ==
  \E v \in Verdicts :
    /\ pc = "verdict"
    /\ pc' = "idle" /\ visiting' = (v = "CONTINUE")
    /\ result' = VisitReturn(v)
    /\ UNCHANGED <<stream, limits, tree, nodes, outcome, pure, begun, ended>>

-----------------------------------------------------------------------------
\* A skip that forgets that the container's END is still owed.
Skipped_Silent(t) == [t EXCEPT !.input.pos = SizeSub(t.pending.resume, t.input.base),
                               !.descend = FALSE]

\* tlv_tree_reader_skip_subtree
Skipped(t) == [t EXCEPT !.input.pos = SizeSub(t.pending.resume, t.input.base),
                        !.descend = FALSE, !.endPending = TRUE, !.skipped = TRUE]

SkipSubtree ==
  /\ Idle /\ tree.descend
  /\ tree' = Skipped(tree)
  /\ pc' = IF tree.items THEN "drain" ELSE "idle"
  /\ result' = "OK"
  /\ nodes' = [nodes EXCEPT ![Len(nodes)].cut = TRUE]
  /\ outcome' = Open
  /\ begun' = IF pure /\ begun # <<>> THEN [begun EXCEPT ![Len(begun)].cut = TRUE] ELSE begun
  /\ UNCHANGED <<stream, limits, visiting, pure, ended>>

SkipNothing ==
  /\ Idle /\ ~tree.descend
  /\ result' = "INVALID_STATE"
  /\ UNCHANGED <<stream, limits, tree, pc, visiting, nodes, outcome, pure, begun, ended>>

\* tlv_tree_reader_set_input
TreeSetInput(size, discard, final) ==
  LET code == SetInputResult(tree.input, size, discard, final)
  IN  /\ Idle
      /\ final => tree.input.base + discard + size = Len(stream)
      /\ tree' = IF code = "OK"
                   THEN [tree EXCEPT !.input = SetInput(tree.input, size, discard, final)]
                   ELSE tree
      /\ result' = code
      /\ UNCHANGED <<stream, limits, pc, visiting, nodes, outcome, pure, begun, ended>>

TreeFeed == \E discard \in 0 .. tree.input.size :
              \E size \in 0 .. Available(stream, tree.input.base + discard) :
                \E final \in BOOLEAN : TreeSetInput(size, discard, final)

Next == \/ NextEvent \/ CallNext \/ CallVisit \/ SkipSubtree \/ SkipNothing \/ TreeFeed
        \/ VisitLoop \/ NextHidesEnd \/ NextNode \/ NextNone \/ Drain \/ VisitVerdict

Spec == Init /\ [][Next]_vars

(***************************************************************************)
(* Fairness: a call runs to its end, and it is the caller who, again and    *)
(* again, pulls an event and brings more bytes (or the final flag) when he  *)
(* has any; strong fairness because visits may come in between.             *)
(***************************************************************************)
InCall == VisitLoop \/ NextHidesEnd \/ NextNode \/ NextNone \/ Drain \/ VisitVerdict

Supply == \E size \in tree.input.size .. Available(stream, tree.input.base) :
            \E final \in BOOLEAN :
              /\ size > tree.input.size \/ (final /\ ~tree.input.final)
              /\ SetInputResult(tree.input, size, 0, final) = "OK"
              /\ TreeSetInput(size, 0, final)

FairSpec == Spec /\ WF_vars(InCall) /\ SF_vars(NextEvent) /\ SF_vars(Supply)
-----------------------------------------------------------------------------
\* The type of the cursor and of what the calls return.
TypeOK ==
  /\ stream \in Streams /\ limits \in Limits
  /\ tree \in TreeReaders
  /\ pc \in {"idle", "next", "drain", "verdict"} /\ visiting \in BOOLEAN
  /\ result \in Results

Cursor == tree.input.base + tree.input.pos

\* Offset x lies in the window and in each of the n outermost scopes.
Fits(x, n) == /\ x <= tree.input.base + tree.input.size
              /\ \A j \in 1 .. n : x <= tree.frames[j].end

\* Scopes nest: every frame ends and resumes inside its parents, all of them hold the
\* cursor, and the pending node's scope lies ahead of it.
ScopesNest ==
  /\ \A k \in 1 .. Depth(tree) : /\ tree.frames[k].end <= tree.frames[k].resume
                                 /\ Fits(tree.frames[k].resume, k - 1)
  /\ Fits(Cursor, Depth(tree))
  /\ tree.descend => Cursor < tree.pending.end
  /\ tree.endPending => Cursor <= tree.pending.resume
  /\ tree.descend \/ tree.endPending => /\ tree.pending.end <= tree.pending.resume
                                        /\ Fits(tree.pending.resume, Depth(tree))

(***************************************************************************)
(* What keeps tree.c inside its memory, for any decode callback, any feed   *)
(* and any mix of projections: no frame is written beyond the caller's      *)
(* array, no limit is passed, and since scopes nest no subtraction of the   *)
(* window's base from a frame's end or resume wraps, also after bytes were  *)
(* discarded between BEGIN and END.                                         *)
(***************************************************************************)
FramesSafe ==
  /\ WindowOK(stream, tree.input) /\ ScopesNest
  /\ Depth(tree) <= limits.capacity /\ Depth(tree) <= limits.depth
  /\ tree.count <= limits.elements
  /\ ~(tree.descend /\ tree.endPending)

\* Types and memory together, and inductive: ScopesNest speaks of every pair of scopes, not
\* only of neighbours, so that popping a frame needs no argument along the stack.
TreeInv == TypeOK /\ FramesSafe

\* Event pulls alone see a balanced stream: the BEGINs without END are the scopes of
\* the reader, innermost last, and each END closes the innermost one with that BEGIN's
\* depth, the offset where its value ends, and `skipped' exactly if it was skipped.
Balanced ==
  pure => /\ Len(begun) = Depth(tree) + (IF tree.descend \/ tree.endPending THEN 1 ELSE 0)
          /\ \A k \in 1 .. Len(begun) :
               /\ begun[k].depth = k - 1
               /\ begun[k].end = IF k <= Depth(tree) THEN tree.frames[k].end
                                ELSE tree.pending.end
          /\ ended.depth = ended.begin.depth /\ ended.offset = ended.begin.end
          /\ ended.skipped = ended.begin.cut

\* tree.h: NEED_MORE_DATA is "for exhausted or incomplete non-final root input" and
\* known END events precede it; inside a complete parent no bytes are ever asked for.
MoreOnlyAtRoot ==
  result = "NEED_MORE_DATA" /\ Idle =>
    tree.frames = <<>> /\ ~tree.descend /\ ~tree.endPending /\ ~tree.input.final

(***************************************************************************)
(* However the stream is cut into windows and whichever projections are     *)
(* mixed, the nodes handed out are the preorder walk of the stream's tree   *)
(* with the same offsets, depths and verdicts: none lost, doubled, or       *)
(* delivered from inside a skipped subtree.                                 *)
(***************************************************************************)
Walk == INSTANCE TreeWalk

FollowsWalk == Walk!Spec

\* What the walk needs of a format beyond PrefixStable: a container has a header.  An element
\* may do without one (format.h), but a container without one begins where its first child
\* begins, may be its own first child, and offsets do not order such nodes.
Headed ==
  \A s \in Streams : \A i \in 0 .. Len(s) : \A j \in i + 1 .. Len(s) :
    Decode(s, i, j).rc = "OK" /\ Decode(s, i, j).constructed => Decode(s, i, j).value.offset > 0

\* A caller that goes on pulling events and supplying bytes comes to the end or to a
\* verdict, or is stopped by one of its own limits.
EventuallyWalked ==
  Len(stream) <= SizeMax ~>
    (outcome # Open \/ TreeAtEnd(tree) \/ result \in {"LIMIT", "BUFFER_TOO_SHORT"})
=============================================================================
