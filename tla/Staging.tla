------------------------------ MODULE Staging -------------------------------
(***************************************************************************)
(* Measured encoding of a whole tree: tlv_tree_writer_measure_events and    *)
(* tlv_tree_writer_measure (src/tlv/src/writer/tree.c) replay a source of   *)
(* events through a tree writer on a bounded workspace and say how much     *)
(* more they need; document/writer.c repeats the replay on a workspace that *)
(* it grows, and copies the result out.                                     *)
(*                                                                         *)
(* The tree is a preorder list of nodes [tag, value, depth, parent, first,   *)
(* next, up].  Its source is a Document (all roots, or one node) which produces balanced    *)
(* events, or a caller's preorder callback, whose missing ENDs are          *)
(* synthesised; that caller enlarges its own workspace and replays.         *)
(***************************************************************************)
EXTENDS WriterCore, FiniteSets

CONSTANTS
  Jobs,      \* [source, format, nodes, capacity, sizing, fuel, frames, depth, elements]
  GrowMin,   \* grow_workspace's least size, 256
  Rounds     \* bound: how often the preorder caller replays

VARIABLES
  job,      \* the call: its source and tree, the caller's capacity or limits, and how
            \* many allocations will succeed
  phase,    \* where the call is: frames, measure, grow, deliver, done
  src,      \* the source's cursor
  ws,       \* the workspace: capacities, what was asked for, allocations left
  draft,    \* the measuring tree writer
  answer,   \* [rc, size, bytes] given to the caller
  failed    \* history: the format's callbacks or the allocator failed

stageVars == <<job, phase, src, ws, draft, answer, failed>>

ASSUME GrowAssumption == GrowMin \in Nat \ {0} /\ Rounds \in Nat

\* Nodes hold octets and numbers, and a link leads to a node or nowhere.
ASSUME JobsAssumption ==
  \A j \in Jobs :
    /\ j.nodes \in Seq([tag : [bytes : Seq(Nat), data : BOOLEAN], value : Seq(Nat), parent : BOOLEAN,
                       depth : Nat, first : Nat, next : Nat, up : Nat])
    /\ \A k \in 1 .. Len(j.nodes) :
         /\ ~j.nodes[k].tag.data => j.nodes[k].tag.bytes = <<>>
         /\ {j.nodes[k].first, j.nodes[k].next, j.nodes[k].up} \subseteq 0 .. Len(j.nodes)
    /\ j.frames \in Nat /\ j.depth \in Nat /\ j.elements \in Nat

-----------------------------------------------------------------------------
\* A node of a Document has links first, next and up (its parent); 0 is NULL.
Nodes(j)    == 1 .. Len(j.nodes)
Depth(j, k) == j.nodes[k].depth

Event(kind, node, depth) == [kind |-> kind, tag |-> node.tag, value |-> node.value,
                             depth |-> depth, skipped |-> FALSE]
Zeroed == [tag |-> [bytes |-> <<>>, data |-> FALSE], value |-> <<>>]

DocumentSource(first, single) == [next |-> first, depth |-> 0, single |-> single,
                                  closing |-> FALSE]

\* A return to the parent that forgets that the parent was opened already.
Onward_Reopens(j, s, k) ==
  IF s.depth = 0 /\ s.single THEN [s EXCEPT !.next = 0, !.closing = FALSE]
  ELSE IF j.nodes[k].next # 0 THEN [s EXCEPT !.next = j.nodes[k].next, !.closing = FALSE]
  ELSE IF s.depth # 0 THEN [s EXCEPT !.next = j.nodes[k].up, !.depth = @ - 1, !.closing = FALSE]
  ELSE [s EXCEPT !.next = 0, !.closing = FALSE]

\* What follows a node that is finished: its sibling, or the end of its parent.
Onward(j, s, k) ==
  IF s.depth = 0 /\ s.single THEN [s EXCEPT !.next = 0, !.closing = FALSE]
  ELSE IF j.nodes[k].next # 0 THEN [s EXCEPT !.next = j.nodes[k].next, !.closing = FALSE]
  ELSE IF s.depth # 0 THEN [s EXCEPT !.next = j.nodes[k].up, !.depth = @ - 1, !.closing = TRUE]
  ELSE [s EXCEPT !.next = 0, !.closing = FALSE]

\* document_next: the topology's own opens and closes, one event per call.
document_next(j, s) ==
  LET k == s.next IN
  IF k = 0 THEN [rc |-> "END", src |-> s]
  ELSE IF s.closing THEN [rc |-> "OK", event |-> Event("END", Zeroed, s.depth),
                          src |-> Onward(j, s, k)]
  ELSE IF ~j.nodes[k].parent THEN [rc |-> "OK", src |-> Onward(j, s, k),
                                   event |-> Event("ELEMENT", j.nodes[k], s.depth)]
  ELSE [rc |-> "OK", event |-> Event("BEGIN", j.nodes[k], s.depth),
        src |-> IF j.nodes[k].first # 0
                  THEN [s EXCEPT !.next = j.nodes[k].first, !.depth = @ + 1]
                  ELSE [s EXCEPT !.closing = TRUE]]

-----------------------------------------------------------------------------
\* A preorder source: `at' nodes were pulled, the last of them pending if `available'.
PreorderSource == [at |-> 0, available |-> FALSE, open |-> 0, done |-> FALSE]

\* Pull the next node unless one is pending; a node deeper than the open parents is wrong.
Pulled(j, s) ==
  IF s.available \/ s.done THEN [rc |-> "OK", src |-> s]
  ELSE IF s.at = Len(j.nodes) THEN [rc |-> "OK", src |-> [s EXCEPT !.done = TRUE]]
  ELSE IF Depth(j, s.at + 1) > s.open THEN [rc |-> "CALLBACK", src |-> [s EXCEPT !.at = @ + 1]]
  ELSE [rc |-> "OK", src |-> [s EXCEPT !.at = @ + 1, !.available = TRUE]]

\* One END at most before a node that is less deep.
Synthesised_Once(j, s) ==
  IF s.open # 0 /\ (s.done \/ s.open = Depth(j, s.at) + 1)
    THEN [rc |-> "OK", event |-> Event("END", Zeroed, s.open - 1), src |-> [s EXCEPT !.open = @ - 1]]
  ELSE IF s.done THEN [rc |-> "END", src |-> s]
  ELSE LET n == j.nodes[s.at]
       IN  [rc |-> "OK", event |-> Event(IF n.parent THEN "BEGIN" ELSE "ELEMENT", n, n.depth),
            src |-> [s EXCEPT !.available = FALSE, !.open = IF n.parent THEN @ + 1 ELSE @]]

\* ENDs until the open parents are as deep as the pending node, then the node itself.
Synthesised(j, s) ==
  IF s.open # 0 /\ (s.done \/ s.open > Depth(j, s.at))
    THEN [rc |-> "OK", event |-> Event("END", Zeroed, s.open - 1), src |-> [s EXCEPT !.open = @ - 1]]
  ELSE IF s.done THEN [rc |-> "END", src |-> s]
  ELSE LET n == j.nodes[s.at]
       IN  [rc |-> "OK", event |-> Event(IF n.parent THEN "BEGIN" ELSE "ELEMENT", n, n.depth),
            src |-> [s EXCEPT !.available = FALSE, !.open = IF n.parent THEN @ + 1 ELSE @]]

preorder_event(j, s) ==
  IF Pulled(j, s).rc # "OK" THEN Pulled(j, s) ELSE Synthesised(j, Pulled(j, s).src)

\* The event callback of the call at hand.
Pull == IF job.source = "preorder" THEN preorder_event(job, src) ELSE document_next(job, src)

-----------------------------------------------------------------------------
\* measure_storage: the element's size, and what the workspace lacks for it.
Shortage(w, e, start, closing) ==
  LET b == Encoded(w.format, e)
      end == start + Len(b.bytes)
  IN  [rc      |-> b.rc,
       data    |-> IF b.rc = "OK" /\ end > ws.data THEN end ELSE 0,
       scratch |-> IF b.rc = "OK" /\ closing /\ w.pos - start > ws.scratch
                     THEN w.pos - start ELSE 0]

MeasureLimits == IF job.source = "preorder"
                   THEN [frames |-> ws.frames, depth |-> job.depth, elements |-> job.elements]
                   ELSE [frames |-> ws.frames, depth |-> Len(job.nodes), elements |-> Len(job.nodes)]

\* Storage that is checked before an event is written: an element's, or a parent's at END.
NeedOf(event) ==
  IF event.kind = "END"
    THEN Shortage(draft, [tag |-> TagOf(draft, Top(draft)), value |-> Content(draft)],
                  Top(draft).start, TRUE)
  ELSE IF event.kind = "ELEMENT"
    THEN Shortage(draft, [tag |-> event.tag.bytes, value |-> event.value], draft.pos, FALSE)
  ELSE [rc |-> "OK", data |-> 0, scratch |-> 0]

\* Why an event is refused before its storage is looked at.
EventRefusal(event) ==
  IF EventMisplaced(draft, event) THEN "INVALID_VALUE"
  ELSE IF event.kind = "ELEMENT" /\ OverLimit(draft, MeasureLimits) THEN "LIMIT"
  ELSE IF event.kind = "ELEMENT" /\ IsParent(draft.format, event.tag.bytes) THEN "INVALID_TAG"
  ELSE "OK"

-----------------------------------------------------------------------------
Fresh(j) == IF j.source = "preorder" THEN PreorderSource
            ELSE DocumentSource(IF j.nodes = <<>> THEN 0 ELSE 1, j.source = "node")

NoAnswer == [rc |-> "NONE", size |-> 0, bytes |-> <<>>]

StageInit ==
  /\ job \in Jobs
  /\ phase = IF job.source = "preorder" THEN "start" ELSE "frames"
  /\ src = Fresh(job)
  /\ ws = [data |-> 0, scratch |-> 0, needData |-> 0, needScratch |-> 0, fuel |-> job.fuel,
           frames |-> IF job.source = "preorder" THEN job.frames ELSE 0, rounds |-> 0]
  /\ draft = TreeWriterInit(job.format, 0, 0)
  /\ answer = NoAnswer /\ failed = FALSE

\* The call returns, its workspace released.
Answer(rc, size, bytes) == /\ phase' = "done"
                           /\ answer' = [rc |-> rc, size |-> size, bytes |-> bytes]
Fails(rc) == Answer(rc, 0, <<>>)

FramesFor(event) == IF event.kind = "BEGIN" /\ event.depth + 1 > ws.frames THEN event.depth + 1
                    ELSE ws.frames

\* prepare_encoding's first pass sizes the stack of frames.
CountFrames ==
  /\ phase = "frames" /\ Pull.rc = "OK"
  /\ src' = Pull.src /\ ws' = [ws EXCEPT !.frames = FramesFor(Pull.event)]
  /\ UNCHANGED <<job, phase, draft, answer, failed>>

AllocateFrames ==
  /\ phase = "frames" /\ Pull.rc = "END"
  /\ IF ws.frames # 0 /\ ws.fuel = 0
       THEN Fails("OUT_OF_MEMORY") /\ failed' = TRUE /\ UNCHANGED ws
       ELSE /\ phase' = "start" /\ UNCHANGED <<answer, failed>>
            /\ ws' = [ws EXCEPT !.fuel = IF ws.frames # 0 THEN @ - 1 ELSE @]
  /\ UNCHANGED <<job, src, draft>>

\* A replay starts over, with nothing asked for yet.
StartMeasure ==
  /\ phase = "start"
  /\ phase' = "measure" /\ src' = Fresh(job)
  /\ draft' = TreeWriterInit(job.format, ws.data, ws.scratch)
  /\ ws' = [ws EXCEPT !.needData = 0, !.needScratch = 0]
  /\ UNCHANGED <<job, answer, failed>>

\* Any BUFFER_TOO_SHORT taken for a request to grow.
ReplayEnds_AnyShort(rc, w) ==
  /\ ws' = w
  /\ IF job.source # "preorder" /\ rc = "BUFFER_TOO_SHORT"
       THEN phase' = "short" /\ UNCHANGED answer
       ELSE Fails(rc)

\* A replay ends early.  A preorder caller is told; prepare_encoding goes on to grow its
\* workspace if the workspace itself was short.
ReplayEnds(rc, w) ==
  /\ ws' = w
  /\ IF job.source # "preorder" /\ rc = "BUFFER_TOO_SHORT" /\ w.needData + w.needScratch # 0
       THEN phase' = "short" /\ UNCHANGED answer
       ELSE Fails(rc)

\* One event: refused, not measurable, short of storage, or written.
Measure(event, refusal, need) ==
  \/ /\ refusal # "OK"
     /\ ReplayEnds(refusal, ws) /\ UNCHANGED <<draft, failed>>
  \/ /\ refusal = "OK" /\ need.rc # "OK"
     /\ ReplayEnds(need.rc, ws) /\ failed' = TRUE /\ UNCHANGED draft
  \/ /\ refusal = "OK" /\ need.rc = "OK" /\ need.data + need.scratch # 0
     /\ ReplayEnds("BUFFER_TOO_SHORT",
                   [ws EXCEPT !.needData = need.data, !.needScratch = need.scratch])
     /\ UNCHANGED <<draft, failed>>
  \/ /\ refusal = "OK" /\ need.rc = "OK" /\ need.data + need.scratch = 0
     /\ \E o \in WriteEvent(draft, MeasureLimits, event) :
          /\ draft' = o.w
          /\ failed' = (o.rc # "OK" /\ event.kind # "BEGIN")
          /\ IF o.rc = "OK" THEN UNCHANGED <<phase, ws, answer>> ELSE ReplayEnds(o.rc, ws)

MeasureEvent ==
  /\ phase = "measure"
  /\ \E p \in {Pull} : p.rc = "OK" /\ src' = p.src
                       /\ Measure(p.event, EventRefusal(p.event), NeedOf(p.event))
  /\ UNCHANGED job

\* The source ends, with or without a failure of its own.
MeasureEnd ==
  /\ phase = "measure" /\ Pull.rc # "OK"
  /\ src' = Pull.src
  /\ IF Pull.rc # "END" THEN Fails(Pull.rc)
     ELSE IF draft.frames # <<>> THEN Fails("INVALID_VALUE")
     ELSE IF job.source = "preorder"
       THEN Answer("OK", TreeSize(draft), SubSeq(draft.buf, 1, TreeSize(draft)))
     ELSE phase' = "deliver" /\ UNCHANGED answer
  /\ UNCHANGED <<job, ws, draft, failed>>

-----------------------------------------------------------------------------
\* grow_workspace's new size: doubled, but at least the minimum and what is required.
Grown(capacity, required) ==
  LET doubled == IF capacity * 2 < GrowMin THEN GrowMin ELSE capacity * 2
  IN  IF required <= capacity THEN capacity
      ELSE IF doubled < required THEN required ELSE doubled

\* The Document grows what was short and replays; data first, then scratch.
GrowData ==
  /\ phase = "short"
  /\ IF ws.needData > ws.data /\ ws.fuel = 0
       THEN Fails("OUT_OF_MEMORY") /\ failed' = TRUE /\ UNCHANGED ws
       ELSE /\ ws' = [ws EXCEPT !.data = Grown(@, ws.needData),
                                !.fuel = IF ws.needData > ws.data THEN @ - 1 ELSE @]
            /\ phase' = "scratch" /\ UNCHANGED <<answer, failed>>
  /\ UNCHANGED <<job, src, draft>>

GrowScratch ==
  /\ phase = "scratch"
  /\ IF ws.needScratch > ws.scratch /\ ws.fuel = 0
       THEN Fails("OUT_OF_MEMORY") /\ failed' = TRUE /\ UNCHANGED ws
       ELSE /\ ws' = [ws EXCEPT !.scratch = Grown(@, ws.needScratch), !.rounds = @ + 1,
                                !.fuel = IF ws.needScratch > ws.scratch THEN @ - 1 ELSE @]
            /\ phase' = "start" /\ UNCHANGED <<answer, failed>>
  /\ UNCHANGED <<job, src, draft>>

\* A preorder caller that was told what is required may replay with that.
CallerReplays ==
  /\ phase = "done" /\ job.source = "preorder" /\ answer.rc = "BUFFER_TOO_SHORT"
  /\ ws.needData + ws.needScratch # 0 /\ ws.rounds < Rounds
  /\ ws' = [ws EXCEPT !.data    = IF ws.needData > @ THEN ws.needData ELSE @,
                      !.scratch = IF ws.needScratch > @ THEN ws.needScratch ELSE @,
                      !.rounds  = @ + 1]
  /\ phase' = "start" /\ answer' = NoAnswer
  /\ UNCHANGED <<job, src, draft, failed>>

\* encoded_size_as and encode_as: the size alone, or the bytes if the caller has room.
Deliver ==
  /\ phase = "deliver"
  /\ LET total == TreeSize(draft)
         out   == CopyEncoded([i \in 1 .. job.capacity |-> 0], 0, SubSeq(draft.buf, 1, total))
     IN  IF job.sizing THEN Answer("OK", total, <<>>)
         ELSE IF job.capacity < total THEN Answer("BUFFER_TOO_SHORT", total, <<>>)
         ELSE Answer(out.rc, out.pos, SubSeq(out.buf, 1, out.pos))
  /\ UNCHANGED <<job, src, ws, draft, failed>>

StageNext ==
  \/ CountFrames \/ AllocateFrames \/ StartMeasure \/ MeasureEvent \/ MeasureEnd
  \/ GrowData \/ GrowScratch \/ CallerReplays \/ Deliver

StageSpec == StageInit /\ [][StageNext]_stageVars

-----------------------------------------------------------------------------
\* The nodes below node k.
Under(j, k) == {i \in Nodes(j) : i > k /\ \A m \in k + 1 .. i : Depth(j, m) > Depth(j, k)}

\* Reference: the encoding of the tree by recursion on its structure.
Encodings(j) ==
  LET Within(k) == IF k = 0 THEN {i \in Nodes(j) : Depth(j, i) = 0}
                   ELSE {i \in Under(j, k) : Depth(j, i) = Depth(j, k) + 1}
      Upto(S, k) == {i \in S : i <= k}
      E[k \in 0 .. Len(j.nodes)] ==
        LET value[i \in 0 .. Len(j.nodes)] ==
              IF i = 0 THEN [rc |-> "OK", bytes |-> <<>>]
              ELSE IF i \notin Within(k) \/ value[i - 1].rc # "OK" THEN value[i - 1]
              ELSE [rc |-> E[i].rc, bytes |-> value[i - 1].bytes \o E[i].bytes]
            inner == value[Len(j.nodes)]
        IN  IF k = 0 THEN inner
            ELSE IF ~j.nodes[k].parent
              THEN Encoded(j.format, [tag |-> j.nodes[k].tag.bytes, value |-> j.nodes[k].value])
            ELSE IF inner.rc # "OK" THEN inner
            ELSE Encoded(j.format, [tag |-> j.nodes[k].tag.bytes, value |-> inner.bytes])
  IN  E

Reference(j) == IF j.source = "node" THEN Encodings(j)[1] ELSE Encodings(j)[0]

\* The tree is one: every node lies under open parents, and only parents hold nodes.
IsTree(j) ==
  \A k \in Nodes(j) :
    IF Depth(j, k) = 0 THEN TRUE
    ELSE \E i \in Nodes(j) : k \in Under(j, i) /\ Depth(j, i) = Depth(j, k) - 1 /\ j.nodes[i].parent

\* Whatever the source, the size and the bytes that come out are those of the tree, and
\* nothing but a broken tree, a failing callback or allocator, a limit of the caller's, or a
\* caller's buffer that is too short keeps them from coming out.
EncodesTree ==
  phase = "done" =>
    LET ref == Reference(job) IN
    /\ answer.rc = "OK" =>
         /\ ref.rc = "OK" /\ IsTree(job) /\ answer.size = Len(ref.bytes)
         /\ answer.bytes = IF job.source # "preorder" /\ job.sizing THEN <<>> ELSE ref.bytes
    /\ job.source # "preorder" /\ ~failed =>
         /\ ref.rc = "OK"
         /\ IF job.sizing \/ Len(ref.bytes) <= job.capacity THEN answer.rc = "OK"
            ELSE answer.rc = "BUFFER_TOO_SHORT" /\ answer.size = Len(ref.bytes)
    /\ job.source = "preorder" /\ ~failed /\ answer.rc # "OK" =>
         \/ ~IsTree(job) /\ answer.rc = "CALLBACK"
         \/ answer.rc = "BUFFER_TOO_SHORT" /\ ws.needData + ws.needScratch # 0
         \/ answer.rc = "BUFFER_TOO_SHORT" /\ WDepth(draft) = ws.frames
         \/ answer.rc = "LIMIT"

\* A replay happens only for storage of the workspace's own that grew since the last one,
\* never for a BUFFER_TOO_SHORT of the format's callbacks.
ReplaysGrow ==
  [][phase # "frames" /\ phase' = "start" =>
       /\ ~failed
       /\ ws'.data >= ws.needData /\ ws'.scratch >= ws.needScratch
       /\ ws.needData > Len(draft.buf) \/ ws.needScratch > Len(draft.scratch)]_stageVars

\* Every call ends: the loop of replays does, whatever the allocator and the format do.
EventuallyEncoded == (phase \in {"frames", "start"}) ~> (phase = "done")
=============================================================================
