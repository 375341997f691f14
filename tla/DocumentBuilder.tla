-------------------------- MODULE DocumentBuilder ---------------------------
(***************************************************************************)
(* The resumable document builder of src/tlv/src/document/reader.c and the  *)
(* caller around it: he pulls from an incremental tree reader, hands it to  *)
(* a builder for the whole stream or for the subtree of the item just       *)
(* pulled, supplies more input when asked, repeats consume, frees the       *)
(* builder at any point, and goes on reading where it stopped.              *)
(*                                                                         *)
(* The tree reader is reduced to what it publishes (see TreeReader):        *)
(* content [events, rc, size], handed out one event per pull.  Containers   *)
(* are complete when they are published, so input ends only between roots.  *)
(***************************************************************************)
EXTENDS DocumentCore

CONSTANTS
  Streams,      \* contents the reader may be over
  BuilderFuels  \* how many allocations of a builder and its document succeed

VARIABLES
  reader,    \* [content, at, level, fed, final, last]: events pulled and available,
             \* scopes open, whether all input is there, the last item pulled or 0
  builder,   \* [doc, container, subtree, done, base, running] or NoBuilder
  built,     \* the document handed to the caller, or NoDocument
  answer,    \* what the last call returned
  goal       \* history: the content the builder was created for

builderVars == <<reader, builder, built, answer, goal>>

NoBuilder == [exists |-> FALSE]
NoGoal    == [content |-> [events |-> <<>>, rc |-> "OK", size |-> 0], end |-> 0]

Event(i)   == reader.content.events[i]
Events     == Len(reader.content.events)
Opens(e)   == e = "BEGIN"
\* How deep event i lies: the BEGINs before it that are still open.
LevelAt(c, i) == Cardinality({j \in 1 .. i - 1 : c.events[j] = "BEGIN"})
                   - Cardinality({j \in 1 .. i - 1 : c.events[j] = "END"})
\* Where input may end: between two roots, and at the end.
Cuts(c) == {i \in 0 .. Len(c.events) : LevelAt(c, i + 1) = 0}

BuilderInit ==
  /\ \E c \in Streams : \E n \in Cuts(c) :
       reader = [content |-> c, at |-> 0, level |-> 0, fed |-> n, final |-> FALSE, last |-> 0]
  /\ builder = NoBuilder /\ built = NoDocument /\ answer = "OK"
  /\ goal = NoGoal

-----------------------------------------------------------------------------
\* tlv_tree_reader_next_event, as its callers see it.
AtEnd == reader.final /\ reader.at = Events /\ reader.content.rc = "OK"
PullCode ==
  IF reader.at < reader.fed THEN "OK"
  ELSE IF ~reader.final THEN "NEED_MORE_DATA"
  ELSE IF reader.content.rc # "OK" THEN reader.content.rc
  ELSE "END"
AfterPull == [reader EXCEPT !.at = @ + 1,
                            !.level = CASE Event(reader.at + 1) = "BEGIN" -> @ + 1
                                        [] Event(reader.at + 1) = "END" -> @ - 1
                                        [] OTHER -> @,
                            !.last = IF Event(reader.at + 1) = "END" THEN 0 ELSE reader.at + 1]

CallerPulls ==
  /\ ~builder.exists
  /\ answer' = PullCode
  /\ reader' = IF PullCode = "OK" THEN AfterPull ELSE reader
  /\ UNCHANGED <<builder, built, goal>>

\* tlv_tree_reader_set_input: more roots, and at last the final flag.
Feed ==
  /\ ~reader.final /\ (builder.exists => ~builder.running)
  /\ \E n \in Cuts(reader.content) : \E final \in BOOLEAN :
       /\ n >= reader.fed /\ (final => n = Events)
       /\ reader' = [reader EXCEPT !.fed = n, !.final = final]
  /\ UNCHANGED <<builder, built, answer, goal>>

-----------------------------------------------------------------------------
\* append_item: the node of event e, `level' levels below the builder's root.
AppendItem(d, container, e, level) ==
  CreateNode(d, container, Opens(e), e = "BYTES", level, TRUE)

\* The content of the subtree whose root is event i.
SubtreeEnd(c, i) == IF c.events[i] # "BEGIN" THEN i
                    ELSE CHOOSE j \in i + 1 .. Len(c.events) :
                           /\ c.events[j] = "END" /\ LevelAt(c, j) = LevelAt(c, i) + 1
                           /\ \A k \in i + 1 .. j : LevelAt(c, k) > LevelAt(c, i)
SubContent(c, i) == [c EXCEPT !.events = SubSeq(@, i, SubtreeEnd(c, i)), !.rc = "OK"]

\* The last event a subtree's builder has to see: an empty root's END stays with the reader.
Frontier(c, i) == IF SubtreeEnd(c, i) = i + 1 THEN i ELSE SubtreeEnd(c, i)

\* A builder b that is no more, and its document with it: what is left allocated is none.
Discarded(d) == [NoDocument EXCEPT !.blocks = DocumentFree([d EXCEPT !.blocks = @ - 1]).blocks]

\* tlv_document_builder_create for the whole stream, over a reader nothing was pulled from.
CreateWhole ==
  /\ ~builder.exists /\ built = NoDocument
  /\ \E fuel \in BuilderFuels :
       IF reader.at # 0 THEN answer' = "INVALID_STATE" /\ UNCHANGED <<builder, goal>>
       ELSE IF fuel < 2 THEN answer' = "OUT_OF_MEMORY" /\ UNCHANGED <<builder, goal>>
       ELSE /\ answer' = "OK"
            /\ builder' = [exists |-> TRUE, doc |-> [DocumentCreate(fuel - 2) EXCEPT !.blocks = 2],
                           live |-> TRUE, container |-> Null, subtree |-> FALSE, done |-> FALSE,
                           base |-> 0, running |-> FALSE, rc |-> "OK"]
            /\ goal' = [content |-> reader.content, end |-> Events]
  /\ UNCHANGED <<reader, built>>

\* ... and for the subtree of the item just pulled, whose root is copied at once.  An empty
\* or primitive root is the whole subtree.
CreateSubtree ==
  /\ ~builder.exists /\ built = NoDocument /\ reader.last # 0
  /\ \E fuel \in BuilderFuels :
       LET i == reader.last
           r == AppendItem([DocumentCreate(fuel - 2) EXCEPT !.blocks = 2], Null, Event(i), 0)
       IN  IF fuel < 2 THEN answer' = "OUT_OF_MEMORY" /\ UNCHANGED <<builder, goal>>
           ELSE /\ answer' = r.rc
                /\ builder' = IF r.rc # "OK" THEN NoBuilder
                              ELSE [exists |-> TRUE, doc |-> r.d, live |-> TRUE, subtree |-> TRUE,
                                    container |-> IF Opens(Event(i)) THEN r.node ELSE Null,
                                    done |-> Frontier(reader.content, i) = i, rc |-> "OK",
                                    base |-> LevelAt(reader.content, i), running |-> FALSE]
                /\ goal' = IF r.rc # "OK" THEN goal ELSE [content |-> SubContent(reader.content, i),
                                                      end |-> Frontier(reader.content, i)]
  /\ UNCHANGED <<reader, built>>

\* tlv_document_builder_consume begins; a builder that has finished or failed refuses.
BeginConsume ==
  /\ builder.exists /\ ~builder.running
  /\ IF builder.live THEN builder' = [builder EXCEPT !.running = TRUE] /\ UNCHANGED answer
                     ELSE answer' = "INVALID_STATE" /\ UNCHANGED builder
  /\ UNCHANGED <<reader, built, goal>>

Consuming == builder.exists /\ builder.running

\* The loop's condition: the subtree is complete, or the reader at its end.
Complete == IF builder.subtree THEN builder.done ELSE AtEnd

\* A failure of the build or of the reader takes the unfinished document along.
BuildFails(d, rc) ==
  /\ answer' = rc
  /\ builder' = [builder EXCEPT !.doc = Discarded(d), !.live = FALSE, !.running = FALSE,
                              !.rc = rc]

\* A close that leaves the builder inside the parent.
Ascend_Stays(d, n) == n

\* The parent of a container that is closed.
Ascend(d, n) == d.heap[n].parent

\* An END without a container to close is no part of the build.  (Nor is one the reader skipped
\* to, but while it builds the builder has the reader to itself and skips nothing.)
ConsumeEnd ==
  /\ Consuming /\ ~Complete /\ PullCode = "OK" /\ Event(reader.at + 1) = "END"
  /\ reader' = AfterPull
  /\ IF builder.container = Null THEN BuildFails(builder.doc, "INVALID_VALUE")
     ELSE /\ builder' = [builder EXCEPT !.container = Ascend(builder.doc, @),
                            !.done = @ \/ (builder.subtree /\ reader.level - 1 = builder.base)]
          /\ UNCHANGED answer
  /\ UNCHANGED <<built, goal>>

ConsumeItem ==
  /\ Consuming /\ ~Complete /\ PullCode = "OK" /\ Event(reader.at + 1) # "END"
  /\ reader' = AfterPull
  /\ LET e == Event(reader.at + 1)
         r == AppendItem(builder.doc, builder.container, e, reader.level - builder.base)
     IN  IF r.rc # "OK" THEN BuildFails(r.d, r.rc)
         ELSE /\ builder' = [builder EXCEPT !.doc = r.d,
                                            !.container = IF Opens(e) THEN r.node ELSE @]
              /\ UNCHANGED answer
  /\ UNCHANGED <<built, goal>>

\* Out of input: resumable.  Any other answer of the reader ends the build.
ConsumeStops ==
  /\ Consuming /\ ~Complete /\ PullCode # "OK"
  /\ IF PullCode = "NEED_MORE_DATA"
       THEN answer' = PullCode /\ builder' = [builder EXCEPT !.running = FALSE]
       ELSE BuildFails(builder.doc, PullCode)
  /\ UNCHANGED <<reader, built, goal>>

\* The document changes hands.
ConsumeCompletes ==
  /\ Consuming /\ Complete
  /\ answer' = "OK"
  /\ built' = [builder.doc EXCEPT !.blocks = @ - 1, !.fuel = 0]
  /\ builder' = [builder EXCEPT !.doc = NoDocument, !.live = FALSE, !.running = FALSE]
  /\ UNCHANGED <<reader, goal>>

\* tlv_document_builder_free, at any time between calls; then the caller frees the document.
BuilderFree ==
  /\ builder.exists /\ ~builder.running
  /\ builder' = NoBuilder /\ answer' = "OK"
  /\ UNCHANGED <<reader, built, goal>>

BuiltFree ==
  /\ ~builder.exists /\ built # NoDocument
  /\ built' = NoDocument /\ answer' = "OK"
  /\ UNCHANGED <<reader, builder, goal>>

BuilderNext == \/ CallerPulls \/ Feed \/ CreateWhole \/ CreateSubtree \/ BeginConsume
               \/ ConsumeEnd \/ ConsumeItem \/ ConsumeStops \/ ConsumeCompletes
               \/ BuilderFree \/ BuiltFree

-----------------------------------------------------------------------------
Blocks(d) == Cardinality(DOMAIN d.heap) - 1
               + Cardinality({n \in DOMAIN d.heap \ {Doc} : d.heap[n].val})

(***************************************************************************)
(* However the input was cut and however often consume was repeated, the    *)
(* document that comes out is the one tlv_document_parse makes of the same  *)
(* content, node for node, and the reader stands right behind it; a build   *)
(* fails only where that parse fails or memory ends, and releases every     *)
(* block it took.                                                           *)
(***************************************************************************)
BuilderParses ==
  LET p == Parse(goal.content, 99) IN
  /\ built # NoDocument =>
       /\ p.rc = "OK" /\ built.heap = p.d.heap /\ built.count = p.d.count
       /\ built.blocks = 1 + Blocks(built)
       /\ builder.exists => reader.at = goal.end
  /\ builder.exists =>
       /\ builder.doc.blocks = Blocks(builder.doc) + IF builder.live THEN 2 ELSE 0
       /\ builder.rc # "OK" => p.rc # "OK" \/ builder.rc = "OUT_OF_MEMORY"
=============================================================================
