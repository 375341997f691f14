---------------------------- MODULE DocumentCore ----------------------------
(***************************************************************************)
(* The owned tree of src/tlv/src/document/document.c, down to its pointers, *)
(* as operators on one tlv_document_t with the memory it has allocated.     *)
(*                                                                         *)
(* A document d is [heap, count, revision, epoch, callbacks, pending,       *)
(* nextId, fuel, blocks].  heap maps the addresses of live nodes to         *)
(*   [parent, prev, next, first, last,      links, Null for NULL            *)
(*    id, con, val, erase, loc]             identity, constructed, owns a   *)
(*                                          value block, pending_erase, has *)
(*                                          its source location             *)
(* and Doc, the document's own first and last, to such a record too; Holder *)
(* stands for the detached parent that edits build under.  `fuel' is the    *)
(* number of allocations that still succeed during the call, `blocks' the   *)
(* number of blocks allocated and not released.                             *)
(*                                                                         *)
(* Wire content is what the tree reader makes of it: [events, rc, size], the*)
(* events of the complete input up to an error, if there is one.            *)
(***************************************************************************)
EXTENDS Integers, Sequences, FiniteSets, TLC, SequencesExt

CONSTANTS
  Addresses,    \* where nodes can be allocated: a set of positive integers
  MaxDepth,     \* options.max_depth
  MaxElements,  \* options.max_elements
  IdMax         \* UINT64_MAX, the last identity

Null   == 0
Doc    == -1
Holder == -2

Blank == [parent |-> Null, prev |-> Null, next |-> Null, first |-> Null, last |-> Null,
          id |-> 0, con |-> TRUE, val |-> FALSE, erase |-> FALSE, loc |-> FALSE]

\* tlv_document_create
DocumentCreate(fuel) ==
  [heap |-> (Doc :> Blank), count |-> 0, revision |-> 0, epoch |-> 0, callbacks |-> 0,
   pending |-> 0, nextId |-> 0, fuel |-> fuel, blocks |-> 1]

-----------------------------------------------------------------------------
\* list_first, list_last: where the child list of a parent is kept.
Owner(parent) == IF parent = Null THEN Doc ELSE parent

\* The two ends of a link: where the list continues after p, and before s.
SetNext(h, owner, p, s) ==
  IF p = Null THEN [h EXCEPT ![owner].first = s] ELSE [h EXCEPT ![p].next = s]
SetPrev(h, owner, s, p) ==
  IF s = Null THEN [h EXCEPT ![owner].last = p] ELSE [h EXCEPT ![s].prev = p]

PrevOf(h, parent, before) == IF before = Null THEN h[Owner(parent)].last ELSE h[before].prev
Placed(h, parent, before, n) ==
  [h EXCEPT ![n].parent = parent, ![n].prev = PrevOf(h, parent, before), ![n].next = before]

\* A link that forgets the way back from the successor.
NodeLink_OneWay(h, parent, before, n) ==
  LET h1 == SetNext(Placed(h, parent, before, n), Owner(parent), PrevOf(h, parent, before), n)
  IN  IF before = Null THEN SetPrev(h1, Owner(parent), Null, n) ELSE h1

\* node_link
NodeLink(h, parent, before, n) ==
  SetPrev(SetNext(Placed(h, parent, before, n), Owner(parent), PrevOf(h, parent, before), n),
          Owner(parent), before, n)

\* node_unlink
NodeUnlink(h, n) ==
  [SetPrev(SetNext(h, Owner(h[n].parent), h[n].prev, h[n].next),
           Owner(h[n].parent), h[n].next, h[n].prev)
     EXCEPT ![n].parent = Null, ![n].prev = Null, ![n].next = Null]

\* The sibling list from n on, following `next'.
Siblings(h, n) ==
  LET From[k \in Nat, m \in DOMAIN h \cup {Null}] ==
        IF m = Null \/ k = 0 THEN <<>> ELSE <<m>> \o From[k - 1, h[m].next]
  IN  From[Cardinality(DOMAIN h), n]

Children(h, n) == Siblings(h, h[Owner(n)].first)

\* A node and its descendants, as subtree_next walks them: in preorder.
Subtree(h, n) ==
  LET Walk[k \in Nat, m \in DOMAIN h] ==
        IF k = 0 THEN <<>>
        ELSE <<m>> \o FlattenSeq([i \in 1 .. Len(Children(h, m)) |-> Walk[k - 1, Children(h, m)[i]]])
  IN  Walk[MaxDepth + 2, n]
Preorder(h) == Tail(Subtree(h, Doc))

NodeDepth(h, n) ==
  LET Up[k \in Nat, m \in DOMAIN h] ==
        IF k = 0 \/ h[m].parent = Null THEN 0 ELSE 1 + Up[k - 1, h[m].parent]
  IN  Up[Cardinality(DOMAIN h), n]

\* free_subtree: the nodes and the values they own.
FreeNodes(d, nodes) ==
  [d EXCEPT !.heap = [a \in DOMAIN @ \ nodes |-> @[a]],
            !.blocks = @ - Cardinality(nodes) - Cardinality({n \in nodes : d.heap[n].val})]
FreeSubtree(d, n) == FreeNodes(d, ToSet(Subtree(d.heap, n)))

\* free_children and discard_children, without and with the document's count.
FreeChildren(d, n) ==
  [FreeNodes(d, ToSet(Subtree(d.heap, n)) \ {n})
     EXCEPT !.heap[n].first = Null, !.heap[n].last = Null]
DiscardChildren(d, n) ==
  [FreeChildren(d, n) EXCEPT !.count = @ - (Len(Subtree(d.heap, n)) - 1)]

\* invalidate_locations, from n up.
Ancestry(h, n) ==
  LET Up[k \in Nat, m \in DOMAIN h \cup {Null}] ==
        IF m = Null \/ k = 0 THEN {} ELSE {m} \cup Up[k - 1, h[m].parent]
  IN  Up[Cardinality(DOMAIN h), n]

\* Only the edited node forgets where it was parsed.
InvalidateLocations_Own(h, n) ==
  [a \in DOMAIN h |-> IF a = n THEN [h[a] EXCEPT !.loc = FALSE] ELSE h[a]]

InvalidateLocations(h, n) ==
  [a \in DOMAIN h |-> IF a \in Ancestry(h, n) THEN [h[a] EXCEPT !.loc = FALSE] ELSE h[a]]

-----------------------------------------------------------------------------
Free(d) == CHOOSE a \in Addresses \ DOMAIN d.heap : \A b \in Addresses \ DOMAIN d.heap : a <= b

Failed(d, rc) == [rc |-> rc, d |-> d, node |-> Null]

IdentitiesSpent(d) == d.nextId = IdMax

\* document_create_node: appended to the list of `parent'.  An identity is spent even if
\* the value's block cannot be allocated.
NewNode(d, con, val, loc) ==
  [Blank EXCEPT !.id = d.nextId + 1, !.con = con, !.val = val, !.loc = loc]
CreateNode(d, parent, con, val, depth, loc) ==
  IF depth > MaxDepth \/ d.count >= MaxElements THEN Failed(d, "LIMIT")
  ELSE IF IdentitiesSpent(d) THEN Failed(d, "OVERFLOW")
  ELSE IF d.fuel = 0 THEN Failed(d, "OUT_OF_MEMORY")
  ELSE IF val /\ d.fuel = 1
    THEN Failed([d EXCEPT !.nextId = @ + 1, !.fuel = 0], "OUT_OF_MEMORY")
  ELSE [rc |-> "OK", node |-> Free(d),
        d  |-> [d EXCEPT !.heap = NodeLink((Free(d) :> NewNode(d, con, val, loc)) @@ @,
                                           parent, Null, Free(d)),
                         !.count = @ + 1, !.nextId = @ + 1,
                         !.fuel = IF val THEN @ - 2 ELSE @ - 1,
                         !.blocks = IF val THEN @ + 2 ELSE @ + 1]]

Lesser(a, b) == IF a < b THEN a ELSE b

\* The tree reader's limits: `room' levels below the first, `left' elements in all.
Exhausted(s, room, left) == s.level > room \/ s.read = left

\* consume_tree, one event: c is the node made of it, at s.at, `level' levels down.
Consumed(s, event, c) ==
  [s EXCEPT !.rc = c.rc, !.d = c.d, !.read = @ + 1,
            !.at = IF event = "BEGIN" /\ c.rc = "OK" THEN c.node ELSE @,
            !.level = IF event = "BEGIN" THEN @ + 1 ELSE @]
Consume(s, event, depth, loc, room, left) ==
  IF s.rc # "OK" THEN s
  ELSE IF event = "END" THEN [s EXCEPT !.at = s.d.heap[s.at].parent, !.level = @ - 1]
  ELSE IF Exhausted(s, room, left) THEN [s EXCEPT !.rc = "LIMIT"]
  ELSE Consumed(s, event, CreateNode(s.d, s.at, event = "BEGIN", event = "BYTES",
                                     depth + s.level, loc))

\* What a reading that stopped in state s answers: an error of the content is only met
\* within the limits.
Verdict(s, content, room, left) ==
  IF s.rc # "OK" THEN s.rc
  ELSE IF content.rc # "OK" /\ Exhausted(s, room, left) THEN "LIMIT"
  ELSE content.rc
ParseEnd(s, content, room, left) ==
  [rc |-> Verdict(s, content, room, left), d |-> s.d, node |-> Null]

\* The tree reader is given `room' frames and as many elements as the document has left.
ParseWithin(d, parent, content, depth, room, left) ==
  IF content.size > 0 /\ depth > MaxDepth THEN Failed(d, "LIMIT")
  ELSE IF room > 0 /\ d.fuel = 0 THEN Failed(d, "OUT_OF_MEMORY")
  ELSE ParseEnd(FoldLeft(LAMBDA s, e : Consume(s, e, depth, parent = Null, room, left),
                         [rc |-> "OK", at |-> parent, level |-> 0, read |-> 0,
                          d  |-> IF room > 0 THEN [d EXCEPT !.fuel = @ - 1] ELSE d],
                         content.events),
                content, room, left)

\* document_parse_list: the content's events, appended under `parent'.
ParseList(d, parent, content, depth) ==
  ParseWithin(d, parent, content, depth,
              Lesser(Lesser(IF depth > MaxDepth THEN 0 ELSE MaxDepth - depth, content.size),
                     MaxElements - d.count),
              MaxElements - d.count)

Unbuilt(d, n) ==
  FreeSubtree([d EXCEPT !.heap = NodeUnlink(@, n), !.count = @ - Len(Subtree(d.heap, n))], n)

\* build_node: a failure unlinks, uncounts and frees everything built so far.
BuildEnd(n, p) == IF p.rc # "OK" THEN Failed(Unbuilt(p.d, n), p.rc) ELSE [p EXCEPT !.node = n]
BuildUnder(c, con, content, depth) ==
  IF c.rc # "OK" \/ ~con \/ content.size = 0 THEN c
  ELSE BuildEnd(c.node, IF depth = MaxDepth THEN Failed(c.d, "LIMIT")
                        ELSE ParseList(c.d, c.node, content, depth + 1))
BuildNode(d, parent, con, content, depth) ==
  BuildUnder(CreateNode(d, parent, con, ~con /\ content.size > 0, depth, FALSE),
             con, content, depth)

-----------------------------------------------------------------------------
WithHolder(d)    == [d EXCEPT !.heap = (Holder :> Blank) @@ @]
WithoutHolder(d) == [d EXCEPT !.heap = [a \in DOMAIN @ \ {Holder} |-> @[a]]]

\* The node b built under the holder moves to its place.
InsertBuilt(b, parent, before) ==
  IF b.rc # "OK" THEN Failed(WithoutHolder(b.d), b.rc)
  ELSE [rc |-> "OK", node |-> b.node,
        d  |-> [WithoutHolder([b.d EXCEPT !.heap = NodeUnlink(@, b.node)])
                  EXCEPT !.heap = InvalidateLocations(NodeLink(@, parent, before, b.node), parent),
                         !.revision = @ + 1]]

\* tlv_document_insert of a node with tag kind "PRIMITIVE", "PARENT" or "UNWRITABLE" (one
\* the format refuses to write).
Insert(d, parent, before, kind, content) ==
  IF d.callbacks > 0 THEN Failed(d, "INVALID_STATE")
  ELSE IF parent # Null /\ ~d.heap[parent].con THEN Failed(d, "INVALID_ARG")
  ELSE IF before # Null /\ d.heap[before].parent # parent THEN Failed(d, "INVALID_ARG")
  ELSE IF kind = "UNWRITABLE" THEN Failed(d, "INVALID_TAG")
  ELSE InsertBuilt(BuildNode(WithHolder(d), Holder, kind = "PARENT", content,
                             IF parent = Null THEN 0 ELSE NodeDepth(d.heap, parent) + 1),
                   parent, before)

\* The holder's children become those of n.
Adopt(h, n) ==
  LET new == ToSet(Children(h, Holder))
  IN  [a \in DOMAIN h |->
         CASE a = n -> [h[n] EXCEPT !.first = h[Holder].first, !.last = h[Holder].last]
           [] a \in new -> [h[a] EXCEPT !.parent = n]
           [] OTHER -> h[a]]

\* An epoch that also counts replacements that retire no node.
EpochAfter_Always(d, retired) == d.epoch + 1

EpochAfter(d, retired) == IF retired > 0 THEN d.epoch + 1 ELSE d.epoch

\* The value of a primitive: a new block for it, if it is not empty, and the old one goes.
SetBytes(d, n, val) ==
  IF val /\ d.fuel = 0 THEN Failed(d, "OUT_OF_MEMORY")
  ELSE [rc |-> "OK", node |-> Null,
        d  |-> [d EXCEPT !.heap = InvalidateLocations([@ EXCEPT ![n].val = val], n),
                         !.blocks = @ + (IF val THEN 1 ELSE 0)
                                      - (IF d.heap[n].val THEN 1 ELSE 0),
                         !.fuel = IF val THEN @ - 1 ELSE @,
                         !.revision = @ + 1]]

\* The content p parsed under the holder replaces the `old' descendants of n.
SetParsed(p, n, old) ==
  IF p.rc # "OK"
    THEN Failed(WithoutHolder([DiscardChildren(p.d, Holder) EXCEPT !.count = @ + old]), p.rc)
  ELSE [rc |-> "OK", node |-> Null,
        d  |-> WithoutHolder([FreeChildren(p.d, n)
                                EXCEPT !.heap = InvalidateLocations(Adopt(@, n), n),
                                       !.epoch = EpochAfter(p.d, old),
                                       !.revision = @ + 1])]

\* A parent's content is parsed while the old children stay in place but stop counting.
SetContent(d, n, content, old) ==
  SetParsed(ParseList(WithHolder([d EXCEPT !.count = @ - old]), Holder, content,
                      NodeDepth(d.heap, n) + 1),
            n, old)

\* tlv_node_set_value
SetValue(d, n, content) ==
  IF d.callbacks > 0 THEN Failed(d, "INVALID_STATE")
  ELSE IF ~d.heap[n].con THEN SetBytes(d, n, content.size > 0)
  ELSE SetContent(d, n, content, Len(Subtree(d.heap, n)) - 1)

\* The node leaves the tree with everything below it: h is the heap without its links.
Detach(d, n, h) ==
  FreeSubtree([d EXCEPT !.heap = h, !.count = @ - Len(Subtree(h, n)),
                        !.epoch = @ + 1, !.revision = @ + 1], n)
EraseNow(d, n) ==
  Detach(d, n, NodeUnlink(InvalidateLocations(d.heap, d.heap[n].parent), n))

\* An erase that does not wait for the callbacks that hold the node.
Erase_Now(d, n) == EraseNow(d, n)

\* A deferred erase that is counted when it is asked for.
Erase_Counted(d, n) ==
  IF d.callbacks > 0
    THEN [d EXCEPT !.heap[n].erase = TRUE, !.pending = IF @ = 0 THEN 1 ELSE @,
                   !.epoch = @ + 1]
    ELSE EraseNow(IF d.heap[n].erase THEN [d EXCEPT !.epoch = @ - 1] ELSE d, n)

\* tlv_node_erase: deferred while callbacks run.
Erase(d, n) ==
  IF d.callbacks > 0
    THEN [d EXCEPT !.heap[n].erase = TRUE, !.pending = IF @ = 0 THEN 1 ELSE @]
    ELSE EraseNow(d, n)

\* tlv_document_free outside callbacks: the blocks left over should be none.
NoDocument == [DocumentCreate(0) EXCEPT !.blocks = 0]
DocumentFree(d) == [NoDocument EXCEPT !.blocks = DiscardChildren(d, Doc).blocks - 1]

\* tlv_document_parse: a failure frees the document again.
ParseKept(p) == IF p.rc # "OK" THEN Failed(DocumentFree(p.d), p.rc) ELSE p
Parse(content, fuel) ==
  IF fuel = 0 THEN Failed(NoDocument, "OUT_OF_MEMORY")
  ELSE ParseKept(ParseList(DocumentCreate(fuel - 1), Null, content, 0))

-----------------------------------------------------------------------------
\* document_query_callback: a callback begins; it ends, and says what it had deferred,
\* unless another callback is still running.
Enter(d)    == [d EXCEPT !.callbacks = @ + 1]
Deferred(d) == IF d.callbacks = 1 THEN d.pending ELSE 0
Leave(d)    == [d EXCEPT !.callbacks = @ - 1, !.pending = IF d.callbacks = 1 THEN 0 ELSE @]

\* The node after the subtree of n in preorder: the next sibling of n or of the nearest
\* ancestor that has one.
AfterSubtree(h, n) ==
  LET Up[k \in Nat, m \in DOMAIN h] ==
        IF k = 0 \/ h[m].parent = Null \/ h[m].next # Null THEN h[m].next
        ELSE Up[k - 1, h[m].parent]
  IN  Up[Cardinality(DOMAIN h), n]
PreorderNext(h, n) == IF h[n].first # Null THEN h[n].first ELSE AfterSubtree(h, n)

\* The walk that commits deferred erasures does not enter a subtree about to go.
CommitNext(h, n) ==
  IF ~h[n].erase /\ h[n].first # Null THEN h[n].first ELSE AfterSubtree(h, n)

-----------------------------------------------------------------------------
(* document_edit_targets: one edit for every node of a selection, in preorder. *)

\* A selection that keeps nodes below other selected nodes.
Uncovered_All(h, targets) == targets

\* Ancestors dominate: a target below the last one kept is dropped.
Uncovered(h, targets) ==
  FoldLeft(LAMBDA kept, t :
             IF kept # <<>> /\ Last(kept) \in Ancestry(h, h[t].parent) THEN kept
             ELSE Append(kept, t),
           <<>>, targets)

\* The content read for its shape alone: [rc, read, deepest].
Look(s, event) ==
  IF s.rc # "OK" THEN s
  ELSE IF event = "END" THEN [s EXCEPT !.level = @ - 1]
  ELSE IF Exhausted(s, MaxDepth, MaxElements) THEN [s EXCEPT !.rc = "LIMIT"]
  ELSE [s EXCEPT !.read = @ + 1, !.deepest = IF s.level > @ THEN s.level ELSE @,
                 !.level = IF event = "BEGIN" THEN @ + 1 ELSE @]
ShapeEnd(s, content) == [s EXCEPT !.rc = Verdict(s, content, MaxDepth, MaxElements)]
Shape(content) ==
  ShapeEnd(FoldLeft(Look, [rc |-> "OK", level |-> 0, read |-> 0, deepest |-> 0],
                    content.events),
           content)

\* A preflight that lets the content reach one level too deep.
TooDeep_ByOne(shape, depth) ==
  shape.read > 0 /\ (depth > MaxDepth \/ shape.deepest > MaxDepth - depth)

TooDeep(shape, depth) ==
  shape.read > 0 /\ (depth >= MaxDepth \/ shape.deepest > MaxDepth - depth - 1)

\* Depth and element limits of every target, counted over all of them; `base' elements are
\* there once the target has lost its own.
Counted(s, t, d, op, shape, base) ==
  IF s.rc # "OK" \/ (op = "REPLACE" /\ ~d.heap[t].con) THEN s
  ELSE IF TooDeep(shape, NodeDepth(d.heap, t)) \/ base + shape.read > MaxElements
    THEN [s EXCEPT !.rc = "LIMIT"]
  ELSE [s EXCEPT !.count = base + shape.read]
Projected(d, targets, op, shape) ==
  IF op = "REMOVE" THEN "OK"
  ELSE FoldLeft(LAMBDA s, t :
                  Counted(s, t, d, op, shape,
                          IF op = "REPLACE" THEN s.count - (Len(Subtree(d.heap, t)) - 1)
                          ELSE s.count + 1),
                [rc |-> "OK", count |-> d.count], targets).rc

\* Everything checked and copied before the first node changes.
Parses(d, targets, op, kind, content) ==
  /\ content.size > 0
  /\ \/ op = "INSERT_AFTER" /\ kind = "PARENT"
     \/ op = "REPLACE" /\ \E t \in ToSet(targets) : d.heap[t].con

Copied(d, limits, copies) ==
  IF limits # "OK" THEN Failed(d, limits)
  ELSE IF ~copies THEN [rc |-> "OK", node |-> Null, d |-> d]
  ELSE IF d.fuel = 0 THEN Failed(d, "OUT_OF_MEMORY")
  ELSE [rc |-> "OK", node |-> Null, d |-> [d EXCEPT !.fuel = @ - 1, !.blocks = @ + 1]]

Checked(d, targets, op, content, shape) ==
  IF shape.rc # "OK" THEN Failed(d, shape.rc)
  ELSE Copied(d, Projected(d, targets, op, shape), op # "REMOVE" /\ content.size > 0)

Preflight(d, targets, op, kind, content) ==
  IF op = "INSERT_AFTER" /\ kind = "UNWRITABLE" THEN Failed(d, "INVALID_TAG")
  ELSE IF ~Parses(d, targets, op, kind, content)
    THEN Checked(d, targets, op, content, [rc |-> "OK", read |-> 0, deepest |-> 0])
  ELSE IF MaxDepth = 0 THEN Checked(d, targets, op, content, Shape(content))
  ELSE IF d.fuel = 0 THEN Failed(d, "OUT_OF_MEMORY")
  ELSE Checked([d EXCEPT !.fuel = @ - 1], targets, op, content, Shape(content))

EditOne(d, t, op, kind, content) ==
  CASE op = "REMOVE"  -> [rc |-> "OK", node |-> Null, d |-> Erase(d, t)]
    [] op = "REPLACE" -> SetValue(d, t, content)
    [] OTHER -> Insert(d, d.heap[t].parent, d.heap[t].next, kind, content)
=============================================================================
