----------------------------- MODULE WriterCore -----------------------------
(***************************************************************************)
(* The bounded tree writer of src/tlv/src/writer/tree.c as operators on one *)
(* tlv_tree_writer_t, over the cursor tlv_writer_t of writer.c.             *)
(*                                                                         *)
(* A writer w is [format, buf, pos, frames, count, scratch, storing, tags,  *)
(* used]: its format, the output buffer and its cursor, the open parents,   *)
(* the element count, the scratch buffer and the optional tag storage       *)
(* (storing: tags # NULL).                                                  *)
(* Buffers are sequences as long as their capacity.  Its limits l are       *)
(* [frames, depth, elements]: capacity, max_depth and max_elements.         *)
(*                                                                         *)
(* A call's effect is the set of its possible outcomes [rc, w], since an    *)
(* encoder may fail whenever it is called, after writing what it likes.     *)
(***************************************************************************)
EXTENDS Format

CONSTANTS
  Encoded(_, _),   \* [rc, bytes]: what a format's measure and encode make of an element
  IsParent(_, _),  \* format->is_constructed, on a tag's bytes
  Faults(_),       \* codes with which its encode callback may fail; "OK": a wrong size
  Leftovers(_, _)  \* what a failing encoder may have written into n bytes of room

\* s with t written at offset `at'; t fits.
Overlay(s, at, t) == [i \in 1 .. Len(s) |-> IF i > at /\ i <= at + Len(t) THEN t[i - at] ELSE s[i]]

\* tlv_format_encode's code for a callback that did not deliver the measured size.
FaultCode(c) == IF c = "OK" THEN "CALLBACK" ELSE CallbackResult(c)

\* tlv_format_measure's code: the provider's, or CALLBACK for an element of no bytes.
MeasureCode(b) == IF b.rc = "OK" /\ b.bytes = <<>> THEN "CALLBACK" ELSE CallbackResult(b.rc)

\* tlv_writer_write_element with the cursor at `at': measured first, so that nothing is
\* written unless it fits, and advanced only on success.  A failing encoder may have
\* overwritten any part of its destination, which extends to the end of the buffer.
WriteAt(f, buf, at, e) ==
  LET b == Encoded(f, e)
      Unwritten(rc) == {[rc |-> rc, buf |-> buf, pos |-> at]}
  IN  IF at > Len(buf) THEN Unwritten("BUFFER_TOO_SHORT")
      ELSE IF MeasureCode(b) # "OK" THEN Unwritten(MeasureCode(b))
      ELSE IF Len(buf) - at < Len(b.bytes) THEN Unwritten("BUFFER_TOO_SHORT")
      ELSE {[rc |-> "OK", buf |-> Overlay(buf, at, b.bytes), pos |-> at + Len(b.bytes)]} \cup
           {[rc |-> FaultCode(c), buf |-> Overlay(buf, at, t), pos |-> at]
              : c \in Faults(f), t \in Leftovers(f, Len(buf) - at)}

\* tlv_writer_copy_encoded: bytes that are already encoded, all of them or none.
CopyEncoded(buf, at, bytes) ==
  IF at > Len(buf) \/ Len(buf) - at < Len(bytes)
    THEN [rc |-> "BUFFER_TOO_SHORT", buf |-> buf, pos |-> at]
    ELSE [rc |-> "OK", buf |-> Overlay(buf, at, bytes), pos |-> at + Len(bytes)]

-----------------------------------------------------------------------------
\* tlv_tree_writer_init
TreeWriterInit(f, size, scratch) ==
  [format |-> f, buf |-> [i \in 1 .. size |-> 0], pos |-> 0, frames |-> <<>>, count |-> 0,
   scratch |-> [i \in 1 .. scratch |-> 0], storing |-> FALSE, tags |-> <<>>, used |-> 0]

Refused(w, rc) == {[rc |-> rc, w |-> w]}
WDepth(w) == Len(w.frames)

\* tlv_tree_writer_set_tag_storage
SetTagStorage(w, on, capacity) ==
  IF w.frames # <<>> THEN Refused(w, "INVALID_STATE")
  ELSE {[rc |-> "OK", w |-> [w EXCEPT !.storing = on, !.used = 0,
                                      !.tags = [i \in 1 .. capacity |-> 0]]]}

\* A tag is handed in as [bytes, data]: `data' is false for a NULL pointer, which an
\* empty tag may have.  A frame's tag is the caller's, or its own copy at `at' in w.tags
\* (tags_used when the frame was opened).
TagCost(size) == IF size = 0 THEN 1 ELSE size
Stored(w, tag) == w.storing /\ tag.data
TagOf(w, f) == IF f.own THEN SubSeq(w.tags, f.at + 1, f.at + f.size) ELSE f.bytes

\* Limits noticed one element late.
OverLimit_Late(w, l) == WDepth(w) > l.depth \/ w.count > l.elements

OverLimit(w, l) == WDepth(w) > l.depth \/ w.count >= l.elements

BeginResult(w, l, tag) ==
  IF OverLimit(w, l) THEN "LIMIT"
  ELSE IF WDepth(w) >= l.frames THEN "BUFFER_TOO_SHORT"
  ELSE IF ~IsParent(w.format, tag.bytes) THEN "INVALID_TAG"
  ELSE IF Stored(w, tag) /\ TagCost(Len(tag.bytes)) > Len(w.tags) - w.used
    THEN "BUFFER_TOO_SHORT" ELSE "OK"

\* The writer after a successful tlv_tree_writer_begin: nothing of the parent is in the
\* output yet.
Begun(w, tag) ==
  LET own == Stored(w, tag)
  IN  [w EXCEPT !.tags   = IF own THEN Overlay(@, w.used, tag.bytes) ELSE @,
                !.used   = IF own THEN @ + TagCost(Len(tag.bytes)) ELSE @,
                !.frames = Append(@, [start |-> w.pos, data |-> tag.data, own |-> own,
                                      at |-> w.used, size |-> Len(tag.bytes),
                                      bytes |-> IF own THEN <<>> ELSE tag.bytes]),
                !.count  = @ + 1]

\* tlv_tree_writer_begin
Begin(w, l, tag) == IF BeginResult(w, l, tag) # "OK" THEN Refused(w, BeginResult(w, l, tag))
                    ELSE {[rc |-> "OK", w |-> Begun(w, tag)]}

\* tlv_tree_writer_write_element
WriteElement(w, l, e) ==
  IF OverLimit(w, l) THEN Refused(w, "LIMIT")
  ELSE {[rc |-> o.rc, w |-> [w EXCEPT !.buf = o.buf, !.pos = o.pos,
                                      !.count = IF o.rc = "OK" THEN @ + 1 ELSE @]]
          : o \in WriteAt(w.format, w.buf, w.pos, e)}

-----------------------------------------------------------------------------
\* What END works with: the innermost frame, its accumulated content, the scratch that
\* holds a copy of it, and the outcomes of encoding the parent back over the content.
Top(w)     == w.frames[WDepth(w)]
Content(w) == SubSeq(w.buf, Top(w).start + 1, w.pos)
Saved(w)   == Overlay(w.scratch, 0, Content(w))
Parent(w)  == [tag |-> TagOf(w, Top(w)), value |-> SubSeq(Saved(w), 1, Len(Content(w)))]

\* Outcome o of encoding the parent, for a writer that leaves what a failed encoder wrote.
Ended_NoRestore(w, o) ==
  IF o.rc = "OK"
    THEN [w EXCEPT !.buf = o.buf, !.pos = o.pos, !.scratch = Saved(w),
                   !.frames = SubSeq(@, 1, Len(@) - 1),
                   !.used = IF w.storing /\ Top(w).data THEN @ - TagCost(Top(w).size) ELSE @]
    ELSE [w EXCEPT !.buf = o.buf, !.scratch = Saved(w)]

\* The writer after outcome o of encoding the parent: a failed encoder may have
\* overwritten the content, which is put back.
Ended(w, o) ==
  IF o.rc = "OK"
    THEN [w EXCEPT !.buf = o.buf, !.pos = o.pos, !.scratch = Saved(w),
                   !.frames = SubSeq(@, 1, Len(@) - 1),
                   !.used = IF w.storing /\ Top(w).data THEN @ - TagCost(Top(w).size) ELSE @]
    ELSE [w EXCEPT !.buf = Overlay(o.buf, Top(w).start, Parent(w).value),
                   !.scratch = Saved(w)]

\* tlv_tree_writer_end
End(w) ==
  IF w.frames = <<>> THEN Refused(w, "INVALID_STATE")
  ELSE IF Len(Content(w)) > Len(w.scratch) THEN Refused(w, "BUFFER_TOO_SHORT")
  ELSE {[rc |-> o.rc, w |-> Ended(w, o)] : o \in WriteAt(w.format, w.buf, Top(w).start, Parent(w))}

\* Events whose depth is taken at its word.
EventMisplaced_Trusting(w, event) ==
  \/ event.skipped
  \/ event.kind \notin {"BEGIN", "ELEMENT", "END"}
  \/ event.kind = "END" /\ w.frames = <<>>

\* An event that does not continue the tree at hand; measurement checks the same.
EventMisplaced(w, event) ==
  \/ event.skipped
  \/ event.kind \notin {"BEGIN", "ELEMENT", "END"}
  \/ IF event.kind = "END" THEN w.frames = <<>> \/ event.depth # WDepth(w) - 1
     ELSE event.depth # WDepth(w)

\* tlv_tree_writer_write_event
WriteEvent(w, l, event) ==
  CASE EventMisplaced(w, event) -> Refused(w, "INVALID_VALUE")
    [] ~EventMisplaced(w, event) /\ event.kind = "BEGIN"   -> Begin(w, l, event.tag)
    [] ~EventMisplaced(w, event) /\ event.kind = "END"     -> End(w)
    [] ~EventMisplaced(w, event) /\ event.kind = "ELEMENT" ->
         IF IsParent(w.format, event.tag.bytes) THEN Refused(w, "INVALID_TAG")
         ELSE WriteElement(w, l, [tag |-> event.tag.bytes, value |-> event.value])

\* tlv_tree_writer_size: the bytes of closed roots.
TreeSize(w) == IF w.frames = <<>> THEN w.pos ELSE w.frames[1].start
=============================================================================
