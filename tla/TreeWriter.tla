----------------------------- MODULE TreeWriter -----------------------------
(***************************************************************************)
(* A tree writer (src/tlv/src/writer/tree.c) and its caller, who opens,     *)
(* fills and closes parents by the direct calls or by structural events,    *)
(* well ordered or not, repeats what failed, and installs tag storage.  The *)
(* format's encoder may fail at any call.                                   *)
(***************************************************************************)
EXTENDS WriterCore

CONSTANTS
  Tags(_),    \* tags the caller uses with a format, as [bytes, data]
  Values(_),  \* values of the elements it writes
  Storages(_),\* capacities of the tag storage it may install
  Formats,    \* the formats of the writers considered
  Limits(_)   \* their [size, scratch, frames, depth, elements]

ASSUME LimitsAssumption ==
  \A f \in Formats : \A l \in Limits(f) :
    /\ l.size \in Nat /\ l.scratch \in Nat /\ l.frames \in Nat
    /\ l.depth \in Nat /\ l.elements \in Nat

\* A failing encoder leaves any bytes at all, but inside its destination.
ASSUME LeftoversAssumption ==
  \A f \in Formats : \A l \in Limits(f) : \A n \in 0 .. l.size :
    \A t \in Leftovers(f, n) : t \in Seq(Nat) /\ Len(t) <= n

\* A tag without data has no bytes; tags and values are octets, storage has a size.
ASSUME CallerAssumption ==
  \A f \in Formats :
    /\ \A t \in Tags(f) : /\ t \in [bytes : Seq(Nat), data : BOOLEAN]
                          /\ ~t.data => t.bytes = <<>>
    /\ Values(f) \subseteq Seq(Nat) /\ Storages(f) \subseteq Nat

VARIABLES
  limits,   \* the writer's capacities and limits
  wr,       \* the tlv_tree_writer_t and the memory it borrows
  call,     \* the last call [kind, tag, value]
  result,   \* what it returned
  script    \* history: nodes written so far, [tag, value, depth] in order

vars == <<limits, wr, call, result, script>>

Call(kind, tag, value) == [kind |-> kind, tag |-> tag, value |-> value]

CallTags   == UNION {Tags(f) : f \in Formats}
CallValues == UNION {Values(f) : f \in Formats}

Calls == {Call("BEGIN", t.bytes, <<>>) : t \in CallTags}
           \cup {Call("ELEMENT", t.bytes, v) : t \in CallTags, v \in CallValues}
           \cup {Call(kind, <<>>, <<>>) : kind \in {"END", "STORAGE", "OTHER"}}

Init == /\ \E f \in Formats : /\ limits \in Limits(f)
                              /\ wr = TreeWriterInit(f, limits.size, limits.scratch)
        /\ call = Call("STORAGE", <<>>, <<>>) /\ result = "OK"
        /\ script = <<>>

\* One of a call's outcomes happens, and nodes are on record once they are written.
Happens(outcomes, c, nodes) ==
  \E o \in outcomes : /\ wr' = o.w /\ result' = o.rc /\ call' = c
                      /\ script' = IF o.rc = "OK" THEN script \o nodes ELSE script
                      /\ UNCHANGED limits

Node(tag, value, depth) == <<[tag |-> tag, value |-> value, depth |-> depth]>>

DoBegin == \E t \in Tags(wr.format) : Happens(Begin(wr, limits, t), Call("BEGIN", t.bytes, <<>>),
                                   Node(t.bytes, <<>>, WDepth(wr)))

DoElement == \E t \in Tags(wr.format) : \E v \in Values(wr.format) :
               Happens(WriteElement(wr, limits, [tag |-> t.bytes, value |-> v]),
                       Call("ELEMENT", t.bytes, v), Node(t.bytes, v, WDepth(wr)))

DoEnd == Happens(End(wr), Call("END", <<>>, <<>>), <<>>)

DoStorage == \E on \in BOOLEAN : \E n \in IF on THEN Storages(wr.format) ELSE {0} :
               Happens(SetTagStorage(wr, on, n), Call("STORAGE", <<>>, <<>>), <<>>)

\* An event carries the depth its producer believes in; a BEGIN's value is ignored.
NoTag == [bytes |-> <<>>, data |-> FALSE]

DoEvent ==
  \E kind \in {"BEGIN", "ELEMENT", "END", "OTHER"} :
    \E t \in IF kind \in {"BEGIN", "ELEMENT"} THEN Tags(wr.format) ELSE {NoTag} :
      \E v \in IF kind = "ELEMENT" THEN Values(wr.format) ELSE {<<>>} :
        \E depth \in 0 .. WDepth(wr) + 1 : \E skipped \in BOOLEAN :
          Happens(WriteEvent(wr, limits, [kind |-> kind, tag |-> t, value |-> v,
                                          depth |-> depth, skipped |-> skipped]),
                  Call(kind, t.bytes, v),
                  IF kind \in {"BEGIN", "ELEMENT"} THEN Node(t.bytes, v, depth) ELSE <<>>)

Next == DoBegin \/ DoElement \/ DoEnd \/ DoStorage \/ DoEvent

Spec == Init /\ [][Next]_vars

-----------------------------------------------------------------------------
Results == {"OK", "LIMIT", "BUFFER_TOO_SHORT", "INVALID_TAG", "INVALID_STATE", "INVALID_VALUE"}
             \cup ProviderErrors

WriterFrames == [start : Nat, data : BOOLEAN, own : BOOLEAN, at : Nat, size : Nat, bytes : Seq(Nat)]
Writers == [format : Formats, buf : Seq(Nat), pos : Nat, frames : Seq(WriterFrames), count : Nat,
            scratch : Seq(Nat), storing : BOOLEAN, tags : Seq(Nat), used : Nat]

\* The writer's record, and the codes that reach the caller: an encoder's control codes
\* (END, NEED_MORE_DATA) and sizes it got wrong arrive as CALLBACK.
TypeOK ==
  /\ wr \in Writers /\ limits \in Limits(wr.format)
  /\ Len(wr.buf) = limits.size /\ Len(wr.scratch) = limits.scratch
  /\ call \in Calls /\ result \in Results

\* Where in the buffer the content of frame k begins, and what of the tag storage was in
\* use before it; of frame WDepth + 1, the cursor and tags_used.
StartOf(w, k) == IF k > WDepth(w) THEN w.pos ELSE w.frames[k].start
TagAt(w, k)   == IF k > WDepth(w) THEN w.used ELSE w.frames[k].at

\* Tag storage a frame holds.
Held(f) == IF f.own THEN TagCost(f.size) ELSE 0

\* Open contents lie one after the other up to the cursor.
ContentsNest(w) == \A k \in 1 .. WDepth(w) : StartOf(w, k) <= StartOf(w, k + 1)

\* Exactly the frames with a tag to keep keep one, and these copies lie one after the
\* other from the start of the storage up to tags_used.
TagsTile(w) ==
  /\ TagAt(w, 1) = 0 /\ w.used <= Len(w.tags)
  /\ \A k \in 1 .. WDepth(w) : /\ w.frames[k].own = (w.storing /\ w.frames[k].data)
                               /\ TagAt(w, k + 1) = TagAt(w, k) + Held(w.frames[k])

(***************************************************************************)
(* What keeps tree.c inside the memory it borrows, through every failure:   *)
(* open contents lie one after the other up to the cursor, frames and       *)
(* limits hold, and the copied tags of the open parents fill the used part  *)
(* of the storage, none of them released twice or not at all.               *)
(***************************************************************************)
WriterSafe ==
  /\ TypeOK
  /\ wr.pos <= limits.size
  /\ WDepth(wr) <= limits.frames /\ WDepth(wr) <= limits.depth + 1
  /\ wr.count <= limits.elements /\ WDepth(wr) <= wr.count
  /\ ContentsNest(wr) /\ TagsTile(wr)

\* The closed roots, and the open parents: the tag of each, read where its frame says it
\* is, and the bytes between its frame and the next.
Roots(w)  == SubSeq(w.buf, 1, TreeSize(w))
Scopes(w) == [k \in 1 .. WDepth(w) |->
                [tag |-> TagOf(w, w.frames[k]),
                 content |-> SubSeq(w.buf, StartOf(w, k) + 1, StartOf(w, k + 1))]]

(***************************************************************************)
(* The writer is a TreeBuilder: its roots and open parents are the          *)
(* builder's, after calls that succeed and after calls that fail at any     *)
(* point.                                                                   *)
(***************************************************************************)
Builder == INSTANCE TreeBuilder WITH
  format <- wr.format, roots <- Roots(wr), scopes <- Scopes(wr)

Builds == Builder!Spec
=============================================================================
