-------------------------- MODULE TreeReader_proofs --------------------------
(***************************************************************************)
(* The tree reader, for every set of streams, every SIZE_MAX, every frame   *)
(* array and limits and every decode callback, also one that lies about its *)
(* elements: the traversal stays inside the window and the frame array.     *)
(* And for a format that keeps the decoder's promises, the nodes it hands   *)
(* out are TreeWalk's.                                                      *)
(***************************************************************************)
EXTENDS TreeReader, ReaderCore_proofs, SequenceTheorems, WellFoundedInduction

\* The facts every step starts from.
LEMMA InvFacts ==
  ASSUME TreeInv
  PROVE  /\ stream \in Streams /\ tree \in TreeReaders /\ tree.input \in Readers
         /\ tree.frames \in Seq(Frames) /\ Depth(tree) \in Nat
         /\ \A k \in 1 .. Depth(tree) : tree.frames[k] \in Frames
         /\ tree.pending \in Frames /\ tree.count \in Nat
         /\ tree.input.base \in Nat /\ tree.input.size \in Nat /\ tree.input.pos \in Nat
         /\ WindowOK(stream, tree.input) /\ InStream(stream, tree.input) /\ ScopesNest
         /\ SizeMax \in Nat /\ Len(stream) \in Nat
         /\ tree.input.base + tree.input.size <= SizeMax
         /\ ReaderOffset(tree.input) = Cursor
<1>1. /\ stream \in Streams /\ tree \in TreeReaders
      /\ WindowOK(stream, tree.input) /\ ScopesNest
  BY DEF TreeInv, TypeOK, FramesSafe
<1>2. tree.input \in Readers /\ tree.frames \in Seq(Frames) /\ tree.pending \in Frames
      /\ tree.count \in Nat
  BY <1>1 DEF TreeReaders
<1>3. tree.input.base \in Nat /\ tree.input.size \in Nat /\ tree.input.pos \in Nat
  BY <1>2 DEF Readers
<1>4. Depth(tree) \in Nat /\ \A k \in 1 .. Depth(tree) : tree.frames[k] \in Frames
  BY <1>2 DEF Depth
<1>5. InStream(stream, tree.input) /\ tree.input.base + tree.input.size <= SizeMax
  BY <1>1 DEF WindowOK, InStream
<1> QED
  BY <1>1, <1>2, <1>3, <1>4, <1>5, StreamLength, SizeMaxAssumption, ValidWindow DEF Cursor

\* A fresh tlv_tree_reader_t has no scopes and an unread window.
LEMMA TreeInitInv == Init => TreeInv
<1> SUFFICES ASSUME Init PROVE TreeInv
  OBVIOUS
<1>1. Len(stream) \in Nat /\ SizeMax \in Nat
  BY StreamLength, SizeMaxAssumption DEF Init
<1>2. PICK n \in 0 .. Available(stream, 0), final \in BOOLEAN :
        (final => n = Len(stream)) /\ tree = TreeInit(n, final)
  BY DEF Init
<1>3. n \in Nat /\ n <= Len(stream) /\ n <= SizeMax
  BY <1>1 DEF Available
<1>4. ReaderInit(n, final) \in Readers /\ WindowOK(stream, ReaderInit(n, final))
  BY <1>1, <1>2, <1>3 DEF ReaderInit, Readers, WindowOK, InStream
<1>5. /\ tree.input = ReaderInit(n, final) /\ tree.frames = <<>> /\ tree.count = 0
      /\ tree.descend = FALSE /\ tree.endPending = FALSE
  BY <1>2 DEF TreeInit
<1>6. tree \in TreeReaders
  <2>1. <<>> \in Seq(Frames) /\ [end |-> 0, resume |-> 0] \in Frames
    BY DEF Frames
  <2> QED
    BY <1>2, <1>4, <2>1 DEF TreeInit, TreeReaders
<1>7. Depth(tree) = 0
  BY <1>5 DEF Depth
<1>8. ScopesNest
  BY <1>3, <1>5, <1>7 DEF ScopesNest, Fits, Cursor, ReaderInit
<1>9. limits \in Limits /\ 0 <= limits.capacity /\ 0 <= limits.depth /\ 0 <= limits.elements
  BY LimitsAssumption DEF Init
<1> QED
  BY <1>4, <1>5, <1>6, <1>7, <1>8, <1>9 DEF TreeInv, TypeOK, FramesSafe, Init, Results

-----------------------------------------------------------------------------
\* An offset at or after the cursor has a place in the window's numbering.
LEMMA Ahead ==
  ASSUME NEW base \in Nat, NEW pos \in Nat, NEW x \in Nat, base + pos <= x
  PROVE  x >= base /\ x - base \in Nat
OBVIOUS

\* close_event: the cursor goes to the closed scope's resume, which lies in the window
\* and in every scope that stays open.
LEMMA ClosedFields ==
  ASSUME TreeInv, Closes(tree)
  PROVE  LET c == Closed(tree)
             f == ClosedFrame(tree)
         IN  /\ f \in Frames /\ Cursor <= f.resume
             /\ f.resume - tree.input.base \in Nat
             /\ c \in TreeReaders
             /\ c.input = [tree.input EXCEPT !.pos = f.resume - tree.input.base]
             /\ c.frames = IF tree.endPending THEN tree.frames
                           ELSE SubSeq(tree.frames, 1, Depth(tree) - 1)
             /\ c.pending = tree.pending /\ c.descend = tree.descend
             /\ c.endPending = FALSE /\ c.count = tree.count
             /\ ~tree.endPending => Depth(tree) >= 1 /\ ~tree.descend
<1> USE InvFacts
<1> DEFINE f == ClosedFrame(tree)
<1>1. ~tree.endPending => Depth(tree) >= 1 /\ ~tree.descend
  BY DEF Closes, InnermostEnds, Depth
<1>2. f \in Frames /\ Cursor <= f.resume
  <2>1. CASE tree.endPending
    BY <2>1 DEF ClosedFrame, ScopesNest
  <2>2. CASE ~tree.endPending
    <3>1. Depth(tree) \in 1 .. Depth(tree) /\ f = tree.frames[Depth(tree)]
      BY <1>1, <2>2 DEF ClosedFrame
    <3>2. f \in Frames /\ Cursor <= f.end /\ f.end <= f.resume
      BY <3>1 DEF ScopesNest, Fits
    <3> QED
      BY <3>2 DEF Frames, Cursor
  <2> QED
    BY <2>1, <2>2
<1> HIDE DEF f
<1>3. f.resume \in Nat /\ f.resume >= tree.input.base /\ f.resume - tree.input.base \in Nat
  <2>1. f.resume \in Nat
    BY <1>2 DEF Frames
  <2>2. tree.input.base \in Nat /\ tree.input.pos \in Nat
    OBVIOUS
  <2>3. tree.input.base + tree.input.pos <= f.resume
    BY <1>2 DEF Cursor
  <2> QED
    BY <2>1, <2>2, <2>3, Ahead
<1>4. SizeSub(f.resume, tree.input.base) = f.resume - tree.input.base
  BY <1>3 DEF SizeSub
<1> DEFINE i == [tree.input EXCEPT !.pos = f.resume - tree.input.base]
           g == IF tree.endPending THEN tree.frames ELSE SubSeq(tree.frames, 1, Depth(tree) - 1)
           b == tree.skipped /\ ~tree.endPending
<1>5. Closed(tree) = [tree EXCEPT !.endPending = FALSE, !.skipped = b, !.frames = g, !.input = i]
  BY <1>4 DEF Closed, Depth, TreeReaders, Readers, f
<1>6. SubSeq(tree.frames, 1, Len(tree.frames) - 1) \in Seq(Frames)
  BY DEF Depth
<1>7. [tree.input EXCEPT !.pos = f.resume - tree.input.base] \in Readers
  BY <1>3 DEF Readers
<1>8. Closed(tree).input = [tree.input EXCEPT !.pos = f.resume - tree.input.base]
      /\ Closed(tree).frames = (IF tree.endPending THEN tree.frames
                                ELSE SubSeq(tree.frames, 1, Depth(tree) - 1))
      /\ Closed(tree).pending = tree.pending /\ Closed(tree).descend = tree.descend
      /\ Closed(tree).endPending = FALSE /\ Closed(tree).count = tree.count
  BY <1>5 DEF TreeReaders, Depth
<1>9. Closed(tree) \in TreeReaders
  <2>1. b \in BOOLEAN
    OBVIOUS
  <2>2. g \in Seq(Frames)
    BY <1>6 DEF Depth
  <2> HIDE DEF b, g, i
  <2> QED
    BY <1>5, <1>7, <2>1, <2>2 DEF TreeReaders, i
<1> QED
  BY <1>1, <1>2, <1>3, <1>8, <1>9 DEF f

\* A step that closes a scope keeps everything nested.
LEMMA CloseKeeps ==
  ASSUME TreeInv, Closes(tree), stream' = stream, limits' = limits,
         tree' \in TreeReaders, tree'.input = Closed(tree).input,
         tree'.frames = Closed(tree).frames, tree'.pending = Closed(tree).pending,
         tree'.descend = Closed(tree).descend, tree'.endPending = Closed(tree).endPending,
         tree'.count = Closed(tree).count
  PROVE  FramesSafe'
<1> USE InvFacts
<1> DEFINE f == ClosedFrame(tree)
<1>1. /\ f \in Frames /\ Cursor <= f.resume /\ f.resume - tree.input.base \in Nat
      /\ tree'.input = [tree.input EXCEPT !.pos = f.resume - tree.input.base]
      /\ tree'.frames = IF tree.endPending THEN tree.frames
                        ELSE SubSeq(tree.frames, 1, Depth(tree) - 1)
      /\ tree'.descend = tree.descend /\ tree'.pending = tree.pending
      /\ tree'.endPending = FALSE /\ tree'.count = tree.count
      /\ ~tree.endPending => Depth(tree) >= 1 /\ ~tree.descend
  BY ClosedFields
<1>2. /\ tree'.input.base = tree.input.base /\ tree'.input.size = tree.input.size
      /\ tree'.input.final = tree.input.final
      /\ tree'.input.pos = f.resume - tree.input.base
  BY <1>1 DEF Readers
<1>3. Cursor' = f.resume
  BY <1>1, <1>2 DEF Cursor, Frames
<1>4. Depth(tree)' = (IF tree.endPending THEN Depth(tree) ELSE Depth(tree) - 1)
      /\ \A k \in 1 .. Depth(tree)' : tree'.frames[k] = tree.frames[k]
  BY <1>1 DEF Depth
<1>5. Depth(tree)' \in Nat /\ Depth(tree)' <= Depth(tree)
  BY <1>1, <1>4
<1>6. f.resume <= tree.input.base + tree.input.size
      /\ \A j \in 1 .. Depth(tree)' : f.resume <= tree.frames[j].end
  <2>1. CASE tree.endPending
    BY <1>4, <2>1 DEF ClosedFrame, ScopesNest, Fits
  <2>2. CASE ~tree.endPending
    BY <1>1, <1>4, <2>2 DEF ClosedFrame, ScopesNest, Fits
  <2> QED
    BY <2>1, <2>2
<1>7. tree.descend => ~tree.endPending
  BY DEF TreeInv, FramesSafe
<1>8. ~tree'.descend
  BY <1>1, <1>7
<1> HIDE DEF f
<1>9. ScopesNest'
  <2>1. ASSUME NEW k \in 1 .. Depth(tree)'
        PROVE  /\ tree'.frames[k].end <= tree'.frames[k].resume
               /\ tree'.frames[k].resume <= tree'.input.base + tree'.input.size
               /\ \A j \in 1 .. k - 1 : tree'.frames[k].resume <= tree'.frames[j].end
    <3>1. k \in 1 .. Depth(tree) /\ \A j \in 1 .. k - 1 : j \in 1 .. Depth(tree)'
      BY <1>5
    <3>2. /\ tree.frames[k].end <= tree.frames[k].resume
          /\ tree.frames[k].resume <= tree.input.base + tree.input.size
          /\ \A j \in 1 .. k - 1 : tree.frames[k].resume <= tree.frames[j].end
      BY <3>1 DEF ScopesNest, Fits
    <3> QED
      BY <1>2, <1>4, <3>1, <3>2
  <2>2. Fits(Cursor, Depth(tree))'
    BY <1>2, <1>3, <1>4, <1>6 DEF Fits
  <2> QED
    BY <1>1, <1>8, <2>1, <2>2 DEF ScopesNest, Fits
<1>10. WindowOK(stream, tree.input)'
  <2>1. f.resume \in Nat
    BY <1>1 DEF Frames
  <2>2. tree'.input.pos <= tree'.input.size
    BY <1>2, <1>6, <2>1
  <2> QED
    BY <1>2, <2>2 DEF WindowOK, InStream
<1>11. Depth(tree)' <= limits.capacity /\ Depth(tree)' <= limits.depth
       /\ tree'.count <= limits.elements
  <2>1. limits.capacity \in Nat /\ limits.depth \in Nat
    BY LimitsAssumption DEF TreeInv, TypeOK
  <2> QED
    BY <1>1, <1>5, <2>1 DEF TreeInv, FramesSafe
<1> QED
  BY <1>1, <1>9, <1>10, <1>11 DEF FramesSafe

-----------------------------------------------------------------------------
\* Order facts on numbers, stated once so that the leaves below need no arithmetic.
LEMMA Chain ==
  ASSUME NEW a \in Nat, NEW b \in Nat, NEW c \in Nat, a <= b, b <= c
  PROVE  a <= c
OBVIOUS

\* What lies between the cursor and the end of the window is a window again.
LEMMA Narrower ==
  ASSUME NEW base \in Nat, NEW pos \in Nat, NEW size \in Nat, NEW x \in Nat, NEW m \in Nat,
         base + pos <= x, x <= base + size, base + size <= m
  PROVE  /\ x - base \in Nat /\ base + (x - base) = x /\ pos <= x - base
         /\ x >= base /\ x <= m
OBVIOUS

\* Where the scope of the next pull ends: not before the cursor, and inside the window
\* and every open scope.
LEMMA ScopeEndFits ==
  ASSUME TreeInv, ~Closes(tree), Nested(tree)
  PROVE  /\ ScopeEnd(tree) \in Nat
         /\ tree.input.base + tree.input.pos <= ScopeEnd(tree)
         /\ ScopeEnd(tree) <= tree.input.base + tree.input.size
         /\ \A j \in 1 .. Depth(tree) : ScopeEnd(tree) <= tree.frames[j].end
<1>1. /\ tree.input.base \in Nat /\ tree.input.pos \in Nat /\ tree.input.size \in Nat
      /\ tree.pending \in Frames /\ ScopesNest /\ Depth(tree) \in Nat
      /\ \A k \in 1 .. Depth(tree) : tree.frames[k] \in Frames
  BY InvFacts
<1>2. tree.input.base + tree.input.size \in Nat
  BY <1>1
<1>3. \A k \in 1 .. Depth(tree) : tree.frames[k].end \in Nat /\ tree.frames[k].resume \in Nat
  BY <1>1 DEF Frames
<1>4. CASE tree.descend
  <2> DEFINE e == tree.pending.end
             m == tree.pending.resume
  <2>1. ScopeEnd(tree) = e /\ e \in Nat /\ m \in Nat
    BY <1>1, <1>4 DEF ScopeEnd, Frames
  <2>2. /\ tree.input.base + tree.input.pos < e /\ e <= m
        /\ m <= tree.input.base + tree.input.size
        /\ \A j \in 1 .. Depth(tree) : m <= tree.frames[j].end
    BY <1>1, <1>4 DEF ScopesNest, Fits, Cursor
  <2> HIDE DEF e, m
  <2>3. tree.input.base + tree.input.pos <= e
    BY <1>1, <2>1, <2>2
  <2>4. e <= tree.input.base + tree.input.size
    BY <1>2, <2>1, <2>2, Chain
  <2>5. \A j \in 1 .. Depth(tree) : e <= tree.frames[j].end
    BY <1>3, <2>1, <2>2, Chain
  <2> QED
    BY <2>1, <2>3, <2>4, <2>5
<1>5. CASE ~tree.descend
  <2> DEFINE n == Depth(tree)
             e == tree.frames[n].end
             m == tree.frames[n].resume
  <2>1. n \in 1 .. n /\ ScopeEnd(tree) = e
    BY <1>1, <1>5 DEF Nested, ScopeEnd, Depth
  <2>2. e \in Nat /\ m \in Nat
    BY <1>3, <2>1
  <2>3. /\ tree.input.base + tree.input.pos <= e /\ e <= m
        /\ m <= tree.input.base + tree.input.size
        /\ \A j \in 1 .. n - 1 : m <= tree.frames[j].end
    BY <1>1, <2>1 DEF ScopesNest, Fits, Cursor
  <2>4. ASSUME NEW j \in 1 .. n
        PROVE  e <= tree.frames[j].end
    <3>1. CASE j = n
      BY <2>2, <3>1
    <3>2. CASE j # n
      <4>1. j \in 1 .. n - 1
        BY <1>1, <3>2
      <4> HIDE DEF e, m, n
      <4> QED
        BY <1>3, <2>2, <2>3, <2>4, <4>1, Chain DEF n
    <3> QED
      BY <3>1, <3>2
  <2>5. e <= tree.input.base + tree.input.size
    <3> HIDE DEF e, m
    <3> QED
      BY <1>2, <2>2, <2>3, Chain
  <2> QED
    BY <2>1, <2>2, <2>3, <2>4, <2>5
<1> QED
  BY <1>4, <1>5

\* The scope a pull reads from is a window of the stream, with the cursor in it, and
\* what fits it fits every scope around it.
LEMMA ScopeIsWindow ==
  ASSUME TreeInv, ~Closes(tree)
  PROVE  LET r == Scoped(tree)
         IN  /\ r \in Readers /\ InStream(stream, r)
             /\ r.base = tree.input.base /\ r.pos = tree.input.pos
             /\ r.base + r.size <= tree.input.base + tree.input.size
             /\ \A j \in 1 .. Depth(tree) : r.base + r.size <= tree.frames[j].end
             /\ tree.descend => r.base + r.size = tree.pending.end
<1>1. /\ tree.input \in Readers /\ InStream(stream, tree.input)
      /\ tree.input.base \in Nat /\ tree.input.pos \in Nat /\ tree.input.size \in Nat
      /\ SizeMax \in Nat /\ Len(stream) \in Nat
  BY InvFacts
<1>2. CASE Nested(tree)
  <2> DEFINE x == ScopeEnd(tree)
  <2>1. /\ x \in Nat /\ tree.input.base + tree.input.pos <= x
        /\ x <= tree.input.base + tree.input.size
        /\ \A j \in 1 .. Depth(tree) : x <= tree.frames[j].end
    BY <1>2, ScopeEndFits
  <2>2. tree.descend => x = tree.pending.end
    BY DEF ScopeEnd
  <2>3. tree.input.base + tree.input.size <= SizeMax
        /\ tree.input.base + tree.input.size <= Len(stream)
    BY <1>1 DEF InStream
  <2> HIDE DEF x
  <2>4. /\ x - tree.input.base \in Nat /\ tree.input.base + (x - tree.input.base) = x
        /\ tree.input.pos <= x - tree.input.base /\ x >= tree.input.base /\ x <= SizeMax
    BY <1>1, <2>1, <2>3, Narrower
  <2>5. x <= Len(stream)
    BY <1>1, <2>1, <2>3, Narrower
  <2>6. Scoped(tree) = [tree.input EXCEPT !.size = x - tree.input.base, !.final = TRUE]
    BY <1>2, <2>4 DEF Scoped, SizeSub, x
  <2>7. /\ Scoped(tree) \in Readers /\ Scoped(tree).base = tree.input.base
        /\ Scoped(tree).pos = tree.input.pos /\ Scoped(tree).size = x - tree.input.base
    BY <1>1, <2>4, <2>6 DEF Readers
  <2>8. Scoped(tree).base + Scoped(tree).size = x
    BY <2>4, <2>7
  <2>9. InStream(stream, Scoped(tree))
    BY <2>4, <2>5, <2>7, <2>8 DEF InStream
  <2> QED
    BY <2>1, <2>2, <2>7, <2>8, <2>9
<1>3. CASE ~Nested(tree)
  <2>1. Scoped(tree) = tree.input /\ ~tree.descend /\ Depth(tree) = 0
    BY <1>3 DEF Nested, Scoped, Depth
  <2>2. \A j \in 1 .. Depth(tree) : FALSE
    BY <2>1
  <2>3. tree.input.base + tree.input.size <= tree.input.base + tree.input.size
    BY <1>1
  <2> QED
    BY <1>1, <2>1, <2>2, <2>3
<1> QED
  BY <1>2, <1>3

\* A successful pull in plain numbers: the node, its value and its end all lie in the
\* scope it was pulled from.
LEMMA PullNumbers ==
  ASSUME TreeInv, ~Closes(tree), PullResult(tree) = "OK"
  PROVE  LET d == ReadImpl(stream, Scoped(tree))
         IN  /\ d \in Answers /\ d.size \in Nat /\ d.size >= 1
             /\ d.value.offset \in Nat /\ d.value.size \in Nat
             /\ d.value.offset + d.value.size <= d.size
             /\ Cursor + d.size <= Scoped(tree).base + Scoped(tree).size
             /\ Scoped(tree).pos < Scoped(tree).size
             /\ SizeAdd(ReaderOffset(Scoped(tree)), d.value.offset) = Cursor + d.value.offset
             /\ SizeAdd(Cursor + d.value.offset, d.value.size)
                  = Cursor + d.value.offset + d.value.size
             /\ SizeSub(Cursor + d.value.offset, Scoped(tree).base)
                  = tree.input.pos + d.value.offset
             /\ Advance(stream, Scoped(tree)).pos = tree.input.pos + d.size
             /\ ReaderOffset(Advance(stream, Scoped(tree))) = Cursor + d.size
<1> DEFINE r == Scoped(tree)
           d == ReadImpl(stream, r)
           p == Advance(stream, r)
<1>1. /\ r \in Readers /\ InStream(stream, r)
      /\ r.base = tree.input.base /\ r.pos = tree.input.pos
  BY ScopeIsWindow
<1>2. stream \in Streams /\ SizeMax \in Nat /\ tree.input.base \in Nat /\ tree.input.pos \in Nat
  BY InvFacts
<1>3. NextResult(stream, r) = "OK"
  BY DEF PullResult
<1> HIDE DEF r
<1>4. /\ r.pos < r.size /\ d \in Answers /\ d.size \in 1 .. r.size - r.pos
      /\ d.value.offset + d.value.size <= d.size
      /\ p = [r EXCEPT !.pos = r.pos + d.size]
  BY <1>1, <1>2, <1>3, PullSound
<1> HIDE DEF d, p
<1>5. d.value \in Extents
  BY <1>4 DEF Answers
<1>6. d.value.offset \in Nat /\ d.value.size \in Nat
  BY <1>5 DEF Extents
<1>7. r.base \in Nat /\ r.size \in Nat /\ r.pos \in Nat /\ r.base + r.size <= SizeMax
  BY <1>1 DEF Readers, InStream
<1>8. d.size \in Nat /\ d.size >= 1 /\ r.pos + d.size <= r.size
  BY <1>4, <1>7
<1>9. p.base = r.base /\ p.pos = r.pos + d.size
  BY <1>1, <1>4 DEF Readers
<1>10. ReaderOffset(r) = r.base + r.pos
  BY <1>1, <1>2, ValidWindow
<1>11. ReaderOffset(p) = r.base + r.pos + d.size
  <2>1. p.base + p.pos = r.base + r.pos + d.size /\ p.base + p.pos <= SizeMax
        /\ p.base \in Nat /\ p.pos \in Nat
    BY <1>2, <1>7, <1>8, <1>9
  <2> QED
    BY <2>1, NoWrap DEF ReaderOffset
<1>12. SizeAdd(r.base + r.pos, d.value.offset) = r.base + r.pos + d.value.offset
  BY <1>2, <1>4, <1>6, <1>7, <1>8 DEF SizeAdd
<1>13. SizeAdd(r.base + r.pos + d.value.offset, d.value.size)
         = r.base + r.pos + d.value.offset + d.value.size
  BY <1>2, <1>4, <1>6, <1>7, <1>8 DEF SizeAdd
<1>14. SizeSub(r.base + r.pos + d.value.offset, r.base) = r.pos + d.value.offset
  BY <1>6, <1>7 DEF SizeSub
<1>15. Cursor = r.base + r.pos
  BY <1>1 DEF Cursor
<1> QED
  BY <1>1, <1>4, <1>6, <1>7, <1>8, <1>9, <1>10, <1>11, <1>12, <1>13, <1>14, <1>15 DEF d, p, r

\* The reader a pull leaves, field by field.
LEMMA PulledFields ==
  ASSUME TreeInv, ~Closes(tree), PullResult(tree) = "OK"
  PROVE  LET a == AfterPull(tree)
             d == ReadImpl(stream, Scoped(tree))
         IN  /\ a \in TreeReaders /\ d.constructed \in BOOLEAN
             /\ a.input = [tree.input EXCEPT !.pos =
                             tree.input.pos + (IF d.constructed THEN d.value.offset ELSE d.size)]
             /\ a.frames = IF tree.descend THEN Append(tree.frames, tree.pending)
                           ELSE tree.frames
             /\ a.pending = IF d.constructed
                              THEN [end    |-> Cursor + d.value.offset + d.value.size,
                                    resume |-> Cursor + d.size]
                              ELSE tree.pending
             /\ a.descend = (d.constructed /\ d.value.size > 0)
             /\ a.endPending = (d.constructed /\ d.value.size = 0)
             /\ a.count = tree.count + 1
<1> DEFINE d == ReadImpl(stream, Scoped(tree))
           i == [tree.input EXCEPT !.pos =
                   tree.input.pos + (IF d.constructed THEN d.value.offset ELSE d.size)]
           g == IF tree.descend THEN Append(tree.frames, tree.pending) ELSE tree.frames
           q == IF d.constructed THEN [end    |-> Cursor + d.value.offset + d.value.size,
                                       resume |-> Cursor + d.size]
                ELSE tree.pending
           m == d.constructed /\ d.value.size > 0
           e == d.constructed /\ d.value.size = 0
           c == tree.count + 1
<1>1. /\ d \in Answers /\ d.size \in Nat /\ d.value.offset \in Nat /\ d.value.size \in Nat
      /\ SizeAdd(ReaderOffset(Scoped(tree)), d.value.offset) = Cursor + d.value.offset
      /\ SizeAdd(Cursor + d.value.offset, d.value.size) = Cursor + d.value.offset + d.value.size
      /\ SizeSub(Cursor + d.value.offset, Scoped(tree).base) = tree.input.pos + d.value.offset
      /\ Advance(stream, Scoped(tree)).pos = tree.input.pos + d.size
      /\ ReaderOffset(Advance(stream, Scoped(tree))) = Cursor + d.size
  BY PullNumbers
<1>2. /\ tree \in TreeReaders /\ tree.input \in Readers /\ tree.frames \in Seq(Frames)
      /\ tree.pending \in Frames /\ tree.count \in Nat
      /\ tree.input.pos \in Nat /\ tree.input.base \in Nat
  BY InvFacts
<1>3. d.constructed \in BOOLEAN
  BY <1>1 DEF Answers
<1>4. AfterPull(tree)
        = [tree EXCEPT !.frames = g, !.count = c, !.items = FALSE, !.descend = m,
                       !.endPending = e, !.pending = q, !.input = i]
  BY <1>1, <1>2 DEF AfterPull, TreeReaders, Readers
<1>5. Cursor \in Nat
  BY <1>2 DEF Cursor
<1>6. g \in Seq(Frames) /\ c \in Nat /\ m \in BOOLEAN /\ e \in BOOLEAN
  BY <1>2, <1>3
<1>7. q \in Frames
  <2>1. Cursor + d.value.offset + d.value.size \in Nat /\ Cursor + d.size \in Nat
    BY <1>1, <1>5
  <2> QED
    BY <1>2, <2>1 DEF Frames
<1>8. i \in Readers
  <2>1. tree.input.pos + (IF d.constructed THEN d.value.offset ELSE d.size) \in Nat
    BY <1>1, <1>2
  <2> QED
    BY <1>2, <2>1 DEF Readers
<1> HIDE DEF g, c, m, e, q, i
<1>9. AfterPull(tree) \in TreeReaders
  BY <1>2, <1>4, <1>6, <1>7, <1>8 DEF TreeReaders
<1>10. /\ AfterPull(tree).input = i /\ AfterPull(tree).frames = g /\ AfterPull(tree).pending = q
       /\ AfterPull(tree).descend = m /\ AfterPull(tree).endPending = e
       /\ AfterPull(tree).count = c
  BY <1>2, <1>4 DEF TreeReaders
<1> QED
  BY <1>3, <1>9, <1>10 DEF g, c, m, e, q, i

\* The limits were checked before the pull, so there is room for what it adds.
LEMMA PullHasRoom ==
  ASSUME TreeInv, ~Closes(tree), PullResult(tree) = "OK"
  PROVE  /\ tree.descend => Depth(tree) + 1 <= limits.capacity /\ Depth(tree) + 1 <= limits.depth
         /\ tree.count + 1 <= limits.elements
<1>1. /\ limits.capacity \in Nat /\ limits.depth \in Nat /\ limits.elements \in Nat
      /\ Depth(tree) <= limits.capacity /\ Depth(tree) <= limits.depth
      /\ tree.count <= limits.elements
  BY LimitsAssumption DEF TreeInv, TypeOK, FramesSafe
<1>2. Depth(tree) \in Nat /\ tree.count \in Nat
  BY InvFacts
<1>3. Preflight(tree) = "OK"
  BY DEF PullResult
<1>4. Scoped(tree).pos < Scoped(tree).size
  BY PullNumbers
<1>5. /\ tree.descend => Depth(tree) # limits.depth /\ Depth(tree) # limits.capacity
      /\ tree.count # limits.elements
  BY <1>3, <1>4 DEF Preflight
<1> QED
  BY <1>1, <1>2, <1>5

\* A step that pulls a node keeps everything nested: the node's scope lies in the scope
\* it was pulled from, which becomes the innermost frame.
LEMMA PullKeeps ==
  ASSUME TreeInv, ~Closes(tree), PullResult(tree) = "OK", stream' = stream, limits' = limits,
         tree'.input = AfterPull(tree).input, tree'.frames = AfterPull(tree).frames,
         tree'.pending = AfterPull(tree).pending, tree'.descend = AfterPull(tree).descend,
         tree'.endPending = AfterPull(tree).endPending, tree'.count = AfterPull(tree).count
  PROVE  FramesSafe'
<1> DEFINE d == ReadImpl(stream, Scoped(tree))
           s == Scoped(tree).base + Scoped(tree).size
           step == IF d.constructed THEN d.value.offset ELSE d.size
<1>1. /\ d.constructed \in BOOLEAN
      /\ tree'.input = [tree.input EXCEPT !.pos = tree.input.pos + step]
      /\ tree'.frames = IF tree.descend THEN Append(tree.frames, tree.pending) ELSE tree.frames
      /\ d.constructed => /\ tree'.pending.end = Cursor + d.value.offset + d.value.size
                          /\ tree'.pending.resume = Cursor + d.size
      /\ tree'.descend = (d.constructed /\ d.value.size > 0)
      /\ tree'.endPending = (d.constructed /\ d.value.size = 0)
      /\ tree'.count = tree.count + 1
  BY PulledFields
<1>2. /\ d.size \in Nat /\ d.value.offset \in Nat /\ d.value.size \in Nat
      /\ d.value.offset + d.value.size <= d.size /\ Cursor + d.size <= s
  BY PullNumbers
<1>3. /\ Scoped(tree) \in Readers /\ s <= tree.input.base + tree.input.size
      /\ \A j \in 1 .. Depth(tree) : s <= tree.frames[j].end
      /\ tree.descend => s = tree.pending.end
  BY ScopeIsWindow
<1>4. /\ tree.input \in Readers /\ tree.input.base \in Nat /\ tree.input.pos \in Nat
      /\ tree.input.size \in Nat /\ tree.frames \in Seq(Frames) /\ Depth(tree) \in Nat
      /\ tree.pending \in Frames /\ WindowOK(stream, tree.input) /\ ScopesNest
      /\ \A k \in 1 .. Depth(tree) : tree.frames[k] \in Frames
  BY InvFacts
<1>5. s \in Nat /\ Cursor \in Nat /\ tree.input.base + tree.input.size \in Nat
  BY <1>3, <1>4 DEF Readers, Cursor
<1> HIDE DEF d, s
<1>6. /\ tree'.input.base = tree.input.base /\ tree'.input.size = tree.input.size
      /\ tree'.input.final = tree.input.final /\ tree'.input.pos = tree.input.pos + step
  BY <1>1, <1>4 DEF Readers
<1>7. step \in Nat /\ step <= d.size
  BY <1>1, <1>2
<1>8. Cursor' = Cursor + step
  BY <1>4, <1>6, <1>7 DEF Cursor
<1> HIDE DEF step
<1>9. Cursor + step \in Nat /\ Cursor + step <= s
  BY <1>2, <1>5, <1>7
<1>10. /\ Depth(tree)' = Depth(tree) + (IF tree.descend THEN 1 ELSE 0)
       /\ \A k \in 1 .. Depth(tree) : tree'.frames[k] = tree.frames[k]
       /\ tree.descend => tree'.frames[Depth(tree) + 1] = tree.pending
  <2>1. CASE tree.descend
    <3>1. tree'.frames = Append(tree.frames, tree.pending)
      BY <1>1, <2>1
    <3> QED
      BY <1>4, <2>1, <3>1 DEF Depth
  <2>2. CASE ~tree.descend
    <3>1. tree'.frames = tree.frames
      BY <1>1, <2>2
    <3> QED
      BY <1>4, <2>2, <3>1 DEF Depth
  <2> QED
    BY <2>1, <2>2
<1>11. \A j \in 1 .. Depth(tree)' : j \in 1 .. Depth(tree) \/ (tree.descend /\ j = Depth(tree) + 1)
  BY <1>4, <1>10
<1>12. \A j \in 1 .. Depth(tree)' : s <= tree'.frames[j].end /\ tree'.frames[j].end \in Nat
  <2>1. tree.descend => s <= tree.pending.end /\ tree.pending.end \in Nat
    BY <1>3, <1>4, <1>5 DEF Frames
  <2>2. \A j \in 1 .. Depth(tree) : s <= tree.frames[j].end /\ tree.frames[j].end \in Nat
    BY <1>3, <1>4 DEF Frames
  <2> QED
    BY <1>10, <1>11, <2>1, <2>2
<1>13. ASSUME NEW x \in Nat, x <= s
       PROVE  Fits(x, Depth(tree))'
  <2>1. x <= tree'.input.base + tree'.input.size
    BY <1>3, <1>5, <1>6, <1>13, Chain
  <2>2. \A j \in 1 .. Depth(tree)' : x <= tree'.frames[j].end
    BY <1>5, <1>12, <1>13, Chain
  <2> QED
    BY <2>1, <2>2 DEF Fits
<1>14. ASSUME NEW k \in 1 .. Depth(tree)'
       PROVE  tree'.frames[k].end <= tree'.frames[k].resume /\ Fits(tree.frames[k].resume, k - 1)'
  <2>1. CASE k \in 1 .. Depth(tree)
    <3>1. /\ tree.frames[k].end <= tree.frames[k].resume
          /\ tree.frames[k].resume <= tree.input.base + tree.input.size
          /\ \A j \in 1 .. k - 1 : tree.frames[k].resume <= tree.frames[j].end
      BY <1>4, <2>1 DEF ScopesNest, Fits
    <3>2. \A j \in 1 .. k - 1 : j \in 1 .. Depth(tree)
      BY <1>4, <2>1
    <3> QED
      BY <1>6, <1>10, <2>1, <3>1, <3>2 DEF Fits
  <2>2. CASE tree.descend /\ k = Depth(tree) + 1
    <3>1. /\ tree.pending.end <= tree.pending.resume
          /\ tree.pending.resume <= tree.input.base + tree.input.size
          /\ \A j \in 1 .. Depth(tree) : tree.pending.resume <= tree.frames[j].end
      BY <1>4, <2>2 DEF ScopesNest, Fits
    <3>2. \A j \in 1 .. k - 1 : j \in 1 .. Depth(tree)
      BY <1>4, <2>2
    <3> QED
      BY <1>6, <1>10, <2>2, <3>1, <3>2 DEF Fits
  <2> QED
    BY <1>11, <2>1, <2>2
<1>15. Fits(Cursor, Depth(tree))'
  BY <1>8, <1>9, <1>13
<1>16. tree'.descend \/ tree'.endPending =>
         /\ tree'.pending.end <= tree'.pending.resume
         /\ Fits(tree.pending.resume, Depth(tree))'
  <2>1. Cursor + d.size \in Nat /\ Cursor + d.size <= s
    BY <1>2, <1>5
  <2>2. Cursor + d.value.offset + d.value.size <= Cursor + d.size
    BY <1>2, <1>5
  <2> QED
    BY <1>1, <1>13, <2>1, <2>2
<1>17. /\ tree'.descend => Cursor' < tree'.pending.end
       /\ tree'.endPending => Cursor' <= tree'.pending.resume
  <2>1. tree'.descend => /\ step = d.value.offset /\ d.value.size > 0
                         /\ tree'.pending.end = Cursor + d.value.offset + d.value.size
    BY <1>1 DEF step
  <2>2. tree'.endPending => tree'.pending.resume = Cursor + d.size
    BY <1>1
  <2>3. Cursor + d.value.offset < Cursor + d.value.offset + d.value.size \/ d.value.size = 0
    BY <1>2, <1>5
  <2>4. Cursor + step <= Cursor + d.size
    BY <1>2, <1>5, <1>7
  <2>5. ~(d.value.size > 0 /\ d.value.size = 0)
    BY <1>2
  <2> QED
    BY <1>8, <2>1, <2>2, <2>3, <2>4, <2>5
<1>18. ScopesNest'
  BY <1>14, <1>15, <1>16, <1>17 DEF ScopesNest
<1>19. WindowOK(stream, tree.input)'
  <2>1. Cursor' <= tree.input.base + tree.input.size
    BY <1>6, <1>15 DEF Fits
  <2>2. tree'.input.pos <= tree'.input.size
    BY <1>4, <1>6, <1>7, <2>1 DEF Cursor
  <2> QED
    BY <1>4, <1>6, <2>2 DEF WindowOK, InStream
<1>20. ~(tree'.descend /\ tree'.endPending)
  <2>1. ~(d.value.size > 0 /\ d.value.size = 0)
    BY <1>2
  <2> QED
    BY <1>1, <2>1
<1>21. Depth(tree)' <= limits.capacity /\ Depth(tree)' <= limits.depth
       /\ tree'.count <= limits.elements
  <2>1. Depth(tree) <= limits.capacity /\ Depth(tree) <= limits.depth
    BY DEF TreeInv, FramesSafe
  <2> QED
    BY <1>1, <1>4, <1>10, <2>1, PullHasRoom
<1> QED
  BY <1>18, <1>19, <1>20, <1>21 DEF FramesSafe
-----------------------------------------------------------------------------
\* A skip moves the cursor to the end of the pending node and owes its END.
LEMMA SkipKeeps ==
  ASSUME TreeInv, tree.descend, tree' = Skipped(tree), stream' = stream, limits' = limits
  PROVE  tree' \in TreeReaders /\ FramesSafe'
<1> DEFINE m == tree.pending.resume
           i == [tree.input EXCEPT !.pos = m - tree.input.base]
<1>1. /\ tree \in TreeReaders /\ tree.input \in Readers /\ tree.input.base \in Nat
      /\ tree.input.pos \in Nat /\ tree.input.size \in Nat /\ tree.pending \in Frames
      /\ WindowOK(stream, tree.input) /\ ScopesNest
  BY InvFacts
<1>2. tree.pending.end \in Nat /\ m \in Nat
  BY <1>1 DEF Frames
<1>3. /\ Cursor < tree.pending.end /\ tree.pending.end <= m /\ Fits(m, Depth(tree))
  BY <1>1 DEF ScopesNest
<1> HIDE DEF m
<1>4. tree.input.base + tree.input.pos <= m /\ m <= tree.input.base + tree.input.size
  BY <1>1, <1>2, <1>3 DEF Cursor, Fits
<1>5. m >= tree.input.base /\ m - tree.input.base \in Nat
  BY <1>1, <1>2, <1>4, Ahead
<1>6. SizeSub(m, tree.input.base) = m - tree.input.base
  BY <1>5 DEF SizeSub
<1>7. tree' = [tree EXCEPT !.input = i, !.descend = FALSE, !.endPending = TRUE, !.skipped = TRUE]
  BY <1>1, <1>6 DEF Skipped, TreeReaders, Readers, m
<1>8. i \in Readers /\ i.base = tree.input.base /\ i.size = tree.input.size
      /\ i.final = tree.input.final /\ i.pos = m - tree.input.base
  BY <1>1, <1>5 DEF Readers
<1> HIDE DEF i
<1>9. /\ tree' \in TreeReaders /\ tree'.input = i /\ tree'.frames = tree.frames
      /\ tree'.pending = tree.pending /\ tree'.descend = FALSE /\ tree'.endPending = TRUE
      /\ tree'.count = tree.count
  BY <1>1, <1>7, <1>8 DEF TreeReaders
<1>10. Cursor' = m /\ m <= tree.pending.resume
  BY <1>1, <1>2, <1>8, <1>9 DEF Cursor, m
<1>11. Depth(tree)' = Depth(tree)
  BY <1>9 DEF Depth
<1>12. ScopesNest'
  <2>1. \A x, n : Fits(x, n) <=> /\ x <= tree'.input.base + tree'.input.size
                                 /\ \A j \in 1 .. n : x <= tree'.frames[j].end
    BY <1>8, <1>9 DEF Fits
  <2> QED
    BY <1>1, <1>3, <1>9, <1>10, <1>11, <2>1 DEF ScopesNest, Fits, m
<1>13. WindowOK(stream, tree.input)'
  <2>1. i.pos <= i.size
    BY <1>1, <1>2, <1>4, <1>8
  <2> QED
    BY <1>1, <1>8, <1>9, <2>1 DEF WindowOK, InStream
<1> QED
  BY <1>9, <1>11, <1>12, <1>13 DEF TreeInv, FramesSafe

\* A new window keeps the cursor's absolute offset and reaches at least as far as the
\* old one, so every scope is still inside it.
LEMMA FeedKeeps ==
  ASSUME TreeInv, NEW discard \in 0 .. tree.input.size,
         NEW size \in 0 .. Available(stream, tree.input.base + discard), NEW final \in BOOLEAN,
         TreeSetInput(size, discard, final)
  PROVE  tree' \in TreeReaders /\ FramesSafe' /\ result' \in Results
<1> DEFINE r == tree.input
           i == SetInput(r, size, discard, final)
<1>0. /\ tree \in TreeReaders /\ Depth(tree) \in Nat /\ tree.pending \in Frames
      /\ \A k \in 1 .. Depth(tree) : tree.frames[k] \in Frames
      /\ ScopesNest
  BY InvFacts
<1>1. /\ r \in Readers /\ r.base \in Nat /\ r.pos \in Nat /\ r.size \in Nat
      /\ stream \in Streams /\ WindowOK(stream, r) /\ InStream(stream, r)
      /\ Len(stream) \in Nat /\ SizeMax \in Nat
  BY InvFacts
<1>2. size \in Nat /\ discard \in Nat /\ discard <= r.size
      /\ r.base + discard + size <= Len(stream)
  BY <1>1 DEF Available, InStream
<1>3. final => r.base + discard + size = Len(stream)
  BY DEF TreeSetInput
<1>4. SetInputResult(r, size, discard, final)
        \in {"OK", "INVALID_ARG", "INVALID_STATE", "OVERFLOW"}
  BY <1>1, ValidWindow DEF SetInputResult
<1>5. result' \in Results
  BY <1>4 DEF TreeSetInput, Results
<1>6. stream' = stream /\ limits' = limits
  BY DEF TreeSetInput
<1>7. CASE SetInputResult(r, size, discard, final) = "OK"
  <2>1. tree' = [tree EXCEPT !.input = i]
    BY <1>7 DEF TreeSetInput
  <2>2. /\ i \in Readers /\ WindowOK(stream, i) /\ i.base + i.pos = r.base + r.pos
        /\ i.base + i.size >= r.base + r.size
    <3> HIDE DEF r
    <3> QED
      BY <1>1, <1>2, <1>3, <1>7, SetInputSound
  <2>3. i.base \in Nat /\ i.size \in Nat
    BY <2>2 DEF Readers
  <2> HIDE DEF i
  <2>4. /\ tree' \in TreeReaders /\ tree'.input = i /\ tree'.frames = tree.frames
        /\ tree'.pending = tree.pending /\ tree'.descend = tree.descend
        /\ tree'.endPending = tree.endPending /\ tree'.count = tree.count
    BY <1>0, <2>1, <2>2 DEF TreeReaders
  <2>5. Cursor' = Cursor /\ Depth(tree)' = Depth(tree)
    BY <2>2, <2>4 DEF Cursor, Depth
  <2>6. ASSUME NEW x \in Nat, NEW n, Fits(x, n)
        PROVE  /\ x <= tree'.input.base + tree'.input.size
               /\ \A j \in 1 .. n : x <= tree'.frames[j].end
    <3>1. x <= r.base + r.size
      BY <2>6 DEF Fits
    <3>a. /\ r.base + r.size \in Nat /\ i.base + i.size \in Nat
          /\ r.base + r.size <= i.base + i.size
      <4> HIDE DEF r
      <4> QED
        BY <1>1, <2>2, <2>3
    <3>2. x <= i.base + i.size
      BY <3>1, <3>a, Chain
    <3> QED
      BY <2>4, <2>6, <3>2 DEF Fits
  <2>7. /\ Cursor \in Nat /\ tree.pending.resume \in Nat
        /\ \A k \in 1 .. Depth(tree) : tree.frames[k].resume \in Nat
    <3>1. tree.pending.resume \in Nat
          /\ \A k \in 1 .. Depth(tree) : tree.frames[k].resume \in Nat
      BY <1>0 DEF Frames
    <3>2. Cursor \in Nat
      BY <1>1 DEF Cursor
    <3> QED
      BY <3>1, <3>2
  <2>8. ScopesNest'
    <3>1. \A k \in 1 .. Depth(tree) : /\ tree.frames[k].end <= tree.frames[k].resume
                                      /\ Fits(tree.frames[k].resume, k - 1)
      BY <1>0 DEF ScopesNest
    <3>2. \A k \in 1 .. Depth(tree)' : /\ tree'.frames[k].end <= tree'.frames[k].resume
                                       /\ Fits(tree.frames[k].resume, k - 1)'
      BY <2>4, <2>5, <2>6, <2>7, <3>1 DEF Fits
    <3>3. Fits(Cursor, Depth(tree))'
      BY <1>0, <2>5, <2>6, <2>7 DEF ScopesNest, Fits
    <3>4. tree.descend \/ tree.endPending => Fits(tree.pending.resume, Depth(tree))'
      BY <1>0, <2>4, <2>5, <2>6, <2>7 DEF ScopesNest, Fits
    <3> QED
      BY <1>0, <2>4, <2>5, <3>2, <3>3, <3>4 DEF ScopesNest
  <2>9. FramesSafe'
    BY <1>6, <2>2, <2>4, <2>5, <2>8 DEF TreeInv, FramesSafe
  <2> QED
    BY <1>5, <2>4, <2>9
<1>8. CASE SetInputResult(r, size, discard, final) # "OK"
  <2>1. tree' = tree
    BY <1>8 DEF TreeSetInput
  <2> QED
    BY <1>0, <1>1, <1>5, <1>6, <2>1 DEF TreeInv, FramesSafe, ScopesNest, Fits, Cursor
<1> QED
  BY <1>7, <1>8

\* What a pull returns is a result of the tree reader.
LEMMA TreePullCode ==
  ASSUME TreeInv, ~Closes(tree)
  PROVE  PullResult(tree) \in Results
<1>1. NextResult(stream, Scoped(tree)) \in {"END", "NEED_MORE_DATA"} \cup DecodeResults
  BY InvFacts, ScopeIsWindow, PullSound
<1>2. Preflight(tree) \in {"OK", "LIMIT", "BUFFER_TOO_SHORT"}
  BY DEF Preflight
<1> QED
  BY <1>1, <1>2 DEF PullResult, Results, DecodeResults, ProviderErrors

\* A step that leaves reader, stream and limits alone.
LEMMA SameTree ==
  ASSUME TreeInv, stream' = stream, limits' = limits, tree' = tree
  PROVE  FramesSafe' /\ tree' \in TreeReaders
BY DEF TreeInv, TypeOK, FramesSafe, ScopesNest, Fits, Cursor

\* Every step of the tree reader keeps the invariant: one case per action.
LEMMA TreeStepInv == TreeInv /\ [Next]_vars => TreeInv'
<1> SUFFICES ASSUME TreeInv, [Next]_vars PROVE TreeInv'
  OBVIOUS
<1>0. /\ stream \in Streams /\ limits \in Limits /\ tree \in TreeReaders
      /\ pc \in {"idle", "next", "drain", "verdict"} /\ visiting \in BOOLEAN /\ result \in Results
  BY DEF TreeInv, TypeOK
<1>c. ASSUME Closes(tree), stream' = stream, limits' = limits,
             tree' = Closed(tree) \/ tree' = [Closed(tree) EXCEPT !.items = FALSE]
      PROVE  FramesSafe' /\ tree' \in TreeReaders
  <2>1. Closed(tree) \in TreeReaders
    BY <1>c, ClosedFields
  <2>2. /\ tree' \in TreeReaders /\ tree'.input = Closed(tree).input
        /\ tree'.frames = Closed(tree).frames /\ tree'.pending = Closed(tree).pending
        /\ tree'.descend = Closed(tree).descend /\ tree'.endPending = Closed(tree).endPending
        /\ tree'.count = Closed(tree).count
    BY <1>c, <2>1 DEF TreeReaders
  <2> QED
    BY <1>c, <2>2, CloseKeeps
<1>p. ASSUME ~Closes(tree), PullResult(tree) = "OK", stream' = stream, limits' = limits,
             tree' = AfterPull(tree) \/ tree' = [AfterPull(tree) EXCEPT !.items = TRUE]
      PROVE  FramesSafe' /\ tree' \in TreeReaders
  <2>1. AfterPull(tree) \in TreeReaders
    BY <1>p, PulledFields
  <2>2. /\ tree' \in TreeReaders /\ tree'.input = AfterPull(tree).input
        /\ tree'.frames = AfterPull(tree).frames /\ tree'.pending = AfterPull(tree).pending
        /\ tree'.descend = AfterPull(tree).descend
        /\ tree'.endPending = AfterPull(tree).endPending /\ tree'.count = AfterPull(tree).count
    BY <1>p, <2>1 DEF TreeReaders
  <2> QED
    BY <1>p, <2>2, PullKeeps
<1>1. CASE EventEnd
  BY <1>0, <1>1, <1>c DEF EventEnd, TreeInv, TypeOK, Results
<1>2. CASE EventNode
  BY <1>0, <1>2, <1>p DEF EventNode, TreeInv, TypeOK, Results
<1>3. CASE EventNone
  BY <1>0, <1>3, SameTree, TreePullCode DEF EventNone, TreeInv, TypeOK
<1>4. CASE CallNext \/ CallVisit
  BY <1>0, <1>4, SameTree DEF CallNext, CallVisit, TreeInv, TypeOK
<1>5. CASE VisitLoop
  BY <1>0, <1>5, SameTree DEF VisitLoop, TreeInv, TypeOK, Results
<1>6. CASE NextHidesEnd
  BY <1>0, <1>6, <1>c DEF NextHidesEnd, TreeInv, TypeOK
<1>7. CASE NextNode
  BY <1>0, <1>7, <1>p DEF NextNode, TreeInv, TypeOK
<1>8. CASE NextNone
  BY <1>0, <1>8, SameTree, TreePullCode DEF NextNone, TreeInv, TypeOK
<1>9. CASE Drain
  <2>1. CASE Closes(tree)
    BY <1>0, <1>9, <1>c, <2>1 DEF Drain, TreeInv, TypeOK
  <2>2. CASE ~Closes(tree)
    BY <1>0, <1>9, <2>2, SameTree DEF Drain, TreeInv, TypeOK, Results
  <2> QED
    BY <2>1, <2>2
<1>10. CASE VisitVerdict
  <2>1. \A v \in Verdicts : VisitReturn(v) \in Results /\ (v = "CONTINUE") \in BOOLEAN
    BY DEF VisitReturn, Results, Verdicts, DecodeResults, ProviderErrors
  <2> QED
    BY <1>0, <1>10, <2>1, SameTree DEF VisitVerdict, TreeInv, TypeOK
<1>11. CASE SkipSubtree
  BY <1>0, <1>11, SkipKeeps DEF SkipSubtree, TreeInv, TypeOK, Results
<1>12. CASE SkipNothing
  BY <1>0, <1>12, SameTree DEF SkipNothing, TreeInv, TypeOK, Results
<1>13. CASE TreeFeed
  <2>1. PICK discard \in 0 .. tree.input.size :
          \E size \in 0 .. Available(stream, tree.input.base + discard) :
            \E final \in BOOLEAN : TreeSetInput(size, discard, final)
    BY <1>13 DEF TreeFeed
  <2>2. PICK size \in 0 .. Available(stream, tree.input.base + discard), final \in BOOLEAN :
          TreeSetInput(size, discard, final)
    BY <2>1
  <2>3. tree' \in TreeReaders /\ FramesSafe' /\ result' \in Results
    BY <2>2, FeedKeeps
  <2> QED
    BY <1>0, <2>2, <2>3 DEF TreeSetInput, TreeInv, TypeOK
<1>14. CASE UNCHANGED vars
  BY <1>0, <1>14, SameTree DEF vars, TreeInv, TypeOK
<1> QED
  BY <1>1, <1>2, <1>3, <1>4, <1>5, <1>6, <1>7, <1>8, <1>9, <1>10, <1>11, <1>12, <1>13, <1>14
     DEF Next, NextEvent

\* The cursor, its frames and its flags keep their types and every call returns one of
\* the codes tree.h and visitor.h document, whatever the decode callback or visitor says;
\* and the tree reader never writes a frame beyond the caller's array, passes no limit, and
\* its scopes stay nested in the window, so no offset subtraction in tree.c wraps: for
\* every decode callback, every feeding and discarding of bytes and every mix of
\* events, nodes, visits and skips.
THEOREM TreeInvariant == Spec => []TreeInv
BY TreeInitInv, TreeStepInv, PTL DEF Spec
-----------------------------------------------------------------------------
\* A pull asks for bytes only where no scope is open: every scope is final.
LEMMA MoreAtRoot ==
  ASSUME TreeInv, ~Closes(tree), PullResult(tree) = "NEED_MORE_DATA"
  PROVE  tree.frames = <<>> /\ ~tree.descend /\ ~tree.endPending /\ ~tree.input.final
<1>1. NextResult(stream, Scoped(tree)) = "NEED_MORE_DATA"
  BY DEF PullResult, Preflight
<1>2. Scoped(tree) \in Readers /\ InStream(stream, Scoped(tree)) /\ stream \in Streams
  BY ScopeIsWindow, InvFacts
<1>3. ReaderValid(Scoped(tree)) = "OK"
  BY <1>2, ValidWindow
<1>4. ~Scoped(tree).final
  <2>1. CASE Scoped(tree).pos = Scoped(tree).size
    BY <1>1, <1>3, <2>1 DEF NextResult
  <2>2. CASE Scoped(tree).pos # Scoped(tree).size
    <3>1. ReadImpl(stream, Scoped(tree)).rc # "NEED_MORE_DATA"
      <4> DEFINE r == Scoped(tree)
      <4>1. r.base \in Nat /\ r.pos \in Nat /\ r.size \in Nat /\ Len(stream) \in Nat
        BY <1>2, StreamLength DEF Readers
      <4>2. /\ r.base + r.pos \in 0 .. Len(stream)
            /\ r.base + r.size \in r.base + r.pos + 1 .. Len(stream)
        BY <1>2, <2>2, <4>1 DEF InStream
      <4> HIDE DEF r
      <4>3. ReadImpl(stream, r).rc \in DecodeResults
        BY <1>2, <4>2, DecodeSound DEF ReadImpl
      <4> QED
        BY <4>3 DEF DecodeResults, ProviderErrors, r
    <3> QED
      BY <1>1, <1>3, <2>2, <3>1 DEF NextResult
  <2> QED
    BY <2>1, <2>2
<1>5. ~Nested(tree)
  <2>1. ASSUME Nested(tree) PROVE Scoped(tree).final
    <3>1. tree.input \in Readers
      BY InvFacts
    <3> QED
      BY <2>1, <3>1 DEF Scoped, Readers
  <2> QED
    BY <1>4, <2>1
<1> QED
  BY <1>4, <1>5 DEF Nested, Scoped, Closes

\* tree.h's promise on NEED_MORE_DATA: known END events come first, and inside a complete
\* parent no bytes are asked for, whatever the decode callback answers there.
THEOREM BytesOnlyAtRoot == Spec => []MoreOnlyAtRoot
<1>1. Init => MoreOnlyAtRoot
  BY DEF Init, MoreOnlyAtRoot
<1>2. TreeInv /\ MoreOnlyAtRoot /\ [Next]_vars => MoreOnlyAtRoot'
  <2> SUFFICES ASSUME TreeInv, MoreOnlyAtRoot, [Next]_vars,
                      result' = "NEED_MORE_DATA", Idle'
               PROVE  (tree.frames = <<>> /\ ~tree.descend /\ ~tree.endPending
                         /\ ~tree.input.final)'
    BY DEF MoreOnlyAtRoot
  <2>1. CASE EventEnd \/ EventNode
    BY <2>1 DEF EventEnd, EventNode
  <2>2. CASE EventNone
    BY <2>2, MoreAtRoot DEF EventNone
  <2>3. CASE CallNext \/ CallVisit
    BY <2>3 DEF CallNext, CallVisit, Idle
  <2>4. CASE VisitLoop \/ NextHidesEnd \/ NextNode
    BY <2>4 DEF VisitLoop, NextHidesEnd, NextNode, Idle
  <2>5. CASE NextNone
    BY <2>5, MoreAtRoot DEF NextNone
  <2>6. CASE Drain
    BY <2>6 DEF Drain, Idle
  <2>7. CASE VisitVerdict
    BY <2>7 DEF VisitVerdict, VisitReturn
  <2>8. CASE SkipSubtree \/ SkipNothing
    BY <2>8 DEF SkipSubtree, SkipNothing
  <2>9. CASE TreeFeed
    <3>1. PICK discard \in Nat, size \in Nat, final \in BOOLEAN :
            result' = SetInputResult(tree.input, size, discard, final)
      BY <2>9 DEF TreeFeed, TreeSetInput
    <3> QED
      BY <3>1 DEF SetInputResult, ReaderValid
  <2>10. CASE UNCHANGED vars
    BY <2>10 DEF vars, MoreOnlyAtRoot, Idle
  <2> QED
    BY <2>1, <2>2, <2>3, <2>4, <2>5, <2>6, <2>7, <2>8, <2>9, <2>10 DEF Next, NextEvent
<1> QED
  BY <1>1, <1>2, TreeInvariant, PTL DEF Spec
-----------------------------------------------------------------------------
(***************************************************************************)
(* Why events are balanced.  The open BEGINs b match the scopes of reader t *)
(* one by one; only the last of them can have been skipped, and only while  *)
(* its END is still owed.  The last conjunct is why a skip among event      *)
(* pulls never drains: no node-only pull came before it.                    *)
(***************************************************************************)
Begins == [depth : Nat, cut : BOOLEAN, end : Nat]

Owed(t) == t.descend \/ t.endPending

Matches(t, b) ==
  /\ b \in Seq(Begins) /\ Len(b) = Depth(t) + (IF Owed(t) THEN 1 ELSE 0)
  /\ \A k \in 1 .. Len(b) :
       /\ b[k].depth = k - 1
       /\ b[k].end = IF k <= Depth(t) THEN t.frames[k].end ELSE t.pending.end
       /\ b[k].cut = (k > Depth(t) /\ t.skipped)
  /\ t.skipped => t.endPending
  /\ ~t.items

LEMMA FlagTypes ==
  ASSUME TreeInv
  PROVE  /\ tree.descend \in BOOLEAN /\ tree.endPending \in BOOLEAN /\ tree.skipped \in BOOLEAN
         /\ tree.items \in BOOLEAN /\ ~(tree.descend /\ tree.endPending)
BY DEF TreeInv, TypeOK, FramesSafe, TreeReaders

\* A sequence without its last element.
LEMMA DropLast ==
  ASSUME NEW S, NEW b \in Seq(S), NEW n \in Nat, Len(b) = n + 1
  PROVE  /\ SubSeq(b, 1, n) \in Seq(S) /\ Len(SubSeq(b, 1, n)) = n
         /\ \A k \in 1 .. n : SubSeq(b, 1, n)[k] = b[k]
OBVIOUS

\* An END closes the innermost BEGIN, and the others still match.
LEMMA CloseMatches ==
  ASSUME TreeInv, Closes(tree), NEW b, Matches(tree, b)
  PROVE  /\ b # <<>> /\ Len(b) \in Nat \ {0}
         /\ b[Len(b)].depth = Depth(Closed(tree)) /\ b[Len(b)].end = ClosedFrame(tree).end
         /\ b[Len(b)].cut = (tree.endPending /\ tree.skipped)
         /\ Matches([Closed(tree) EXCEPT !.items = FALSE], SubSeq(b, 1, Len(b) - 1))
<1> DEFINE c == Closed(tree)
           d == [c EXCEPT !.items = FALSE]
           D == Depth(tree)
<1>1. /\ c \in TreeReaders
      /\ c.frames = IF tree.endPending THEN tree.frames ELSE SubSeq(tree.frames, 1, D - 1)
      /\ c.pending = tree.pending /\ c.descend = tree.descend /\ c.endPending = FALSE
      /\ ~tree.endPending => D >= 1 /\ ~tree.descend
  BY ClosedFields
<1>2. c.skipped = (tree.skipped /\ ~tree.endPending)
  BY InvFacts DEF Closed, TreeReaders
<1> HIDE DEF c
<1>3. /\ d.frames = c.frames /\ d.pending = c.pending /\ d.descend = c.descend
      /\ d.endPending = FALSE /\ d.skipped = c.skipped /\ d.items = FALSE
  BY <1>1 DEF TreeReaders
<1> HIDE DEF d
<1>4. D \in Nat /\ tree.frames \in Seq(Frames) /\ D = Len(tree.frames)
  BY InvFacts DEF Depth
<1>5. /\ tree.descend \in BOOLEAN /\ tree.endPending \in BOOLEAN /\ tree.skipped \in BOOLEAN
      /\ ~(tree.descend /\ tree.endPending)
  BY FlagTypes
<1>6. /\ b \in Seq(Begins) /\ (tree.skipped => tree.endPending)
      /\ Len(b) = D + (IF Owed(tree) THEN 1 ELSE 0)
      /\ \A k \in 1 .. Len(b) :
           /\ b[k].depth = k - 1
           /\ b[k].end = IF k <= D THEN tree.frames[k].end ELSE tree.pending.end
           /\ b[k].cut = (k > D /\ tree.skipped)
  BY DEF Matches
<1> DEFINE n == IF tree.endPending THEN D ELSE D - 1
<1>6a. Len(b) = D + (IF Owed(tree) THEN 1 ELSE 0) /\ (tree.endPending => Owed(tree))
       /\ (~tree.endPending => ~Owed(tree) /\ D >= 1) /\ D \in Nat
  BY <1>1, <1>4, <1>5, <1>6 DEF Owed
<1> HIDE DEF D
<1>7. n \in Nat /\ Len(b) = n + 1 /\ n <= D /\ (Len(b) > D <=> tree.endPending)
  BY <1>5, <1>6a
<1>8. /\ d.descend = FALSE /\ d.endPending = FALSE /\ d.skipped = FALSE /\ ~Owed(d)
  BY <1>1, <1>2, <1>3, <1>5, <1>6 DEF Owed
<1>9. Depth(d) = n /\ Depth(c) = n /\ \A k \in 1 .. n : d.frames[k] = tree.frames[k]
  <2>1. CASE tree.endPending
    BY <1>1, <1>3, <1>4, <2>1 DEF Depth
  <2>2. CASE ~tree.endPending
    <3>1. d.frames = SubSeq(tree.frames, 1, n) /\ c.frames = d.frames /\ Len(tree.frames) = n + 1
      BY <1>1, <1>3, <1>4, <1>7, <2>2
    <3> QED
      BY <1>4, <1>7, <3>1, DropLast DEF Depth
  <2> QED
    BY <1>5, <2>1, <2>2
<1> DEFINE e == SubSeq(b, 1, n)
<1>10. e \in Seq(Begins) /\ Len(e) = n /\ \A k \in 1 .. n : e[k] = b[k]
  BY <1>6, <1>7, DropLast
<1>11. ClosedFrame(tree).end = IF n + 1 <= D THEN tree.frames[n + 1].end ELSE tree.pending.end
  <2>1. CASE tree.endPending
    <3>1. ~(n + 1 <= D)
      BY <1>6a, <2>1
    <3> QED
      BY <2>1, <3>1 DEF ClosedFrame
  <2>2. CASE ~tree.endPending
    <3>1. n + 1 = D /\ n + 1 <= D
      BY <1>6a, <2>2
    <3> QED
      BY <2>2, <3>1 DEF ClosedFrame, D
  <2> QED
    BY <2>1, <2>2
<1>12. Len(b) \in 1 .. Len(b) /\ Len(b) \in Nat /\ Len(b) - 1 = n /\ Len(b) # 0
  BY <1>7
<1> HIDE DEF n
<1>13. /\ b[Len(b)].depth = n /\ b[Len(b)].end = ClosedFrame(tree).end
       /\ b[Len(b)].cut = (tree.endPending /\ tree.skipped)
  <2>1. /\ b[Len(b)].depth = Len(b) - 1 /\ b[Len(b)].cut = (Len(b) > D /\ tree.skipped)
        /\ b[Len(b)].end = IF Len(b) <= D THEN tree.frames[Len(b)].end ELSE tree.pending.end
    BY <1>6, <1>12
  <2> QED
    BY <1>5, <1>7, <1>11, <1>12, <2>1
<1> HIDE DEF e
<1>14. \A k \in 1 .. Len(e) :
         /\ e[k].depth = k - 1
         /\ e[k].end = IF k <= Depth(d) THEN d.frames[k].end ELSE d.pending.end
         /\ e[k].cut = (k > Depth(d) /\ d.skipped)
  <2> SUFFICES ASSUME NEW k \in 1 .. n
               PROVE  /\ e[k].depth = k - 1 /\ e[k].end = d.frames[k].end /\ e[k].cut = FALSE
    <3>1. \A k \in 1 .. n : k <= n
      BY <1>7
    <3> QED
      BY <1>8, <1>9, <1>10, <3>1
  <2>1. k \in 1 .. Len(b) /\ k <= D /\ ~(k > D)
    BY <1>6a, <1>7
  <2> QED
    BY <1>6, <1>9, <1>10, <2>1
<1>15. Matches(d, e)
  BY <1>3, <1>7, <1>8, <1>9, <1>10, <1>14 DEF Matches
<1>16. b # <<>>
  BY <1>12
<1> QED
  BY <1>9, <1>12, <1>13, <1>15, <1>16 DEF c, d, e

\* A pulled node opens a BEGIN, if it is a container, and nothing else.
LEMMA PullMatches ==
  ASSUME TreeInv, ~Closes(tree), PullResult(tree) = "OK", NEW b, Matches(tree, b)
  PROVE  LET d == ReadImpl(stream, Scoped(tree))
         IN  Matches(AfterPull(tree),
                     IF d.constructed
                       THEN Append(b, [depth |-> PulledNode(tree).depth, cut |-> FALSE,
                                       end |-> ReaderOffset(tree.input) + d.value.offset
                                                 + d.value.size])
                       ELSE b)
<1> DEFINE d == ReadImpl(stream, Scoped(tree))
           a == AfterPull(tree)
           D == Depth(tree)
           n == Len(b)
           x == Cursor + d.value.offset + d.value.size
           new == [depth |-> n, cut |-> FALSE, end |-> x]
           e == IF d.constructed THEN Append(b, new) ELSE b
<1>1. /\ a \in TreeReaders /\ d.constructed \in BOOLEAN
      /\ a.frames = (IF tree.descend THEN Append(tree.frames, tree.pending) ELSE tree.frames)
      /\ a.pending = (IF d.constructed THEN [end |-> x, resume |-> Cursor + d.size]
                      ELSE tree.pending)
      /\ a.descend = (d.constructed /\ d.value.size > 0)
      /\ a.endPending = (d.constructed /\ d.value.size = 0)
  BY PulledFields
<1>2. a.skipped = tree.skipped /\ a.items = FALSE
  BY InvFacts DEF AfterPull, TreeReaders
<1>3. d.value.offset \in Nat /\ d.value.size \in Nat
  BY PullNumbers
<1>4. D \in Nat /\ tree.frames \in Seq(Frames) /\ D = Len(tree.frames) /\ tree.pending \in Frames
      /\ Cursor \in Nat /\ ReaderOffset(tree.input) = Cursor
  BY InvFacts DEF Depth, Cursor
<1> HIDE DEF d, a
<1>5. x \in Nat
  BY <1>3, <1>4
<1>6. /\ tree.descend \in BOOLEAN /\ tree.endPending = FALSE /\ tree.skipped \in BOOLEAN
  BY FlagTypes DEF Closes
<1>7. /\ b \in Seq(Begins) /\ tree.skipped = FALSE /\ n = D + (IF tree.descend THEN 1 ELSE 0)
      /\ \A k \in 1 .. n :
           /\ b[k].depth = k - 1 /\ b[k].cut = FALSE
           /\ b[k].end = IF k <= D THEN tree.frames[k].end ELSE tree.pending.end
  BY <1>6 DEF Matches, Owed
<1>9. PulledNode(tree).depth = n
  BY <1>7 DEF PulledNode
<1>4a. D \in Nat /\ n = D + (IF tree.descend THEN 1 ELSE 0)
  BY <1>4, <1>7
<1> HIDE DEF n, D
<1>8. n \in Nat /\ D <= n
  BY <1>4a
<1>10. Depth(a) = n /\ \A k \in 1 .. n : a.frames[k].end = b[k].end
  <2>1. CASE tree.descend
    <3>1. /\ Len(a.frames) = D + 1 /\ a.frames[D + 1] = tree.pending
          /\ \A k \in 1 .. D : a.frames[k] = tree.frames[k]
      BY <1>1, <1>4, <2>1, AppendProperties
    <3>2. n = D + 1
      BY <1>4a, <2>1
    <3>3. ASSUME NEW k \in 1 .. n PROVE a.frames[k].end = b[k].end
      <4>1. k \in 1 .. D \/ (k = D + 1 /\ ~(k <= D))
        BY <1>4a, <3>2
      <4> QED
        BY <1>7, <3>1, <4>1
    <3> QED
      BY <3>1, <3>2, <3>3 DEF Depth
  <2>2. CASE ~tree.descend
    BY <1>1, <1>4, <1>7, <2>2 DEF Depth
  <2> QED
    BY <1>6, <2>1, <2>2
<1>11. Owed(a) <=> d.constructed
  BY <1>1, <1>3 DEF Owed
<1> HIDE DEF x
<1>12. new \in Begins
  BY <1>5, <1>8 DEF Begins
<1>13. a.skipped = FALSE
  BY <1>2, <1>7
<1>14. CASE d.constructed
  <2>1. /\ e \in Seq(Begins) /\ Len(e) = n + 1 /\ e[n + 1] = new
        /\ \A k \in 1 .. n : e[k] = b[k]
    BY <1>7, <1>12, <1>14, AppendProperties DEF n
  <2>2. a.pending.end = x
    BY <1>1, <1>14
  <2> HIDE DEF e
  <2>3. ASSUME NEW k \in 1 .. Len(e)
        PROVE  /\ e[k].depth = k - 1 /\ e[k].cut = FALSE
               /\ e[k].end = IF k <= n THEN a.frames[k].end ELSE a.pending.end
    <3>1. k \in 1 .. n \/ (k = n + 1 /\ ~(k <= n))
      BY <1>8, <2>1
    <3> QED
      BY <1>7, <1>8, <1>10, <2>1, <2>2, <3>1
  <2>5. Matches(a, e)
    BY <1>2, <1>10, <1>11, <1>13, <1>14, <2>1, <2>3 DEF Matches
  <2>6. e = Append(b, [depth |-> PulledNode(tree).depth, cut |-> FALSE,
                       end |-> ReaderOffset(tree.input) + d.value.offset + d.value.size])
    BY <1>4, <1>9, <1>14 DEF e, x
  <2> QED
    BY <1>14, <2>5, <2>6 DEF a, d
<1>15. CASE ~d.constructed
  <2>1. \A k \in 1 .. Len(b) : k <= n
    BY <1>8 DEF n
  <2>2. Len(b) = n
    BY DEF n
  <2>3. Matches(a, b)
    BY <1>2, <1>7, <1>8, <1>10, <1>11, <1>13, <1>15, <2>1, <2>2 DEF Matches
  <2> QED
    BY <1>15, <2>3 DEF a, d
<1> QED
  BY <1>1, <1>14, <1>15

\* tlv_tree_reader_skip_subtree marks the BEGIN whose END it now owes.
LEMMA SkipMatches ==
  ASSUME TreeInv, tree.descend, NEW b, Matches(tree, b)
  PROVE  b # <<>> /\ Matches(Skipped(tree), [b EXCEPT ![Len(b)].cut = TRUE])
<1> DEFINE s == Skipped(tree)
           D == Depth(tree)
           n == Len(b)
           r == [b[n] EXCEPT !.cut = TRUE]
           e == [b EXCEPT ![n] = r]
<1>1. /\ s.frames = tree.frames /\ s.pending = tree.pending /\ s.descend = FALSE
      /\ s.endPending = TRUE /\ s.skipped = TRUE /\ s.items = tree.items
  BY InvFacts DEF Skipped, TreeReaders
<1> HIDE DEF s
<1>2. D \in Nat /\ Depth(s) = D
  BY <1>1, InvFacts DEF Depth
<1>3. tree.endPending = FALSE /\ tree.skipped \in BOOLEAN
  BY FlagTypes
<1>4. /\ b \in Seq(Begins) /\ tree.skipped = FALSE /\ n = D + 1 /\ ~tree.items
      /\ \A k \in 1 .. n :
           /\ b[k].depth = k - 1 /\ b[k].cut = FALSE
           /\ b[k].end = IF k <= D THEN tree.frames[k].end ELSE tree.pending.end
  BY <1>3 DEF Matches, Owed
<1>4a. n = D + 1
  BY <1>4
<1> HIDE DEF n, D
<1>5. n \in 1 .. n /\ n \in Nat
  BY <1>2, <1>4a
<1>6. b[n] \in Begins
  BY <1>4, <1>5 DEF n
<1>7. r \in Begins /\ r.depth = b[n].depth /\ r.end = b[n].end /\ r.cut = TRUE
  BY <1>6 DEF Begins
<1> HIDE DEF r
<1>8. /\ e \in Seq(Begins) /\ Len(e) = n /\ \A k \in 1 .. n : e[k] = IF k = n THEN r ELSE b[k]
  BY <1>4, <1>5, <1>7, ExceptSeq DEF n
<1> HIDE DEF e
<1>9. ASSUME NEW k \in 1 .. n
      PROVE  /\ e[k].depth = k - 1
             /\ e[k].end = IF k <= D THEN s.frames[k].end ELSE s.pending.end
             /\ e[k].cut = (k > D /\ s.skipped)
  <2>1. (k = n /\ k > D) \/ (k # n /\ ~(k > D))
    BY <1>2, <1>4a
  <2> QED
    BY <1>1, <1>4, <1>5, <1>7, <1>8, <2>1
<1>10. Matches(s, e)
  BY <1>1, <1>2, <1>4, <1>4a, <1>8, <1>9 DEF Matches, Owed
<1>11. b # <<>>
  BY <1>4, <1>5 DEF n
<1> QED
  BY <1>10, <1>11 DEF s, e, r, n

\* Only the window differs.
LEMMA InputMatches ==
  ASSUME TreeInv, NEW b, Matches(tree, b), NEW i
  PROVE  Matches([tree EXCEPT !.input = i], b)
<1> DEFINE t == [tree EXCEPT !.input = i]
<1>1. /\ t.frames = tree.frames /\ t.pending = tree.pending /\ t.descend = tree.descend
      /\ t.endPending = tree.endPending /\ t.skipped = tree.skipped /\ t.items = tree.items
  BY InvFacts DEF TreeReaders
<1> HIDE DEF t
<1>2. Matches(t, b)
  BY <1>1 DEF Matches, Owed, Depth
<1> QED
  BY <1>2 DEF t

EndMatches == /\ ended.depth = ended.begin.depth /\ ended.offset = ended.begin.end
              /\ ended.skipped = ended.begin.cut

\* The inductive invariant: between event pulls no other call is under way.
EventsInv == pure => pc = "idle" /\ ~visiting /\ Matches(tree, begun) /\ EndMatches

LEMMA EventsBalanced == EventsInv => Balanced
<1> SUFFICES ASSUME EventsInv, pure
             PROVE  /\ Len(begun) = Depth(tree) + (IF tree.descend \/ tree.endPending THEN 1 ELSE 0)
                    /\ \A k \in 1 .. Len(begun) :
                         /\ begun[k].depth = k - 1
                         /\ begun[k].end = IF k <= Depth(tree) THEN tree.frames[k].end
                                          ELSE tree.pending.end
                    /\ EndMatches
  BY DEF Balanced, EndMatches
<1> QED
  BY DEF EventsInv, Matches, Owed

LEMMA EventsInit == Init => EventsInv
<1> SUFFICES ASSUME Init PROVE Matches(tree, begun) /\ EndMatches /\ pc = "idle" /\ ~visiting
  BY DEF EventsInv
<1>1. PICK n \in 0 .. Available(stream, 0), final \in BOOLEAN : tree = TreeInit(n, final)
  BY DEF Init
<1>2. /\ tree.frames = <<>> /\ tree.descend = FALSE /\ tree.endPending = FALSE
      /\ tree.skipped = FALSE /\ tree.items = FALSE /\ begun = <<>>
  BY <1>1 DEF Init, TreeInit
<1>3. Depth(tree) = 0 /\ Len(begun) = 0 /\ begun \in Seq(Begins)
  BY <1>2 DEF Depth
<1>4. Matches(tree, begun)
  BY <1>2, <1>3 DEF Matches, Owed
<1>5. EndMatches
  BY DEF EndMatches, Init, NoEnd
<1> QED
  BY <1>4, <1>5 DEF Init

LEMMA EventsStep == TreeInv /\ EventsInv /\ [Next]_vars => EventsInv'
<1> SUFFICES ASSUME TreeInv, EventsInv, [Next]_vars, pure'
             PROVE  pc' = "idle" /\ ~visiting' /\ Matches(tree', begun') /\ EndMatches'
  BY DEF EventsInv, EndMatches, Matches, Owed, Depth
<1>0. pure
  BY DEF Next, NextEvent, EventEnd, EventNode, EventNone, CallNext, CallVisit, SkipSubtree, SkipNothing,
         TreeFeed, TreeSetInput, VisitLoop, NextHidesEnd, NextNode, NextNone, Drain, VisitVerdict, vars
<1>1. pc = "idle" /\ ~visiting /\ Matches(tree, begun) /\ EndMatches
  BY <1>0 DEF EventsInv
<1>2. CASE EventEnd
  <2>1. /\ begun # <<>> /\ begun[Len(begun)].depth = Depth(Closed(tree))
        /\ begun[Len(begun)].end = ClosedFrame(tree).end
        /\ begun[Len(begun)].cut = (tree.endPending /\ tree.skipped)
        /\ Matches([Closed(tree) EXCEPT !.items = FALSE], SubSeq(begun, 1, Len(begun) - 1))
    BY <1>1, <1>2, CloseMatches DEF EventEnd
  <2>2. /\ tree' = [Closed(tree) EXCEPT !.items = FALSE]
        /\ ended' = [depth |-> Depth(Closed(tree)), offset |-> ClosedFrame(tree).end,
                     skipped |-> tree.endPending /\ tree.skipped, begin |-> begun[Len(begun)]]
        /\ begun' = SubSeq(begun, 1, Len(begun) - 1)
        /\ pc' = pc /\ visiting' = visiting
    BY <1>0, <1>2, <2>1 DEF EventEnd
  <2>3. EndMatches'
    BY <2>1, <2>2 DEF EndMatches
  <2> QED
    BY <1>1, <2>1, <2>2, <2>3
<1>3. CASE EventNode
  <2>1. Matches(tree', begun')
    BY <1>0, <1>1, <1>3, PullMatches DEF EventNode
  <2>2. pc' = pc /\ visiting' = visiting /\ ended' = ended
    BY <1>3 DEF EventNode
  <2> QED
    BY <1>1, <2>1, <2>2 DEF EndMatches
<1>4. CASE EventNone
  BY <1>1, <1>4 DEF EventNone, EndMatches
<1>5. CASE CallNext \/ CallVisit
  BY <1>5 DEF CallNext, CallVisit
<1>6. CASE VisitLoop \/ NextHidesEnd \/ NextNode \/ NextNone \/ Drain \/ VisitVerdict
  BY <1>1, <1>6 DEF VisitLoop, NextHidesEnd, NextNode, NextNone, Drain, VisitVerdict
<1>7. CASE SkipSubtree
  <2>1. ~tree.items
    BY <1>1 DEF Matches
  <2>2. tree' = Skipped(tree) /\ pc' = "idle" /\ visiting' = visiting /\ ended' = ended /\ tree.descend
        /\ begun' = IF begun # <<>> THEN [begun EXCEPT ![Len(begun)].cut = TRUE] ELSE begun
    BY <1>0, <1>7, <2>1 DEF SkipSubtree
  <2>3. begun # <<>> /\ Matches(Skipped(tree), [begun EXCEPT ![Len(begun)].cut = TRUE])
    BY <1>1, <2>2, SkipMatches
  <2> QED
    BY <1>1, <2>2, <2>3 DEF EndMatches
<1>8. CASE SkipNothing
  BY <1>1, <1>8 DEF SkipNothing, EndMatches
<1>9. CASE TreeFeed
  <2>1. PICK discard, size, final : TreeSetInput(size, discard, final)
    BY <1>9 DEF TreeFeed
  <2>2. /\ \/ tree' = tree
           \/ tree' = [tree EXCEPT !.input = SetInput(tree.input, size, discard, final)]
        /\ pc' = pc /\ visiting' = visiting /\ ended' = ended /\ begun' = begun
    BY <2>1 DEF TreeSetInput
  <2>3. Matches(tree', begun')
    BY <1>1, <2>2, InputMatches
  <2> QED
    BY <1>1, <2>2, <2>3 DEF EndMatches
<1>10. CASE UNCHANGED vars
  BY <1>1, <1>10 DEF vars, EndMatches
<1> QED
  BY <1>2, <1>3, <1>4, <1>5, <1>6, <1>7, <1>8, <1>9, <1>10 DEF Next, NextEvent

\* Event pulls, with skips and new input in between, see a balanced stream for every decode
\* callback: each END of tlv_tree_reader_next_event closes the innermost BEGIN, with its
\* depth, the end of its value and its skipped flag.
THEOREM EventsAreBalanced == Spec => []Balanced
<1>1. Spec => []EventsInv
  BY EventsInit, EventsStep, TreeInvariant, PTL DEF Spec
<1> QED
  BY <1>1, EventsBalanced, PTL
-----------------------------------------------------------------------------
(***************************************************************************)
(* The scopes of a stream.  TreeWalk reads a scope with a recursive         *)
(* function; a function that solves its equation exists because the scopes  *)
(* reached from a scope do, and every entry of a scope lies inside it       *)
(* because the scopes inside it are shorter.                                *)
(***************************************************************************)
Scopes(s) == [at : 0 .. Len(s), end : 0 .. Len(s), depth : Nat]
Scope(i, j, k) == [at |-> i, end |-> j, depth |-> k]

EntryOf(s, w) == [offset |-> w.at, depth |-> w.depth, source |-> Decode(s, w.at, w.end),
                  end |-> w.end]

\* What the entries of scope w are, if those of the scopes inside are f's.
ScopeBody(s, w, f) ==
  LET d       == Decode(s, w.at, w.end)
      valueAt == w.at + d.value.offset
  IN  IF w.at >= w.end THEN {}
      ELSE {[offset |-> w.at, depth |-> w.depth, source |-> d, end |-> w.end]} \cup
           IF d.rc # "OK" THEN {}
           ELSE f[[at |-> w.at + d.size, end |-> w.end, depth |-> w.depth]] \cup
                (IF d.constructed
                   THEN f[[at |-> valueAt, end |-> valueAt + d.value.size,
                           depth |-> w.depth + 1]]
                   ELSE {})
Solves(s, f) == f = [w \in Scopes(s) |-> ScopeBody(s, w, f)]

\* The scopes that w leads to: what follows its first element, and that element's value.
Later(s, w) ==
  LET d == Decode(s, w.at, w.end)
  IN  IF w.at >= w.end \/ d.rc # "OK" THEN {}
      ELSE {Scope(w.at + d.size, w.end, w.depth)} \cup
           (IF d.constructed THEN {Scope(w.at + d.value.offset,
                                         w.at + d.value.offset + d.value.size, w.depth + 1)}
            ELSE {})
Complete(s, C) == \A z \in C : Later(s, z) \subseteq C
Reach(s, w) == {z \in Scopes(s) : \A C \in SUBSET Scopes(s) : w \in C /\ Complete(s, C) => z \in C}

\* An element and its value lie in their scope, in plain numbers.
LEMMA WithinScope ==
  ASSUME NEW n \in Nat, NEW i \in 0 .. n, NEW j \in 0 .. n, NEW size \in 1 .. j - i,
         NEW x \in Nat, NEW y \in Nat, x + y <= size
  PROVE  /\ i + size \in 0 .. n /\ i + x \in 0 .. n /\ i + x + y \in 0 .. n
         /\ i < i + size /\ i + size <= j /\ i + x + y <= i + size
OBVIOUS

\* The scopes a scope leads to are scopes of the stream.
LEMMA LaterScopes ==
  ASSUME NEW s \in Streams, NEW w \in Scopes(s)
  PROVE  Later(s, w) \subseteq Scopes(s)
<1> DEFINE d == Decode(s, w.at, w.end)
<1>1. Len(s) \in Nat /\ w.at \in 0 .. Len(s) /\ w.end \in 0 .. Len(s) /\ w.depth \in Nat
  BY StreamLength DEF Scopes
<1>2. CASE w.at >= w.end \/ d.rc # "OK"
  BY <1>2 DEF Later
<1>3. CASE w.at < w.end /\ d.rc = "OK"
  <2>1. w.end \in w.at + 1 .. Len(s)
    BY <1>1, <1>3
  <2>2. d \in Answers /\ d.size \in 1 .. w.end - w.at /\ d.value.offset + d.value.size <= d.size
    BY <1>1, <1>3, <2>1, DecodeSound
  <2> HIDE DEF d
  <2>3. d.value.offset \in Nat /\ d.value.size \in Nat
    BY <2>2 DEF Answers, Extents
  <2>4. /\ w.at + d.size \in 0 .. Len(s) /\ w.at + d.value.offset \in 0 .. Len(s)
        /\ w.at + d.value.offset + d.value.size \in 0 .. Len(s)
    <3> DEFINE i == w.at
               j == w.end
               n == Len(s)
               k == d.size
               x == d.value.offset
               y == d.value.size
    <3>1. /\ n \in Nat /\ i \in 0 .. n /\ j \in 0 .. n /\ k \in 1 .. j - i
          /\ x \in Nat /\ y \in Nat /\ x + y <= k
      BY <1>1, <2>2, <2>3
    <3> HIDE DEF i, j, n, k, x, y
    <3>2. i + k \in 0 .. n /\ i + x \in 0 .. n /\ i + x + y \in 0 .. n
      BY <3>1, WithinScope
    <3> QED BY <3>2 DEF i, j, n, k, x, y
  <2>5. /\ Scope(w.at + d.size, w.end, w.depth) \in Scopes(s)
        /\ Scope(w.at + d.value.offset, w.at + d.value.offset + d.value.size, w.depth + 1) \in Scopes(s)
    BY <1>1, <2>4 DEF Scope, Scopes
  <2> QED BY <2>5 DEF Later, d
<1> QED BY <1>1, <1>2, <1>3

\* What a scope reaches: itself, and what the scopes it leads to reach.
LEMMA ReachSteps ==
  ASSUME NEW s \in Streams, NEW w \in Scopes(s)
  PROVE  Reach(s, w) = {w} \cup UNION {Reach(s, z) : z \in Later(s, w)}
<1> DEFINE R == {w} \cup UNION {Reach(s, z) : z \in Later(s, w)}
<1>1. Later(s, w) \subseteq Scopes(s)
  BY LaterScopes
<1>2. ASSUME NEW z \in Scopes(s) PROVE z \in Reach(s, z) /\ Complete(s, Reach(s, z))
  <2>1. z \in Reach(s, z)
    BY DEF Reach
  <2>2. ASSUME NEW y \in Reach(s, z), NEW x \in Later(s, y) PROVE x \in Reach(s, z)
    <3>1. y \in Scopes(s) /\ \A C \in SUBSET Scopes(s) : z \in C /\ Complete(s, C) => y \in C
      BY DEF Reach
    <3>2. x \in Scopes(s)
      BY <3>1, LaterScopes
    <3>3. ASSUME NEW C \in SUBSET Scopes(s), z \in C, Complete(s, C) PROVE x \in C
      BY <3>1, <3>3 DEF Complete
    <3> QED BY <3>2, <3>3 DEF Reach
  <2> QED BY <2>1, <2>2 DEF Complete
<1>3. R \subseteq Reach(s, w)
  <2>1. ASSUME NEW z \in Later(s, w), NEW y \in Reach(s, z) PROVE y \in Reach(s, w)
    <3>1. z \in Reach(s, w)
      BY <1>2 DEF Complete
    <3>2. y \in Scopes(s) /\ \A C \in SUBSET Scopes(s) : z \in C /\ Complete(s, C) => y \in C
      BY DEF Reach
    <3>3. Reach(s, w) \in SUBSET Scopes(s)
      BY DEF Reach
    <3> QED BY <1>2, <3>1, <3>2, <3>3
  <2> QED BY <1>2, <2>1
<1>4. Reach(s, w) \subseteq R
  <2>1. R \in SUBSET Scopes(s)
    BY DEF Reach
  <2>2. ASSUME NEW y \in R, NEW x \in Later(s, y) PROVE x \in R
    <3>1. CASE y = w
      BY <1>1, <1>2, <2>2, <3>1
    <3>2. CASE y # w
      <4>1. PICK z \in Later(s, w) : y \in Reach(s, z)
        BY <2>2, <3>2
      <4>2. x \in Reach(s, z)
        BY <1>1, <1>2, <2>2, <4>1 DEF Complete
      <4> QED BY <4>1, <4>2
    <3> QED BY <3>1, <3>2
  <2>3. w \in R /\ Complete(s, R)
    BY <2>2 DEF Complete
  <2> HIDE DEF R
  <2> QED BY <2>1, <2>3 DEF Reach
<1> QED BY <1>3, <1>4

Filled(s, w) == {EntryOf(s, z) : z \in {y \in Reach(s, w) : y.at < y.end}}

\* The entries of the reachable scopes solve the recursive equation.
LEMMA FilledSolves ==
  ASSUME NEW s \in Streams
  PROVE  Solves(s, [w \in Scopes(s) |-> Filled(s, w)])
<1> DEFINE g == [w \in Scopes(s) |-> Filled(s, w)]
<1>1. ASSUME NEW w \in Scopes(s) PROVE Filled(s, w) = ScopeBody(s, w, g)
  <2> DEFINE d == Decode(s, w.at, w.end)
             next == Scope(w.at + d.size, w.end, w.depth)
             value == Scope(w.at + d.value.offset, w.at + d.value.offset + d.value.size, w.depth + 1)
  <2>1. /\ Later(s, w) \subseteq Scopes(s)
        /\ Reach(s, w) = {w} \cup UNION {Reach(s, z) : z \in Later(s, w)}
    BY LaterScopes, ReachSteps
  <2>2. Filled(s, w) = {EntryOf(s, z) : z \in {y \in {w} : y.at < y.end}}
                         \cup UNION {Filled(s, z) : z \in Later(s, w)}
    BY <2>1 DEF Filled
  <2>3. w.at \in Nat /\ w.end \in Nat
    BY StreamLength DEF Scopes
  <2>4. CASE w.at >= w.end
    <3>1. Later(s, w) = {} /\ ~(w.at < w.end)
      BY <2>3, <2>4 DEF Later
    <3> QED BY <2>2, <2>4, <3>1 DEF ScopeBody
  <2>5. CASE w.at < w.end /\ d.rc # "OK"
    <3>1. Later(s, w) = {} /\ ~(w.at >= w.end)
      BY <2>3, <2>5 DEF Later
    <3> QED BY <2>2, <2>5, <3>1 DEF ScopeBody, EntryOf
  <2>6. CASE w.at < w.end /\ d.rc = "OK" /\ d.constructed
    <3>1. Later(s, w) = {next, value} /\ ~(w.at >= w.end)
      BY <2>3, <2>6 DEF Later
    <3>2. next \in Scopes(s) /\ value \in Scopes(s)
      BY <2>1, <3>1
    <3>3. Filled(s, w) = {EntryOf(s, w)} \cup Filled(s, next) \cup Filled(s, value)
      <4> HIDE DEF next, value
      <4> QED BY <2>2, <2>6, <3>1
    <3>4. ScopeBody(s, w, g) = {EntryOf(s, w)} \cup g[next] \cup g[value]
      BY <2>6, <3>1 DEF ScopeBody, EntryOf, Scope
    <3> HIDE DEF next, value
    <3> QED BY <3>2, <3>3, <3>4
  <2>7. CASE w.at < w.end /\ d.rc = "OK" /\ ~d.constructed
    <3>1. Later(s, w) = {next} /\ ~(w.at >= w.end)
      BY <2>3, <2>7 DEF Later
    <3>2. next \in Scopes(s)
      BY <2>1, <3>1
    <3>3. Filled(s, w) = {EntryOf(s, w)} \cup Filled(s, next)
      <4> HIDE DEF next
      <4> QED BY <2>2, <2>7, <3>1
    <3>4. ScopeBody(s, w, g) = {EntryOf(s, w)} \cup g[next]
      BY <2>7, <3>1 DEF ScopeBody, EntryOf, Scope
    <3> HIDE DEF next
    <3> QED BY <3>2, <3>3, <3>4
  <2> QED BY <2>3, <2>4, <2>5, <2>6, <2>7
<1>2. [w \in Scopes(s) |-> ScopeBody(s, w, g)] = g
  BY <1>1
<1> QED BY <1>2 DEF Solves

\* The entries of every scope, as TreeWalk reads them.
ScopeEntries(s) == CHOOSE f : Solves(s, f) /\ Walk!Entries(s) = f[Scope(0, Len(s), 0)]

\* So TreeWalk's recursive function is one that solves its equation.
LEMMA EntriesSolve ==
  ASSUME NEW s \in Streams
  PROVE  /\ Solves(s, ScopeEntries(s))
         /\ Walk!Entries(s) = ScopeEntries(s)[Scope(0, Len(s), 0)]
<1> DEFINE Sub[w \in [at : 0 .. Len(s), end : 0 .. Len(s), depth : Nat]] ==
        LET d       == Decode(s, w.at, w.end)
            valueAt == w.at + d.value.offset
        IN  IF w.at >= w.end THEN {}
            ELSE {[offset |-> w.at, depth |-> w.depth, source |-> d, end |-> w.end]} \cup
                 IF d.rc # "OK" THEN {}
                 ELSE Sub[[at |-> w.at + d.size, end |-> w.end, depth |-> w.depth]] \cup
                      (IF d.constructed
                         THEN Sub[[at |-> valueAt, end |-> valueAt + d.value.size,
                                     depth |-> w.depth + 1]]
                         ELSE {})
<1>1. Walk!Entries(s) = Sub[[at |-> 0, end |-> Len(s), depth |-> 0]]
  BY DEF Walk!Entries
<1>2. Solves(s, Sub)
  <2>1. PICK g : g = [w \in [at : 0 .. Len(s), end : 0 .. Len(s), depth : Nat] |->
        LET d       == Decode(s, w.at, w.end)
            valueAt == w.at + d.value.offset
        IN  IF w.at >= w.end THEN {}
            ELSE {[offset |-> w.at, depth |-> w.depth, source |-> d, end |-> w.end]} \cup
                 IF d.rc # "OK" THEN {}
                 ELSE g[[at |-> w.at + d.size, end |-> w.end, depth |-> w.depth]] \cup
                      (IF d.constructed
                         THEN g[[at |-> valueAt, end |-> valueAt + d.value.size,
                                     depth |-> w.depth + 1]]
                         ELSE {})]
    BY FilledSolves DEF Solves, ScopeBody, Scopes
  <2> QED BY <2>1 DEF Solves, ScopeBody, Scopes
<1> HIDE DEF Sub
<1>3. \E f : Solves(s, f) /\ Walk!Entries(s) = f[Scope(0, Len(s), 0)]
  BY <1>1, <1>2 DEF Scope
<1> QED BY <1>3 DEF ScopeEntries

\* The entries of the scope i .. j at depth k.
Part(s, i, j, k) == ScopeEntries(s)[Scope(i, j, k)]

\* One step of the recursive reading of a scope.
LEMMA PartUnfolds ==
  ASSUME NEW s \in Streams, NEW i \in 0 .. Len(s), NEW j \in 0 .. Len(s), NEW k \in Nat
  PROVE  LET d == Decode(s, i, j)
             e == [offset |-> i, depth |-> k, source |-> d, end |-> j]
         IN  /\ i >= j => Part(s, i, j, k) = {}
             /\ i < j /\ d.rc # "OK" => Part(s, i, j, k) = {e}
             /\ i < j /\ d.rc = "OK" =>
                  Part(s, i, j, k)
                    = {e} \cup Part(s, i + d.size, j, k)
                          \cup (IF d.constructed
                                  THEN Part(s, i + d.value.offset,
                                            i + d.value.offset + d.value.size, k + 1)
                                  ELSE {})
<1> DEFINE w == Scope(i, j, k)
           f == ScopeEntries(s)
<1>1. w \in Scopes(s) /\ w.at = i /\ w.end = j /\ w.depth = k
  BY DEF Scope, Scopes
<1>2. Solves(s, f)
  BY EntriesSolve
<1> HIDE DEF f, w
<1>3. f[w] = ScopeBody(s, w, f)
  BY <1>1, <1>2 DEF Solves
<1>4. i \in Nat /\ j \in Nat /\ Len(s) \in Nat
  BY StreamLength
<1>5. Part(s, i, j, k) = f[w]
  BY DEF Part, f, w
<1>6. CASE i >= j
  BY <1>1, <1>3, <1>4, <1>5, <1>6 DEF ScopeBody
<1>7. CASE i < j
  <2>1. ~(i >= j)
    BY <1>4, <1>7
  <2> QED BY <1>1, <1>3, <1>5, <2>1 DEF ScopeBody, Part, Scope, f
<1> QED BY <1>4, <1>6, <1>7

\* A nonempty set of numbers has a least one.
LEMMA LeastNat ==
  ASSUME NEW T \in SUBSET Nat, T # {}
  PROVE  \E x \in T : \A y \in T : x <= y
<1>1. IsWellFoundedOn(OpToRel(<, Nat), Nat)
  BY NatLessThanWellFounded, Zenon
<1>2. \A x, y \in Nat : x < y => <<x, y>> \in OpToRel(<, Nat)
  BY DEF OpToRel
<1>3. PICK R : IsWellFoundedOn(R, Nat) /\ \A x, y \in Nat : x < y => <<x, y>> \in R
  <2>1. \E R : IsWellFoundedOn(R, Nat) /\ \A x, y \in Nat : x < y => <<x, y>> \in R
    BY <1>1, <1>2, Zenon
  <2> QED BY <2>1
<1>4. IsWellFoundedOn(R, Nat) /\ T \subseteq Nat
  BY <1>3
<1>5. \E x \in T : \A y \in T : ~(<<y, x>> \in R)
  <2> HIDE <1>3
  <2> QED BY <1>4, WFMin, Zenon
<1>6. PICK x \in T : \A y \in T : ~(<<y, x>> \in R)
  BY <1>5
<1>7. ASSUME NEW y \in T PROVE x <= y
  <2>1. x \in Nat /\ y \in Nat
    BY <1>4
  <2>2. ~(y < x)
    BY <1>3, <1>6, <2>1
  <2> QED BY <2>1, <2>2
<1> QED BY <1>7

\* A scope's entries begin inside it.
Inside(s, i, j, k) == \A e \in Part(s, i, j, k) : e.offset \in Nat /\ i <= e.offset /\ e.offset < j

\* Where an element and its value lie, for a decode that succeeded in scope i .. j.
LEMMA ElementWithin ==
  ASSUME NEW s \in Streams, NEW i \in 0 .. Len(s), NEW j \in 0 .. Len(s), i < j,
         Decode(s, i, j).rc = "OK"
  PROVE  LET d == Decode(s, i, j)
         IN  /\ d \in Answers /\ d.constructed \in BOOLEAN
             /\ d.size \in Nat /\ d.value.offset \in Nat /\ d.value.size \in Nat
             /\ i + d.size \in 0 .. Len(s) /\ i + d.value.offset \in 0 .. Len(s)
             /\ i + d.value.offset + d.value.size \in 0 .. Len(s)
             /\ i < i + d.size /\ i + d.size <= j
             /\ i + d.value.offset + d.value.size <= i + d.size
             /\ Headed /\ d.constructed => d.value.offset > 0
<1> DEFINE d == Decode(s, i, j)
<1>1. Len(s) \in Nat /\ j \in i + 1 .. Len(s)
  BY StreamLength
<1>2. d \in Answers /\ d.size \in 1 .. j - i /\ d.value.offset + d.value.size <= d.size
  BY <1>1, DecodeSound
<1>3. Headed /\ d.constructed => d.value.offset > 0
  BY <1>1 DEF Headed
<1> HIDE DEF d
<1>4. d.value.offset \in Nat /\ d.value.size \in Nat /\ d.constructed \in BOOLEAN
  BY <1>2 DEF Answers, Extents
<1>5. d.size \in Nat
  BY <1>1, <1>2
<1> DEFINE n == Len(s)
           k == d.size
           x == d.value.offset
           y == d.value.size
<1>6. /\ n \in Nat /\ i \in 0 .. n /\ j \in 0 .. n /\ k \in 1 .. j - i
      /\ x \in Nat /\ y \in Nat /\ x + y <= k
  BY <1>1, <1>2, <1>4
<1>7. /\ i + k \in 0 .. n /\ i + x \in 0 .. n /\ i + x + y \in 0 .. n
      /\ i < i + k /\ i + k <= j /\ i + x + y <= i + k
  <2> HIDE DEF k, x, y, n
  <2> QED BY <1>6, WithinScope
<1> QED BY <1>2, <1>3, <1>4, <1>5, <1>7 DEF d

\* By a shortest scope that breaks it: its first element and what that leads to do not.
LEMMA PartInside ==
  ASSUME Headed, NEW s \in Streams,
         NEW i \in 0 .. Len(s), NEW j \in 0 .. Len(s), NEW k \in Nat
  PROVE  Inside(s, i, j, k)
<1> SUFFICES ASSUME ~Inside(s, i, j, k) PROVE FALSE
  OBVIOUS
<1> DEFINE N == 0 .. Len(s)
           T == {n \in Nat : \E a, b \in N, c \in Nat : a < b /\ n = b - a /\ ~Inside(s, a, b, c)}
<1>0. Len(s) \in Nat
  BY StreamLength
<1>1. \A a, b \in N, c \in Nat : a >= b => Inside(s, a, b, c)
  BY PartUnfolds DEF Inside
<1>2. T \in SUBSET Nat /\ T # {}
  <2>1. i < j
    BY <1>0, <1>1
  <2>2. j - i \in Nat
    BY <1>0, <2>1
  <2> QED BY <2>1, <2>2
<1>3. PICK n \in T : \A m \in T : n <= m
  <2> HIDE DEF T
  <2> QED BY <1>2, LeastNat
<1>4. PICK a \in N, b \in N, c \in Nat : a < b /\ n = b - a /\ ~Inside(s, a, b, c)
  BY <1>3
<1>5. ASSUME NEW p \in N, NEW q \in N, NEW r \in Nat, q - p < n PROVE Inside(s, p, q, r)
  <2>1. CASE p >= q
    BY <1>1, <2>1
  <2>2. CASE p < q
    <3>1. q - p \in Nat /\ n \in Nat
      BY <1>0, <1>3, <2>2
    <3>2. ASSUME ~Inside(s, p, q, r) PROVE q - p \in T
      BY <2>2, <3>1, <3>2
    <3>3. ~(n <= q - p)
      BY <1>5, <3>1
    <3> HIDE DEF T
    <3> QED BY <1>3, <3>2, <3>3
  <2> QED BY <1>0, <2>1, <2>2
<1> HIDE DEF T
<1> DEFINE d == Decode(s, a, b)
           e == [offset |-> a, depth |-> c, source |-> d, end |-> b]
<1>6. CASE d.rc # "OK"
  <2>1. Part(s, a, b, c) = {e} /\ e.offset = a
    BY <1>4, <1>6, PartUnfolds
  <2> HIDE DEF e
  <2> QED BY <1>0, <1>4, <2>1 DEF Inside
<1>7. CASE d.rc = "OK"
  <2> DEFINE x == a + d.size
             y == a + d.value.offset
             z == a + d.value.offset + d.value.size
  <2>1. /\ x \in N /\ y \in N /\ z \in N /\ a < x /\ x <= b /\ z <= x
        /\ d.constructed => y > a
        /\ d.size \in Nat /\ d.value.offset \in Nat /\ d.value.size \in Nat
    BY <1>0, <1>4, <1>7, ElementWithin
  <2>2. Part(s, a, b, c) = {e} \cup Part(s, x, b, c)
                              \cup (IF d.constructed THEN Part(s, y, z, c + 1) ELSE {})
        /\ e.offset = a
    BY <1>4, <1>7, PartUnfolds
  <2> HIDE DEF d, e, x, y, z
  <2>3. Inside(s, x, b, c)
    BY <1>0, <1>4, <1>5, <2>1
  <2>4. d.constructed => Inside(s, y, z, c + 1)
    <3>1. d.constructed => z - y < n
      BY <1>0, <1>4, <2>1
    <3> QED BY <1>4, <1>5, <2>1, <3>1
  <2>5. ASSUME NEW h \in Part(s, a, b, c) PROVE h.offset \in Nat /\ a <= h.offset /\ h.offset < b
    <3>1. CASE h = e
      BY <1>0, <1>4, <2>2, <3>1
    <3>2. CASE h \in Part(s, x, b, c)
      BY <1>0, <1>4, <2>1, <2>3, <3>2 DEF Inside
    <3>3. CASE d.constructed /\ h \in Part(s, y, z, c + 1)
      BY <1>0, <1>4, <2>1, <2>4, <3>3 DEF Inside
    <3> QED BY <2>2, <2>5, <3>1, <3>2, <3>3
  <2> QED BY <1>4, <2>5 DEF Inside
<1> QED BY <1>6, <1>7

-----------------------------------------------------------------------------
(***************************************************************************)
(* What a tree reader t still has to hand out of stream s: the rest of the  *)
(* scope the cursor is in, and for every scope around it what follows the   *)
(* node that was opened there.                                              *)
(***************************************************************************)
EndOf(s, t, k) == IF k = 0 THEN Len(s) ELSE t.frames[k].end
At(t) == t.input.base + t.input.pos

Outer(s, t) == UNION {Part(s, t.frames[k].resume, EndOf(s, t, k - 1), k - 1) : k \in 1 .. Depth(t)}
Resumed(s, t) == Part(s, t.pending.resume, EndOf(s, t, Depth(t)), Depth(t))
Inner(s, t) ==
  IF t.descend THEN Part(s, At(t), t.pending.end, Depth(t) + 1) \cup Resumed(s, t)
  ELSE IF t.endPending THEN Resumed(s, t)
  ELSE Part(s, At(t), EndOf(s, t, Depth(t)), Depth(t))
Unread(s, t) == Inner(s, t) \cup Outer(s, t)

\* The scope that the next node is pulled from, and what comes after all of it.
PullEnd(s, t)   == IF t.descend THEN t.pending.end ELSE EndOf(s, t, Depth(t))
PullDepth(t)    == Depth(t) + (IF t.descend THEN 1 ELSE 0)
Behind(s, t)    == IF t.descend THEN Resumed(s, t) \cup Outer(s, t) ELSE Outer(s, t)

\* Every offset of the reader lies in the stream, and whatever is resumed lies behind the
\* scope that is being read.
LEMMA ScopeRange ==
  ASSUME TreeInv
  PROVE  /\ Len(stream) \in Nat /\ At(tree) = Cursor /\ Cursor \in 0 .. Len(stream)
         /\ Depth(tree) \in Nat
         /\ \A k \in 1 .. Depth(tree) : /\ tree.frames[k].end \in 0 .. Len(stream)
                                        /\ tree.frames[k].resume \in 0 .. Len(stream)
         /\ \A k \in 0 .. Depth(tree) : EndOf(stream, tree, k) \in 0 .. Len(stream)
         /\ tree.descend \/ tree.endPending => /\ tree.pending.end \in 0 .. Len(stream)
                                              /\ tree.pending.resume \in 0 .. Len(stream)
<1>1. /\ stream \in Streams /\ tree.input \in Readers
      /\ tree.input.base \in Nat /\ tree.input.pos \in Nat /\ tree.input.size \in Nat
      /\ InStream(stream, tree.input) /\ ScopesNest /\ Len(stream) \in Nat
      /\ Depth(tree) \in Nat /\ \A k \in 1 .. Depth(tree) : tree.frames[k] \in Frames
      /\ tree.pending \in Frames
  BY InvFacts
<1>2. tree.input.base + tree.input.size <= Len(stream) /\ tree.input.pos <= tree.input.size
  BY <1>1 DEF InStream
<1>3. Cursor \in 0 .. Len(stream) /\ At(tree) = Cursor
  BY <1>1, <1>2 DEF Cursor, At
<1>4. ASSUME NEW f \in Frames, f.end <= f.resume, f.resume <= tree.input.base + tree.input.size
      PROVE  f.end \in 0 .. Len(stream) /\ f.resume \in 0 .. Len(stream)
  <2>1. f.end \in Nat /\ f.resume \in Nat
    BY DEF Frames
  <2> QED BY <1>1, <1>2, <1>4, <2>1
<1>5. ASSUME NEW k \in 1 .. Depth(tree)
      PROVE  /\ tree.frames[k].end \in 0 .. Len(stream)
             /\ tree.frames[k].resume \in 0 .. Len(stream)
  BY <1>1, <1>4 DEF ScopesNest, Fits
<1>6. ASSUME NEW k \in 0 .. Depth(tree) PROVE EndOf(stream, tree, k) \in 0 .. Len(stream)
  BY <1>1, <1>5 DEF EndOf
<1>7. ASSUME tree.descend \/ tree.endPending
      PROVE  /\ tree.pending.end \in 0 .. Len(stream) /\ tree.pending.resume \in 0 .. Len(stream)
  BY <1>1, <1>4, <1>7 DEF ScopesNest, Fits
<1> QED BY <1>1, <1>3, <1>5, <1>6, <1>7

\* The scope of the next pull, in absolute offsets.
LEMMA PullRange ==
  ASSUME TreeInv, ~Closes(tree)
  PROVE  LET E == PullEnd(stream, tree)
         IN  /\ E \in 0 .. Len(stream) /\ PullDepth(tree) \in Nat
             /\ Nested(tree) => Cursor < E /\ Scoped(tree).base + Scoped(tree).size = E
             /\ \A k \in 1 .. Depth(tree) : E <= tree.frames[k].resume
             /\ tree.descend => E <= tree.pending.resume
             /\ Cursor <= E
<1> DEFINE E == PullEnd(stream, tree)
<1>1. /\ Len(stream) \in Nat /\ Cursor \in 0 .. Len(stream) /\ Depth(tree) \in Nat
      /\ \A k \in 1 .. Depth(tree) : /\ tree.frames[k].end \in 0 .. Len(stream)
                                     /\ tree.frames[k].resume \in 0 .. Len(stream)
      /\ \A k \in 0 .. Depth(tree) : EndOf(stream, tree, k) \in 0 .. Len(stream)
      /\ tree.descend => /\ tree.pending.end \in 0 .. Len(stream)
                         /\ tree.pending.resume \in 0 .. Len(stream)
  BY ScopeRange
<1>2. E \in 0 .. Len(stream) /\ PullDepth(tree) \in Nat
  BY <1>1 DEF PullEnd, PullDepth
<1>3. /\ tree.input \in Readers /\ ScopesNest /\ tree.input.base \in Nat
      /\ tree.input.pos \in Nat /\ ReaderOffset(tree.input) = Cursor
  BY InvFacts
<1>4. ASSUME Nested(tree)
      PROVE  /\ E = ScopeEnd(tree) /\ Cursor <= E
             /\ \A j \in 1 .. Depth(tree) : E <= tree.frames[j].end
  <2>1. E = ScopeEnd(tree)
    BY <1>4 DEF PullEnd, ScopeEnd, EndOf, Nested, Depth
  <2> QED BY <1>4, <2>1, ScopeEndFits DEF Cursor
<1>5. ASSUME Nested(tree) PROVE Cursor < E
  <2>1. CASE tree.descend
    BY <1>3, <2>1 DEF ScopesNest, PullEnd
  <2>2. CASE ~tree.descend
    <3>1. tree.frames # <<>> /\ Depth(tree) # 0
      BY <1>5, <2>2 DEF Nested, Depth
    <3>2. E = tree.frames[Depth(tree)].end
      BY <2>2, <3>1 DEF PullEnd, EndOf
    <3>3. Cursor # E
      BY <1>3, <2>2, <3>1, <3>2 DEF Closes, InnermostEnds
    <3> QED BY <1>1, <1>2, <1>4, <1>5, <3>3
  <2> QED BY <2>1, <2>2
<1>6. ASSUME Nested(tree) PROVE Scoped(tree).base + Scoped(tree).size = E
  <2>1. E - tree.input.base \in Nat /\ E >= tree.input.base
    BY <1>2, <1>3, <1>4, <1>6, <1>1 DEF Cursor
  <2>2. Scoped(tree) = [tree.input EXCEPT !.size = E - tree.input.base, !.final = TRUE]
    BY <1>4, <1>6, <2>1 DEF Scoped, SizeSub
  <2>3. Scoped(tree).base = tree.input.base /\ Scoped(tree).size = E - tree.input.base
    BY <1>3, <2>2 DEF Readers
  <2> QED BY <1>1, <1>2, <1>3, <2>3
<1>7. ASSUME NEW k \in 1 .. Depth(tree) PROVE E <= tree.frames[k].resume
  <2>1. Nested(tree)
    BY <1>1 DEF Nested, Depth
  <2>2. E <= tree.frames[k].end /\ tree.frames[k].end <= tree.frames[k].resume
    BY <1>3, <1>4, <2>1 DEF ScopesNest
  <2> QED BY <1>1, <1>2, <2>2
<1>8. tree.descend => E <= tree.pending.resume
  BY <1>3 DEF ScopesNest, PullEnd
<1>9. Cursor <= E
  <2>1. CASE Nested(tree)
    BY <1>4, <2>1
  <2>2. CASE ~Nested(tree)
    BY <1>1, <2>2 DEF Nested, PullEnd, EndOf, Depth
  <2> QED BY <2>1, <2>2
<1> QED BY <1>2, <1>5, <1>6, <1>7, <1>8, <1>9

\* What follows the scope being read begins behind it.
LEMMA BehindLater ==
  ASSUME TreeInv, ~Closes(tree), Headed, NEW e \in Behind(stream, tree)
  PROVE  e.offset \in Nat /\ PullEnd(stream, tree) <= e.offset
<1>1. /\ Len(stream) \in Nat /\ Depth(tree) \in Nat /\ stream \in Streams
      /\ \A k \in 1 .. Depth(tree) : tree.frames[k].resume \in 0 .. Len(stream)
      /\ \A k \in 0 .. Depth(tree) : EndOf(stream, tree, k) \in 0 .. Len(stream)
      /\ tree.descend => tree.pending.resume \in 0 .. Len(stream)
  BY ScopeRange, InvFacts
<1>2. /\ PullEnd(stream, tree) \in 0 .. Len(stream)
      /\ \A k \in 1 .. Depth(tree) : PullEnd(stream, tree) <= tree.frames[k].resume
      /\ tree.descend => PullEnd(stream, tree) <= tree.pending.resume
  BY PullRange
<1>3. ASSUME NEW k \in 1 .. Depth(tree),
             e \in Part(stream, tree.frames[k].resume, EndOf(stream, tree, k - 1), k - 1)
      PROVE  e.offset \in Nat /\ PullEnd(stream, tree) <= e.offset
  <2>1. k - 1 \in 0 .. Depth(tree) /\ k - 1 \in Nat
    BY <1>1
  <2>2. Inside(stream, tree.frames[k].resume, EndOf(stream, tree, k - 1), k - 1)
    BY <1>1, <2>1, PartInside
  <2> QED BY <1>1, <1>2, <1>3, <2>2 DEF Inside
<1>4. ASSUME tree.descend, e \in Resumed(stream, tree)
      PROVE  e.offset \in Nat /\ PullEnd(stream, tree) <= e.offset
  <2>1. Inside(stream, tree.pending.resume, EndOf(stream, tree, Depth(tree)), Depth(tree))
    BY <1>1, <1>4, PartInside
  <2> QED BY <1>1, <1>2, <1>4, <2>1 DEF Inside, Resumed
<1> QED BY <1>3, <1>4 DEF Behind, Outer

\* What a pull decides is what the scope around the cursor says, whichever windows the bytes
\* came in: every scope but the root's is complete, and at the root the decoder's verdict is
\* final.
LEMMA PullVerdict ==
  ASSUME TreeInv, PrefixStable, ~Closes(tree), Preflight(tree) = "OK",
         PullResult(tree) # "NEED_MORE_DATA"
  PROVE  LET E == PullEnd(stream, tree)
             d == Decode(stream, Cursor, E)
         IN  \/ /\ Cursor < E /\ ReadImpl(stream, Scoped(tree)) = d
                /\ PullResult(tree) = d.rc
                /\ Location(stream, Scoped(tree))
                     = {Cursor + w : w \in {x \in {d.where} : x <= E - Cursor}}
             \/ /\ ~tree.descend /\ tree.frames = <<>> /\ Cursor = Len(stream)
                /\ PullResult(tree) = "END"
                /\ Location(stream, Scoped(tree)) = {Len(stream)}
<1> DEFINE E == PullEnd(stream, tree)
           r == Scoped(tree)
<1>1. /\ r \in Readers /\ InStream(stream, r) /\ stream \in Streams
      /\ r.base = tree.input.base /\ r.pos = tree.input.pos /\ Cursor = r.base + r.pos
      /\ Len(stream) \in Nat /\ ReaderOffset(r) = Cursor /\ ReaderValid(r) = "OK"
  BY InvFacts, ScopeIsWindow, ValidWindow DEF Cursor
<1>2. /\ E \in 0 .. Len(stream)
      /\ Nested(tree) => Cursor < E /\ r.base + r.size = E
  BY PullRange
<1>3. PullResult(tree) = NextResult(stream, r) /\ NextResult(stream, r) # "NEED_MORE_DATA"
  BY DEF PullResult
<1>4. CASE Nested(tree)
  <2>1. r.final
    <3>1. tree.input \in Readers
      BY InvFacts
    <3> QED BY <1>4, <3>1 DEF Scoped, Readers
  <2> HIDE DEF r, E
  <2>2. r.pos # r.size /\ E - Cursor = r.size - r.pos
    <3>1. r.base \in Nat /\ r.pos \in Nat /\ r.size \in Nat
      BY <1>1 DEF Readers
    <3> QED BY <1>1, <1>2, <1>4, <3>1
  <2>3. ReadImpl(stream, r) = Decode(stream, Cursor, E)
    BY <1>1, <1>2, <1>4 DEF ReadImpl
  <2>4. NextResult(stream, r) = ReadImpl(stream, r).rc
    BY <1>1, <2>1, <2>2 DEF NextResult
  <2>5. Location(stream, r)
          = {(r.base + r.pos) + w : w \in {x \in {ReadImpl(stream, r).where} : x <= r.size - r.pos}}
    BY <1>1, <2>2, LocationInWindow
  <2> QED BY <1>1, <1>2, <1>3, <1>4, <2>2, <2>3, <2>4, <2>5 DEF r, E
<1>5. CASE ~Nested(tree)
  <2>1. ~tree.descend /\ tree.frames = <<>> /\ r = tree.input /\ Depth(tree) = 0
    BY <1>5 DEF Nested, Scoped, Depth
  <2>2. E = Len(stream)
    BY <2>1 DEF PullEnd, EndOf
  <2>3. WindowOK(stream, r)
    BY <2>1, InvFacts
  <2> HIDE DEF r, E
  <2>4. \/ /\ Cursor < Len(stream) /\ r.pos # r.size
           /\ ReadImpl(stream, r) = DecodeRest(stream, Cursor)
           /\ NextResult(stream, r) = ReadImpl(stream, r).rc
        \/ /\ Cursor = Len(stream) /\ r.pos = r.size
           /\ NextResult(stream, r) = "END"
    BY <1>1, <1>3, <2>3, PullIsRest
  <2>5. CASE r.pos # r.size
    <3>1. Location(stream, r)
            = {(r.base + r.pos) + w :
                 w \in {x \in {DecodeRest(stream, r.base + r.pos).where} :
                          x <= Len(stream) - (r.base + r.pos)}}
      BY <1>1, <1>3, <2>3, <2>5, LocationIsRest
    <3> QED BY <1>1, <1>3, <2>2, <2>4, <2>5, <3>1 DEF DecodeRest, r, E
  <2>6. CASE r.pos = r.size
    <3>1. Location(stream, r) = {Cursor}
      BY <1>1, <2>6 DEF Location
    <3> QED BY <1>3, <2>1, <2>4, <2>6, <3>1 DEF r
  <2> QED BY <2>5, <2>6
<1> QED BY <1>4, <1>5

\* Between two nodes, what is unread is the rest of the scope being read and what is behind it.
LEMMA UnreadScope ==
  ASSUME TreeInv, ~Closes(tree)
  PROVE  Unread(stream, tree)
           = Part(stream, Cursor, PullEnd(stream, tree), PullDepth(tree)) \cup Behind(stream, tree)
<1>1. At(tree) = Cursor /\ ~tree.endPending /\ Depth(tree) \in Nat
  BY ScopeRange DEF Closes
<1> QED BY <1>1 DEF Unread, Inner, Behind, PullEnd, PullDepth

\* The entry the cursor stands at, which no unread one precedes.
AtCursor(s, t) == [offset |-> At(t), depth |-> PullDepth(t),
                   source |-> Decode(s, At(t), PullEnd(s, t)), end |-> PullEnd(s, t)]

\* A cursor that has not reached the end of its scope stands at the first unread entry.
LEMMA FirstUnread ==
  ASSUME TreeInv, ~Closes(tree), Headed, Cursor < PullEnd(stream, tree)
  PROVE  /\ AtCursor(stream, tree) \in Unread(stream, tree)
         /\ \A f \in Unread(stream, tree) : f.offset \in Nat /\ Cursor <= f.offset
<1> DEFINE E == PullEnd(stream, tree)
           K == PullDepth(tree)
<1>1. /\ stream \in Streams /\ Cursor \in 0 .. Len(stream) /\ E \in 0 .. Len(stream)
      /\ K \in Nat /\ At(tree) = Cursor /\ Len(stream) \in Nat
  BY ScopeRange, PullRange, InvFacts
<1>2. Unread(stream, tree) = Part(stream, Cursor, E, K) \cup Behind(stream, tree)
  BY UnreadScope
<1>3. \A f \in Behind(stream, tree) : f.offset \in Nat /\ E <= f.offset
  BY BehindLater
<1>4. AtCursor(stream, tree)
        = [offset |-> Cursor, depth |-> K, source |-> Decode(stream, Cursor, E), end |-> E]
  BY <1>1 DEF AtCursor
<1> HIDE DEF E, K
<1>5. AtCursor(stream, tree) \in Part(stream, Cursor, E, K)
  BY <1>1, <1>4, PartUnfolds DEF E
<1>6. Inside(stream, Cursor, E, K)
  BY <1>1, PartInside
<1>7. \A f \in Behind(stream, tree) : Cursor <= f.offset
  BY <1>1, <1>3 DEF E
<1> QED BY <1>2, <1>3, <1>5, <1>6, <1>7 DEF Inside

\* What is unread depends on the cursor, the frames and the flags alone.
LEMMA SameUnread ==
  ASSUME NEW s, NEW t, NEW a, At(a) = At(t), a.frames = t.frames, a.pending = t.pending,
         a.descend = t.descend, a.endPending = t.endPending
  PROVE  Unread(s, a) = Unread(s, t)
<1>1. Depth(a) = Depth(t) /\ \A k : EndOf(s, a, k) = EndOf(s, t, k)
  BY DEF Depth, EndOf
<1>2. Outer(s, a) = Outer(s, t)
  BY <1>1 DEF Outer
<1> QED BY <1>1, <1>2 DEF Unread, Inner, Resumed

\* A node that is pulled is the entry at the cursor, and what it leaves lies after it.
LEMMA PullUnread ==
  ASSUME TreeInv, PrefixStable, Headed, ~Closes(tree), PullResult(tree) = "OK", NEW a,
         a.input = AfterPull(tree).input, a.frames = AfterPull(tree).frames,
         a.pending = AfterPull(tree).pending, a.descend = AfterPull(tree).descend,
         a.endPending = AfterPull(tree).endPending
  PROVE  /\ Cursor < PullEnd(stream, tree)
         /\ ReadImpl(stream, Scoped(tree)) = Decode(stream, Cursor, PullEnd(stream, tree))
         /\ Unread(stream, tree) = {AtCursor(stream, tree)} \cup Unread(stream, a)
         /\ \A f \in Unread(stream, a) : f.offset \in Nat /\ Cursor + 1 <= f.offset
<1> DEFINE E == PullEnd(stream, tree)
           K == PullDepth(tree)
           D == Depth(tree)
           d == Decode(stream, Cursor, E)
           x == Cursor + d.size
           y == Cursor + d.value.offset
           z == Cursor + d.value.offset + d.value.size
<1>1. /\ Cursor < E /\ ReadImpl(stream, Scoped(tree)) = d /\ d.rc = "OK"
  <2>1. Preflight(tree) = "OK"
    BY DEF PullResult
  <2> QED BY <2>1, PullVerdict
<1>2. /\ stream \in Streams /\ Cursor \in 0 .. Len(stream) /\ E \in 0 .. Len(stream)
      /\ K \in Nat /\ At(tree) = Cursor /\ Len(stream) \in Nat /\ D \in Nat
      /\ tree.frames \in Seq(Frames) /\ tree.pending \in Frames /\ tree.input \in Readers
      /\ tree.input.base \in Nat /\ tree.input.pos \in Nat
  BY ScopeRange, PullRange, InvFacts
<1>3. /\ d.constructed \in BOOLEAN
      /\ a.input = [tree.input EXCEPT !.pos =
                      tree.input.pos + (IF d.constructed THEN d.value.offset ELSE d.size)]
      /\ a.frames = IF tree.descend THEN Append(tree.frames, tree.pending) ELSE tree.frames
      /\ d.constructed => a.pending = [end |-> z, resume |-> x]
      /\ a.descend = (d.constructed /\ d.value.size > 0)
      /\ a.endPending = (d.constructed /\ d.value.size = 0)
  BY <1>1, PulledFields
<1>4. /\ d.size \in Nat /\ d.value.offset \in Nat /\ d.value.size \in Nat
      /\ x \in 0 .. Len(stream) /\ y \in 0 .. Len(stream) /\ z \in 0 .. Len(stream)
      /\ Cursor < x
      /\ d.constructed => y > Cursor
  <2>1. /\ d.size \in Nat /\ d.value.offset \in Nat /\ d.value.size \in Nat
        /\ x \in 0 .. Len(stream) /\ y \in 0 .. Len(stream) /\ z \in 0 .. Len(stream)
        /\ Cursor < x /\ (d.constructed => d.value.offset > 0)
    BY <1>1, <1>2, ElementWithin
  <2> QED BY <1>2, <2>1
<1> HIDE DEF d
<1>5. At(a) = IF d.constructed THEN y ELSE x
  <2> DEFINE m == IF d.constructed THEN d.value.offset ELSE d.size
  <2>1. m \in Nat
    BY <1>4
  <2>2. a.input.base = tree.input.base /\ a.input.pos = tree.input.pos + m
    <3> HIDE DEF m
    <3>1. a.input = [tree.input EXCEPT !.pos = tree.input.pos + m]
      BY <1>3 DEF m
    <3> QED BY <1>2, <3>1 DEF Readers
  <2> HIDE DEF m
  <2>3. At(a) = Cursor + m
    BY <1>2, <2>1, <2>2 DEF At, Cursor
  <2> QED BY <2>3 DEF m, x, y
<1> HIDE DEF x, y, z, E, K
<1>6. Depth(a) = K /\ EndOf(stream, a, K) = E /\ Outer(stream, a) = Behind(stream, tree)
  <2>1. CASE ~tree.descend
    <3>1. a.frames = tree.frames
      BY <1>3, <2>1
    <3>2. Depth(a) = D /\ K = D /\ \A k : EndOf(stream, a, k) = EndOf(stream, tree, k)
      BY <1>2, <2>1, <3>1 DEF Depth, EndOf, K, PullDepth
    <3>3. E = EndOf(stream, tree, D)
      BY <2>1 DEF E, PullEnd
    <3> QED BY <2>1, <3>1, <3>2, <3>3 DEF Outer, Behind
  <2>2. CASE tree.descend
    <3>1. /\ a.frames = Append(tree.frames, tree.pending) /\ K = D + 1
          /\ E = tree.pending.end
      BY <1>2, <1>3, <2>2 DEF K, E, PullDepth, PullEnd
    <3>2. /\ Len(a.frames) = D + 1 /\ a.frames[D + 1] = tree.pending
          /\ \A k \in 1 .. D : a.frames[k] = tree.frames[k]
      BY <1>2, <3>1, AppendProperties DEF Depth
    <3>3. Depth(a) = D + 1
      BY <3>2 DEF Depth
    <3>4. \A k \in 0 .. D : EndOf(stream, a, k) = EndOf(stream, tree, k)
      BY <1>2, <3>2 DEF EndOf
    <3>5. EndOf(stream, a, D + 1) = E
      BY <1>2, <3>1, <3>2 DEF EndOf
    <3> DEFINE P(k) == Part(stream, a.frames[k].resume, EndOf(stream, a, k - 1), k - 1)
               Q(k) == Part(stream, tree.frames[k].resume, EndOf(stream, tree, k - 1), k - 1)
    <3>6. \A k \in 1 .. D : k - 1 \in 0 .. D /\ P(k) = Q(k)
      BY <1>2, <3>2, <3>4
    <3>7. P(D + 1) = Resumed(stream, tree)
      <4>1. D + 1 - 1 = D /\ D \in 0 .. D
        BY <1>2
      <4> QED BY <3>2, <3>4, <4>1 DEF Resumed
    <3>8. Outer(stream, a) = UNION {P(k) : k \in 1 .. D + 1}
      BY <3>3 DEF Outer
    <3>9. Outer(stream, tree) = UNION {Q(k) : k \in 1 .. D}
      BY DEF Outer
    <3>10. 1 .. D + 1 = (1 .. D) \cup {D + 1}
      BY <1>2
    <3> HIDE DEF P, Q
    <3>11. Outer(stream, a) = Outer(stream, tree) \cup Resumed(stream, tree)
      <4>1. \A k \in 1 .. D : P(k) = Q(k)
        BY <3>6
      <4> HIDE DEF D
      <4>2. UNION {P(k) : k \in 1 .. D + 1} = (UNION {P(k) : k \in 1 .. D}) \cup P(D + 1)
        BY <3>10
      <4>3. UNION {P(k) : k \in 1 .. D} = UNION {Q(k) : k \in 1 .. D}
        BY <4>1
      <4> QED BY <3>7, <3>8, <3>9, <4>2, <4>3
    <3> QED BY <2>2, <3>1, <3>3, <3>5, <3>11 DEF Behind
  <2> QED BY <2>1, <2>2
<1> DEFINE e == AtCursor(stream, tree)
<1>7. Part(stream, Cursor, E, K)
        = {e} \cup Part(stream, x, E, K) \cup (IF d.constructed THEN Part(stream, y, z, K + 1) ELSE {})
  <2>1. e = [offset |-> Cursor, depth |-> K, source |-> d, end |-> E]
    BY <1>2 DEF AtCursor, d, E, K
  <2> HIDE DEF e
  <2> QED BY <1>1, <1>2, <2>1, PartUnfolds DEF d, x, y, z
<1>8. d.constructed /\ d.value.size = 0 => Part(stream, y, z, K + 1) = {}
  <2>1. d.value.size = 0 => y >= z
    BY <1>2, <1>4 DEF y, z
  <2> QED BY <1>2, <1>4, <2>1, PartUnfolds
<1>9. Inner(stream, a)
        = Part(stream, x, E, K) \cup (IF d.constructed THEN Part(stream, y, z, K + 1) ELSE {})
  <2>1. CASE ~d.constructed
    BY <1>3, <1>5, <1>6, <2>1 DEF Inner
  <2>2. CASE d.constructed /\ d.value.size = 0
    <3>0. ~(d.value.size > 0)
      BY <2>2
    <3>1. a.descend = FALSE /\ a.endPending = TRUE /\ a.pending = [end |-> z, resume |-> x]
      BY <1>3, <2>2, <3>0, Zenon
    <3>2. a.pending.resume = x
      BY <3>1
    <3> QED BY <1>6, <1>8, <2>2, <3>1, <3>2 DEF Inner, Resumed
  <2>3. CASE d.constructed /\ d.value.size > 0
    <3>1. a.descend = TRUE /\ a.pending = [end |-> z, resume |-> x]
      BY <1>3, <2>3
    <3>2. a.pending.resume = x /\ a.pending.end = z
      BY <3>1
    <3> QED BY <1>5, <1>6, <2>3, <3>1, <3>2 DEF Inner, Resumed
  <2> QED BY <1>3, <1>4, <2>1, <2>2, <2>3
<1> HIDE DEF e
<1>10. Unread(stream, tree) = {e} \cup Unread(stream, a)
  BY <1>6, <1>7, <1>9, UnreadScope DEF Unread, E, K
<1>11. ASSUME NEW f \in Unread(stream, a) PROVE f.offset \in Nat /\ Cursor + 1 <= f.offset
  <2>1. CASE f \in Part(stream, x, E, K)
    <3>1. Inside(stream, x, E, K)
      BY <1>2, <1>4, PartInside
    <3> QED BY <1>2, <1>4, <2>1, <3>1 DEF Inside
  <2>2. CASE d.constructed /\ f \in Part(stream, y, z, K + 1)
    <3>1. Inside(stream, y, z, K + 1)
      BY <1>2, <1>4, PartInside
    <3> QED BY <1>2, <1>4, <2>2, <3>1 DEF Inside
  <2>3. CASE f \in Behind(stream, tree)
    <3>1. f.offset \in Nat /\ E <= f.offset
      BY <2>3, BehindLater DEF E
    <3> QED BY <1>1, <1>2, <3>1 DEF E
  <2> QED BY <1>6, <1>9, <1>11, <2>1, <2>2, <2>3 DEF Unread
<1> QED BY <1>1, <1>10, <1>11 DEF E, d, e

\* An END loses nothing: the scope it closes is read, and the cursor goes on behind it.
LEMMA CloseUnread ==
  ASSUME TreeInv, Closes(tree), NEW a,
         a.input = Closed(tree).input, a.frames = Closed(tree).frames,
         a.pending = Closed(tree).pending, a.descend = Closed(tree).descend,
         a.endPending = Closed(tree).endPending
  PROVE  Unread(stream, a) = Unread(stream, tree) /\ ~a.descend
<1> DEFINE f == ClosedFrame(tree)
           D == Depth(tree)
<1>1. /\ f \in Frames /\ f.resume - tree.input.base \in Nat
      /\ a.input = [tree.input EXCEPT !.pos = f.resume - tree.input.base]
      /\ a.frames = IF tree.endPending THEN tree.frames ELSE SubSeq(tree.frames, 1, D - 1)
      /\ a.pending = tree.pending /\ a.descend = tree.descend /\ a.endPending = FALSE
      /\ ~tree.endPending => D >= 1 /\ ~tree.descend
  BY ClosedFields
<1>2. /\ stream \in Streams /\ tree.input \in Readers /\ tree.frames \in Seq(Frames)
      /\ D \in Nat /\ tree.input.base \in Nat /\ At(tree) = Cursor
      /\ Cursor \in 0 .. Len(stream) /\ ReaderOffset(tree.input) = Cursor
      /\ Len(stream) \in Nat /\ \A k \in 0 .. D : EndOf(stream, tree, k) \in 0 .. Len(stream)
  BY ScopeRange, InvFacts
<1>3. ~a.descend /\ ~tree.descend
  BY <1>1, FlagTypes
<1>4. At(a) = f.resume
  <2>1. f.resume \in Nat
    BY <1>1 DEF Frames
  <2> HIDE DEF f
  <2> QED BY <1>1, <1>2, <2>1 DEF At, Readers
<1>5. CASE tree.endPending
  <2>1. a.frames = tree.frames /\ f = tree.pending
    BY <1>1, <1>5 DEF ClosedFrame
  <2>2. Depth(a) = D /\ \A k : EndOf(stream, a, k) = EndOf(stream, tree, k)
    BY <2>1 DEF Depth, EndOf
  <2>3. Outer(stream, a) = Outer(stream, tree)
    BY <2>1, <2>2 DEF Outer
  <2>4. Inner(stream, a) = Inner(stream, tree)
    BY <1>1, <1>3, <1>4, <1>5, <2>1, <2>2 DEF Inner, Resumed
  <2> QED BY <1>3, <2>3, <2>4 DEF Unread
<1>6. CASE ~tree.endPending
  <2> DEFINE n == D - 1
             P(k) == Part(stream, a.frames[k].resume, EndOf(stream, a, k - 1), k - 1)
             Q(k) == Part(stream, tree.frames[k].resume, EndOf(stream, tree, k - 1), k - 1)
  <2>1. /\ n \in Nat /\ D = n + 1 /\ a.frames = SubSeq(tree.frames, 1, n)
        /\ Len(tree.frames) = n + 1 /\ f = tree.frames[D] /\ Cursor = f.end
    BY <1>1, <1>2, <1>6 DEF Depth, ClosedFrame, Closes, InnermostEnds
  <2> HIDE DEF n, D, f
  <2>2. Len(a.frames) = n /\ Depth(a) = n /\ \A k \in 1 .. n : a.frames[k] = tree.frames[k]
    BY <1>2, <2>1, DropLast DEF Depth
  <2>3. \A k \in 0 .. n : EndOf(stream, a, k) = EndOf(stream, tree, k)
    BY <2>1, <2>2 DEF EndOf
  <2>4. \A k \in 1 .. n : P(k) = Q(k)
    <3>1. \A k \in 1 .. n : k - 1 \in 0 .. n
      BY <2>1
    <3> QED BY <2>2, <2>3, <3>1
  <2>5. Outer(stream, a) = UNION {P(k) : k \in 1 .. n}
    BY <2>2 DEF Outer
  <2>6. Outer(stream, tree) = UNION {Q(k) : k \in 1 .. n + 1}
    BY <2>1 DEF Outer, D
  <2>7. Q(n + 1) = Part(stream, f.resume, EndOf(stream, tree, n), n)
    <3>1. n + 1 - 1 = n
      BY <2>1
    <3> QED BY <2>1, <3>1
  <2>8. Inner(stream, a) = Part(stream, f.resume, EndOf(stream, tree, n), n)
    <3>1. n \in 0 .. n
      BY <2>1
    <3> QED BY <1>1, <1>3, <1>4, <2>2, <2>3, <3>1 DEF Inner
  <2>9. Inner(stream, tree) = {}
    <3>1. D # 0 /\ EndOf(stream, tree, D) = Cursor
      BY <2>1 DEF EndOf
    <3>2. Inner(stream, tree) = Part(stream, Cursor, Cursor, D)
      BY <1>2, <1>3, <1>6, <3>1 DEF Inner, D
    <3>3. Cursor >= Cursor
      BY <1>2
    <3> QED BY <1>2, <3>2, <3>3, PartUnfolds
  <2> HIDE DEF P, Q
  <2>10. 1 .. n + 1 = (1 .. n) \cup {n + 1}
    BY <2>1
  <2>11. UNION {Q(k) : k \in 1 .. n + 1} = (UNION {Q(k) : k \in 1 .. n}) \cup Q(n + 1)
    BY <2>10
  <2>12. UNION {P(k) : k \in 1 .. n} = UNION {Q(k) : k \in 1 .. n}
    BY <2>4
  <2> QED BY <1>3, <2>5, <2>6, <2>7, <2>8, <2>9, <2>11, <2>12 DEF Unread
<1> QED BY <1>5, <1>6

\* A skip leaves what begins at or behind the end of the skipped node.
LEMMA SkipUnread ==
  ASSUME TreeInv, Headed, tree.descend
  PROVE  /\ Unread(stream, Skipped(tree))
              = {e \in Unread(stream, tree) : e.offset >= tree.pending.resume}
         /\ ~Skipped(tree).descend
<1> DEFINE a == Skipped(tree)
           R == tree.pending.resume
           D == Depth(tree)
<1>1. /\ a.frames = tree.frames /\ a.pending = tree.pending /\ a.descend = FALSE
      /\ a.endPending = TRUE
  BY InvFacts DEF Skipped, TreeReaders
<1>2. /\ stream \in Streams /\ Len(stream) \in Nat /\ At(tree) = Cursor /\ D \in Nat
      /\ Cursor \in 0 .. Len(stream)
      /\ R \in 0 .. Len(stream) /\ tree.pending.end \in 0 .. Len(stream)
      /\ \A k \in 0 .. D : EndOf(stream, tree, k) \in 0 .. Len(stream)
      /\ \A k \in 1 .. D : /\ tree.frames[k].end \in 0 .. Len(stream)
                           /\ tree.frames[k].resume \in 0 .. Len(stream)
      /\ ScopesNest
  BY ScopeRange, InvFacts
<1>3. /\ tree.pending.end <= R /\ \A k \in 1 .. D : R <= tree.frames[k].resume
  <2>1. /\ tree.pending.end <= R
        /\ \A k \in 1 .. D : R <= tree.frames[k].end /\ tree.frames[k].end <= tree.frames[k].resume
    BY <1>2 DEF ScopesNest, Fits
  <2>2. ASSUME NEW k \in 1 .. D PROVE R <= tree.frames[k].resume
    <3>1. tree.pending \in Frames /\ tree.frames[k] \in Frames
      BY InvFacts
    <3>2. R \in Nat /\ tree.frames[k].end \in Nat /\ tree.frames[k].resume \in Nat
      BY <3>1 DEF Frames
    <3> QED BY <2>1, <3>2, Chain
  <2> QED BY <2>1, <2>2
<1> HIDE DEF a
<1>4. Depth(a) = D /\ \A k : EndOf(stream, a, k) = EndOf(stream, tree, k)
  BY <1>1 DEF Depth, EndOf
<1>5. Outer(stream, a) = Outer(stream, tree)
  BY <1>1, <1>4 DEF Outer
<1>6. Inner(stream, a) = Resumed(stream, tree)
  BY <1>1, <1>4 DEF Inner, Resumed
<1>7. Unread(stream, tree)
        = Part(stream, Cursor, tree.pending.end, D + 1) \cup Unread(stream, a)
  BY <1>2, <1>5, <1>6 DEF Unread, Inner
<1>8. ASSUME NEW e \in Part(stream, Cursor, tree.pending.end, D + 1) PROVE ~(e.offset >= R)
  <2>1. Inside(stream, Cursor, tree.pending.end, D + 1)
    BY <1>2, PartInside
  <2> QED BY <1>2, <1>3, <1>8, <2>1 DEF Inside
<1>9. ASSUME NEW e \in Unread(stream, a) PROVE e.offset >= R
  <2>1. CASE e \in Resumed(stream, tree)
    <3>1. Inside(stream, R, EndOf(stream, tree, D), D)
      BY <1>2, PartInside
    <3> QED BY <1>2, <2>1, <3>1 DEF Inside, Resumed
  <2>2. CASE e \in Outer(stream, tree)
    <3>1. PICK k \in 1 .. D :
            e \in Part(stream, tree.frames[k].resume, EndOf(stream, tree, k - 1), k - 1)
      BY <2>2 DEF Outer
    <3>2. k - 1 \in 0 .. D /\ k - 1 \in Nat
      BY <1>2
    <3>3. Inside(stream, tree.frames[k].resume, EndOf(stream, tree, k - 1), k - 1)
      BY <1>2, <3>2, PartInside
    <3> QED BY <1>2, <1>3, <3>1, <3>3 DEF Inside
  <2> QED BY <1>5, <1>6, <1>9, <2>1, <2>2 DEF Unread
<1> HIDE DEF R
<1> QED BY <1>1, <1>7, <1>8, <1>9 DEF R, a

Nodes == [offset : Nat, depth : Nat, source : Answers, cut : BOOLEAN]

LastNode == nodes[Len(nodes)]

(***************************************************************************)
(* The inductive invariant: what the reader still has to hand out is the    *)
(* walk's entries from where the walk goes on, and while a container is     *)
(* pending it is the last node handed out, not cut.                         *)
(***************************************************************************)
WalkInv ==
  /\ nodes \in Seq(Nodes)
  /\ Unread(stream, tree) = {e \in Walk!Entries(stream) : e.offset >= Walk!Resume}
  /\ tree.descend =>
       /\ nodes # <<>> /\ LastNode.source.constructed /\ LastNode.source.value.size > 0
       /\ LastNode.cut = FALSE /\ LastNode.offset < Cursor
       /\ LastNode.offset + LastNode.source.size = tree.pending.resume

\* Every entry of the walk has an offset.
LEMMA EntriesInside ==
  ASSUME Headed, NEW s \in Streams
  PROVE  \A e \in Walk!Entries(s) : e.offset \in Nat
<1>1. Len(s) \in Nat
  BY StreamLength
<1>2. 0 \in 0 .. Len(s) /\ Len(s) \in 0 .. Len(s) /\ 0 \in Nat
  BY <1>1
<1>3. Inside(s, 0, Len(s), 0)
  BY <1>2, PartInside
<1>4. Walk!Entries(s) = Part(s, 0, Len(s), 0)
  BY EntriesSolve DEF Part
<1> QED BY <1>3, <1>4 DEF Inside

\* Where the walk goes on, in terms of its last node.
LEMMA ResumeAt ==
  ASSUME nodes \in Seq(Nodes)
  PROVE  /\ Walk!Resume \in Nat
         /\ nodes # <<>> => /\ Len(nodes) \in 1 .. Len(nodes) /\ LastNode \in Nodes
                            /\ Walk!Resume = IF LastNode.cut
                                               THEN LastNode.offset + LastNode.source.size
                                               ELSE LastNode.offset + 1
<1>1. CASE nodes = <<>>
  BY <1>1 DEF Walk!Resume
<1>2. CASE nodes # <<>>
  <2>1. Len(nodes) \in 1 .. Len(nodes) /\ LastNode \in Nodes
    BY <1>2 DEF LastNode
  <2>2. Walk!Resume = IF LastNode.cut THEN LastNode.offset + LastNode.source.size
                      ELSE LastNode.offset + 1
    BY <1>2 DEF Walk!Resume, LastNode
  <2>3. LastNode.offset \in Nat /\ LastNode.source.size \in Nat
    BY <2>1 DEF Nodes, Answers
  <2> QED BY <2>1, <2>2, <2>3
<1> QED BY <1>1, <1>2

\* A fresh reader has every entry of the stream unread.
LEMMA WalkInvInit == Headed /\ Init => WalkInv
<1> SUFFICES ASSUME Headed, Init PROVE WalkInv
  OBVIOUS
<1>1. PICK n \in 0 .. Available(stream, 0), final \in BOOLEAN : tree = TreeInit(n, final)
  BY DEF Init
<1>2. /\ tree.frames = <<>> /\ tree.descend = FALSE /\ tree.endPending = FALSE
      /\ tree.input = ReaderInit(n, final) /\ nodes = <<>> /\ stream \in Streams
  BY <1>1 DEF Init, TreeInit
<1>3. At(tree) = 0 /\ Depth(tree) = 0 /\ EndOf(stream, tree, 0) = Len(stream)
  BY <1>2 DEF At, ReaderInit, Depth, EndOf
<1>4. Outer(stream, tree) = {}
  BY <1>3 DEF Outer
<1>5. Unread(stream, tree) = Part(stream, 0, Len(stream), 0)
  BY <1>2, <1>3, <1>4 DEF Unread, Inner
<1>6. Walk!Entries(stream) = Part(stream, 0, Len(stream), 0)
  BY <1>2, EntriesSolve DEF Part
<1>7. Walk!Resume = 0 /\ nodes \in Seq(Nodes)
  BY <1>2 DEF Walk!Resume
<1>8. \A e \in Walk!Entries(stream) : e.offset >= 0
  BY <1>2, EntriesInside
<1> QED BY <1>2, <1>5, <1>6, <1>7, <1>8 DEF WalkInv

\* The walk's next entry is the one at the cursor.
LEMMA CursorAhead ==
  ASSUME TreeInv, WalkInv, Headed, ~Closes(tree), Cursor < PullEnd(stream, tree)
  PROVE  AtCursor(stream, tree) \in Walk!Ahead /\ Walk!Resume <= Cursor
<1> DEFINE U == Unread(stream, tree)
           e == AtCursor(stream, tree)
<1>1. e \in U /\ (\A f \in U : f.offset \in Nat /\ Cursor <= f.offset) /\ e.offset = Cursor
  BY FirstUnread, ScopeRange DEF AtCursor
<1>2. U = {f \in Walk!Entries(stream) : f.offset >= Walk!Resume}
  BY DEF WalkInv
<1>3. Walk!Resume \in Nat
  BY ResumeAt DEF WalkInv
<1> HIDE DEF U, e
<1>4. Walk!Ahead = {g \in U : \A f \in U : g.offset <= f.offset}
  BY <1>2 DEF Walk!Ahead
<1>5. e \in Walk!Ahead
  BY <1>1, <1>4
<1>6. e.offset \in Nat /\ e.offset >= Walk!Resume
  BY <1>1, <1>2
<1> QED BY <1>1, <1>3, <1>5, <1>6 DEF e

\* A pull that hands out a node is a step of the walk.
LEMMA NodeVisits ==
  ASSUME TreeInv, WalkInv, PrefixStable, Headed, ~Closes(tree), PullResult(tree) = "OK",
         tree'.input = AfterPull(tree).input, tree'.frames = AfterPull(tree).frames,
         tree'.pending = AfterPull(tree).pending, tree'.descend = AfterPull(tree).descend,
         tree'.endPending = AfterPull(tree).endPending,
         stream' = stream, outcome' = Open, nodes' = Append(nodes, PulledNode(tree))
  PROVE  Walk!Visit /\ WalkInv'
<1> DEFINE e == AtCursor(stream, tree)
           d == ReadImpl(stream, Scoped(tree))
           n == PulledNode(tree)
           U == Unread(stream, tree)
           V == Unread(stream, tree')
<1>1. /\ Cursor < PullEnd(stream, tree) /\ d = Decode(stream, Cursor, PullEnd(stream, tree))
      /\ U = {e} \cup V /\ \A f \in V : f.offset \in Nat /\ Cursor + 1 <= f.offset
  BY PullUnread
<1>2. /\ stream \in Streams /\ Cursor \in Nat /\ At(tree) = Cursor /\ Depth(tree) \in Nat
      /\ ReaderOffset(tree.input) = Cursor
  <2>1. Cursor \in 0 .. Len(stream) /\ Len(stream) \in Nat
    BY ScopeRange
  <2> QED BY <2>1, ScopeRange, InvFacts
<1>3. /\ d.rc = "OK" /\ d \in Answers /\ d.size \in Nat /\ d.value.offset \in Nat
      /\ d.value.size \in Nat
  <2>1. Preflight(tree) = "OK"
    BY DEF PullResult
  <2>2. NextResult(stream, Scoped(tree)) = "OK"
    BY <2>1 DEF PullResult
  <2>3. d.rc = "OK"
    BY <1>1, <2>1, PullVerdict
  <2> QED BY <2>3, PullNumbers
<1>4. /\ n = [offset |-> Cursor, depth |-> PullDepth(tree), source |-> d, cut |-> FALSE]
      /\ e = [offset |-> Cursor, depth |-> PullDepth(tree), source |-> d,
              end |-> PullEnd(stream, tree)]
  BY <1>1, <1>2 DEF PulledNode, PullDepth, AtCursor
<1>5. PullDepth(tree) \in Nat
  BY <1>2 DEF PullDepth
<1>6. e \in Walk!Ahead /\ Walk!Resume <= Cursor
  BY <1>1, CursorAhead
<1> HIDE DEF d, e, n
<1>7. Walk!Visit
  <2>1. /\ e.source.rc = "OK"
        /\ n = [offset |-> e.offset, depth |-> e.depth, source |-> e.source, cut |-> FALSE]
    BY <1>3, <1>4
  <2> QED BY <1>6, <2>1 DEF Walk!Visit, Open, Walk!Open, n
<1>8. nodes \in Seq(Nodes) /\ n \in Nodes
  BY <1>2, <1>3, <1>4, <1>5 DEF WalkInv, Nodes
<1>9. nodes' \in Seq(Nodes) /\ nodes' # <<>> /\ LastNode' = n
  BY <1>8 DEF LastNode, n
<1>10. Walk!Resume' = Cursor + 1
  <2>1. nodes' # <<>> /\ nodes'[Len(nodes')] = n
    BY <1>9 DEF LastNode
  <2> QED BY <1>4, <2>1 DEF Walk!Resume
<1>11. V = {f \in Walk!Entries(stream) : f.offset >= Cursor + 1}
  <2>1. U = {f \in Walk!Entries(stream) : f.offset >= Walk!Resume}
    BY DEF WalkInv
  <2>2. \A f \in Walk!Entries(stream) : f.offset \in Nat
    BY <1>2, EntriesInside
  <2>3. Walk!Resume \in Nat
    BY <1>8, ResumeAt
  <2> HIDE DEF U, V
  <2>4. ASSUME NEW f \in V PROVE f \in Walk!Entries(stream) /\ f.offset >= Cursor + 1
    BY <1>1, <1>2, <2>1, <2>4
  <2>5. ASSUME NEW f \in Walk!Entries(stream), f.offset >= Cursor + 1 PROVE f \in V
    <3>1. f.offset \in Nat /\ f.offset >= Walk!Resume
      BY <1>2, <1>6, <2>2, <2>3, <2>5
    <3>2. f \in U
      BY <2>1, <3>1
    <3>3. f # e
      <4>1. e.offset = Cursor
        BY <1>4
      <4>2. f.offset # Cursor
        BY <1>2, <2>5, <3>1
      <4> QED BY <4>1, <4>2
    <3> QED BY <1>1, <3>2, <3>3
  <2> QED BY <2>4, <2>5
<1>12. Unread(stream, tree)' = {f \in Walk!Entries(stream)' : f.offset >= Walk!Resume'}
  <2>1. Unread(stream, tree)' = V /\ Walk!Entries(stream)' = Walk!Entries(stream)
    BY DEF Walk!Entries
  <2> QED BY <1>10, <1>11, <2>1
<1>13. ASSUME tree'.descend
       PROVE  /\ d.constructed /\ d.value.size > 0 /\ Cursor < Cursor'
              /\ Cursor + d.size = tree'.pending.resume
  <2>1. /\ tree'.input = [tree.input EXCEPT !.pos =
                            tree.input.pos + (IF d.constructed THEN d.value.offset ELSE d.size)]
        /\ tree'.pending = IF d.constructed
                             THEN [end    |-> Cursor + d.value.offset + d.value.size,
                                   resume |-> Cursor + d.size]
                             ELSE tree.pending
        /\ tree'.descend = (d.constructed /\ d.value.size > 0)
    BY PulledFields DEF d
  <2>2. d.constructed /\ d.value.size > 0
    BY <1>13, <2>1
  <2>3. d.value.offset > 0
    <3>1. Cursor \in 0 .. Len(stream) /\ PullEnd(stream, tree) \in 0 .. Len(stream)
      BY ScopeRange, PullRange
    <3> QED BY <1>1, <1>2, <1>3, <2>2, <3>1, ElementWithin
  <2>4. tree'.pending = [end    |-> Cursor + d.value.offset + d.value.size,
                         resume |-> Cursor + d.size]
    BY <2>1, <2>2
  <2>5. tree'.input = [tree.input EXCEPT !.pos = tree.input.pos + d.value.offset]
    BY <2>1, <2>2
  <2>6. /\ tree.input \in Readers /\ tree.input.base \in Nat /\ tree.input.pos \in Nat
    BY InvFacts
  <2>7. Cursor' = Cursor + d.value.offset
    <3>1. tree'.input.base = tree.input.base /\ tree'.input.pos = tree.input.pos + d.value.offset
      BY <2>5, <2>6 DEF Readers
    <3> QED BY <1>3, <2>6, <3>1 DEF Cursor
  <2>8. tree'.pending.resume = Cursor + d.size
    BY <2>4
  <2>9. Cursor < Cursor'
    BY <1>2, <1>3, <2>3, <2>7
  <2> QED BY <2>2, <2>8, <2>9
<1>14. LastNode'.offset = Cursor /\ LastNode'.source = d /\ LastNode'.cut = FALSE
  BY <1>4, <1>9
<1>15. WalkInv'
  BY <1>9, <1>12, <1>13, <1>14 DEF WalkInv
<1> QED BY <1>7, <1>15

\* A step in which the reader's place and the history of nodes stay the same.
LEMMA SameWalkInv ==
  ASSUME TreeInv, WalkInv, stream' = stream, nodes' = nodes,
         Unread(stream, tree)' = Unread(stream, tree),
         tree'.descend => tree.descend /\ tree'.pending = tree.pending /\ Cursor' = Cursor
  PROVE  WalkInv'
<1>1. Walk!Resume' = Walk!Resume /\ Walk!Entries(stream)' = Walk!Entries(stream)
  BY DEF Walk!Resume, Walk!Entries
<1>2. LastNode' = LastNode
  BY DEF LastNode
<1>3. Unread(stream, tree)' = {e \in Walk!Entries(stream)' : e.offset >= Walk!Resume'}
  BY <1>1 DEF WalkInv
<1> QED BY <1>2, <1>3 DEF WalkInv

\* A pull without a node is a verdict of the walk, or decides nothing.
LEMMA NoneDecides ==
  ASSUME TreeInv, WalkInv, PrefixStable, Headed, ~Closes(tree), PullResult(tree) # "OK",
         stream' = stream, nodes' = nodes, outcome' = OutcomeAfter(tree)
  PROVE  Walk!Fail \/ Walk!End \/ UNCHANGED Walk!vars
<1>1. CASE Undecided(tree)
  BY <1>1 DEF OutcomeAfter, Walk!vars
<1>2. CASE ~Undecided(tree)
  <2> DEFINE E == PullEnd(stream, tree)
             d == Decode(stream, Cursor, E)
             L == Location(stream, Scoped(tree))
  <2>1. /\ Preflight(tree) = "OK" /\ PullResult(tree) # "NEED_MORE_DATA"
        /\ outcome' = [rc |-> PullResult(tree), loc |-> L]
    BY <1>2 DEF Undecided, OutcomeAfter
  <2>2. \/ /\ Cursor < E /\ PullResult(tree) = d.rc
           /\ L = {Cursor + w : w \in {x \in {d.where} : x <= E - Cursor}}
        \/ /\ ~tree.descend /\ tree.frames = <<>> /\ Cursor = Len(stream)
           /\ PullResult(tree) = "END" /\ L = {Len(stream)}
    BY <2>1, PullVerdict
  <2> HIDE DEF L
  <2>3. CASE Cursor < E
    <3> DEFINE e == AtCursor(stream, tree)
    <3>1. e \in Walk!Ahead
      BY <2>3, CursorAhead
    <3>2. e.offset = Cursor /\ e.source = d /\ e.end = E
      BY ScopeRange DEF AtCursor
    <3>3. Cursor \in 0 .. Len(stream) /\ E \in 0 .. Len(stream) /\ Len(stream) \in Nat
      BY ScopeRange, PullRange
    <3>4. PullResult(tree) = d.rc
          /\ L = {Cursor + w : w \in {x \in {d.where} : x <= E - Cursor}}
      <4>1. CASE tree.frames = <<>> /\ ~tree.descend
        <5>1. E = Len(stream)
          BY <4>1 DEF PullEnd, EndOf, Depth
        <5> QED BY <2>2, <2>3, <3>3, <5>1
      <4>2. CASE ~(tree.frames = <<>> /\ ~tree.descend)
        BY <2>2, <4>2
      <4> QED BY <4>1, <4>2
    <3> HIDE DEF e, d, E
    <3>5. Walk!Fail
      BY <2>1, <3>1, <3>2, <3>4 DEF Walk!Fail
    <3> QED BY <3>5
  <2>4. CASE ~(Cursor < E)
    <3>1. /\ ~tree.descend /\ tree.frames = <<>> /\ Cursor = Len(stream)
          /\ PullResult(tree) = "END" /\ L = {Len(stream)}
      BY <2>2, <2>4
    <3>2. /\ stream \in Streams /\ Cursor \in 0 .. Len(stream) /\ Len(stream) \in Nat
      BY ScopeRange, InvFacts
    <3>3. E = Len(stream) /\ PullDepth(tree) = 0 /\ Depth(tree) = 0
      BY <3>1 DEF PullEnd, PullDepth, EndOf, Depth
    <3>4. Behind(stream, tree) = {}
      BY <3>1, <3>3 DEF Behind, Outer
    <3>5. Part(stream, Cursor, E, 0) = {}
      <4>1. Cursor >= E /\ E \in 0 .. Len(stream) /\ 0 \in Nat
        BY <3>1, <3>2, <3>3
      <4> HIDE DEF E
      <4> QED BY <3>2, <4>1, PartUnfolds
    <3>6. Unread(stream, tree) = {}
      BY <3>3, <3>4, <3>5, UnreadScope
    <3>7. Walk!Ahead = {}
      BY <3>6 DEF Walk!Ahead, WalkInv
    <3> QED BY <2>1, <3>1, <3>7 DEF Walk!End
  <2> QED BY <2>3, <2>4
<1> QED BY <1>1, <1>2

\* A skip cuts the walk's last node.
LEMMA SkipCuts ==
  ASSUME TreeInv, WalkInv, Headed, SkipSubtree
  PROVE  Walk!Cut /\ WalkInv'
<1> DEFINE n == LastNode
           m == [n EXCEPT !.cut = TRUE]
           R == tree.pending.resume
           k == Len(nodes)
<1>1. /\ tree.descend /\ tree' = Skipped(tree) /\ stream' = stream /\ outcome' = Open
      /\ nodes' = [nodes EXCEPT ![Len(nodes)].cut = TRUE]
  BY DEF SkipSubtree
<1>2. /\ nodes \in Seq(Nodes) /\ nodes # <<>> /\ n.source.constructed /\ n.source.value.size > 0
      /\ n.cut = FALSE /\ n.offset < Cursor /\ n.offset + n.source.size = R
  BY <1>1 DEF WalkInv
<1>3. /\ k \in 1 .. k /\ n \in Nodes /\ Walk!Resume = n.offset + 1 /\ Walk!Resume \in Nat
      /\ n = nodes[k]
  BY <1>2, ResumeAt DEF LastNode
<1>4. Walk!Cut
  BY <1>1, <1>2 DEF Walk!Cut, LastNode, Open, Walk!Open
<1> HIDE DEF n
<1>5. m \in Nodes /\ m.offset = n.offset /\ m.source = n.source /\ m.cut = TRUE
  BY <1>3 DEF Nodes
<1> HIDE DEF m
<1>6. nodes' = [nodes EXCEPT ![k] = m]
  BY <1>1, <1>3 DEF m
<1>7. nodes' \in Seq(Nodes) /\ Len(nodes') = k /\ nodes'[k] = m
  BY <1>2, <1>3, <1>5, <1>6, ExceptSeq
<1>8. nodes' # <<>>
  BY <1>3, <1>7
<1>9. Walk!Resume' = R
  BY <1>2, <1>5, <1>7, <1>8 DEF Walk!Resume
<1>10. Unread(stream, tree)' = {e \in Unread(stream, tree) : e.offset >= R} /\ ~tree'.descend
  BY <1>1, SkipUnread
<1>11. stream \in Streams /\ R \in Nat /\ Walk!Resume <= R
  <2>1. /\ stream \in Streams /\ Cursor \in 0 .. Len(stream) /\ R \in 0 .. Len(stream)
        /\ tree.pending.end \in 0 .. Len(stream) /\ Len(stream) \in Nat
    BY <1>1, ScopeRange, InvFacts
  <2>2. Cursor < tree.pending.end /\ tree.pending.end <= R
    BY <1>1, InvFacts DEF ScopesNest
  <2>3. n.offset \in Nat
    BY <1>3 DEF Nodes
  <2> HIDE DEF R
  <2>4. n.offset + 1 <= R
    BY <1>2, <2>1, <2>2, <2>3
  <2> QED BY <1>3, <2>1, <2>4
<1>12. \A e \in Walk!Entries(stream) : e.offset \in Nat
  BY <1>11, EntriesInside
<1>13. Unread(stream, tree)' = {e \in Walk!Entries(stream) : e.offset >= R}
  <2>1. Unread(stream, tree) = {e \in Walk!Entries(stream) : e.offset >= Walk!Resume}
    BY DEF WalkInv
  <2> HIDE DEF R
  <2>2. \A e \in Walk!Entries(stream) : e.offset >= R => e.offset >= Walk!Resume
    BY <1>3, <1>11, <1>12
  <2> QED BY <1>10, <2>1, <2>2
<1>14. Walk!Entries(stream)' = Walk!Entries(stream)
  BY <1>1 DEF Walk!Entries
<1>15. WalkInv'
  BY <1>7, <1>9, <1>10, <1>13, <1>14 DEF WalkInv
<1> QED BY <1>4, <1>15

\* Every step of the tree reader is a step of the walk or leaves it alone.
LEMMA StepWalks ==
  ASSUME PrefixStable, Headed, TreeInv, WalkInv, [Next]_vars
  PROVE  [Walk!Next]_Walk!vars /\ WalkInv'
<1>c. ASSUME Closes(tree), stream' = stream, nodes' = nodes, outcome' = outcome,
             tree' = Closed(tree) \/ tree' = [Closed(tree) EXCEPT !.items = FALSE]
      PROVE  [Walk!Next]_Walk!vars /\ WalkInv'
  <2>1. Closed(tree) \in TreeReaders
    BY <1>c, ClosedFields
  <2>2. /\ tree'.input = Closed(tree).input
        /\ tree'.frames = Closed(tree).frames /\ tree'.pending = Closed(tree).pending
        /\ tree'.descend = Closed(tree).descend /\ tree'.endPending = Closed(tree).endPending
    BY <1>c, <2>1 DEF TreeReaders
  <2>3. Unread(stream, tree') = Unread(stream, tree) /\ ~tree'.descend
    BY <1>c, <2>2, CloseUnread
  <2>4. WalkInv'
    BY <1>c, <2>3, SameWalkInv
  <2> QED BY <1>c, <2>4 DEF Walk!vars
<1>p. ASSUME ~Closes(tree), PullResult(tree) = "OK", stream' = stream, outcome' = Open,
             nodes' = Append(nodes, PulledNode(tree)),
             tree' = AfterPull(tree) \/ tree' = [AfterPull(tree) EXCEPT !.items = TRUE]
      PROVE  [Walk!Next]_Walk!vars /\ WalkInv'
  <2>1. AfterPull(tree) \in TreeReaders
    BY <1>p, PulledFields
  <2>2. /\ tree'.input = AfterPull(tree).input /\ tree'.frames = AfterPull(tree).frames
        /\ tree'.pending = AfterPull(tree).pending /\ tree'.descend = AfterPull(tree).descend
        /\ tree'.endPending = AfterPull(tree).endPending
    BY <1>p, <2>1 DEF TreeReaders
  <2>3. Walk!Visit /\ WalkInv'
    BY <1>p, <2>2, NodeVisits
  <2> QED BY <2>3 DEF Walk!Next
<1>n. ASSUME ~Closes(tree), PullResult(tree) # "OK", stream' = stream, nodes' = nodes,
             tree' = tree, outcome' = OutcomeAfter(tree)
      PROVE  [Walk!Next]_Walk!vars /\ WalkInv'
  <2>1. Walk!Fail \/ Walk!End \/ UNCHANGED Walk!vars
    BY <1>n, NoneDecides
  <2>2. Unread(stream, tree)' = Unread(stream, tree) /\ Cursor' = Cursor
    BY <1>n DEF Cursor
  <2>3. WalkInv'
    BY <1>n, <2>2, SameWalkInv
  <2> QED BY <2>1, <2>3 DEF Walk!Next
<1>s. ASSUME stream' = stream, nodes' = nodes, tree' = tree, outcome' = outcome
      PROVE  [Walk!Next]_Walk!vars /\ WalkInv'
  <2>1. Unread(stream, tree)' = Unread(stream, tree) /\ Cursor' = Cursor
    BY <1>s DEF Cursor
  <2>2. WalkInv'
    BY <1>s, <2>1, SameWalkInv
  <2> QED BY <1>s, <2>2 DEF Walk!vars
<1>1. CASE EventEnd
  BY <1>1, <1>c DEF EventEnd
<1>2. CASE EventNode
  BY <1>2, <1>p DEF EventNode
<1>3. CASE EventNone
  BY <1>3, <1>n DEF EventNone
<1>4. CASE CallNext \/ CallVisit \/ VisitLoop \/ VisitVerdict \/ SkipNothing
  BY <1>4, <1>s DEF CallNext, CallVisit, VisitLoop, VisitVerdict, SkipNothing
<1>5. CASE NextHidesEnd
  BY <1>5, <1>c DEF NextHidesEnd
<1>6. CASE NextNode
  BY <1>6, <1>p DEF NextNode
<1>7. CASE NextNone
  BY <1>7, <1>n DEF NextNone
<1>8. CASE Drain
  <2>1. CASE Closes(tree)
    BY <1>8, <1>c, <2>1 DEF Drain
  <2>2. CASE ~Closes(tree)
    BY <1>8, <1>s, <2>2 DEF Drain
  <2> QED BY <2>1, <2>2
<1>9. CASE SkipSubtree
  BY <1>9, SkipCuts DEF Walk!Next
<1>10. CASE TreeFeed
  <2>1. PICK discard \in 0 .. tree.input.size :
          \E size \in 0 .. Available(stream, tree.input.base + discard) :
            \E final \in BOOLEAN : TreeSetInput(size, discard, final)
    BY <1>10 DEF TreeFeed
  <2>2. PICK size \in 0 .. Available(stream, tree.input.base + discard), final \in BOOLEAN :
          TreeSetInput(size, discard, final)
    BY <2>1
  <2>3. /\ stream' = stream /\ nodes' = nodes /\ outcome' = outcome
        /\ tree' = IF SetInputResult(tree.input, size, discard, final) = "OK"
                     THEN [tree EXCEPT !.input = SetInput(tree.input, size, discard, final)]
                     ELSE tree
        /\ final => tree.input.base + discard + size = Len(stream)
    BY <2>2 DEF TreeSetInput
  <2>4. CASE SetInputResult(tree.input, size, discard, final) # "OK"
    BY <1>s, <2>3, <2>4
  <2>5. CASE SetInputResult(tree.input, size, discard, final) = "OK"
    <3> DEFINE i == SetInput(tree.input, size, discard, final)
               r == tree.input
    <3>1. /\ stream \in Streams /\ r \in Readers /\ WindowOK(stream, r) /\ Len(stream) \in Nat
          /\ r.base \in Nat /\ r.size \in Nat /\ r.pos \in Nat /\ SizeMax \in Nat
          /\ tree \in TreeReaders /\ InStream(stream, r)
      BY InvFacts
    <3>2. size \in Nat /\ discard \in Nat /\ discard <= r.size
          /\ r.base + discard + size <= Len(stream)
      <4>1. discard \in 0 .. r.size /\ size \in 0 .. Available(stream, r.base + discard)
        BY <2>1, <2>2
      <4> QED BY <3>1, <4>1 DEF Available, InStream
    <3>3. i.base + i.pos = r.base + r.pos
      <4> HIDE DEF r
      <4> QED BY <2>3, <2>5, <3>1, <3>2, SetInputSound DEF r
    <3> HIDE DEF i
    <3>4. tree' = [tree EXCEPT !.input = i]
      BY <2>3, <2>5 DEF i
    <3>5. /\ tree'.input = i /\ tree'.frames = tree.frames /\ tree'.pending = tree.pending
          /\ tree'.descend = tree.descend /\ tree'.endPending = tree.endPending
      BY <3>1, <3>4 DEF TreeReaders
    <3>6. At(tree') = At(tree) /\ Cursor' = Cursor
      BY <3>3, <3>5 DEF At, Cursor
    <3>7. Unread(stream, tree') = Unread(stream, tree)
      BY <3>5, <3>6, SameUnread
    <3>8. WalkInv'
      BY <2>3, <3>5, <3>6, <3>7, SameWalkInv
    <3> QED BY <2>3, <3>8 DEF Walk!vars
  <2> QED BY <2>4, <2>5
<1>11. CASE UNCHANGED vars
  BY <1>11, <1>s DEF vars
<1> QED
  BY <1>1, <1>2, <1>3, <1>4, <1>5, <1>6, <1>7, <1>8, <1>9, <1>10, <1>11 DEF Next, NextEvent

\* However the bytes arrive and whichever projections a caller mixes, the tree reader hands
\* out the preorder walk of the stream's tree, skipped subtrees left out, and ends with the
\* walk's verdict: for every decode callback whose verdicts are final and whose containers
\* have a header.
THEOREM TreeFollowsWalk == PrefixStable /\ Headed => (Spec => FollowsWalk)
<1> SUFFICES ASSUME PrefixStable, Headed PROVE Spec => FollowsWalk
  OBVIOUS
<1>1. Init => Walk!Init
  BY DEF Init, Walk!Init, Open, Walk!Open
<1>2. Init => WalkInv
  BY WalkInvInit
<1>3. TreeInv /\ WalkInv /\ [Next]_vars => [Walk!Next]_Walk!vars /\ WalkInv'
  BY StepWalks
<1> QED
  BY <1>1, <1>2, <1>3, TreeInvariant, PTL DEF Spec, FollowsWalk, Walk!Spec
=============================================================================
