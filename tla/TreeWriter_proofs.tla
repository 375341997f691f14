-------------------------- MODULE TreeWriter_proofs --------------------------
(***************************************************************************)
(* The tree writer, for every format, every set of tags and values, every   *)
(* buffer, frame array, scratch and tag storage and every way in which an   *)
(* encoder may fail: it stays inside the memory it borrows, and the buffer  *)
(* with its frames is a TreeBuilder.  For every source, tree and workspace: *)
(* a measured encoding is replayed only for storage that grew.              *)
(***************************************************************************)
EXTENDS TreeWriter, Staging, TLAPS, SequenceTheorems

\* What tlv_encode_fn is asked for: an element that it can encode is some octets.
EncodesOctets(f) ==
  \A tag, value \in Seq(Nat) :
    LET b == Encoded(f, [tag |-> tag, value |-> value])
    IN  b.rc = "OK" => b.bytes \in Seq(Nat)

EncoderSound == \A f \in Formats : EncodesOctets(f)

-----------------------------------------------------------------------------
\* A function on 1 .. n is a sequence of n elements.
LEMMA FunctionIsSeq ==
  ASSUME NEW S, NEW n \in Nat, NEW f \in [1 .. n -> S]
  PROVE  f \in Seq(S) /\ Len(f) = n
<1>1. f \in Seq(S)
  BY SeqDef
<1> QED
  BY <1>1

\* A part of a sequence that lies inside it.
LEMMA PartOf ==
  ASSUME NEW s \in Seq(Nat), NEW m \in Nat \ {0}, NEW n \in Nat, n <= Len(s), m <= n + 1
  PROVE  /\ SubSeq(s, m, n) \in Seq(Nat) /\ Len(SubSeq(s, m, n)) = n + 1 - m
         /\ \A i \in 1 .. n + 1 - m : SubSeq(s, m, n)[i] = s[m + i - 1]
<1>1. Len(s) \in Nat /\ \A i \in m .. n : s[i] \in Nat
  OBVIOUS
<1>2. /\ SubSeq(s, m, n) \in Seq(Nat)
      /\ Len(SubSeq(s, m, n)) = IF m <= n THEN n - m + 1 ELSE 0
      /\ \A i \in 1 .. n - m + 1 : SubSeq(s, m, n)[i] = s[m + i - 1]
  BY <1>1, SubSeqProperties, m \in Int, n \in Int
<1> QED
  BY <1>2

\* What writing a sequence into a buffer does: the same room, the new octets where they
\* were put and the old ones everywhere else.
LEMMA OverlayType ==
  ASSUME NEW s \in Seq(Nat), NEW t \in Seq(Nat), NEW at \in Nat, at + Len(t) <= Len(s)
  PROVE  /\ Overlay(s, at, t) \in Seq(Nat) /\ Len(Overlay(s, at, t)) = Len(s)
         /\ \A i \in 1 .. Len(s) :
              Overlay(s, at, t)[i] = IF i > at /\ i <= at + Len(t) THEN t[i - at] ELSE s[i]
<1>1. Len(s) \in Nat /\ Len(t) \in Nat
  OBVIOUS
<1>2. \A i \in 1 .. Len(s) : (IF i > at /\ i <= at + Len(t) THEN t[i - at] ELSE s[i]) \in Nat
  <2> TAKE i \in 1 .. Len(s)
  <2>1. CASE i > at /\ i <= at + Len(t)
    <3>1. i - at \in 1 .. Len(t)
      BY <1>1, <2>1
    <3> QED
      BY <2>1, <3>1
  <2> QED
    BY <2>1
<1>3. Overlay(s, at, t) \in [1 .. Len(s) -> Nat]
  BY <1>2 DEF Overlay
<1>4. Overlay(s, at, t) \in Seq(Nat) /\ Len(Overlay(s, at, t)) = Len(s)
  BY <1>1, <1>3, FunctionIsSeq
<1> QED
  BY <1>1, <1>4 DEF Overlay

\* What lies before it stays.
LEMMA OverlayBefore ==
  ASSUME NEW s \in Seq(Nat), NEW t \in Seq(Nat), NEW at \in Nat, at + Len(t) <= Len(s)
  PROVE  \A m \in Nat \ {0}, n \in Nat :
           n <= at /\ m <= n + 1 => SubSeq(Overlay(s, at, t), m, n) = SubSeq(s, m, n)
<1> SUFFICES ASSUME NEW m \in Nat \ {0}, NEW n \in Nat, n <= at, m <= n + 1
             PROVE  SubSeq(Overlay(s, at, t), m, n) = SubSeq(s, m, n)
  OBVIOUS
<1> DEFINE o == Overlay(s, at, t)
<1>1. /\ o \in Seq(Nat) /\ Len(o) = Len(s) /\ Len(s) \in Nat /\ Len(t) \in Nat
      /\ \A i \in 1 .. Len(s) : o[i] = IF i > at /\ i <= at + Len(t) THEN t[i - at] ELSE s[i]
  BY OverlayType
<1> HIDE DEF o
<1>2. n <= Len(s) /\ n <= Len(o)
  BY <1>1
<1>3. \A i \in 1 .. n + 1 - m : o[m + i - 1] = s[m + i - 1]
  <2> TAKE i \in 1 .. n + 1 - m
  <2>1. m + i - 1 \in 1 .. Len(s) /\ ~(m + i - 1 > at)
    BY <1>1, <1>2
  <2> QED
    BY <1>1, <2>1
<1>4. /\ SubSeq(o, m, n) \in Seq(Nat) /\ Len(SubSeq(o, m, n)) = n + 1 - m
      /\ \A i \in 1 .. n + 1 - m : SubSeq(o, m, n)[i] = o[m + i - 1]
  BY <1>1, <1>2, PartOf
<1>5. /\ SubSeq(s, m, n) \in Seq(Nat) /\ Len(SubSeq(s, m, n)) = n + 1 - m
      /\ \A i \in 1 .. n + 1 - m : SubSeq(s, m, n)[i] = s[m + i - 1]
  BY <1>1, <1>2, PartOf
<1>6. SubSeq(o, m, n) = SubSeq(s, m, n)
  BY <1>3, <1>4, <1>5, SeqEqual
<1> QED
  BY <1>6 DEF o

\* From any place before it up to its end: what was there, and then what was written.
LEMMA OverlayJoin ==
  ASSUME NEW s \in Seq(Nat), NEW t \in Seq(Nat), NEW at \in Nat, at + Len(t) <= Len(s),
         NEW m \in Nat \ {0}, m <= at + 1
  PROVE  SubSeq(Overlay(s, at, t), m, at + Len(t)) = SubSeq(s, m, at) \o t
<1> DEFINE o == Overlay(s, at, t)
           n == at + Len(t)
<1>1. /\ o \in Seq(Nat) /\ Len(o) = Len(s) /\ Len(s) \in Nat /\ Len(t) \in Nat
      /\ \A i \in 1 .. Len(s) : o[i] = IF i > at /\ i <= at + Len(t) THEN t[i - at] ELSE s[i]
  BY OverlayType
<1> HIDE DEF o
<1>2. n \in Nat /\ n <= Len(o) /\ m <= n + 1 /\ at <= Len(s)
  BY <1>1
<1>3. /\ SubSeq(o, m, n) \in Seq(Nat) /\ Len(SubSeq(o, m, n)) = n + 1 - m
      /\ \A i \in 1 .. n + 1 - m : SubSeq(o, m, n)[i] = o[m + i - 1]
  BY <1>1, <1>2, PartOf
<1>4. /\ SubSeq(s, m, at) \in Seq(Nat) /\ Len(SubSeq(s, m, at)) = at + 1 - m
      /\ \A i \in 1 .. at + 1 - m : SubSeq(s, m, at)[i] = s[m + i - 1]
  BY <1>1, <1>2, PartOf
<1> DEFINE a == SubSeq(s, m, at)
<1> HIDE DEF a
<1>5. /\ a \o t \in Seq(Nat) /\ Len(a \o t) = n + 1 - m
      /\ \A i \in 1 .. n + 1 - m : (a \o t)[i] = IF i <= at + 1 - m THEN a[i] ELSE t[i - (at + 1 - m)]
  <2>1. a \in Seq(Nat) /\ Len(a) = at + 1 - m /\ at + 1 - m + Len(t) = n + 1 - m
    BY <1>1, <1>4 DEF a
  <2>2. /\ a \o t \in Seq(Nat) /\ Len(a \o t) = Len(a) + Len(t)
        /\ \A i \in 1 .. Len(a) + Len(t) :
             (a \o t)[i] = IF i <= Len(a) THEN a[i] ELSE t[i - Len(a)]
    BY <2>1, ConcatProperties
  <2> QED
    BY <2>1, <2>2
<1>6. \A i \in 1 .. n + 1 - m : SubSeq(o, m, n)[i] = (a \o t)[i]
  <2> TAKE i \in 1 .. n + 1 - m
  <2>0. SubSeq(o, m, n)[i] = o[m + i - 1]
    BY <1>3
  <2>1. m + i - 1 \in 1 .. Len(s) /\ SubSeq(o, m, n)[i] = o[m + i - 1]
    BY <1>1, <1>2, <2>0
  <2>2. CASE i <= at + 1 - m
    <3>1. ~(m + i - 1 > at) /\ i \in 1 .. at + 1 - m
      BY <2>2
    <3> QED
      BY <1>1, <1>4, <1>5, <2>1, <2>2, <3>1 DEF a
  <2>3. CASE ~(i <= at + 1 - m)
    <3>1. m + i - 1 > at /\ m + i - 1 <= at + Len(t) /\ (m + i - 1) - at = i - (at + 1 - m)
      BY <1>1, <2>3
    <3> QED
      BY <1>1, <1>5, <2>1, <2>3, <3>1
  <2> QED
    BY <2>2, <2>3
<1>7. SubSeq(o, m, n) = a \o t
  BY <1>3, <1>5, <1>6, SeqEqual
<1> QED
  BY <1>7 DEF o, a

\* Read back, it is what was written.
LEMMA OverlayRead ==
  ASSUME NEW s \in Seq(Nat), NEW t \in Seq(Nat), NEW at \in Nat, at + Len(t) <= Len(s)
  PROVE  SubSeq(Overlay(s, at, t), at + 1, at + Len(t)) = t
<1>1. SubSeq(Overlay(s, at, t), at + 1, at + Len(t)) = SubSeq(s, at + 1, at) \o t
  <2>1. at + 1 \in Nat \ {0} /\ at + 1 <= at + 1
    OBVIOUS
  <2> QED
    BY <2>1, OverlayJoin
<1>2. SubSeq(s, at + 1, at) = <<>>
  BY SubSeqEmpty, at \in Int, at + 1 \in Int
<1> QED
  BY <1>1, <1>2, ConcatEmptySeq

-----------------------------------------------------------------------------
(***************************************************************************)
(* The invariant of one writer.  What WriterSafe says of neighbouring       *)
(* frames holds of any two of them: a step that drops the innermost frame,  *)
(* or writes over everything after some frame, needs it of all.             *)
(***************************************************************************)
FramesNest(w) ==
  /\ \A j, k \in 1 .. WDepth(w) : j <= k => w.frames[j].start <= w.frames[k].start
  /\ \A k \in 1 .. WDepth(w) : w.frames[k].start <= w.pos

FrameTags(w) ==
  /\ w.used <= Len(w.tags)
  /\ \A k \in 1 .. WDepth(w) : w.frames[k].own = (w.storing /\ w.frames[k].data)
  /\ \A j, k \in 1 .. WDepth(w) : j < k => w.frames[j].at + Held(w.frames[j]) <= w.frames[k].at
  /\ \A k \in 1 .. WDepth(w) - 1 : w.frames[k + 1].at = w.frames[k].at + Held(w.frames[k])
  /\ IF w.frames = <<>> THEN w.used = 0
     ELSE w.frames[1].at = 0 /\ w.used = Top(w).at + Held(Top(w))

Bounded(w, l) == /\ w.pos <= l.size
                 /\ WDepth(w) <= l.frames /\ WDepth(w) <= l.depth + 1
                 /\ w.count <= l.elements /\ WDepth(w) <= w.count

\* Limits that are numbers, and a failing encoder that stays inside its destination.
Fits(f, l) ==
  /\ l.size \in Nat /\ l.scratch \in Nat /\ l.frames \in Nat /\ l.depth \in Nat /\ l.elements \in Nat
  /\ \A n \in 0 .. l.size : \A t \in Leftovers(f, n) : t \in Seq(Nat) /\ Len(t) <= n

\* Writers of one format.
WriterOf(f) == [format : {f}, buf : Seq(Nat), pos : Nat, frames : Seq(WriterFrames), count : Nat,
                scratch : Seq(Nat), storing : BOOLEAN, tags : Seq(Nat), used : Nat]

WriterInv(w, l) ==
  /\ w \in WriterOf(w.format) /\ Fits(w.format, l)
  /\ Len(w.buf) = l.size /\ Len(w.scratch) = l.scratch
  /\ Bounded(w, l) /\ FramesNest(w) /\ FrameTags(w)

\* The facts every step starts from.
LEMMA WriterFacts ==
  ASSUME NEW w, NEW l, WriterInv(w, l)
  PROVE  /\ w.buf \in Seq(Nat) /\ w.pos \in Nat /\ w.count \in Nat
         /\ w.frames \in Seq(WriterFrames) /\ w.scratch \in Seq(Nat) /\ w.storing \in BOOLEAN
         /\ w.tags \in Seq(Nat) /\ w.used \in Nat
         /\ WDepth(w) \in Nat /\ Len(w.buf) \in Nat /\ Len(w.scratch) \in Nat /\ Len(w.tags) \in Nat
         /\ \A k \in 1 .. WDepth(w) : w.frames[k] \in WriterFrames
         /\ (w.frames = <<>> <=> WDepth(w) = 0)
         /\ l.size \in Nat /\ l.scratch \in Nat /\ l.frames \in Nat /\ l.depth \in Nat
         /\ l.elements \in Nat
<1>1. w \in WriterOf(w.format) /\ Fits(w.format, l)
  BY DEF WriterInv
<1>2. /\ w.buf \in Seq(Nat) /\ w.pos \in Nat /\ w.count \in Nat
      /\ w.frames \in Seq(WriterFrames) /\ w.scratch \in Seq(Nat) /\ w.storing \in BOOLEAN
      /\ w.tags \in Seq(Nat) /\ w.used \in Nat
  BY <1>1 DEF WriterOf
<1>3. WDepth(w) \in Nat /\ Len(w.buf) \in Nat /\ Len(w.scratch) \in Nat /\ Len(w.tags) \in Nat
  BY <1>2 DEF WDepth
<1>4. \A k \in 1 .. WDepth(w) : w.frames[k] \in WriterFrames
  BY <1>2 DEF WDepth
<1>5. w.frames = <<>> <=> WDepth(w) = 0
  BY <1>2, EmptySeq DEF WDepth
<1>6. /\ l.size \in Nat /\ l.scratch \in Nat /\ l.frames \in Nat /\ l.depth \in Nat
      /\ l.elements \in Nat
  BY <1>1 DEF Fits
<1> QED
  BY <1>2, <1>3, <1>4, <1>5, <1>6

\* A frame's parts.
LEMMA FrameFacts ==
  ASSUME NEW f \in WriterFrames
  PROVE  /\ f.start \in Nat /\ f.data \in BOOLEAN /\ f.own \in BOOLEAN /\ f.at \in Nat
         /\ f.size \in Nat /\ f.bytes \in Seq(Nat) /\ Held(f) \in Nat
         /\ (f.own => f.size <= Held(f))
BY DEF WriterFrames, Held, TagCost

\* The invariant is what the run checks, and more.
LEMMA InvSafe ==
  ASSUME wr.format \in Formats, limits \in Limits(wr.format), WriterInv(wr, limits),
         call \in Calls, result \in Results
  PROVE  WriterSafe
<1>1. /\ WDepth(wr) \in Nat /\ wr.pos \in Nat /\ wr.used \in Nat
      /\ \A k \in 1 .. WDepth(wr) : wr.frames[k] \in WriterFrames
      /\ (wr.frames = <<>> <=> WDepth(wr) = 0)
  BY WriterFacts
<1>2. TypeOK /\ FramesNest(wr) /\ FrameTags(wr) /\ Bounded(wr, limits)
  BY DEF WriterInv, TypeOK, WriterOf, Writers
<1>3. ContentsNest(wr)
  <2> SUFFICES ASSUME NEW k \in 1 .. WDepth(wr) PROVE StartOf(wr, k) <= StartOf(wr, k + 1)
    BY DEF ContentsNest
  <2>1. CASE k = WDepth(wr)
    BY <1>1, <1>2, <2>1 DEF StartOf, FramesNest
  <2>2. CASE k # WDepth(wr)
    <3>1. k + 1 \in 1 .. WDepth(wr)
      BY <1>1, <2>2
    <3> QED
      BY <1>1, <1>2, <3>1 DEF StartOf, FramesNest
  <2> QED
    BY <2>1, <2>2
<1>4. TagsTile(wr)
  <2>1. TagAt(wr, 1) = 0
    BY <1>1, <1>2 DEF TagAt, FrameTags
  <2>2. ASSUME NEW k \in 1 .. WDepth(wr)
        PROVE  TagAt(wr, k + 1) = TagAt(wr, k) + Held(wr.frames[k])
    <3>1. CASE k = WDepth(wr)
      BY <1>1, <1>2, <3>1 DEF TagAt, FrameTags, Top
    <3>2. CASE k # WDepth(wr)
      <4>1. k \in 1 .. WDepth(wr) - 1 /\ ~(k + 1 > WDepth(wr))
        BY <1>1, <3>2
      <4> QED
        BY <1>1, <1>2, <4>1 DEF TagAt, FrameTags
    <3> QED
      BY <3>1, <3>2
  <2> QED
    BY <1>2, <2>1, <2>2 DEF TagsTile, FrameTags
<1> QED
  BY <1>2, <1>3, <1>4 DEF WriterSafe, Bounded

-----------------------------------------------------------------------------
\* tlv_tree_writer_init leaves an empty writer.
LEMMA InitWriter ==
  ASSUME NEW f, NEW l, Fits(f, l)
  PROVE  WriterInv(TreeWriterInit(f, l.size, l.scratch), l)
<1> DEFINE w == TreeWriterInit(f, l.size, l.scratch)
<1>1. l.size \in Nat /\ l.scratch \in Nat /\ l.frames \in Nat /\ l.depth \in Nat /\ l.elements \in Nat
  BY DEF Fits
<1>2. /\ [i \in 1 .. l.size |-> 0] \in Seq(Nat) /\ Len([i \in 1 .. l.size |-> 0]) = l.size
      /\ [i \in 1 .. l.scratch |-> 0] \in Seq(Nat) /\ Len([i \in 1 .. l.scratch |-> 0]) = l.scratch
  <2>1. [i \in 1 .. l.size |-> 0] \in [1 .. l.size -> Nat]
        /\ [i \in 1 .. l.scratch |-> 0] \in [1 .. l.scratch -> Nat]
    OBVIOUS
  <2> QED
    BY <1>1, <2>1, FunctionIsSeq
<1>3. <<>> \in Seq(WriterFrames) /\ <<>> \in Seq(Nat) /\ Len(<<>>) = 0
  OBVIOUS
<1>4. w \in WriterOf(w.format) /\ w.format = f /\ Len(w.buf) = l.size /\ Len(w.scratch) = l.scratch
  BY <1>2, <1>3 DEF TreeWriterInit, WriterOf
<1>5. w.frames = <<>> /\ w.pos = 0 /\ w.count = 0 /\ w.used = 0 /\ w.tags = <<>> /\ WDepth(w) = 0
  BY <1>3 DEF TreeWriterInit, WDepth
<1> HIDE DEF w
<1>6. Bounded(w, l) /\ FramesNest(w) /\ FrameTags(w)
  BY <1>1, <1>3, <1>5 DEF Bounded, FramesNest, FrameTags
<1> QED
  BY <1>4, <1>6 DEF WriterInv, w

\* No code of a failed encoder reads as success, and every code is one the caller may see.
LEMMA FaultIsError ==
  ASSUME NEW c PROVE FaultCode(c) # "OK" /\ FaultCode(c) \in Results
BY DEF FaultCode, CallbackResult, Results, ProviderErrors

(***************************************************************************)
(* What writing an element at a cursor can do.  A success puts the whole    *)
(* encoding there; any failure leaves the cursor and everything before it.  *)
(***************************************************************************)
Written(f, buf, at, e, o) ==
  LET b == Encoded(f, e)
  IN  /\ o.rc = "OK" /\ b.rc = "OK" /\ b.bytes \in Seq(Nat)
      /\ at + Len(b.bytes) <= Len(buf)
      /\ o.pos = at + Len(b.bytes) /\ o.buf = Overlay(buf, at, b.bytes)

NotWritten(buf, at, o) ==
  /\ o.rc # "OK" /\ o.pos = at /\ o.buf \in Seq(Nat) /\ Len(o.buf) = Len(buf)
  /\ \A m \in Nat \ {0}, n \in Nat :
       n <= at /\ m <= n + 1 => SubSeq(o.buf, m, n) = SubSeq(buf, m, n)

LEMMA WriteAtOutcome ==
  ASSUME NEW f, EncodesOctets(f), NEW l, Fits(f, l), NEW buf \in Seq(Nat), Len(buf) = l.size,
         NEW at \in Nat, at <= Len(buf), NEW tag \in Seq(Nat), NEW value \in Seq(Nat),
         NEW o \in WriteAt(f, buf, at, [tag |-> tag, value |-> value])
  PROVE  /\ o.rc \in Results
         /\ \/ Written(f, buf, at, [tag |-> tag, value |-> value], o)
            \/ NotWritten(buf, at, o)
<1> DEFINE e == [tag |-> tag, value |-> value]
           b == Encoded(f, e)
           Plain(rc) == [rc |-> rc, buf |-> buf, pos |-> at]
<1>0. Len(buf) \in Nat
  OBVIOUS
<1>1. ASSUME NEW rc, rc # "OK", rc \in Results, o = Plain(rc)
      PROVE  o.rc \in Results /\ NotWritten(buf, at, o)
  BY <1>1 DEF NotWritten
<1>2. CASE MeasureCode(b) # "OK"
  <2>1. MeasureCode(b) \in Results
    BY DEF MeasureCode, CallbackResult, Results, ProviderErrors
  <2>2. o = Plain(MeasureCode(b))
    BY <1>0, <1>2 DEF WriteAt
  <2> QED
    BY <1>1, <1>2, <2>1, <2>2
<1>3. CASE MeasureCode(b) = "OK" /\ Len(buf) - at < Len(b.bytes)
  <2>1. o = Plain("BUFFER_TOO_SHORT")
    BY <1>0, <1>3 DEF WriteAt
  <2> QED
    BY <1>1, <2>1 DEF Results
<1>4. CASE MeasureCode(b) = "OK" /\ ~(Len(buf) - at < Len(b.bytes))
  <2>1. b.rc = "OK"
    BY <1>4 DEF MeasureCode, CallbackResult, ProviderErrors
  <2>2. b.bytes \in Seq(Nat) /\ Len(b.bytes) \in Nat
    BY <2>1 DEF EncodesOctets
  <2>3. at + Len(b.bytes) <= Len(buf)
    BY <1>0, <1>4, <2>2
  <2>4. o \in {[rc |-> "OK", buf |-> Overlay(buf, at, b.bytes), pos |-> at + Len(b.bytes)]} \cup
              {[rc |-> FaultCode(c), buf |-> Overlay(buf, at, t), pos |-> at]
                 : c \in Faults(f), t \in Leftovers(f, Len(buf) - at)}
    BY <1>0, <1>4 DEF WriteAt
  <2>5. CASE o = [rc |-> "OK", buf |-> Overlay(buf, at, b.bytes), pos |-> at + Len(b.bytes)]
    BY <2>1, <2>2, <2>3, <2>5 DEF Written, Results
  <2>6. CASE \E c \in Faults(f), t \in Leftovers(f, Len(buf) - at) :
               o = [rc |-> FaultCode(c), buf |-> Overlay(buf, at, t), pos |-> at]
    <3>1. PICK c \in Faults(f), t \in Leftovers(f, Len(buf) - at) :
                 o = [rc |-> FaultCode(c), buf |-> Overlay(buf, at, t), pos |-> at]
      BY <2>6
    <3>2. Len(buf) - at \in 0 .. l.size
      BY <1>0
    <3>3. t \in Seq(Nat) /\ Len(t) <= Len(buf) - at
      BY <3>2 DEF Fits
    <3>4. at + Len(t) <= Len(buf)
      BY <1>0, <3>3
    <3>5. /\ Overlay(buf, at, t) \in Seq(Nat) /\ Len(Overlay(buf, at, t)) = Len(buf)
          /\ \A m \in Nat \ {0}, n \in Nat :
               n <= at /\ m <= n + 1 => SubSeq(Overlay(buf, at, t), m, n) = SubSeq(buf, m, n)
      <4>1. Overlay(buf, at, t) \in Seq(Nat) /\ Len(Overlay(buf, at, t)) = Len(buf)
        BY <3>3, <3>4, OverlayType
      <4>2. t \in Seq(Nat)
        BY <3>3
      <4> QED
        BY <3>4, <4>1, <4>2, OverlayBefore
    <3>6. o.rc = FaultCode(c) /\ o.pos = at /\ o.buf = Overlay(buf, at, t)
      BY <3>1
    <3>7. o.rc # "OK" /\ o.rc \in Results
      BY <3>6, FaultIsError
    <3> QED
      BY <3>5, <3>6, <3>7 DEF NotWritten
  <2> QED
    BY <2>4, <2>5, <2>6
<1> QED
  BY <1>2, <1>3, <1>4

-----------------------------------------------------------------------------
\* tlv_tree_writer_set_tag_storage: only without open parents, so that no copy is lost.
LEMMA StorageInv ==
  ASSUME NEW w, NEW l, WriterInv(w, l), NEW on \in BOOLEAN, NEW n \in Nat,
         NEW o \in SetTagStorage(w, on, n)
  PROVE  WriterInv(o.w, l) /\ o.w.format = w.format /\ o.rc \in Results
<1>1. /\ w.buf \in Seq(Nat) /\ w.pos \in Nat /\ w.count \in Nat
      /\ w.frames \in Seq(WriterFrames) /\ w.scratch \in Seq(Nat)
      /\ (w.frames = <<>> <=> WDepth(w) = 0)
  BY WriterFacts
<1>2. CASE w.frames # <<>>
  BY <1>2 DEF SetTagStorage, Refused, Results
<1>3. CASE w.frames = <<>>
  <2> DEFINE tags == [i \in 1 .. n |-> 0]
             v == [w EXCEPT !.storing = on, !.used = 0, !.tags = tags]
  <2>1. tags \in Seq(Nat) /\ Len(tags) = n
    <3>1. tags \in [1 .. n -> Nat]
      OBVIOUS
    <3> QED
      BY <3>1, FunctionIsSeq
  <2>2. o = [rc |-> "OK", w |-> v]
    BY <1>3 DEF SetTagStorage
  <2> HIDE DEF tags
  <2>3. w \in WriterOf(w.format)
    BY DEF WriterInv
  <2>4. /\ v \in WriterOf(w.format) /\ v.format = w.format /\ v.buf = w.buf /\ v.pos = w.pos
        /\ v.frames = w.frames /\ v.count = w.count /\ v.scratch = w.scratch /\ v.used = 0 /\ v.tags = tags
    BY <2>1, <2>3 DEF WriterOf
  <2>5. WDepth(v) = 0 /\ WDepth(w) = 0
    BY <1>1, <1>3, <2>4 DEF WDepth
  <2> HIDE DEF v
  <2>6. Bounded(v, l) /\ FramesNest(v) /\ FrameTags(v)
    BY <1>3, <2>1, <2>4, <2>5 DEF WriterInv, Bounded, FramesNest, FrameTags
  <2>7. WriterInv(v, l)
    BY <2>4, <2>6 DEF WriterInv
  <2> QED
    BY <2>2, <2>4, <2>7 DEF Results
<1> QED
  BY <1>2, <1>3

\* tlv_tree_writer_begin: the frame fits, begins at the cursor, and its copied tag is the
\* next part of the storage.
LEMMA BeginInv ==
  ASSUME NEW w, NEW l, WriterInv(w, l),
         NEW tag \in [bytes : Seq(Nat), data : BOOLEAN], ~tag.data => tag.bytes = <<>>,
         NEW o \in Begin(w, l, tag)
  PROVE  WriterInv(o.w, l) /\ o.w.format = w.format /\ o.rc \in Results
<1>1. /\ w.frames \in Seq(WriterFrames) /\ w.tags \in Seq(Nat) /\ w.storing \in BOOLEAN
      /\ (w.frames = <<>> <=> WDepth(w) = 0)
      /\ \A k \in 1 .. WDepth(w) : w.frames[k] \in WriterFrames
  BY WriterFacts
<1>0. /\ w.pos \in Nat /\ w.count \in Nat /\ w.used \in Nat /\ WDepth(w) \in Nat
      /\ Len(w.tags) \in Nat /\ l.frames \in Nat /\ l.depth \in Nat /\ l.elements \in Nat
  BY WriterFacts
<1>2. CASE BeginResult(w, l, tag) # "OK"
  BY <1>2 DEF Begin, BeginResult, Refused, Results
<1>3. CASE BeginResult(w, l, tag) = "OK"
  <2> DEFINE v   == Begun(w, tag)
             own == Stored(w, tag)
             n   == Len(tag.bytes)
             f   == [start |-> w.pos, data |-> tag.data, own |-> own, at |-> w.used, size |-> n,
                     bytes |-> IF own THEN <<>> ELSE tag.bytes]
  <2>1. o = [rc |-> "OK", w |-> v]
    BY <1>3 DEF Begin
  <2>2. tag.bytes \in Seq(Nat) /\ tag.data \in BOOLEAN /\ n \in Nat
    OBVIOUS
  <2>3. /\ WDepth(w) <= l.depth /\ w.count < l.elements /\ WDepth(w) < l.frames
        /\ (own => TagCost(n) <= Len(w.tags) - w.used)
    <3>1. /\ ~OverLimit(w, l) /\ ~(WDepth(w) >= l.frames)
          /\ ~(own /\ TagCost(n) > Len(w.tags) - w.used)
      BY <1>3 DEF BeginResult
    <3>2. n \in Nat /\ TagCost(n) \in Nat
      BY <2>2 DEF TagCost
    <3> HIDE DEF own, n
    <3> QED
      BY <1>0, <3>1, <3>2 DEF OverLimit
  <2>4. own = (w.storing /\ tag.data) /\ own \in BOOLEAN
    BY <1>1, <2>2 DEF Stored
  <2>5. f \in WriterFrames
    BY <1>0, <2>2, <2>4 DEF WriterFrames
  <2>6. /\ TagCost(n) \in Nat /\ n <= TagCost(n)
        /\ Held(f) = IF own THEN TagCost(n) ELSE 0
    BY <2>2 DEF TagCost, Held
  <2>7. w \in WriterOf(w.format)
    BY DEF WriterInv
  <2>8. (IF own THEN Overlay(w.tags, w.used, tag.bytes) ELSE w.tags) \in Seq(Nat)
        /\ Len(IF own THEN Overlay(w.tags, w.used, tag.bytes) ELSE w.tags) = Len(w.tags)
    <3>1. CASE own
      <4>1. w.used + n <= Len(w.tags)
        BY <1>0, <2>2, <2>3, <2>6, <3>1
      <4> QED
        BY <1>0, <1>1, <2>2, <3>1, <4>1, OverlayType
    <3>2. CASE ~own
      BY <1>1, <3>2
    <3> QED
      BY <3>1, <3>2
  <2>9. /\ v.format = w.format /\ v.buf = w.buf /\ v.pos = w.pos /\ v.scratch = w.scratch
        /\ v.storing = w.storing /\ v.count = w.count + 1
        /\ v.tags = (IF own THEN Overlay(w.tags, w.used, tag.bytes) ELSE w.tags)
        /\ v.used = (IF own THEN w.used + TagCost(n) ELSE w.used)
        /\ v.frames = Append(w.frames, f)
    BY <2>7 DEF Begun, WriterOf
  <2>10. v \in WriterOf(w.format)
    <3>1. Append(w.frames, f) \in Seq(WriterFrames)
      BY <1>1, <2>5
    <3>2. (IF own THEN w.used + TagCost(n) ELSE w.used) \in Nat /\ w.count + 1 \in Nat
      <4> HIDE DEF own, n
      <4> QED
        BY <1>0, <2>4, <2>6
    <3> HIDE DEF f, own, n
    <3> QED
      BY <2>7, <2>8, <3>1, <3>2 DEF Begun, WriterOf, f, own, n
  <2> HIDE DEF v, f, own, n
  <2>11. /\ WDepth(v) = WDepth(w) + 1 /\ v.frames[WDepth(v)] = f /\ v.frames # <<>>
         /\ \A k \in 1 .. WDepth(w) : v.frames[k] = w.frames[k]
    <3>1. /\ Append(w.frames, f) # <<>> /\ Len(Append(w.frames, f)) = Len(w.frames) + 1
          /\ \A k \in 1 .. Len(w.frames) : Append(w.frames, f)[k] = w.frames[k]
          /\ Append(w.frames, f)[Len(w.frames) + 1] = f
      <4>1. w.frames \in Seq(WriterFrames) /\ f \in WriterFrames
        BY <1>1, <2>5
      <4> QED
        BY <4>1, AppendProperties
    <3>2. v.frames = Append(w.frames, f)
      BY <2>9
    <3> QED
      BY <3>1, <3>2 DEF WDepth
  <2>12. Bounded(v, l)
    <3>1. v.pos = w.pos /\ v.count = w.count + 1 /\ WDepth(v) = WDepth(w) + 1
      BY <2>9, <2>11
    <3>2. Bounded(w, l) /\ WDepth(w) <= l.depth /\ w.count < l.elements /\ WDepth(w) < l.frames
      BY <2>3 DEF WriterInv
    <3> QED
      BY <1>0, <3>1, <3>2 DEF Bounded
  <2>13. f.start = w.pos /\ f.data = tag.data /\ f.own = own /\ f.at = w.used
    BY DEF f
  <2>14. FramesNest(v)
    <3>1. FramesNest(w)
      BY DEF WriterInv
    <3>2. \A k \in 1 .. WDepth(v) : k \in 1 .. WDepth(w) \/ k = WDepth(v)
      BY <1>0, <2>11
    <3>3. \A k \in 1 .. WDepth(w) : w.frames[k].start \in Nat
      BY <1>1, FrameFacts
    <3>4. v.pos = w.pos /\ v.frames[WDepth(v)].start = w.pos
      BY <2>9, <2>11, <2>13
    <3>5. \A k \in 1 .. WDepth(v) : v.frames[k].start <= v.pos
      <4> SUFFICES ASSUME NEW k \in 1 .. WDepth(v) PROVE v.frames[k].start <= v.pos
        OBVIOUS
      <4>1. CASE k \in 1 .. WDepth(w)
        BY <2>11, <3>1, <3>4, <4>1 DEF FramesNest
      <4>2. CASE k = WDepth(v)
        BY <1>0, <3>4, <4>2
      <4> QED
        BY <3>2, <4>1, <4>2
    <3>6. ASSUME NEW j \in 1 .. WDepth(v), NEW k \in 1 .. WDepth(v), j <= k
          PROVE  v.frames[j].start <= v.frames[k].start
      <4>1. CASE k \in 1 .. WDepth(w)
        <5>1. j \in 1 .. WDepth(w)
          BY <1>0, <3>6, <4>1
        <5> QED
          BY <2>11, <3>1, <3>6, <4>1, <5>1 DEF FramesNest
      <4>2. CASE k = WDepth(v)
        BY <3>4, <3>5, <4>2
      <4> QED
        BY <3>2, <4>1, <4>2
    <3> QED
      BY <3>5, <3>6 DEF FramesNest
  <2>15. FrameTags(v)
    <3>1. FrameTags(w)
      BY DEF WriterInv
    <3>2. \A k \in 1 .. WDepth(v) : k \in 1 .. WDepth(w) \/ k = WDepth(v)
      BY <1>0, <2>11
    <3>3. \A k \in 1 .. WDepth(w) : w.frames[k].at \in Nat /\ Held(w.frames[k]) \in Nat
      BY <1>1, FrameFacts
    <3>4. v.used <= Len(v.tags) /\ v.used = f.at + Held(f)
      BY <1>0, <2>3, <2>6, <2>8, <2>9, <2>13, <3>1 DEF FrameTags
    <3>5. \A k \in 1 .. WDepth(v) : v.frames[k].own = (v.storing /\ v.frames[k].data)
      BY <2>4, <2>9, <2>11, <2>13, <3>1, <3>2 DEF FrameTags
    <3>6. \A k \in 1 .. WDepth(w) : w.frames[k].at + Held(w.frames[k]) <= w.used
      <4> SUFFICES ASSUME NEW k \in 1 .. WDepth(w)
                   PROVE  w.frames[k].at + Held(w.frames[k]) <= w.used
        OBVIOUS
      <4>1. w.used = Top(w).at + Held(Top(w)) /\ Top(w) = w.frames[WDepth(w)]
            /\ WDepth(w) \in 1 .. WDepth(w)
        BY <1>0, <1>1, <3>1 DEF FrameTags, Top
      <4>2. CASE k = WDepth(w)
        BY <3>3, <4>1, <4>2
      <4>3. CASE k < WDepth(w)
        <5>1. w.frames[k].at + Held(w.frames[k]) <= w.frames[WDepth(w)].at
          BY <3>1, <4>1, <4>3 DEF FrameTags
        <5> QED
          BY <3>3, <4>1, <5>1
      <4> QED
        BY <1>0, <4>2, <4>3
    <3>7. \A j, k \in 1 .. WDepth(v) :
            j < k => v.frames[j].at + Held(v.frames[j]) <= v.frames[k].at
      <4> SUFFICES ASSUME NEW j \in 1 .. WDepth(v), NEW k \in 1 .. WDepth(v), j < k
                   PROVE  v.frames[j].at + Held(v.frames[j]) <= v.frames[k].at
        OBVIOUS
      <4>1. j \in 1 .. WDepth(w) /\ v.frames[j] = w.frames[j]
        BY <1>0, <2>11
      <4>2. CASE k \in 1 .. WDepth(w)
        BY <2>11, <3>1, <4>1, <4>2 DEF FrameTags
      <4>3. CASE k = WDepth(v)
        BY <2>11, <2>13, <3>6, <4>1, <4>3
      <4> QED
        BY <3>2, <4>2, <4>3
    <3>8. \A k \in 1 .. WDepth(v) - 1 : v.frames[k + 1].at = v.frames[k].at + Held(v.frames[k])
      <4> SUFFICES ASSUME NEW k \in 1 .. WDepth(w)
                   PROVE  v.frames[k + 1].at = v.frames[k].at + Held(v.frames[k])
        BY <1>0, <2>11
      <4>1. CASE k = WDepth(w)
        BY <1>0, <1>1, <2>11, <2>13, <3>1, <4>1 DEF FrameTags, Top
      <4>2. CASE k # WDepth(w)
        <5>1. k \in 1 .. WDepth(w) - 1 /\ k + 1 \in 1 .. WDepth(w)
          BY <1>0, <4>2
        <5> QED
          BY <2>11, <3>1, <5>1 DEF FrameTags
      <4> QED
        BY <4>1, <4>2
    <3>9. v.frames[1].at = 0
      <4>1. CASE WDepth(w) = 0
        <5>1. w.used = 0 /\ WDepth(v) = 1
          BY <1>0, <1>1, <2>11, <3>1, <4>1 DEF FrameTags
        <5> QED
          BY <2>11, <2>13, <5>1
      <4>2. CASE WDepth(w) # 0
        <5>1. w.frames[1].at = 0 /\ 1 \in 1 .. WDepth(w)
          BY <1>0, <1>1, <3>1, <4>2 DEF FrameTags
        <5> QED
          BY <2>11, <5>1
      <4> QED
        BY <4>1, <4>2
    <3> QED
      BY <2>11, <3>4, <3>5, <3>7, <3>8, <3>9 DEF FrameTags, Top
  <2>16. WriterInv(v, l)
    BY <2>8, <2>9, <2>10, <2>12, <2>14, <2>15 DEF WriterInv
  <2> QED
    BY <2>1, <2>9, <2>16 DEF Results
<1> QED
  BY <1>2, <1>3

\* A step that keeps the frames and the tags keeps the invariant: the cursor may move on,
\* the count may grow within its limit, and the buffers may change but not their sizes.
LEMMA SameFrames ==
  ASSUME NEW w, NEW l, WriterInv(w, l), NEW v \in WriterOf(w.format),
         v.format = w.format, v.frames = w.frames, v.storing = w.storing, v.tags = w.tags,
         v.used = w.used, Len(v.buf) = Len(w.buf), Len(v.scratch) = Len(w.scratch),
         w.pos <= v.pos, v.pos <= l.size, w.count <= v.count, v.count <= l.elements
  PROVE  WriterInv(v, l)
<1>1. /\ w.pos \in Nat /\ w.count \in Nat /\ WDepth(w) \in Nat /\ l.size \in Nat
      /\ \A k \in 1 .. WDepth(w) : w.frames[k].start \in Nat
  BY WriterFacts, FrameFacts
<1>2. v.pos \in Nat /\ v.count \in Nat
  BY DEF WriterOf
<1>3. WDepth(v) = WDepth(w)
  BY DEF WDepth
<1>4. Bounded(w, l) /\ FramesNest(w) /\ FrameTags(w)
  BY DEF WriterInv
<1>5. Bounded(v, l)
  BY <1>1, <1>2, <1>3, <1>4 DEF Bounded
<1>6. FramesNest(v)
  BY <1>1, <1>2, <1>3, <1>4 DEF FramesNest
<1>7. FrameTags(v)
  BY <1>3, <1>4 DEF FrameTags, Top
<1> QED
  BY <1>5, <1>6, <1>7 DEF WriterInv

\* tlv_tree_writer_write_element: written whole and counted, or neither.
LEMMA ElementInv ==
  ASSUME NEW w, NEW l, EncodesOctets(w.format), WriterInv(w, l), NEW tag \in Seq(Nat), NEW value \in Seq(Nat),
         NEW o \in WriteElement(w, l, [tag |-> tag, value |-> value])
  PROVE  WriterInv(o.w, l) /\ o.w.format = w.format /\ o.rc \in Results
<1> DEFINE e == [tag |-> tag, value |-> value]
<1>1. /\ w.buf \in Seq(Nat) /\ w.pos \in Nat /\ w.count \in Nat
      /\ Fits(w.format, l) /\ w \in WriterOf(w.format) /\ l.size \in Nat /\ l.elements \in Nat
  BY WriterFacts DEF WriterInv
<1>2. Len(w.buf) = l.size /\ w.pos <= Len(w.buf) /\ w.count <= l.elements
  BY DEF WriterInv, Bounded
<1>3. CASE OverLimit(w, l)
  BY <1>3 DEF WriteElement, Refused, Results
<1>4. CASE ~OverLimit(w, l)
  <2>1. PICK p \in WriteAt(w.format, w.buf, w.pos, e) :
          o = [rc |-> p.rc, w |-> [w EXCEPT !.buf = p.buf, !.pos = p.pos,
                                            !.count = IF p.rc = "OK" THEN @ + 1 ELSE @]]
    BY <1>4 DEF WriteElement
  <2>2. /\ p.rc \in Results
        /\ Written(w.format, w.buf, w.pos, e, p) \/ NotWritten(w.buf, w.pos, p)
    BY <1>1, <1>2, WriteAtOutcome
  <2>3. /\ p.buf \in Seq(Nat) /\ Len(p.buf) = Len(w.buf) /\ p.pos \in Nat
        /\ w.pos <= p.pos /\ p.pos <= l.size
    <3>1. CASE NotWritten(w.buf, w.pos, p)
      BY <1>1, <1>2, <3>1 DEF NotWritten
    <3>2. CASE Written(w.format, w.buf, w.pos, e, p)
      <4> DEFINE b == Encoded(w.format, e).bytes
      <4>1. b \in Seq(Nat) /\ w.pos + Len(b) <= Len(w.buf) /\ p.pos = w.pos + Len(b)
            /\ p.buf = Overlay(w.buf, w.pos, b)
        BY <3>2 DEF Written
      <4> HIDE DEF b
      <4>2. Len(b) \in Nat
        BY <4>1
      <4>3. p.buf \in Seq(Nat) /\ Len(p.buf) = Len(w.buf)
        BY <1>1, <4>1, OverlayType
      <4> QED
        BY <1>1, <1>2, <4>1, <4>2, <4>3
    <3> QED
      BY <2>2, <3>1, <3>2
  <2> DEFINE count == IF p.rc = "OK" THEN w.count + 1 ELSE w.count
             v == [w EXCEPT !.buf = p.buf, !.pos = p.pos, !.count = count]
  <2>4. count \in Nat /\ w.count <= count /\ count <= l.elements
    BY <1>1, <1>2, <1>4 DEF OverLimit
  <2>5. o.rc = p.rc /\ o.w = v
    BY <1>1, <2>1 DEF WriterOf
  <2> HIDE DEF count
  <2>6. /\ v \in WriterOf(w.format) /\ v.format = w.format /\ v.frames = w.frames /\ v.storing = w.storing
        /\ v.tags = w.tags /\ v.used = w.used /\ v.scratch = w.scratch
        /\ v.buf = p.buf /\ v.pos = p.pos /\ v.count = count
    BY <1>1, <2>3, <2>4 DEF WriterOf
  <2> HIDE DEF v
  <2>7. WriterInv(v, l)
    BY <2>3, <2>4, <2>6, SameFrames
  <2> QED
    BY <2>2, <2>5, <2>6, <2>7
<1> QED
  BY <1>3, <1>4

\* The innermost parent's content and tag lie inside the buffers.
LEMMA TopFacts ==
  ASSUME NEW w, NEW l, WriterInv(w, l), w.frames # <<>>
  PROVE  /\ Top(w) \in WriterFrames /\ Top(w).start <= w.pos
         /\ Content(w) \in Seq(Nat) /\ Len(Content(w)) = w.pos - Top(w).start
         /\ TagOf(w, Top(w)) \in Seq(Nat)
<1>1. /\ WDepth(w) \in 1 .. WDepth(w) /\ w.buf \in Seq(Nat) /\ w.pos \in Nat /\ w.scratch \in Seq(Nat)
      /\ w.tags \in Seq(Nat) /\ w.used \in Nat /\ Len(w.tags) \in Nat
  BY WriterFacts
<1>2. Top(w) \in WriterFrames /\ Top(w).start <= w.pos
  BY <1>1, WriterFacts DEF Top, WriterInv, FramesNest
<1>3. /\ Top(w).start \in Nat /\ Top(w).at \in Nat /\ Top(w).size \in Nat /\ Top(w).bytes \in Seq(Nat)
      /\ Top(w).own \in BOOLEAN /\ Held(Top(w)) \in Nat /\ (Top(w).own => Top(w).size <= Held(Top(w)))
  BY <1>2, FrameFacts
<1>4. w.pos <= Len(w.buf)
  BY DEF WriterInv, Bounded
<1>5. Content(w) \in Seq(Nat) /\ Len(Content(w)) = w.pos - Top(w).start
  <2>1. Top(w).start + 1 \in Nat \ {0} /\ Top(w).start + 1 <= w.pos + 1
    BY <1>1, <1>2, <1>3
  <2>2. /\ SubSeq(w.buf, Top(w).start + 1, w.pos) \in Seq(Nat)
        /\ Len(SubSeq(w.buf, Top(w).start + 1, w.pos)) = w.pos + 1 - (Top(w).start + 1)
    BY <1>1, <1>4, <2>1, PartOf
  <2>3. w.pos \in Nat /\ Top(w).start \in Nat
    BY <1>1, <1>3
  <2>4. w.pos + 1 - (Top(w).start + 1) = w.pos - Top(w).start
    BY <2>3
  <2> QED
    BY <2>2, <2>4 DEF Content
<1>6. TagOf(w, Top(w)) \in Seq(Nat)
  <2>1. CASE Top(w).own
    <3>1. w.used <= Len(w.tags) /\ w.used = Top(w).at + Held(Top(w))
      BY DEF WriterInv, FrameTags
    <3>2. /\ Top(w).at + 1 \in Nat \ {0} /\ Top(w).at + Top(w).size \in Nat
          /\ Top(w).at + Top(w).size <= Len(w.tags) /\ Top(w).at + 1 <= Top(w).at + Top(w).size + 1
      <4>1. /\ Top(w).at \in Nat /\ Top(w).size \in Nat /\ Held(Top(w)) \in Nat
            /\ Top(w).size <= Held(Top(w)) /\ w.used \in Nat /\ Len(w.tags) \in Nat
        BY <1>1, <1>3, <2>1
      <4>2. Top(w).at + Top(w).size <= Len(w.tags)
        BY <3>1, <4>1
      <4>3. Top(w).at + 1 \in Nat \ {0} /\ Top(w).at + Top(w).size \in Nat
            /\ Top(w).at + 1 <= Top(w).at + Top(w).size + 1
        BY <4>1
      <4> QED
        BY <4>2, <4>3
    <3>3. SubSeq(w.tags, Top(w).at + 1, Top(w).at + Top(w).size) \in Seq(Nat)
      BY <1>1, <3>2, PartOf
    <3> QED
      BY <2>1, <3>3 DEF TagOf
  <2>2. CASE ~Top(w).own
    BY <1>3, <2>2 DEF TagOf
  <2> QED
    BY <2>1, <2>2
<1> QED
  BY <1>2, <1>5, <1>6

\* What END works with lies inside the buffers, and the scratch holds the content.
LEMMA EndFacts ==
  ASSUME NEW w, NEW l, WriterInv(w, l), w.frames # <<>>, ~(Len(Content(w)) > Len(w.scratch))
  PROVE  /\ Top(w) \in WriterFrames /\ Top(w).start <= w.pos
         /\ Content(w) \in Seq(Nat) /\ Len(Content(w)) = w.pos - Top(w).start
         /\ Saved(w) \in Seq(Nat) /\ Len(Saved(w)) = Len(w.scratch)
         /\ Parent(w) = [tag |-> TagOf(w, Top(w)), value |-> Content(w)]
         /\ TagOf(w, Top(w)) \in Seq(Nat)
<1>1. w.scratch \in Seq(Nat) /\ Len(w.scratch) \in Nat /\ w.pos \in Nat
  BY WriterFacts
<1>2. /\ Top(w) \in WriterFrames /\ Top(w).start <= w.pos
      /\ Content(w) \in Seq(Nat) /\ Len(Content(w)) = w.pos - Top(w).start
      /\ TagOf(w, Top(w)) \in Seq(Nat)
  BY TopFacts
<1>3. 0 + Len(Content(w)) <= Len(w.scratch) /\ 0 \in Nat /\ Len(Content(w)) \in Nat
  BY <1>1, <1>2
<1>4. Saved(w) \in Seq(Nat) /\ Len(Saved(w)) = Len(w.scratch)
  BY <1>1, <1>2, <1>3, OverlayType DEF Saved
<1>5. SubSeq(Saved(w), 0 + 1, 0 + Len(Content(w))) = Content(w)
  BY <1>1, <1>2, <1>3, OverlayRead DEF Saved
<1>6. Parent(w) = [tag |-> TagOf(w, Top(w)), value |-> Content(w)]
  <2>1. 0 + 1 = 1 /\ 0 + Len(Content(w)) = Len(Content(w))
    BY <1>3
  <2> QED
    BY <1>5, <2>1 DEF Parent
<1> QED
  BY <1>2, <1>4, <1>6

\* Dropping the innermost frame with its copied tag, and going on at or after its start.
LEMMA DropTop ==
  ASSUME NEW w, NEW l, WriterInv(w, l), w.frames # <<>>, NEW v \in WriterOf(w.format),
         v.format = w.format, v.storing = w.storing, v.tags = w.tags, v.count = w.count,
         Len(v.buf) = Len(w.buf), Len(v.scratch) = Len(w.scratch),
         v.frames = SubSeq(w.frames, 1, Len(w.frames) - 1), v.used = Top(w).at,
         Top(w).start <= v.pos, v.pos <= l.size
  PROVE  WriterInv(v, l)
<1>1. /\ WDepth(w) \in Nat /\ WDepth(w) \in 1 .. WDepth(w) /\ w.used \in Nat
      /\ w.count \in Nat /\ l.size \in Nat /\ l.frames \in Nat /\ l.depth \in Nat /\ Len(w.tags) \in Nat
  BY WriterFacts
<1>2. \A k \in 1 .. WDepth(w) : /\ w.frames[k].start \in Nat /\ w.frames[k].at \in Nat
                                /\ Held(w.frames[k]) \in Nat
  BY WriterFacts, FrameFacts
<1>3. Bounded(w, l) /\ FramesNest(w) /\ FrameTags(w) /\ v.pos \in Nat
  BY DEF WriterInv, WriterOf
<1>4. /\ WDepth(v) = WDepth(w) - 1 /\ (v.frames = <<>> <=> WDepth(v) = 0)
      /\ \A k \in 1 .. WDepth(v) : v.frames[k] = w.frames[k]
  <2>1. w.frames \in Seq(WriterFrames) /\ v.frames \in Seq(WriterFrames)
    BY WriterFacts DEF WriterOf
  <2>2. Len(v.frames) = Len(w.frames) - 1 /\ \A k \in 1 .. Len(v.frames) : v.frames[k] = w.frames[k]
    BY <1>1, <2>1 DEF WDepth
  <2>3. v.frames = <<>> <=> Len(v.frames) = 0
    BY <2>1, EmptySeq
  <2> QED
    BY <2>2, <2>3 DEF WDepth
<1>5. \A k \in 1 .. WDepth(v) : k \in 1 .. WDepth(w) /\ k < WDepth(w)
  BY <1>1, <1>4
<1>6. Bounded(v, l)
  BY <1>1, <1>3, <1>4 DEF Bounded
<1>7. Top(w) = w.frames[WDepth(w)]
  BY DEF Top
<1>8. FramesNest(v)
  <2>1. \A j, k \in 1 .. WDepth(v) : j <= k => v.frames[j].start <= v.frames[k].start
    BY <1>3, <1>4, <1>5 DEF FramesNest
  <2>2. ASSUME NEW k \in 1 .. WDepth(v) PROVE v.frames[k].start <= v.pos
    <3>1. w.frames[k].start <= w.frames[WDepth(w)].start
      BY <1>1, <1>3, <1>5 DEF FramesNest
    <3>2. w.frames[k].start \in Nat /\ w.frames[WDepth(w)].start \in Nat /\ v.pos \in Nat
          /\ w.frames[WDepth(w)].start <= v.pos /\ v.frames[k] = w.frames[k]
      BY <1>1, <1>2, <1>3, <1>4, <1>5, <1>7
    <3>3. w.frames[k].start <= v.pos
      BY <3>1, <3>2
    <3> QED
      BY <3>2, <3>3
  <2> QED
    BY <2>1, <2>2 DEF FramesNest
<1>9. FrameTags(v)
  <2>1. v.used <= Len(v.tags)
    <3>1. w.used = Top(w).at + Held(Top(w)) /\ w.used <= Len(w.tags)
      BY <1>3 DEF FrameTags
    <3>2. Top(w).at \in Nat /\ Held(Top(w)) \in Nat /\ Len(w.tags) \in Nat
      BY <1>1, <1>2, <1>7
    <3> QED
      BY <3>1, <3>2
  <2>2. \A k \in 1 .. WDepth(v) : v.frames[k].own = (v.storing /\ v.frames[k].data)
    BY <1>3, <1>4, <1>5 DEF FrameTags
  <2>3. \A j, k \in 1 .. WDepth(v) :
          j < k => v.frames[j].at + Held(v.frames[j]) <= v.frames[k].at
    BY <1>3, <1>4, <1>5 DEF FrameTags
  <2>4. ASSUME NEW k \in 1 .. WDepth(v) - 1
        PROVE  v.frames[k + 1].at = v.frames[k].at + Held(v.frames[k])
    <3>1. k \in 1 .. WDepth(v) /\ k + 1 \in 1 .. WDepth(v) /\ k \in 1 .. WDepth(w) - 1
      <4>1. WDepth(w) \in Nat /\ WDepth(v) = WDepth(w) - 1
        BY <1>1, <1>4
      <4> QED
        BY <4>1
    <3>2. w.frames[k + 1].at = w.frames[k].at + Held(w.frames[k])
      BY <1>3, <3>1 DEF FrameTags
    <3> QED
      BY <1>4, <3>1, <3>2
  <2>5. CASE v.frames = <<>>
    <3>1. WDepth(w) = 1
      BY <1>1, <1>4, <2>5
    <3>2. v.used = 0
      BY <1>3, <1>7, <3>1 DEF FrameTags
    <3> QED
      BY <2>1, <2>2, <2>3, <2>4, <2>5, <3>2 DEF FrameTags
  <2>6. CASE v.frames # <<>>
    <3>1. WDepth(v) \in 1 .. WDepth(w) - 1 /\ WDepth(v) + 1 = WDepth(w) /\ 1 \in 1 .. WDepth(v)
          /\ WDepth(v) \in 1 .. WDepth(v)
      BY <1>1, <1>4, <2>6
    <3>2. v.frames[1].at = 0
      BY <1>3, <1>4, <3>1 DEF FrameTags
    <3>3. w.frames[WDepth(v) + 1].at = w.frames[WDepth(v)].at + Held(w.frames[WDepth(v)])
      BY <1>3, <3>1 DEF FrameTags
    <3>4. v.used = Top(v).at + Held(Top(v))
      BY <1>4, <1>7, <3>1, <3>3 DEF Top
    <3> QED
      BY <2>1, <2>2, <2>3, <2>4, <2>6, <3>2, <3>4 DEF FrameTags
  <2> QED
    BY <2>5, <2>6
<1> QED
  BY <1>6, <1>8, <1>9 DEF WriterInv

\* tlv_tree_writer_end: the parent replaces its content and its frame is gone, or both
\* are as before, whatever the encoder wrote.
LEMMA EndInv ==
  ASSUME NEW w, NEW l, EncodesOctets(w.format), WriterInv(w, l), NEW o \in End(w)
  PROVE  WriterInv(o.w, l) /\ o.w.format = w.format /\ o.rc \in Results
<1>1. CASE w.frames = <<>> \/ Len(Content(w)) > Len(w.scratch)
  BY <1>1 DEF End, Refused, Results
<1>2. CASE ~(w.frames = <<>> \/ Len(Content(w)) > Len(w.scratch))
  <2> DEFINE start == Top(w).start
  <2>1. PICK p \in WriteAt(w.format, w.buf, start, Parent(w)) :
          o = [rc |-> p.rc, w |-> Ended(w, p)]
    BY <1>2 DEF End
  <2>2. /\ w.buf \in Seq(Nat) /\ Fits(w.format, l) /\ w \in WriterOf(w.format)
        /\ w.frames \in Seq(WriterFrames) /\ Len(w.frames) \in Nat \ {0} /\ w.storing \in BOOLEAN
    BY <1>2, WriterFacts DEF WriterInv, WDepth
  <2>3. w.pos \in Nat /\ l.size \in Nat /\ Len(w.buf) = l.size /\ w.pos <= l.size
        /\ w.used \in Nat /\ Len(w.buf) \in Nat
    BY WriterFacts DEF WriterInv, Bounded
  <2>4. /\ Top(w) \in WriterFrames /\ Top(w).start <= w.pos
        /\ Content(w) \in Seq(Nat) /\ Len(Content(w)) = w.pos - Top(w).start
        /\ Saved(w) \in Seq(Nat) /\ Len(Saved(w)) = Len(w.scratch)
        /\ Parent(w) = [tag |-> TagOf(w, Top(w)), value |-> Content(w)]
        /\ TagOf(w, Top(w)) \in Seq(Nat)
    BY <1>2, EndFacts
  <2>5. /\ start \in Nat /\ Top(w).at \in Nat /\ Top(w).data \in BOOLEAN
        /\ Top(w).size \in Nat /\ Held(Top(w)) \in Nat
    BY <2>4, FrameFacts
  <2>6. start <= Len(w.buf)
    BY <2>3, <2>4, <2>5
  <2> HIDE DEF start
  <2>7. /\ p.rc \in Results
        /\ Written(w.format, w.buf, start, Parent(w), p) \/ NotWritten(w.buf, start, p)
    BY <2>2, <2>3, <2>4, <2>5, <2>6, WriteAtOutcome
  <2>8. CASE Written(w.format, w.buf, start, Parent(w), p)
    <3> DEFINE b == Encoded(w.format, Parent(w)).bytes
    <3>1. /\ p.rc = "OK" /\ b \in Seq(Nat) /\ start + Len(b) <= Len(w.buf)
          /\ p.pos = start + Len(b) /\ p.buf = Overlay(w.buf, start, b)
      BY <2>8 DEF Written
    <3> HIDE DEF b
    <3>2. p.buf \in Seq(Nat) /\ Len(p.buf) = Len(w.buf)
      BY <2>2, <2>5, <3>1, OverlayType
    <3>3. Len(b) \in Nat
      BY <3>1
    <3>4. p.pos \in Nat /\ start <= p.pos /\ p.pos <= l.size
      BY <2>3, <2>5, <3>1, <3>3
    <3> DEFINE used == IF w.storing /\ Top(w).data THEN w.used - TagCost(Top(w).size) ELSE w.used
               frames == SubSeq(w.frames, 1, Len(w.frames) - 1)
               v == [w EXCEPT !.buf = p.buf, !.pos = p.pos, !.scratch = Saved(w),
                              !.frames = frames, !.used = used]
    <3>5. o.rc = "OK" /\ o.w = v
      BY <2>1, <2>2, <3>1 DEF Ended, WriterOf
    <3>6. used = Top(w).at
      <4>1. /\ w.used = Top(w).at + Held(Top(w)) /\ Top(w).own = (w.storing /\ Top(w).data)
        <5>1. WDepth(w) \in 1 .. WDepth(w) /\ FrameTags(w)
          BY <2>2 DEF WDepth, WriterInv
        <5> QED
          BY <1>2, <5>1 DEF FrameTags, Top
      <4>2. Held(Top(w)) = IF w.storing /\ Top(w).data THEN TagCost(Top(w).size) ELSE 0
        BY <4>1 DEF Held
      <4>3. TagCost(Top(w).size) \in Nat
        BY <2>5 DEF TagCost
      <4>4. CASE w.storing /\ Top(w).data
        <5>1. w.used = Top(w).at + TagCost(Top(w).size) /\ used = w.used - TagCost(Top(w).size)
          BY <4>1, <4>2, <4>4
        <5> QED
          BY <2>5, <4>3, <5>1
      <4>5. CASE ~(w.storing /\ Top(w).data)
        <5>1. w.used = Top(w).at + 0 /\ used = w.used
          BY <4>1, <4>2, <4>5
        <5> QED
          BY <2>5, <5>1
      <4> QED
        BY <4>4, <4>5
    <3> HIDE DEF used
    <3>7. frames \in Seq(WriterFrames)
      BY <2>2
    <3> HIDE DEF frames
    <3>8. /\ v \in WriterOf(w.format) /\ v.format = w.format /\ v.storing = w.storing /\ v.tags = w.tags
          /\ v.count = w.count /\ v.buf = p.buf /\ v.scratch = Saved(w) /\ v.frames = frames
          /\ v.used = used /\ v.pos = p.pos
      BY <2>2, <2>4, <2>5, <3>2, <3>4, <3>6, <3>7 DEF WriterOf
    <3> HIDE DEF v
    <3>9. WriterInv(v, l)
      <4>1. Len(v.buf) = Len(w.buf) /\ Len(v.scratch) = Len(w.scratch) /\ Top(w).start <= v.pos
            /\ v.pos <= l.size /\ v.frames = SubSeq(w.frames, 1, Len(w.frames) - 1)
            /\ v.used = Top(w).at
        BY <2>4, <3>2, <3>4, <3>6, <3>8 DEF start, frames
      <4> QED
        BY <1>2, <3>8, <4>1, DropTop
    <3> QED
      BY <3>5, <3>8, <3>9 DEF Results
  <2>9. CASE NotWritten(w.buf, start, p)
    <3>1. p.rc # "OK" /\ p.buf \in Seq(Nat) /\ Len(p.buf) = Len(w.buf)
      BY <2>9 DEF NotWritten
    <3> DEFINE buf == Overlay(p.buf, start, Content(w))
               v == [w EXCEPT !.buf = buf, !.scratch = Saved(w)]
    <3>2. o.rc = p.rc /\ o.w = v
      BY <2>1, <2>2, <2>4, <3>1 DEF Ended, WriterOf, start
    <3>3. buf \in Seq(Nat) /\ Len(buf) = Len(w.buf)
      <4>1. start + Len(Content(w)) <= Len(p.buf)
        BY <2>3, <2>4, <2>5, <3>1 DEF start
      <4> QED
        BY <2>4, <2>5, <3>1, <4>1, OverlayType
    <3> HIDE DEF buf
    <3>4. /\ v \in WriterOf(w.format) /\ v.format = w.format /\ v.storing = w.storing /\ v.tags = w.tags
          /\ v.count = w.count /\ v.buf = buf /\ v.scratch = Saved(w) /\ v.frames = w.frames
          /\ v.used = w.used /\ v.pos = w.pos
      BY <2>2, <2>4, <3>3 DEF WriterOf
    <3> HIDE DEF v
    <3>5. w.count \in Nat /\ w.count <= l.elements
      BY WriterFacts DEF WriterInv, Bounded
    <3>6. w.pos <= v.pos /\ v.pos <= l.size /\ w.count <= v.count /\ v.count <= l.elements
      BY <2>3, <3>4, <3>5
    <3>7. WriterInv(v, l)
      BY <2>4, <3>3, <3>4, <3>6, SameFrames
    <3> QED
      BY <2>7, <3>2, <3>4, <3>7
  <2> QED
    BY <2>7, <2>8, <2>9
<1> QED
  BY <1>1, <1>2

\* tlv_tree_writer_write_event: refused, or one of the calls above.
LEMMA EventInv ==
  ASSUME NEW w, NEW l, EncodesOctets(w.format), WriterInv(w, l), NEW event,
         event.tag \in [bytes : Seq(Nat), data : BOOLEAN],
         ~event.tag.data => event.tag.bytes = <<>>, event.value \in Seq(Nat),
         NEW o \in WriteEvent(w, l, event)
  PROVE  WriterInv(o.w, l) /\ o.w.format = w.format /\ o.rc \in Results
<1>1. CASE EventMisplaced(w, event)
  BY <1>1 DEF WriteEvent, Refused, Results
<1>2. CASE ~EventMisplaced(w, event)
  <2>1. event.kind \in {"BEGIN", "ELEMENT", "END"}
    BY <1>2 DEF EventMisplaced
  <2>2. CASE event.kind = "BEGIN"
    <3>1. o \in Begin(w, l, event.tag)
      BY <1>2, <2>2 DEF WriteEvent
    <3> QED
      BY <3>1, BeginInv
  <2>3. CASE event.kind = "END"
    <3>1. o \in End(w)
      BY <1>2, <2>3 DEF WriteEvent
    <3> QED
      BY <3>1, EndInv
  <2>4. CASE event.kind = "ELEMENT"
    <3>1. event.tag.bytes \in Seq(Nat)
      OBVIOUS
    <3>2. \/ o \in Refused(w, "INVALID_TAG")
          \/ o \in WriteElement(w, l, [tag |-> event.tag.bytes, value |-> event.value])
      BY <1>2, <2>4 DEF WriteEvent
    <3>3. CASE o \in Refused(w, "INVALID_TAG")
      BY <3>3 DEF Refused, Results
    <3>4. CASE o \in WriteElement(w, l, [tag |-> event.tag.bytes, value |-> event.value])
      BY <3>1, <3>4, ElementInv
    <3> QED
      BY <3>2, <3>3, <3>4
  <2> QED
    BY <2>1, <2>2, <2>3, <2>4
<1> QED
  BY <1>1, <1>2

-----------------------------------------------------------------------------
(***************************************************************************)
(* The inductive invariant of the specification.                            *)
(***************************************************************************)
IInv == /\ wr.format \in Formats /\ limits \in Limits(wr.format)
        /\ WriterInv(wr, limits) /\ call \in Calls /\ result \in Results

\* The limits of the writers considered are such limits.
LEMMA LimitsFit ==
  ASSUME NEW f \in Formats, NEW l \in Limits(f)
  PROVE  Fits(f, l)
BY LimitsAssumption, LeftoversAssumption DEF Fits

LEMMA InitInv == Init => IInv
<1> SUFFICES ASSUME Init PROVE IInv
  OBVIOUS
<1>1. PICK f \in Formats : limits \in Limits(f) /\ wr = TreeWriterInit(f, limits.size, limits.scratch)
  BY DEF Init
<1>2. WriterInv(wr, limits)
  BY <1>1, LimitsFit, InitWriter
<1>4. wr.format \in Formats /\ limits \in Limits(wr.format)
  BY <1>1 DEF TreeWriterInit
<1>3. call \in Calls /\ result \in Results
  BY DEF Init, Calls, Results
<1> QED
  BY <1>2, <1>3, <1>4 DEF IInv

\* The tags and values that a caller uses with the writer's format.
LEMMA CallerFacts ==
  ASSUME wr.format \in Formats
  PROVE  /\ \A t \in Tags(wr.format) : /\ t \in [bytes : Seq(Nat), data : BOOLEAN]
                                       /\ (~t.data => t.bytes = <<>>)
                                       /\ t \in CallTags
         /\ \A v \in Values(wr.format) : v \in Seq(Nat) /\ v \in CallValues
         /\ Storages(wr.format) \subseteq Nat
BY CallerAssumption DEF CallTags, CallValues

\* An event as DoEvent makes it.
LEMMA EventFacts ==
  ASSUME wr.format \in Formats, NEW kind \in {"BEGIN", "ELEMENT", "END", "OTHER"},
         NEW t \in IF kind \in {"BEGIN", "ELEMENT"} THEN Tags(wr.format) ELSE {NoTag},
         NEW v \in IF kind = "ELEMENT" THEN Values(wr.format) ELSE {<<>>}
  PROVE  /\ t \in [bytes : Seq(Nat), data : BOOLEAN] /\ (~t.data => t.bytes = <<>>)
         /\ v \in Seq(Nat) /\ Call(kind, t.bytes, v) \in Calls
<1>1. CASE kind = "BEGIN"
  BY <1>1, CallerFacts DEF Calls
<1>2. CASE kind = "ELEMENT"
  BY <1>2, CallerFacts DEF Calls
<1>3. CASE kind \in {"END", "OTHER"}
  <2>1. t = NoTag /\ v = <<>>
    BY <1>3
  <2>2. /\ NoTag \in [bytes : Seq(Nat), data : BOOLEAN] /\ NoTag.bytes = <<>>
        /\ <<>> \in Seq(Nat)
    BY DEF NoTag
  <2>3. Call(kind, <<>>, <<>>) \in Calls
    BY <1>3 DEF Calls
  <2> QED
    BY <2>1, <2>2, <2>3
<1> QED
  BY <1>1, <1>2, <1>3

\* What a step of the specification is: one call, one of its outcomes.
LEMMA StepIsCall ==
  ASSUME IInv, Next
  PROVE  /\ UNCHANGED limits /\ call' \in Calls
         /\ \/ \E t \in Tags(wr.format) : \E o \in Begin(wr, limits, t) :
                 wr' = o.w /\ result' = o.rc /\ call' = Call("BEGIN", t.bytes, <<>>)
            \/ \E t \in Tags(wr.format), v \in Values(wr.format) :
                 \E o \in WriteElement(wr, limits, [tag |-> t.bytes, value |-> v]) :
                   wr' = o.w /\ result' = o.rc /\ call' = Call("ELEMENT", t.bytes, v)
            \/ \E o \in End(wr) :
                 wr' = o.w /\ result' = o.rc /\ call' = Call("END", <<>>, <<>>)
            \/ \E on \in BOOLEAN, n \in Nat : \E o \in SetTagStorage(wr, on, n) :
                 wr' = o.w /\ result' = o.rc /\ call' = Call("STORAGE", <<>>, <<>>)
            \/ wr' = wr /\ result' # "OK" /\ result' \in Results
<1>0. WriterInv(wr, limits) /\ wr.format \in Formats /\ limits \in Limits(wr.format)
  BY DEF IInv
<1>1. CASE DoBegin
  <2>1. PICK t \in Tags(wr.format) : Happens(Begin(wr, limits, t), Call("BEGIN", t.bytes, <<>>),
                                             Node(t.bytes, <<>>, WDepth(wr)))
    BY <1>1 DEF DoBegin
  <2>2. Call("BEGIN", t.bytes, <<>>) \in Calls
    BY <1>0, CallerFacts DEF Calls
  <2> QED
    BY <2>1, <2>2 DEF Happens
<1>2. CASE DoElement
  <2>1. PICK t \in Tags(wr.format), v \in Values(wr.format) :
          Happens(WriteElement(wr, limits, [tag |-> t.bytes, value |-> v]),
                  Call("ELEMENT", t.bytes, v), Node(t.bytes, v, WDepth(wr)))
    BY <1>2 DEF DoElement
  <2>2. Call("ELEMENT", t.bytes, v) \in Calls
    BY <1>0, CallerFacts DEF Calls
  <2> QED
    BY <2>1, <2>2 DEF Happens
<1>3. CASE DoEnd
  <2>1. Call("END", <<>>, <<>>) \in Calls
    BY DEF Calls
  <2> QED
    BY <1>3, <2>1 DEF DoEnd, Happens
<1>4. CASE DoStorage
  <2>0. PICK on \in BOOLEAN : \E n \in IF on THEN Storages(wr.format) ELSE {0} :
          Happens(SetTagStorage(wr, on, n), Call("STORAGE", <<>>, <<>>), <<>>)
    BY <1>4 DEF DoStorage
  <2>1. PICK n \in IF on THEN Storages(wr.format) ELSE {0} :
          Happens(SetTagStorage(wr, on, n), Call("STORAGE", <<>>, <<>>), <<>>)
    BY <2>0
  <2>2. n \in Nat
    BY <1>0, <2>1, CallerFacts
  <2>3. Call("STORAGE", <<>>, <<>>) \in Calls
    BY DEF Calls
  <2> QED
    BY <2>1, <2>2, <2>3 DEF Happens
<1>5. CASE DoEvent
  <2> DEFINE Made(kind, t, v) ==
        \E depth \in 0 .. WDepth(wr) + 1 : \E skipped \in BOOLEAN :
          Happens(WriteEvent(wr, limits, [kind |-> kind, tag |-> t, value |-> v,
                                          depth |-> depth, skipped |-> skipped]),
                  Call(kind, t.bytes, v),
                  IF kind \in {"BEGIN", "ELEMENT"} THEN Node(t.bytes, v, depth) ELSE <<>>)
  <2>a. PICK kind \in {"BEGIN", "ELEMENT", "END", "OTHER"} :
          \E t \in IF kind \in {"BEGIN", "ELEMENT"} THEN Tags(wr.format) ELSE {NoTag} :
            \E v \in IF kind = "ELEMENT" THEN Values(wr.format) ELSE {<<>>} : Made(kind, t, v)
    BY <1>5 DEF DoEvent
  <2>b. PICK t \in IF kind \in {"BEGIN", "ELEMENT"} THEN Tags(wr.format) ELSE {NoTag} :
          \E v \in IF kind = "ELEMENT" THEN Values(wr.format) ELSE {<<>>} : Made(kind, t, v)
    BY <2>a
  <2>c. PICK v \in IF kind = "ELEMENT" THEN Values(wr.format) ELSE {<<>>} : Made(kind, t, v)
    BY <2>b
  <2>1. PICK depth \in 0 .. WDepth(wr) + 1, skipped \in BOOLEAN :
          Happens(WriteEvent(wr, limits, [kind |-> kind, tag |-> t, value |-> v,
                                          depth |-> depth, skipped |-> skipped]),
                  Call(kind, t.bytes, v),
                  IF kind \in {"BEGIN", "ELEMENT"} THEN Node(t.bytes, v, depth) ELSE <<>>)
    BY <2>c
  <2> DEFINE event == [kind |-> kind, tag |-> t, value |-> v, depth |-> depth, skipped |-> skipped]
  <2>2. Call(kind, t.bytes, v) \in Calls
    BY <1>0, EventFacts
  <2>3. PICK o \in WriteEvent(wr, limits, event) :
          wr' = o.w /\ result' = o.rc /\ call' = Call(kind, t.bytes, v) /\ UNCHANGED limits
    BY <2>1 DEF Happens
  <2>4. event.kind = kind /\ event.tag = t /\ event.value = v
    OBVIOUS
  <2> HIDE DEF event
  <2>5. CASE EventMisplaced(wr, event)
    <3>1. o = [rc |-> "INVALID_VALUE", w |-> wr]
      BY <2>5 DEF WriteEvent, Refused
    <3> QED
      BY <2>2, <2>3, <3>1 DEF Results
  <2>6. CASE ~EventMisplaced(wr, event)
    <3>1. kind \in {"BEGIN", "ELEMENT", "END"}
      BY <2>4, <2>6 DEF EventMisplaced
    <3>2. CASE kind = "BEGIN"
      <4>1. o \in Begin(wr, limits, t)
        BY <2>4, <2>6, <3>2 DEF WriteEvent
      <4>2. t \in Tags(wr.format) /\ v = <<>>
        BY <3>2
      <4> QED
        BY <2>2, <2>3, <3>2, <4>1, <4>2
    <3>3. CASE kind = "END"
      <4>1. o \in End(wr)
        BY <2>4, <2>6, <3>3 DEF WriteEvent
      <4>2. t.bytes = <<>> /\ v = <<>>
        BY <3>3 DEF NoTag
      <4> QED
        BY <2>2, <2>3, <3>3, <4>1, <4>2
    <3>4. CASE kind = "ELEMENT"
      <4>1. t \in Tags(wr.format) /\ v \in Values(wr.format)
        BY <3>4
      <4>2. \/ o \in Refused(wr, "INVALID_TAG")
            \/ o \in WriteElement(wr, limits, [tag |-> t.bytes, value |-> v])
        BY <2>4, <2>6, <3>4 DEF WriteEvent
      <4>3. CASE o \in Refused(wr, "INVALID_TAG")
        BY <2>2, <2>3, <4>3 DEF Refused, Results
      <4>4. CASE o \in WriteElement(wr, limits, [tag |-> t.bytes, value |-> v])
        BY <2>2, <2>3, <3>4, <4>1, <4>4
      <4> QED
        BY <4>2, <4>3, <4>4
    <3> QED
      BY <3>1, <3>2, <3>3, <3>4
  <2> QED
    BY <2>5, <2>6
<1> QED
  BY <1>1, <1>2, <1>3, <1>4, <1>5 DEF Next

LEMMA StepInv == EncoderSound /\ IInv /\ [Next]_vars => IInv'
<1> SUFFICES ASSUME EncoderSound, IInv, [Next]_vars PROVE IInv'
  OBVIOUS
<1>0. WriterInv(wr, limits) /\ wr.format \in Formats /\ limits \in Limits(wr.format)
  BY DEF IInv
<1>1. CASE UNCHANGED vars
  BY <1>1 DEF IInv, vars
<1>2. CASE Next
  <2> SUFFICES WriterInv(wr', limits) /\ wr'.format = wr.format /\ result' \in Results
    <3>1. limits' = limits /\ call' \in Calls
      BY <1>2, StepIsCall
    <3> QED
      BY <1>0, <3>1 DEF IInv
  <2>0. EncodesOctets(wr.format)
    BY <1>0 DEF EncoderSound
  <2>1. ASSUME NEW t \in Tags(wr.format), NEW o \in Begin(wr, limits, t), wr' = o.w, result' = o.rc
        PROVE  WriterInv(wr', limits) /\ wr'.format = wr.format /\ result' \in Results
    <3>1. t \in [bytes : Seq(Nat), data : BOOLEAN] /\ (~t.data => t.bytes = <<>>)
      BY <1>0, CallerFacts
    <3> QED
      BY <1>0, <2>1, <3>1, BeginInv
  <2>2. ASSUME NEW t \in Tags(wr.format), NEW v \in Values(wr.format),
               NEW o \in WriteElement(wr, limits, [tag |-> t.bytes, value |-> v]),
               wr' = o.w, result' = o.rc
        PROVE  WriterInv(wr', limits) /\ wr'.format = wr.format /\ result' \in Results
    <3>1. t.bytes \in Seq(Nat) /\ v \in Seq(Nat)
      BY <1>0, CallerFacts
    <3> QED
      BY <1>0, <2>0, <2>2, <3>1, ElementInv
  <2>3. ASSUME NEW o \in End(wr), wr' = o.w, result' = o.rc
        PROVE  WriterInv(wr', limits) /\ wr'.format = wr.format /\ result' \in Results
    BY <1>0, <2>0, <2>3, EndInv
  <2>4. ASSUME NEW on \in BOOLEAN, NEW n \in Nat, NEW o \in SetTagStorage(wr, on, n),
               wr' = o.w, result' = o.rc
        PROVE  WriterInv(wr', limits) /\ wr'.format = wr.format /\ result' \in Results
    BY <1>0, <2>4, StorageInv
  <2> QED
    BY <1>0, <1>2, <2>1, <2>2, <2>3, <2>4, StepIsCall
<1> QED
  BY <1>1, <1>2

(***************************************************************************)
(* However calls, events and failures are interleaved, a tree writer stays  *)
(* inside its buffer, frames, limits and tag storage, and releases each     *)
(* copied tag exactly once (WriterSafe), for every encoder that writes      *)
(* octets where it is asked to.                                             *)
(***************************************************************************)
THEOREM WriterStaysInside == EncoderSound => (Spec => []WriterSafe)
<1> SUFFICES ASSUME EncoderSound PROVE Spec => []WriterSafe
  OBVIOUS
<1>1. IInv /\ [Next]_vars => IInv'
  BY StepInv
<1>2. Spec => []IInv
  BY <1>1, InitInv, PTL DEF Spec
<1>3. IInv => WriterSafe
  BY InvSafe DEF IInv
<1> QED
  BY <1>2, <1>3, PTL

-----------------------------------------------------------------------------
(***************************************************************************)
(* The writer as a TreeBuilder.                                             *)
(***************************************************************************)
Parents == [tag : Seq(Nat), content : Seq(Nat)]

\* Frames begin in order, in the buffer and up to the cursor.
LEMMA StartsNest ==
  ASSUME NEW w, NEW l, WriterInv(w, l)
  PROVE  /\ \A k \in 1 .. WDepth(w) + 1 : StartOf(w, k) \in Nat /\ StartOf(w, k) <= w.pos
         /\ \A j, k \in 1 .. WDepth(w) + 1 : j <= k => StartOf(w, j) <= StartOf(w, k)
         /\ w.pos <= Len(w.buf)
<1>1. w.pos \in Nat /\ WDepth(w) \in Nat /\ w.pos <= Len(w.buf) /\ FramesNest(w)
  BY WriterFacts DEF WriterInv, Bounded
<1>2. \A k \in 1 .. WDepth(w) : w.frames[k].start \in Nat
  BY WriterFacts, FrameFacts
<1>3. \A k \in 1 .. WDepth(w) + 1 : \/ k \in 1 .. WDepth(w) /\ StartOf(w, k) = w.frames[k].start
                                    \/ k = WDepth(w) + 1 /\ StartOf(w, k) = w.pos
  BY <1>1 DEF StartOf
<1>4. \A k \in 1 .. WDepth(w) + 1 : StartOf(w, k) \in Nat /\ StartOf(w, k) <= w.pos
  BY <1>1, <1>2, <1>3 DEF FramesNest
<1>5. ASSUME NEW j \in 1 .. WDepth(w) + 1, NEW k \in 1 .. WDepth(w) + 1, j <= k
      PROVE  StartOf(w, j) <= StartOf(w, k)
  <2>1. CASE k = WDepth(w) + 1 /\ StartOf(w, k) = w.pos
    BY <1>4, <2>1
  <2>2. CASE k \in 1 .. WDepth(w) /\ StartOf(w, k) = w.frames[k].start
    <3>1. j \in 1 .. WDepth(w)
      BY <1>1, <1>5, <2>2
    <3>2. StartOf(w, j) = w.frames[j].start
      BY <1>1, <3>1 DEF StartOf
    <3> QED
      BY <1>1, <1>5, <2>2, <3>1, <3>2 DEF FramesNest
  <2> QED
    BY <1>3, <2>1, <2>2
<1> QED
  BY <1>1, <1>4, <1>5

\* Every copied tag lies in the used part of the storage.
LEMMA TagsUsed ==
  ASSUME NEW w, NEW l, WriterInv(w, l)
  PROVE  /\ w.used <= Len(w.tags)
         /\ \A k \in 1 .. WDepth(w) : /\ w.frames[k].at + Held(w.frames[k]) <= w.used
                                      /\ (w.frames[k].own => w.frames[k].at + w.frames[k].size <= w.used)
<1>1. WDepth(w) \in Nat /\ w.used \in Nat /\ FrameTags(w)
  BY WriterFacts DEF WriterInv
<1>2. \A k \in 1 .. WDepth(w) : /\ w.frames[k].at \in Nat /\ Held(w.frames[k]) \in Nat
                                /\ w.frames[k].size \in Nat
                                /\ (w.frames[k].own => w.frames[k].size <= Held(w.frames[k]))
  BY WriterFacts, FrameFacts
<1>3. ASSUME NEW k \in 1 .. WDepth(w) PROVE w.frames[k].at + Held(w.frames[k]) <= w.used
  <2>1. w.used = w.frames[WDepth(w)].at + Held(w.frames[WDepth(w)])
    BY <1>1, WriterFacts DEF FrameTags, Top
  <2>2. WDepth(w) \in 1 .. WDepth(w)
    BY <1>1
  <2>3. CASE k = WDepth(w)
    BY <1>2, <2>1, <2>3
  <2>4. CASE k < WDepth(w)
    <3>1. w.frames[k].at + Held(w.frames[k]) <= w.frames[WDepth(w)].at
      BY <1>1, <2>2, <2>4 DEF FrameTags
    <3> QED
      BY <1>2, <2>1, <2>2, <3>1
  <2> QED
    BY <1>1, <2>3, <2>4
<1>4. ASSUME NEW k \in 1 .. WDepth(w), w.frames[k].own
      PROVE  w.frames[k].at + w.frames[k].size <= w.used
  BY <1>1, <1>2, <1>3, <1>4
<1> QED
  BY <1>1, <1>3, <1>4 DEF FrameTags

\* The abstract state that a writer stands for.
LEMMA ScopesType ==
  ASSUME NEW w, NEW l, WriterInv(w, l)
  PROVE  /\ Scopes(w) \in Seq(Parents) /\ Len(Scopes(w)) = WDepth(w)
         /\ (Scopes(w) = <<>> <=> w.frames = <<>>)
         /\ \A k \in 1 .. WDepth(w) :
              Scopes(w)[k] = [tag |-> TagOf(w, w.frames[k]),
                              content |-> SubSeq(w.buf, StartOf(w, k) + 1, StartOf(w, k + 1))]
         /\ Roots(w) \in Seq(Nat) /\ TreeSize(w) = StartOf(w, 1) /\ TreeSize(w) \in Nat
         /\ TreeSize(w) <= Len(w.buf)
<1>0. w.buf \in Seq(Nat) /\ w.tags \in Seq(Nat) /\ w.frames \in Seq(WriterFrames)
      /\ (w.frames = <<>> <=> WDepth(w) = 0)
  BY WriterFacts
<1>1. WDepth(w) \in Nat /\ w.used \in Nat /\ Len(w.buf) \in Nat /\ w.pos \in Nat /\ Len(w.tags) \in Nat
  BY WriterFacts
<1>2. ASSUME NEW k \in 1 .. WDepth(w)
      PROVE  SubSeq(w.buf, StartOf(w, k) + 1, StartOf(w, k + 1)) \in Seq(Nat)
  <2>1. k \in 1 .. WDepth(w) + 1 /\ k + 1 \in 1 .. WDepth(w) + 1 /\ k <= k + 1
    BY <1>1
  <2>2. /\ StartOf(w, k) \in Nat /\ StartOf(w, k + 1) \in Nat /\ StartOf(w, k) <= StartOf(w, k + 1)
        /\ StartOf(w, k + 1) <= w.pos /\ w.pos <= Len(w.buf)
    BY <2>1, StartsNest
  <2>3. /\ StartOf(w, k) + 1 \in Nat \ {0} /\ StartOf(w, k + 1) <= Len(w.buf)
        /\ StartOf(w, k) + 1 <= StartOf(w, k + 1) + 1
    BY <1>1, <2>2
  <2> QED
    BY <1>0, <2>2, <2>3, PartOf
<1>3. ASSUME NEW k \in 1 .. WDepth(w) PROVE TagOf(w, w.frames[k]) \in Seq(Nat)
  <2> DEFINE f == w.frames[k]
  <2>1. f \in WriterFrames
    BY WriterFacts
  <2>2. f.at \in Nat /\ f.size \in Nat /\ f.bytes \in Seq(Nat)
        /\ (f.own => f.at + f.size <= w.used) /\ w.used <= Len(w.tags)
    BY <2>1, FrameFacts, TagsUsed
  <2> HIDE DEF f
  <2>3. CASE f.own
    <3>1. f.at + 1 \in Nat \ {0} /\ f.at + f.size \in Nat /\ f.at + 1 <= f.at + f.size + 1
      BY <2>2
    <3>2. f.at + f.size <= Len(w.tags)
      BY <1>1, <2>2, <2>3
    <3>3. SubSeq(w.tags, f.at + 1, f.at + f.size) \in Seq(Nat)
      BY <1>0, <3>1, <3>2, PartOf
    <3> QED
      BY <2>3, <3>3 DEF TagOf, f
  <2>4. CASE ~f.own
    BY <2>2, <2>4 DEF TagOf, f
  <2> QED
    BY <2>3, <2>4
<1>4. Scopes(w) \in [1 .. WDepth(w) -> Parents]
  BY <1>2, <1>3 DEF Scopes, Parents
<1>5. Scopes(w) \in Seq(Parents) /\ Len(Scopes(w)) = WDepth(w)
  BY <1>1, <1>4, FunctionIsSeq
<1>6. Scopes(w) = <<>> <=> w.frames = <<>>
  BY <1>0, <1>5, EmptySeq
<1>7. TreeSize(w) = StartOf(w, 1)
  BY <1>0, <1>1 DEF TreeSize, StartOf
<1>8. StartOf(w, 1) \in Nat /\ StartOf(w, 1) <= Len(w.buf)
  <2>1. 1 \in 1 .. WDepth(w) + 1
    BY <1>1
  <2>2. StartOf(w, 1) \in Nat /\ StartOf(w, 1) <= w.pos /\ w.pos <= Len(w.buf)
    BY <2>1, StartsNest
  <2> QED
    BY <1>1, <2>2
<1>9. Roots(w) \in Seq(Nat)
  <2>1. 1 \in Nat \ {0} /\ 1 <= StartOf(w, 1) + 1
    BY <1>8
  <2>2. SubSeq(w.buf, 1, StartOf(w, 1)) \in Seq(Nat)
    BY <1>0, <1>8, <2>1, PartOf
  <2> QED
    BY <1>7, <2>2 DEF Roots
<1> QED
  BY <1>5, <1>6, <1>7, <1>8, <1>9 DEF Scopes

\* Nothing before the cursor changed: the same tree.
LEMMA Unmoved ==
  ASSUME NEW w, NEW l, WriterInv(w, l), NEW v,
         v.frames = w.frames, v.pos = w.pos, v.tags = w.tags,
         \A m \in Nat \ {0}, n \in Nat :
           n <= w.pos /\ m <= n + 1 => SubSeq(v.buf, m, n) = SubSeq(w.buf, m, n)
  PROVE  Roots(v) = Roots(w) /\ Scopes(v) = Scopes(w)
<1>1. WDepth(w) \in Nat /\ WDepth(v) = WDepth(w) /\ \A k : StartOf(v, k) = StartOf(w, k)
  BY WriterFacts DEF WDepth, StartOf
<1>2. ASSUME NEW k \in 1 .. WDepth(w)
      PROVE  SubSeq(v.buf, StartOf(v, k) + 1, StartOf(v, k + 1))
               = SubSeq(w.buf, StartOf(w, k) + 1, StartOf(w, k + 1))
  <2>1. k \in 1 .. WDepth(w) + 1 /\ k + 1 \in 1 .. WDepth(w) + 1 /\ k <= k + 1
    BY <1>1
  <2>2. /\ StartOf(w, k) \in Nat /\ StartOf(w, k + 1) \in Nat /\ StartOf(w, k) <= StartOf(w, k + 1)
        /\ StartOf(w, k + 1) <= w.pos
    BY <2>1, StartsNest
  <2>3. StartOf(w, k) + 1 \in Nat \ {0} /\ StartOf(w, k) + 1 <= StartOf(w, k + 1) + 1
    BY <2>2
  <2>4. SubSeq(v.buf, StartOf(w, k) + 1, StartOf(w, k + 1))
          = SubSeq(w.buf, StartOf(w, k) + 1, StartOf(w, k + 1))
    <3> DEFINE m == StartOf(w, k) + 1
               n == StartOf(w, k + 1)
    <3>1. m \in Nat \ {0} /\ n \in Nat /\ n <= w.pos /\ m <= n + 1
      BY <2>2, <2>3
    <3> HIDE DEF m, n
    <3>2. SubSeq(v.buf, m, n) = SubSeq(w.buf, m, n)
      BY <3>1
    <3> QED
      BY <3>2 DEF m, n
  <2>5. StartOf(v, k) = StartOf(w, k) /\ StartOf(v, k + 1) = StartOf(w, k + 1)
    BY <1>1
  <2> QED
    BY <2>4, <2>5
<1>3. \A k \in 1 .. WDepth(w) : TagOf(v, v.frames[k]) = TagOf(w, w.frames[k])
  BY DEF TagOf
<1>4. Scopes(v) = Scopes(w)
  BY <1>1, <1>2, <1>3 DEF Scopes
<1>5. TreeSize(v) = TreeSize(w)
  BY DEF TreeSize
<1>6. TreeSize(w) \in Nat /\ TreeSize(w) <= w.pos
  <2>1. 1 \in 1 .. WDepth(w) + 1
    BY <1>1
  <2> QED
    BY <2>1, ScopesType, StartsNest
<1>7. 1 \in Nat \ {0} /\ 1 <= TreeSize(w) + 1
  BY <1>6
<1> QED
  BY <1>4, <1>5, <1>6, <1>7 DEF Roots

\* v is w with octets written where the content of its first n open parents ends, and
\* the other parents gone.
GrownBy(w, n, bytes, v) ==
  /\ n \in 0 .. WDepth(w) /\ bytes \in Seq(Nat)
  /\ StartOf(w, n + 1) + Len(bytes) <= Len(w.buf)
  /\ v.tags = w.tags /\ v.frames = SubSeq(w.frames, 1, n)
  /\ v.pos = StartOf(w, n + 1) + Len(bytes)
  /\ v.buf = Overlay(w.buf, StartOf(w, n + 1), bytes)

\* Then the last of these parents, or the roots, have grown by the octets.
LEMMA GrownScopes ==
  ASSUME NEW w, NEW l, WriterInv(w, l), NEW v, WriterInv(v, l), NEW n, NEW bytes,
         GrownBy(w, n, bytes, v)
  PROVE  /\ Roots(v) = IF n = 0 THEN Roots(w) \o bytes ELSE Roots(w)
         /\ Len(Scopes(v)) = n
         /\ \A k \in 1 .. n :
              Scopes(v)[k] = IF k < n THEN Scopes(w)[k]
                             ELSE [tag |-> Scopes(w)[k].tag, content |-> Scopes(w)[k].content \o bytes]
<1> DEFINE p == StartOf(w, n + 1)
<1>a. /\ n \in 0 .. WDepth(w) /\ bytes \in Seq(Nat) /\ v.tags = w.tags
      /\ v.frames = SubSeq(w.frames, 1, n) /\ v.pos = p + Len(bytes)
  BY DEF GrownBy
<1>0. w.buf \in Seq(Nat) /\ w.frames \in Seq(WriterFrames)
  BY WriterFacts
<1>1. WDepth(w) \in Nat /\ n \in Nat /\ n <= WDepth(w) /\ n + 1 \in 1 .. WDepth(w) + 1
  BY <1>a, WriterFacts
<1>2. p \in Nat /\ p <= w.pos /\ w.pos <= Len(w.buf) /\ Len(bytes) \in Nat
  BY <1>a, <1>1, StartsNest
<1>3. WDepth(v) = n /\ \A k \in 1 .. n : v.frames[k] = w.frames[k]
  BY <1>a, <1>0, <1>1 DEF WDepth
<1>4. \A k \in 1 .. n : StartOf(v, k) = StartOf(w, k)
  BY <1>1, <1>3 DEF StartOf
<1>5. StartOf(v, n + 1) = p + Len(bytes)
  BY <1>a, <1>1, <1>3 DEF StartOf
<1>6. \A k \in 1 .. n : TagOf(v, v.frames[k]) = TagOf(w, w.frames[k])
  BY <1>a, <1>3 DEF TagOf
<1> HIDE DEF p
<1>p. p + Len(bytes) <= Len(w.buf) /\ v.buf = Overlay(w.buf, p, bytes)
  BY DEF p, GrownBy
<1>7. ASSUME NEW i \in Nat, NEW j \in Nat, i <= j, j <= p
      PROVE  SubSeq(v.buf, i + 1, j) = SubSeq(w.buf, i + 1, j)
  <2>1. i + 1 \in Nat \ {0} /\ i + 1 <= j + 1
    BY <1>7
  <2> DEFINE m == i + 1
  <2> HIDE DEF m
  <2>2. m \in Nat \ {0} /\ m <= j + 1
    BY <2>1 DEF m
  <2>3. \A a \in Nat \ {0}, b \in Nat :
          b <= p /\ a <= b + 1 => SubSeq(Overlay(w.buf, p, bytes), a, b) = SubSeq(w.buf, a, b)
    BY <1>a, <1>0, <1>2, <1>p, OverlayBefore
  <2>4. SubSeq(Overlay(w.buf, p, bytes), m, j) = SubSeq(w.buf, m, j)
    BY <1>7, <2>2, <2>3
  <2> QED
    BY <1>p, <2>4 DEF m
<1>8. ASSUME NEW i \in Nat, i <= p
      PROVE  SubSeq(v.buf, i + 1, p + Len(bytes)) = SubSeq(w.buf, i + 1, p) \o bytes
  <2>1. i + 1 \in Nat \ {0} /\ i + 1 <= p + 1
    BY <1>2, <1>8
  <2> DEFINE m == i + 1
  <2> HIDE DEF m
  <2>2. m \in Nat \ {0} /\ m <= p + 1
    BY <2>1 DEF m
  <2>3. SubSeq(Overlay(w.buf, p, bytes), m, p + Len(bytes)) = SubSeq(w.buf, m, p) \o bytes
    BY <1>a, <1>0, <1>2, <1>p, <2>2, OverlayJoin
  <2> QED
    BY <1>p, <2>3 DEF m
<1>9. ASSUME NEW k \in 1 .. n
      PROVE  Scopes(v)[k] = IF k < n THEN Scopes(w)[k]
                            ELSE [tag |-> Scopes(w)[k].tag, content |-> Scopes(w)[k].content \o bytes]
  <2>1. k \in 1 .. WDepth(w) /\ k \in 1 .. WDepth(w) + 1 /\ k + 1 \in 1 .. WDepth(w) + 1
        /\ k \in Nat /\ k + 1 <= n + 1
    BY <1>1
  <2>2. /\ StartOf(w, k) \in Nat /\ StartOf(w, k + 1) \in Nat
        /\ StartOf(w, k) <= StartOf(w, k + 1) /\ StartOf(w, k + 1) <= p
    <3>1. k <= k + 1
      BY <2>1
    <3> QED
      BY <1>1, <2>1, <3>1, StartsNest DEF p
  <2>3. Scopes(w)[k] = [tag |-> TagOf(w, w.frames[k]),
                        content |-> SubSeq(w.buf, StartOf(w, k) + 1, StartOf(w, k + 1))]
    BY <2>1, ScopesType
  <2>4. Scopes(v)[k] = [tag |-> TagOf(w, w.frames[k]),
                        content |-> SubSeq(v.buf, StartOf(w, k) + 1, StartOf(v, k + 1))]
    <3>1. Scopes(v)[k] = [tag |-> TagOf(v, v.frames[k]),
                          content |-> SubSeq(v.buf, StartOf(v, k) + 1, StartOf(v, k + 1))]
      BY <1>3, ScopesType
    <3> QED
      BY <1>4, <1>6, <3>1
  <2>5. CASE k < n
    <3>1. StartOf(v, k + 1) = StartOf(w, k + 1)
      <4>1. k + 1 \in 1 .. n
        BY <1>1, <2>1, <2>5
      <4> QED
        BY <1>4, <4>1
    <3>2. SubSeq(v.buf, StartOf(w, k) + 1, StartOf(w, k + 1))
            = SubSeq(w.buf, StartOf(w, k) + 1, StartOf(w, k + 1))
      BY <1>7, <2>2
    <3> QED
      BY <2>3, <2>4, <2>5, <3>1, <3>2
  <2>6. CASE ~(k < n)
    <3>1. k = n
      BY <1>1, <2>1, <2>6
    <3>2. StartOf(v, k + 1) = p + Len(bytes) /\ StartOf(w, k + 1) = p
      BY <1>5, <3>1 DEF p
    <3>3. StartOf(w, k) <= p
      BY <2>2, <3>2
    <3>4. SubSeq(v.buf, StartOf(w, k) + 1, p + Len(bytes))
            = SubSeq(w.buf, StartOf(w, k) + 1, p) \o bytes
      BY <1>8, <2>2, <3>3
    <3>5. /\ Scopes(w)[k].tag = TagOf(w, w.frames[k])
          /\ Scopes(w)[k].content = SubSeq(w.buf, StartOf(w, k) + 1, p)
      <4> DEFINE t == TagOf(w, w.frames[k])
                 c == SubSeq(w.buf, StartOf(w, k) + 1, StartOf(w, k + 1))
      <4>0. c = SubSeq(w.buf, StartOf(w, k) + 1, p)
        BY <3>2
      <4>1. Scopes(w)[k] = [tag |-> t, content |-> c]
        BY <2>3, Zenon
      <4> HIDE DEF t, c
      <4>2. Scopes(w)[k].tag = t /\ Scopes(w)[k].content = c
        BY <4>1
      <4> QED
        BY <4>0, <4>2 DEF t
    <3>6. Scopes(v)[k] = [tag |-> TagOf(w, w.frames[k]),
                          content |-> SubSeq(w.buf, StartOf(w, k) + 1, p) \o bytes]
      BY <2>4, <3>2, <3>4
    <3> QED
      BY <2>6, <3>5, <3>6
  <2> QED
    BY <2>5, <2>6
<1>10. Roots(v) = IF n = 0 THEN Roots(w) \o bytes ELSE Roots(w)
  <2>1. /\ TreeSize(v) = StartOf(v, 1) /\ TreeSize(w) = StartOf(w, 1) /\ StartOf(w, 1) \in Nat
    BY ScopesType
  <2>2. CASE n = 0
    <3>1. StartOf(v, 1) = p + Len(bytes) /\ StartOf(w, 1) = p
      BY <1>5, <2>2 DEF p
    <3>2. 0 \in Nat /\ 0 <= p /\ 0 + 1 = 1
      BY <1>2
    <3>3. SubSeq(v.buf, 1, p + Len(bytes)) = SubSeq(w.buf, 1, p) \o bytes
      BY <1>8, <3>2
    <3> QED
      BY <2>1, <2>2, <3>1, <3>3 DEF Roots
  <2>3. CASE n # 0
    <3>1. 1 \in 1 .. n /\ 1 \in 1 .. WDepth(w) + 1 /\ 1 <= n + 1
      BY <1>1, <2>3
    <3>2. StartOf(v, 1) = StartOf(w, 1) /\ StartOf(w, 1) <= p
      BY <1>1, <1>4, <3>1, StartsNest DEF p
    <3>3. 0 \in Nat /\ 0 <= StartOf(w, 1) /\ 0 + 1 = 1
      BY <2>1
    <3>4. SubSeq(v.buf, 1, StartOf(w, 1)) = SubSeq(w.buf, 1, StartOf(w, 1))
      BY <1>7, <2>1, <3>2, <3>3
    <3> QED
      BY <2>1, <2>3, <3>2, <3>4 DEF Roots
  <2> QED
    BY <2>2, <2>3
<1>11. Len(Scopes(v)) = n
  BY <1>3, ScopesType
<1> QED
  BY <1>9, <1>10, <1>11

\* A parent was opened: the open tags and contents are as before, and a new one is empty.
LEMMA Opened ==
  ASSUME NEW w, NEW l, WriterInv(w, l),
         NEW tag \in [bytes : Seq(Nat), data : BOOLEAN], ~tag.data => tag.bytes = <<>>,
         BeginResult(w, l, tag) = "OK", WriterInv(Begun(w, tag), l)
  PROVE  /\ Roots(Begun(w, tag)) = Roots(w)
         /\ Scopes(Begun(w, tag)) = Append(Scopes(w), [tag |-> tag.bytes, content |-> <<>>])
<1> DEFINE v   == Begun(w, tag)
           own == Stored(w, tag)
           n   == Len(tag.bytes)
           D   == WDepth(w)
           f   == [start |-> w.pos, data |-> tag.data, own |-> own, at |-> w.used, size |-> n,
                   bytes |-> IF own THEN <<>> ELSE tag.bytes]
           new == [tag |-> tag.bytes, content |-> <<>>]
<1>0. w \in WriterOf(w.format) /\ w.frames \in Seq(WriterFrames) /\ w.tags \in Seq(Nat) /\ w.buf \in Seq(Nat)
      /\ w.storing \in BOOLEAN
  BY WriterFacts DEF WriterInv
<1>1. D \in Nat /\ w.pos \in Nat /\ w.used \in Nat /\ Len(w.tags) \in Nat
  BY WriterFacts
<1>2. tag.bytes \in Seq(Nat) /\ tag.data \in BOOLEAN /\ n \in Nat
  OBVIOUS
<1>3. own \in BOOLEAN
  BY <1>0, <1>2 DEF Stored
<1>4. f \in WriterFrames
  BY <1>1, <1>2, <1>3 DEF WriterFrames
<1>5. /\ v.buf = w.buf /\ v.pos = w.pos /\ v.frames = Append(w.frames, f)
      /\ v.tags = (IF own THEN Overlay(w.tags, w.used, tag.bytes) ELSE w.tags)
  BY <1>0 DEF Begun, WriterOf
<1>6. own => w.used + n <= Len(w.tags)
  <2>1. ~(own /\ TagCost(n) > Len(w.tags) - w.used)
    BY DEF BeginResult
  <2>2. TagCost(n) \in Nat /\ n <= TagCost(n)
    BY <1>2 DEF TagCost
  <2> HIDE DEF own, n
  <2> QED
    BY <1>1, <1>2, <2>1, <2>2
<1>7. f.start = w.pos /\ f.own = own /\ f.at = w.used /\ f.size = n
      /\ (~own => f.bytes = tag.bytes)
  OBVIOUS
<1> HIDE DEF v, f, own, n
<1>8. /\ Len(Append(w.frames, f)) = Len(w.frames) + 1 /\ Append(w.frames, f) # <<>>
      /\ \A k \in 1 .. Len(w.frames) : Append(w.frames, f)[k] = w.frames[k]
      /\ Append(w.frames, f)[Len(w.frames) + 1] = f
  <2>1. w.frames \in Seq(WriterFrames)
    BY <1>0
  <2> QED
    BY <1>4, <2>1, AppendProperties
<1>9. WDepth(v) = D + 1 /\ v.frames[D + 1] = f /\ \A k \in 1 .. D : v.frames[k] = w.frames[k]
  BY <1>5, <1>8 DEF WDepth
<1> HIDE DEF D
<1>d. D = WDepth(w)
  BY DEF D
<1>10. ASSUME NEW k \in 1 .. D + 1 PROVE StartOf(v, k) = StartOf(w, k)
  <2>1. CASE k = D + 1
    BY <1>1, <1>7, <1>9, <1>d, <2>1 DEF StartOf
  <2>2. CASE k # D + 1
    <3>1. k \in 1 .. D /\ ~(k > D) /\ ~(k > D + 1)
      BY <1>1, <2>2
    <3> QED
      BY <1>9, <1>d, <3>1 DEF StartOf
  <2> QED
    BY <2>1, <2>2
<1>11. StartOf(v, D + 2) = w.pos
  BY <1>1, <1>5, <1>9 DEF StartOf
<1>12. ASSUME NEW k \in 1 .. D PROVE TagOf(v, v.frames[k]) = TagOf(w, w.frames[k])
  <2> DEFINE g == w.frames[k]
  <2>1. g \in WriterFrames
    BY <1>d, WriterFacts
  <2>2. g.at \in Nat /\ g.size \in Nat /\ (g.own => g.at + g.size <= w.used) /\ g.own \in BOOLEAN
    BY <1>d, <2>1, FrameFacts, TagsUsed
  <2>3. v.frames[k] = g
    BY <1>9
  <2> HIDE DEF g
  <2>4. CASE own /\ g.own
    <3> DEFINE m == g.at + 1
               j == g.at + g.size
    <3>1. m \in Nat \ {0} /\ j \in Nat /\ j <= w.used /\ m <= j + 1
      BY <2>2, <2>4
    <3> HIDE DEF m, j
    <3>2. w.used + Len(tag.bytes) <= Len(w.tags)
      BY <1>6, <2>4 DEF n
    <3>3. \A a \in Nat \ {0}, b \in Nat :
            b <= w.used /\ a <= b + 1
              => SubSeq(Overlay(w.tags, w.used, tag.bytes), a, b) = SubSeq(w.tags, a, b)
      BY <1>0, <1>1, <1>2, <3>2, OverlayBefore
    <3>4. SubSeq(Overlay(w.tags, w.used, tag.bytes), m, j) = SubSeq(w.tags, m, j)
      BY <3>1, <3>3
    <3>5. v.tags = Overlay(w.tags, w.used, tag.bytes)
      BY <1>5, <2>4
    <3> QED
      BY <2>3, <2>4, <3>4, <3>5 DEF TagOf, m, j, g
  <2>5. CASE ~own
    <3>1. v.tags = w.tags
      BY <1>5, <2>5
    <3> QED
      BY <2>3, <3>1 DEF TagOf, g
  <2>6. CASE ~g.own
    BY <2>3, <2>6 DEF TagOf, g
  <2> QED
    BY <1>3, <2>2, <2>4, <2>5, <2>6
<1>13. TagOf(v, f) = tag.bytes
  <2>1. CASE own
    <3>1. w.used + Len(tag.bytes) <= Len(w.tags) /\ v.tags = Overlay(w.tags, w.used, tag.bytes)
      BY <1>5, <1>6, <2>1 DEF n
    <3>2. SubSeq(Overlay(w.tags, w.used, tag.bytes), w.used + 1, w.used + Len(tag.bytes)) = tag.bytes
      BY <1>0, <1>1, <1>2, <3>1, OverlayRead
    <3> QED
      BY <1>7, <2>1, <3>1, <3>2 DEF TagOf, n
  <2>2. CASE ~own
    BY <1>7, <2>2 DEF TagOf
  <2> QED
    BY <2>1, <2>2
<1>14. /\ Scopes(w) \in Seq(Parents) /\ Len(Scopes(w)) = D /\ Scopes(v) \in Seq(Parents)
       /\ Len(Scopes(v)) = D + 1
  BY <1>9, <1>d, ScopesType DEF v
<1>15. ASSUME NEW k \in 1 .. D PROVE Scopes(v)[k] = Scopes(w)[k]
  <2>1. k \in 1 .. D + 1 /\ k + 1 \in 1 .. D + 1
    BY <1>1
  <2>2. Scopes(w)[k] = [tag |-> TagOf(w, w.frames[k]),
                        content |-> SubSeq(w.buf, StartOf(w, k) + 1, StartOf(w, k + 1))]
    BY <1>d, ScopesType
  <2>3. Scopes(v)[k] = [tag |-> TagOf(v, v.frames[k]),
                        content |-> SubSeq(v.buf, StartOf(v, k) + 1, StartOf(v, k + 1))]
    BY <1>9, <2>1, ScopesType DEF v
  <2>4. StartOf(v, k) = StartOf(w, k) /\ StartOf(v, k + 1) = StartOf(w, k + 1) /\ v.buf = w.buf
        /\ TagOf(v, v.frames[k]) = TagOf(w, w.frames[k])
    BY <1>5, <1>10, <1>12, <2>1
  <2> QED
    BY <2>2, <2>3, <2>4, Zenon
<1>16. Scopes(v)[D + 1] = new
  <2>1. D + 1 \in 1 .. WDepth(v) /\ D + 1 \in 1 .. D + 1 /\ (D + 1) + 1 = D + 2
    BY <1>1, <1>9
  <2>2. Scopes(v)[D + 1] = [tag |-> TagOf(v, v.frames[D + 1]),
                            content |-> SubSeq(v.buf, StartOf(v, D + 1) + 1, StartOf(v, D + 1 + 1))]
    BY <2>1, ScopesType DEF v
  <2>3. StartOf(v, D + 1) = w.pos
    BY <1>7, <1>9, <1>1 DEF StartOf
  <2>4. SubSeq(v.buf, w.pos + 1, w.pos) = <<>>
    <3>1. w.pos \in Int /\ w.pos + 1 \in Int /\ w.pos < w.pos + 1
      BY <1>1
    <3> QED
      BY <3>1, SubSeqEmpty
  <2> QED
    BY <1>9, <1>11, <1>13, <2>1, <2>2, <2>3, <2>4
<1>17. new \in Parents
  BY <1>2 DEF Parents
<1> HIDE DEF new
<1>18. /\ Append(Scopes(w), new) \in Seq(Parents) /\ Len(Append(Scopes(w), new)) = D + 1
       /\ \A k \in 1 .. D : Append(Scopes(w), new)[k] = Scopes(w)[k]
       /\ Append(Scopes(w), new)[D + 1] = new
  BY <1>14, <1>17, AppendProperties
<1>19. Scopes(v) = Append(Scopes(w), new)
  <2>1. \A k \in 1 .. Len(Scopes(v)) : Scopes(v)[k] = Append(Scopes(w), new)[k]
    <3> SUFFICES ASSUME NEW k \in 1 .. D + 1 PROVE Scopes(v)[k] = Append(Scopes(w), new)[k]
      BY <1>14
    <3>1. k \in 1 .. D \/ k = D + 1
      BY <1>1
    <3> QED
      BY <1>15, <1>16, <1>18, <3>1
  <2> QED
    BY <1>14, <1>18, <2>1, SeqEqual
<1>20. Roots(v) = Roots(w)
  <2>1. TreeSize(v) = StartOf(v, 1) /\ TreeSize(w) = StartOf(w, 1)
    BY ScopesType DEF v
  <2>2. 1 \in 1 .. D + 1
    BY <1>1
  <2> QED
    BY <1>5, <1>10, <2>1, <2>2 DEF Roots
<1> QED
  BY <1>19, <1>20 DEF v, new

\* The same, in the builder's words: the octets are put into the last of the parents s,
\* or into the roots.
PutInto(w, s, bytes, v) ==
  /\ Roots(v) = IF s = <<>> THEN Roots(w) \o bytes ELSE Roots(w)
  /\ Scopes(v) = IF s = <<>> THEN s ELSE [s EXCEPT ![Len(s)].content = @ \o bytes]

LEMMA NewContent ==
  ASSUME NEW r \in Parents, NEW c
  PROVE  [r EXCEPT !.content = c] = [tag |-> r.tag, content |-> c]
BY DEF Parents

\* The parents s with octets put at the end of the n-th.
Fed(s, n, bytes) == [s EXCEPT ![n].content = @ \o bytes]

LEMMA ReplaceContent ==
  ASSUME NEW s \in Seq(Parents), NEW n \in 1 .. Len(s), NEW bytes \in Seq(Nat)
  PROVE  /\ Fed(s, n, bytes) \in Seq(Parents) /\ Len(Fed(s, n, bytes)) = Len(s)
         /\ Fed(s, n, bytes)[n] = [tag |-> s[n].tag, content |-> s[n].content \o bytes]
         /\ \A k \in 1 .. Len(s) : k # n => Fed(s, n, bytes)[k] = s[k]
<1> DEFINE c == s[n].content \o bytes
           e == [tag |-> s[n].tag, content |-> c]
<1>1. s[n] \in Parents
  OBVIOUS
<1>2. s[n].tag \in Seq(Nat) /\ s[n].content \in Seq(Nat)
  BY <1>1 DEF Parents
<1>3. c \in Seq(Nat)
  BY <1>2, ConcatProperties
<1> HIDE DEF c
<1>4. e \in Parents
  BY <1>2, <1>3 DEF Parents
<1>5. [s[n] EXCEPT !.content = c] = e
  BY <1>1, NewContent
<1> HIDE DEF e
<1>6. /\ [s EXCEPT ![n] = e] \in Seq(Parents) /\ Len([s EXCEPT ![n] = e]) = Len(s)
      /\ \A k \in 1 .. Len(s) : [s EXCEPT ![n] = e][k] = IF k = n THEN e ELSE s[k]
  BY <1>4, ExceptSeq
<1>7. Fed(s, n, bytes) = [s EXCEPT ![n] = e]
  BY <1>5 DEF c, Fed
<1> QED
  BY <1>6, <1>7 DEF e, c

LEMMA GrownPut ==
  ASSUME NEW w, NEW l, WriterInv(w, l), NEW v, WriterInv(v, l), NEW n, NEW bytes,
         GrownBy(w, n, bytes, v),
         NEW s \in Seq(Parents), Len(s) = n, \A k \in 1 .. n : s[k] = Scopes(w)[k]
  PROVE  PutInto(w, s, bytes, v)
<1>1. /\ Roots(v) = IF n = 0 THEN Roots(w) \o bytes ELSE Roots(w)
      /\ Len(Scopes(v)) = n
      /\ \A k \in 1 .. n :
           Scopes(v)[k] = IF k < n THEN Scopes(w)[k]
                          ELSE [tag |-> Scopes(w)[k].tag, content |-> Scopes(w)[k].content \o bytes]
  BY GrownScopes
<1>2. n \in Nat /\ (s = <<>> <=> n = 0) /\ bytes \in Seq(Nat)
  BY EmptySeq DEF GrownBy
<1>3. Scopes(v) \in Seq(Parents)
  BY ScopesType
<1>4. CASE n = 0
  <2>1. Scopes(v) = <<>>
    BY <1>1, <1>3, <1>4, EmptySeq
  <2> QED
    BY <1>1, <1>2, <1>4, <2>1 DEF PutInto
<1>5. CASE n # 0
  <2> DEFINE u == Fed(s, n, bytes)
  <2>1. n \in 1 .. Len(s)
    BY <1>2, <1>5
  <2>2. /\ u \in Seq(Parents) /\ Len(u) = Len(s)
        /\ u[n] = [tag |-> s[n].tag, content |-> s[n].content \o bytes]
        /\ \A k \in 1 .. Len(s) : k # n => u[k] = s[k]
    BY <1>2, <2>1, ReplaceContent
  <2> HIDE DEF u
  <2>3. ASSUME NEW k \in 1 .. n PROVE Scopes(v)[k] = u[k]
    <3>0. s[k] = Scopes(w)[k]
      OBVIOUS
    <3>1. CASE k = n
      <4>1. Scopes(v)[k] = [tag |-> Scopes(w)[k].tag, content |-> Scopes(w)[k].content \o bytes]
        BY <1>1, <1>2, <3>1
      <4>2. u[k] = [tag |-> s[k].tag, content |-> s[k].content \o bytes]
        BY <2>2, <3>1
      <4> QED
        BY <3>0, <4>1, <4>2, Zenon
    <3>2. CASE k # n
      <4>1. k < n
        BY <1>2, <3>2
      <4>2. Scopes(v)[k] = Scopes(w)[k]
        BY <1>1, <4>1
      <4> QED
        BY <2>2, <3>0, <3>2, <4>2
    <3> QED
      BY <3>1, <3>2
  <2>4. Scopes(v) = u
    BY <1>1, <1>3, <2>2, <2>3, SeqEqual
  <2>5. s # <<>> /\ Roots(v) = Roots(w)
    BY <1>1, <1>2, <1>5
  <2> QED
    BY <2>4, <2>5 DEF PutInto, u, Fed
<1> QED
  BY <1>4, <1>5

\* tlv_tree_writer_write_element adds the element to the innermost parent, or nothing.
LEMMA ElementBuilds ==
  ASSUME NEW w, NEW l, EncodesOctets(w.format), WriterInv(w, l), NEW tag \in Seq(Nat), NEW value \in Seq(Nat),
         NEW o \in WriteElement(w, l, [tag |-> tag, value |-> value])
  PROVE  \/ o.rc # "OK" /\ Roots(o.w) = Roots(w) /\ Scopes(o.w) = Scopes(w)
         \/ /\ o.rc = "OK" /\ Encoded(w.format, [tag |-> tag, value |-> value]).rc = "OK"
            /\ PutInto(w, Scopes(w), Encoded(w.format, [tag |-> tag, value |-> value]).bytes, o.w)
<1> DEFINE e == [tag |-> tag, value |-> value]
           b == Encoded(w.format, e).bytes
<1>1. /\ w.buf \in Seq(Nat) /\ w.pos \in Nat /\ w.count \in Nat
      /\ Fits(w.format, l) /\ w \in WriterOf(w.format) /\ w.frames \in Seq(WriterFrames)
  BY WriterFacts DEF WriterInv
<1>2. Len(w.buf) = l.size /\ w.pos <= Len(w.buf)
  BY DEF WriterInv, Bounded
<1>3. CASE OverLimit(w, l)
  BY <1>3 DEF WriteElement, Refused
<1>4. CASE ~OverLimit(w, l)
  <2>1. PICK p \in WriteAt(w.format, w.buf, w.pos, e) :
          o = [rc |-> p.rc, w |-> [w EXCEPT !.buf = p.buf, !.pos = p.pos,
                                            !.count = IF p.rc = "OK" THEN @ + 1 ELSE @]]
    BY <1>4 DEF WriteElement
  <2>2. Written(w.format, w.buf, w.pos, e, p) \/ NotWritten(w.buf, w.pos, p)
    BY <1>1, <1>2, WriteAtOutcome
  <2> DEFINE v == o.w
  <2>3. o.rc = p.rc /\ v.buf = p.buf /\ v.pos = p.pos /\ v.frames = w.frames /\ v.tags = w.tags
    BY <1>1, <2>1 DEF WriterOf
  <2>4. WriterInv(v, l)
    BY ElementInv
  <2> HIDE DEF v
  <2>5. CASE NotWritten(w.buf, w.pos, p)
    <3>1. /\ p.rc # "OK" /\ v.pos = w.pos
          /\ \A m \in Nat \ {0}, n \in Nat :
               n <= w.pos /\ m <= n + 1 => SubSeq(v.buf, m, n) = SubSeq(w.buf, m, n)
      BY <2>3, <2>5 DEF NotWritten
    <3>2. Roots(v) = Roots(w) /\ Scopes(v) = Scopes(w)
      BY <2>3, <3>1, Unmoved
    <3> QED
      BY <2>3, <3>1, <3>2 DEF v
  <2>6. CASE Written(w.format, w.buf, w.pos, e, p)
    <3>1. /\ p.rc = "OK" /\ Encoded(w.format, e).rc = "OK" /\ b \in Seq(Nat)
          /\ w.pos + Len(b) <= Len(w.buf) /\ p.pos = w.pos + Len(b) /\ p.buf = Overlay(w.buf, w.pos, b)
      BY <2>6 DEF Written
    <3> DEFINE n == WDepth(w)
    <3>2. n \in Nat /\ n \in 0 .. n
      BY WriterFacts
    <3>3. StartOf(w, n + 1) = w.pos
      BY <3>2 DEF StartOf
    <3>4. v.frames = SubSeq(w.frames, 1, n)
      BY <1>1, <2>3, SubSeqFull DEF WDepth
    <3> HIDE DEF b, n
    <3>5. GrownBy(w, n, b, v)
      BY <2>3, <3>1, <3>2, <3>3, <3>4 DEF n, GrownBy
    <3>6. Scopes(w) \in Seq(Parents) /\ Len(Scopes(w)) = n
      BY ScopesType DEF n
    <3>7. PutInto(w, Scopes(w), b, v)
      BY <2>4, <3>5, <3>6, GrownPut
    <3> QED
      BY <2>3, <3>1, <3>7 DEF v, b
  <2> QED
    BY <2>2, <2>5, <2>6
<1> QED
  BY <1>3, <1>4

\* An index of a part is an index of the whole.
LEMMA IndexInside ==
  ASSUME NEW m \in Nat \ {0}, NEW n \in Nat, NEW at \in Nat, n <= at,
         NEW i \in 1 .. n + 1 - m
  PROVE  m + i - 1 \in 1 .. at
OBVIOUS

\* The same octets in the same places.
LEMMA SameParts ==
  ASSUME NEW s \in Seq(Nat), NEW t \in Seq(Nat), NEW at \in Nat, at <= Len(s), at <= Len(t),
         \A i \in 1 .. at : s[i] = t[i]
  PROVE  \A m \in Nat \ {0}, n \in Nat : n <= at /\ m <= n + 1 => SubSeq(s, m, n) = SubSeq(t, m, n)
<1> SUFFICES ASSUME NEW m \in Nat \ {0}, NEW n \in Nat, n <= at, m <= n + 1
             PROVE  SubSeq(s, m, n) = SubSeq(t, m, n)
  OBVIOUS
<1>1. n <= Len(s) /\ n <= Len(t)
  OBVIOUS
<1>2. \A i \in 1 .. n + 1 - m : s[m + i - 1] = t[m + i - 1]
  <2> TAKE i \in 1 .. n + 1 - m
  <2>1. m + i - 1 \in 1 .. at
    BY IndexInside
  <2> QED
    BY <2>1
<1>3. /\ SubSeq(s, m, n) \in Seq(Nat) /\ Len(SubSeq(s, m, n)) = n + 1 - m
      /\ \A i \in 1 .. n + 1 - m : SubSeq(s, m, n)[i] = s[m + i - 1]
  BY <1>1, PartOf
<1>4. /\ SubSeq(t, m, n) \in Seq(Nat) /\ Len(SubSeq(t, m, n)) = n + 1 - m
      /\ \A i \in 1 .. n + 1 - m : SubSeq(t, m, n)[i] = t[m + i - 1]
  BY <1>1, PartOf
<1> QED
  BY <1>2, <1>3, <1>4, SeqEqual

\* Two buffers with the same octets in their first n places.
Agree(s, t, n) == \A i \in 1 .. n : s[i] = t[i]

\* Content that was set aside and put back, after anything happened behind its start.
LEMMA Restored ==
  ASSUME NEW b \in Seq(Nat), NEW d \in Seq(Nat), Len(d) = Len(b),
         NEW at \in Nat, NEW pos \in Nat, at <= pos, pos <= Len(b),
         Agree(d, b, at)
  PROVE  LET v == Overlay(d, at, SubSeq(b, at + 1, pos))
         IN  v \in Seq(Nat) /\ Len(v) = Len(b) /\ Agree(v, b, pos)
<1> DEFINE c == SubSeq(b, at + 1, pos)
           v == Overlay(d, at, c)
<1>1. /\ c \in Seq(Nat) /\ Len(c) = pos - at
      /\ \A i \in 1 .. pos - at : c[i] = b[at + i]
  <2>1. at + 1 \in Nat \ {0} /\ at + 1 <= pos + 1 /\ pos + 1 - (at + 1) = pos - at
    OBVIOUS
  <2>2. /\ c \in Seq(Nat) /\ Len(c) = pos + 1 - (at + 1)
        /\ \A i \in 1 .. pos + 1 - (at + 1) : c[i] = b[at + 1 + i - 1]
    BY <2>1, PartOf
  <2> QED
    BY <2>1, <2>2
<1> HIDE DEF c
<1>2. v = Overlay(d, at, c)
  OBVIOUS
<1> HIDE DEF v
<1>3. Len(b) \in Nat /\ at + Len(c) = pos /\ at + Len(c) <= Len(d)
  BY <1>1
<1>4. /\ v \in Seq(Nat) /\ Len(v) = Len(b)
      /\ \A i \in 1 .. Len(b) : v[i] = IF i > at /\ i <= pos THEN c[i - at] ELSE d[i]
  <2> DEFINE o == Overlay(d, at, c)
  <2>1. /\ o \in Seq(Nat) /\ Len(o) = Len(d)
        /\ \A i \in 1 .. Len(d) : o[i] = IF i > at /\ i <= at + Len(c) THEN c[i - at] ELSE d[i]
    BY <1>1, <1>3, OverlayType
  <2> HIDE DEF o
  <2> QED
    BY <1>2, <1>3, <2>1 DEF o
<1>5. \A i \in 1 .. at : d[i] = b[i]
  BY DEF Agree
<1>6. \A i \in 1 .. pos : v[i] = b[i]
  <2> TAKE i \in 1 .. pos
  <2>1. i \in 1 .. Len(b)
    BY <1>3
  <2>2. CASE i > at
    <3>1. i - at \in 1 .. pos - at /\ at + (i - at) = i
      BY <2>2
    <3>2. v[i] = c[i - at]
      BY <1>4, <2>1, <2>2
    <3> QED
      BY <1>1, <3>1, <3>2
  <2>3. CASE ~(i > at)
    <3>1. i \in 1 .. at
      BY <2>3
    <3> QED
      BY <1>4, <1>5, <2>1, <2>3, <3>1
  <2> QED
    BY <2>2, <2>3
<1> QED
  BY <1>4, <1>6 DEF v, c, Agree

\* tlv_tree_writer_end encodes the innermost parent into the one below it, or puts its
\* content back as it was.
LEMMA EndBuilds ==
  ASSUME NEW w, NEW l, EncodesOctets(w.format), WriterInv(w, l), NEW o \in End(w)
  PROVE  \/ o.rc # "OK" /\ Roots(o.w) = Roots(w) /\ Scopes(o.w) = Scopes(w)
         \/ /\ o.rc = "OK" /\ Scopes(w) # <<>>
            /\ LET top == Scopes(w)[Len(Scopes(w))]
                   c == Encoded(w.format, [tag |-> top.tag, value |-> top.content])
                   s == SubSeq(Scopes(w), 1, Len(Scopes(w)) - 1)
               IN  c.rc = "OK" /\ PutInto(w, s, c.bytes, o.w)
<1>1. CASE w.frames = <<>> \/ Len(Content(w)) > Len(w.scratch)
  BY <1>1 DEF End, Refused
<1>2. CASE ~(w.frames = <<>> \/ Len(Content(w)) > Len(w.scratch))
  <2> DEFINE start == Top(w).start
             D == WDepth(w)
             top == Scopes(w)[D]
             s == SubSeq(Scopes(w), 1, D - 1)
  <2>1. PICK p \in WriteAt(w.format, w.buf, start, Parent(w)) :
          o = [rc |-> p.rc, w |-> Ended(w, p)]
    BY <1>2 DEF End
  <2>2. /\ w.buf \in Seq(Nat) /\ Fits(w.format, l) /\ w \in WriterOf(w.format)
        /\ w.frames \in Seq(WriterFrames)
    BY WriterFacts DEF WriterInv
  <2>3. w.pos \in Nat /\ l.size \in Nat /\ Len(w.buf) = l.size /\ w.pos <= l.size /\ Len(w.buf) \in Nat
    BY WriterFacts DEF WriterInv, Bounded
  <2>4. /\ Top(w) \in WriterFrames /\ Top(w).start <= w.pos
        /\ Content(w) \in Seq(Nat) /\ Len(Content(w)) = w.pos - Top(w).start
        /\ Parent(w) = [tag |-> TagOf(w, Top(w)), value |-> Content(w)]
        /\ TagOf(w, Top(w)) \in Seq(Nat)
    BY <1>2, EndFacts
  <2>5. start \in Nat /\ D \in Nat /\ D \in 1 .. D
    BY <1>2, <2>4, FrameFacts, WriterFacts
  <2>6. start <= Len(w.buf)
    BY <2>3, <2>4, <2>5
  <2>7. Scopes(w) \in Seq(Parents) /\ Len(Scopes(w)) = D /\ Scopes(w) # <<>>
    BY <1>2, ScopesType
  <2>8. top = [tag |-> TagOf(w, Top(w)), content |-> Content(w)]
    <3>1. StartOf(w, D) = start /\ StartOf(w, D + 1) = w.pos
      BY <2>5 DEF StartOf, Top
    <3>2. top = [tag |-> TagOf(w, w.frames[D]),
                 content |-> SubSeq(w.buf, StartOf(w, D) + 1, StartOf(w, D + 1))]
      BY <2>5, ScopesType
    <3> QED
      BY <3>1, <3>2, Zenon DEF Top, Content
  <2>9. Parent(w) = [tag |-> top.tag, value |-> top.content]
    BY <2>4, <2>8
  <2>10. o.rc = p.rc /\ WriterInv(o.w, l)
    BY <2>1, EndInv
  <2> HIDE DEF start
  <2>11. Written(w.format, w.buf, start, Parent(w), p) \/ NotWritten(w.buf, start, p)
    BY <2>2, <2>3, <2>4, <2>5, <2>6, WriteAtOutcome
  <2>12. CASE Written(w.format, w.buf, start, Parent(w), p)
    <3> DEFINE b == Encoded(w.format, Parent(w)).bytes
               v == o.w
               n == D - 1
    <3>1. /\ p.rc = "OK" /\ Encoded(w.format, Parent(w)).rc = "OK" /\ b \in Seq(Nat)
          /\ start + Len(b) <= Len(w.buf) /\ p.pos = start + Len(b) /\ p.buf = Overlay(w.buf, start, b)
      BY <2>12 DEF Written
    <3>2. /\ v.buf = p.buf /\ v.pos = p.pos /\ v.tags = w.tags
          /\ v.frames = SubSeq(w.frames, 1, Len(w.frames) - 1)
      BY <2>1, <2>2, <3>1 DEF Ended, WriterOf
    <3>3. n \in 0 .. D /\ n + 1 = D /\ StartOf(w, n + 1) = start /\ n \in Nat
      BY <2>5 DEF StartOf, Top, start
    <3>4. s \in Seq(Parents) /\ Len(s) = n /\ \A k \in 1 .. n : s[k] = Scopes(w)[k]
      BY <2>5, <2>7
    <3> HIDE DEF b, v, n, s, top, D
    <3>5. GrownBy(w, n, b, v)
      BY <3>1, <3>2, <3>3 DEF n, D, WDepth, GrownBy
    <3>6. WriterInv(v, l)
      BY <2>10 DEF v
    <3>7. PutInto(w, s, b, v)
      BY <3>4, <3>5, <3>6, GrownPut
    <3> QED
      BY <2>7, <2>9, <2>10, <3>1, <3>7 DEF v, b, s, top
  <2>13. CASE NotWritten(w.buf, start, p)
    <3> DEFINE v == o.w
    <3>1. /\ p.rc # "OK" /\ p.buf \in Seq(Nat) /\ Len(p.buf) = Len(w.buf)
          /\ \A m \in Nat \ {0}, n \in Nat :
               n <= start /\ m <= n + 1 => SubSeq(p.buf, m, n) = SubSeq(w.buf, m, n)
      BY <2>13 DEF NotWritten
    <3>2. /\ v.frames = w.frames /\ v.pos = w.pos /\ v.tags = w.tags
          /\ v.buf = Overlay(p.buf, start, Content(w))
      <4>1. Parent(w).value = Content(w)
        BY <2>4
      <4>2. v = [w EXCEPT !.buf = Overlay(p.buf, start, Content(w)), !.scratch = Saved(w)]
        BY <2>1, <3>1, <4>1 DEF Ended, start
      <4> QED
        BY <2>2, <4>2 DEF WriterOf
    <3>3. start + Len(Content(w)) = w.pos /\ start + Len(Content(w)) <= Len(p.buf) /\ start <= w.pos
      BY <2>3, <2>4, <2>5, <3>1 DEF start
    <3> HIDE DEF v
    <3>4. \A m \in Nat \ {0}, n \in Nat :
            n <= w.pos /\ m <= n + 1 => SubSeq(v.buf, m, n) = SubSeq(w.buf, m, n)
      <4>1. w.pos \in Nat /\ w.pos <= Len(w.buf)
        BY <2>3
      <4>2. Content(w) = SubSeq(w.buf, start + 1, w.pos)
        BY DEF Content, start
      <4> DEFINE b == w.buf
                 d == p.buf
                 vb == v.buf
                 pos == w.pos
                 at == start
      <4>3. b \in Seq(Nat) /\ d \in Seq(Nat) /\ vb = Overlay(d, at, SubSeq(b, at + 1, pos))
        BY <2>2, <3>1, <3>2, <4>2
      <4>4. Len(d) = Len(b) /\ at \in Nat /\ pos \in Nat /\ at <= pos /\ pos <= Len(b) /\ at <= Len(b)
        BY <2>5, <2>6, <3>1, <3>3, <4>1
      <4>5. \A m \in Nat \ {0}, n \in Nat : n <= at /\ m <= n + 1 => SubSeq(d, m, n) = SubSeq(b, m, n)
        BY <3>1
      <4> HIDE DEF b, d, vb, pos, at
      <4>6. Agree(d, b, at)
        <5>1. 1 \in Nat \ {0} /\ 1 <= at + 1 /\ at <= Len(b) /\ at <= Len(d) /\ at + 1 - 1 = at
          BY <4>4
        <5>2. SubSeq(d, 1, at) = SubSeq(b, 1, at)
          <6> DEFINE one == 1
          <6>1. one \in Nat \ {0} /\ at \in Nat /\ at <= at /\ one <= at + 1
            BY <4>4, <5>1
          <6> HIDE DEF one
          <6>2. SubSeq(d, one, at) = SubSeq(b, one, at)
            BY <4>5, <6>1
          <6> QED
            BY <6>2 DEF one
        <5>3. \A i \in 1 .. at + 1 - 1 : SubSeq(d, 1, at)[i] = d[1 + i - 1]
          BY <4>3, <4>4, <5>1, PartOf
        <5>4. \A i \in 1 .. at + 1 - 1 : SubSeq(b, 1, at)[i] = b[1 + i - 1]
          BY <4>3, <4>4, <5>1, PartOf
        <5>5. ASSUME NEW i \in 1 .. at PROVE d[i] = b[i]
          <6>1. i \in 1 .. at + 1 - 1 /\ 1 + i - 1 = i
            BY <4>4
          <6> QED
            BY <5>2, <5>3, <5>4, <6>1
        <5> QED
          BY <5>5 DEF Agree
      <4>7. vb \in Seq(Nat) /\ Len(vb) = Len(b) /\ Agree(vb, b, pos)
        BY <4>3, <4>4, <4>6, Restored
      <4>8. \A m \in Nat \ {0}, n \in Nat : n <= pos /\ m <= n + 1 => SubSeq(vb, m, n) = SubSeq(b, m, n)
        <5>1. \A i \in 1 .. pos : vb[i] = b[i]
          BY <4>7 DEF Agree
        <5> QED
          BY <4>3, <4>4, <4>7, <5>1, SameParts
      <4> QED
        BY <4>8 DEF b, vb, pos
    <3>5. Roots(v) = Roots(w) /\ Scopes(v) = Scopes(w)
      BY <3>2, <3>4, Unmoved
    <3> QED
      BY <2>10, <3>1, <3>5 DEF v
  <2> QED
    BY <2>11, <2>12, <2>13
<1> QED
  BY <1>1, <1>2

-----------------------------------------------------------------------------
LEMMA BuildsInit == Init => Builder!Init
<1> SUFFICES ASSUME Init PROVE Builder!Init
  OBVIOUS
<1>1. WriterInv(wr, limits) /\ call \in Calls
  BY InitInv DEF IInv
<1>2. wr.frames = <<>> /\ wr.pos = 0 /\ result = "OK"
  BY DEF Init, TreeWriterInit
<1>3. Scopes(wr) = <<>>
  BY <1>1, <1>2, ScopesType
<1>4. Roots(wr) = <<>>
  <2>1. TreeSize(wr) = 0
    BY <1>2 DEF TreeSize
  <2>2. 1 \in Int /\ 0 \in Int /\ 0 < 1
    OBVIOUS
  <2>3. SubSeq(wr.buf, 1, 0) = <<>>
    BY <2>2, SubSeqEmpty
  <2> QED
    BY <2>1, <2>3 DEF Roots
<1>5. wr.format \in Formats
  BY InitInv DEF IInv
<1> QED
  BY <1>1, <1>2, <1>3, <1>4, <1>5 DEF Builder!Init

\* No call changes the writer's format.
LEMMA FormatKept ==
  ASSUME NEW w, w \in WriterOf(w.format), NEW l
  PROVE  /\ \A t : \A o \in Begin(w, l, t) : o.w.format = w.format
         /\ \A e : \A o \in WriteElement(w, l, e) : o.w.format = w.format
         /\ \A o \in End(w) : o.w.format = w.format
         /\ \A on, n : \A o \in SetTagStorage(w, on, n) : o.w.format = w.format
<1>1. ASSUME NEW t, NEW o \in Begin(w, l, t) PROVE o.w.format = w.format
  <2>1. o.w = w \/ o.w = Begun(w, t)
    BY DEF Begin, Refused
  <2> QED
    BY <2>1 DEF Begun, WriterOf
<1>2. ASSUME NEW e, NEW o \in WriteElement(w, l, e) PROVE o.w.format = w.format
  <2>1. CASE OverLimit(w, l)
    BY <2>1 DEF WriteElement, Refused
  <2>2. CASE ~OverLimit(w, l)
    <3>1. PICK p \in WriteAt(w.format, w.buf, w.pos, e) :
            o = [rc |-> p.rc, w |-> [w EXCEPT !.buf = p.buf, !.pos = p.pos,
                                              !.count = IF p.rc = "OK" THEN @ + 1 ELSE @]]
      BY <2>2 DEF WriteElement
    <3>2. o.w = [w EXCEPT !.buf = p.buf, !.pos = p.pos,
                          !.count = IF p.rc = "OK" THEN @ + 1 ELSE @]
      BY <3>1
    <3> QED
      BY <3>2 DEF WriterOf
  <2> QED
    BY <2>1, <2>2
<1>3. ASSUME NEW o \in End(w) PROVE o.w.format = w.format
  <2>1. CASE w.frames = <<>> \/ Len(Content(w)) > Len(w.scratch)
    BY <2>1 DEF End, Refused
  <2>2. CASE ~(w.frames = <<>> \/ Len(Content(w)) > Len(w.scratch))
    <3>1. PICK p \in WriteAt(w.format, w.buf, Top(w).start, Parent(w)) :
            o = [rc |-> p.rc, w |-> Ended(w, p)]
      BY <2>2 DEF End
    <3>2. Ended(w, p).format = w.format
      BY DEF Ended, WriterOf
    <3> QED
      BY <3>1, <3>2
  <2> QED
    BY <2>1, <2>2
<1>4. ASSUME NEW on, NEW n, NEW o \in SetTagStorage(w, on, n) PROVE o.w.format = w.format
  <2>1. o.w = w \/ o.w = [w EXCEPT !.storing = on, !.used = 0, !.tags = [i \in 1 .. n |-> 0]]
    BY DEF SetTagStorage, Refused
  <2> QED
    BY <2>1 DEF WriterOf
<1> QED
  BY <1>1, <1>2, <1>3, <1>4

\* A step of the builder, in the writer's words.
BuilderCall(c) ==
  \/ result' # "OK" /\ Roots(wr') = Roots(wr) /\ Scopes(wr') = Scopes(wr)
  \/ /\ result' = "OK" /\ c.kind = "BEGIN" /\ Roots(wr') = Roots(wr)
     /\ Scopes(wr') = Append(Scopes(wr), [tag |-> c.tag, content |-> <<>>])
  \/ LET b == Encoded(wr.format, [tag |-> c.tag, value |-> c.value])
     IN  /\ result' = "OK" /\ c.kind = "ELEMENT" /\ b.rc = "OK"
         /\ PutInto(wr, Scopes(wr), b.bytes, wr')
  \/ LET top == Scopes(wr)[Len(Scopes(wr))]
         b   == Encoded(wr.format, [tag |-> top.tag, value |-> top.content])
     IN  /\ result' = "OK" /\ c.kind = "END" /\ Scopes(wr) # <<>> /\ b.rc = "OK"
         /\ PutInto(wr, SubSeq(Scopes(wr), 1, Len(Scopes(wr)) - 1), b.bytes, wr')
  \/ /\ result' = "OK" /\ c.kind = "STORAGE" /\ Scopes(wr) = <<>>
     /\ Roots(wr') = Roots(wr) /\ Scopes(wr') = Scopes(wr)

LEMMA IsBuilderStep ==
  ASSUME call' \in Calls, wr'.format = wr.format, BuilderCall(call')
  PROVE  Builder!Next
<1> DEFINE c == call'
<1>1. \/ result' = "OK" /\ (Builder!Open(c) \/ Builder!Add(c) \/ Builder!Close(c) \/ Builder!Configure(c))
      \/ result' # "OK" /\ Roots(wr)' = Roots(wr) /\ Scopes(wr)' = Scopes(wr)
  <2> USE DEF BuilderCall, PutInto, Builder!Open, Builder!Add, Builder!Close, Builder!Configure,
              Builder!Put
  <2>1. Roots(wr)' = Roots(wr') /\ Scopes(wr)' = Scopes(wr')
    BY DEF Roots, Scopes, TreeSize, TagOf, StartOf, WDepth
  <2> QED
    BY <2>1
<1> QED
  BY <1>1 DEF Builder!Next

LEMMA StepBuilds ==
  ASSUME EncoderSound, IInv, Next
  PROVE  BuilderCall(call') /\ call' \in Calls /\ wr'.format = wr.format
<1>0. /\ WriterInv(wr, limits) /\ wr \in WriterOf(wr.format) /\ wr.format \in Formats
      /\ EncodesOctets(wr.format)
  BY DEF IInv, WriterInv, EncoderSound
<1>1. call' \in Calls
  BY StepIsCall
<1>2. ASSUME NEW t \in Tags(wr.format), NEW o \in Begin(wr, limits, t),
             wr' = o.w, result' = o.rc, call' = Call("BEGIN", t.bytes, <<>>)
      PROVE  BuilderCall(call') /\ wr'.format = wr.format
  <2>1. t \in [bytes : Seq(Nat), data : BOOLEAN] /\ (~t.data => t.bytes = <<>>)
    BY <1>0, CallerFacts
  <2>2. WriterInv(o.w, limits)
    BY <1>0, <2>1, BeginInv
  <2>3. wr'.format = wr.format
    BY <1>0, <1>2, FormatKept
  <2>4. call'.kind = "BEGIN" /\ call'.tag = t.bytes
    BY <1>2 DEF Call
  <2>5. CASE BeginResult(wr, limits, t) # "OK"
    <3>1. o.rc # "OK" /\ o.w = wr
      BY <2>5 DEF Begin, Refused
    <3> QED
      BY <1>2, <2>3, <3>1 DEF BuilderCall
  <2>6. CASE BeginResult(wr, limits, t) = "OK"
    <3>1. o.rc = "OK" /\ o.w = Begun(wr, t)
      BY <2>6 DEF Begin
    <3>2. /\ Roots(Begun(wr, t)) = Roots(wr)
          /\ Scopes(Begun(wr, t)) = Append(Scopes(wr), [tag |-> t.bytes, content |-> <<>>])
      BY <1>0, <2>1, <2>2, <2>6, <3>1, Opened
    <3> QED
      BY <1>2, <2>3, <2>4, <3>1, <3>2 DEF BuilderCall
  <2> QED
    BY <2>5, <2>6
<1>3. ASSUME NEW t \in Tags(wr.format), NEW v \in Values(wr.format),
             NEW o \in WriteElement(wr, limits, [tag |-> t.bytes, value |-> v]),
             wr' = o.w, result' = o.rc, call' = Call("ELEMENT", t.bytes, v)
      PROVE  BuilderCall(call') /\ wr'.format = wr.format
  <2>1. t.bytes \in Seq(Nat) /\ v \in Seq(Nat)
    BY <1>0, CallerFacts
  <2>2. wr'.format = wr.format
    BY <1>0, <1>3, FormatKept
  <2>3. call'.kind = "ELEMENT" /\ call'.tag = t.bytes /\ call'.value = v
    BY <1>3 DEF Call
  <2>4. \/ o.rc # "OK" /\ Roots(o.w) = Roots(wr) /\ Scopes(o.w) = Scopes(wr)
        \/ /\ o.rc = "OK" /\ Encoded(wr.format, [tag |-> t.bytes, value |-> v]).rc = "OK"
           /\ PutInto(wr, Scopes(wr), Encoded(wr.format, [tag |-> t.bytes, value |-> v]).bytes, o.w)
    BY <1>0, <2>1, ElementBuilds
  <2> QED
    BY <1>3, <2>2, <2>3, <2>4 DEF BuilderCall
<1>4. ASSUME NEW o \in End(wr), wr' = o.w, result' = o.rc, call' = Call("END", <<>>, <<>>)
      PROVE  BuilderCall(call') /\ wr'.format = wr.format
  <2>1. wr'.format = wr.format
    BY <1>0, <1>4, FormatKept
  <2>2. call'.kind = "END"
    BY <1>4 DEF Call
  <2> QED
    BY <1>0, <1>4, <2>1, <2>2, EndBuilds DEF BuilderCall
<1>5. ASSUME NEW on \in BOOLEAN, NEW n \in Nat, NEW o \in SetTagStorage(wr, on, n),
             wr' = o.w, result' = o.rc, call' = Call("STORAGE", <<>>, <<>>)
      PROVE  BuilderCall(call') /\ wr'.format = wr.format
  <2>1. wr'.format = wr.format
    BY <1>0, <1>5, FormatKept
  <2>2. call'.kind = "STORAGE"
    BY <1>5 DEF Call
  <2>3. CASE wr.frames # <<>>
    <3>1. o.rc # "OK" /\ o.w = wr
      BY <2>3 DEF SetTagStorage, Refused
    <3> QED
      BY <1>5, <2>1, <3>1 DEF BuilderCall
  <2>4. CASE wr.frames = <<>>
    <3>1. /\ o.rc = "OK" /\ o.w.frames = wr.frames /\ o.w.pos = wr.pos /\ o.w.buf = wr.buf
          /\ WriterInv(o.w, limits)
      <4>1. o = [rc |-> "OK", w |-> [wr EXCEPT !.storing = on, !.used = 0,
                                               !.tags = [i \in 1 .. n |-> 0]]]
        BY <2>4 DEF SetTagStorage
      <4>2. WriterInv(o.w, limits)
        BY <1>0, StorageInv
      <4>3. o.rc = "OK" /\ o.w.frames = wr.frames /\ o.w.pos = wr.pos /\ o.w.buf = wr.buf
        BY <1>0, <4>1 DEF WriterOf
      <4> QED
        BY <4>2, <4>3
    <3>2. Scopes(wr) = <<>> /\ Scopes(o.w) = <<>>
      BY <1>0, <2>4, <3>1, ScopesType
    <3>3. Roots(o.w) = Roots(wr)
      BY <3>1 DEF Roots, TreeSize
    <3> QED
      BY <1>5, <2>1, <2>2, <3>1, <3>2, <3>3 DEF BuilderCall
  <2> QED
    BY <2>3, <2>4
<1>6. ASSUME wr' = wr, result' # "OK" PROVE BuilderCall(call') /\ wr'.format = wr.format
  BY <1>6 DEF BuilderCall
<1> QED
  BY <1>1, <1>2, <1>3, <1>4, <1>5, <1>6, StepIsCall

LEMMA BuildsStep == EncoderSound /\ IInv /\ [Next]_vars => [Builder!Next]_Builder!vars
<1> SUFFICES ASSUME EncoderSound, IInv, [Next]_vars PROVE [Builder!Next]_Builder!vars
  OBVIOUS
<1>1. CASE UNCHANGED vars
  <2>1. wr' = wr /\ call' = call /\ result' = result
    BY <1>1 DEF vars
  <2>2. UNCHANGED Builder!vars
    BY <2>1 DEF Builder!vars, Roots, Scopes, TreeSize, TagOf, StartOf, WDepth
  <2> QED
    BY <2>2
<1>2. CASE Next
  BY <1>2, StepBuilds, IsBuilderStep
<1> QED
  BY <1>1, <1>2

(***************************************************************************)
(* The writer implements its abstract promise (Builds): a call that says OK *)
(* has put exactly the encoding of its element into the innermost open      *)
(* parent, and every other one, an encoder that failed half way through END *)
(* included, has left the closed roots and all open parents as they were.   *)
(***************************************************************************)
THEOREM WriterBuilds == EncoderSound => (Spec => Builds)
<1> SUFFICES ASSUME EncoderSound PROVE Spec => Builds
  OBVIOUS
<1>1. IInv /\ [Next]_vars => IInv'
  BY StepInv
<1>2. IInv /\ [Next]_vars => [Builder!Next]_Builder!vars
  BY BuildsStep
<1> QED
  BY <1>1, <1>2, InitInv, BuildsInit, PTL DEF Spec, Builds, Builder!Spec

-----------------------------------------------------------------------------
(***************************************************************************)
(* Measured encoding (Staging): its writer is one of the writers above, on  *)
(* a workspace that the replays enlarge.                                    *)
(***************************************************************************)
\* What is asked of the format of a measured encoding: octets, and a failing encoder that
\* stays inside its destination, however large the workspace has become.
FormatsSound ==
  \A j \in Jobs : /\ EncodesOctets(j.format)
                  /\ \A n \in Nat : \A t \in Leftovers(j.format, n) : t \in Seq(Nat) /\ Len(t) <= n

\* The cursor of a source stands on a node, or nowhere.
SourceOK(j, s) ==
  IF j.source = "preorder"
    THEN /\ s \in [at : 0 .. Len(j.nodes), available : BOOLEAN, open : Nat, done : BOOLEAN]
         /\ s.available => s.at # 0
    ELSE s \in [next : 0 .. Len(j.nodes), depth : Nat, single : BOOLEAN, closing : BOOLEAN]

\* Events and nodes hold octets, numbers and links.
EventOK(e) == /\ e.tag \in [bytes : Seq(Nat), data : BOOLEAN] /\ e.value \in Seq(Nat)
              /\ ~e.tag.data => e.tag.bytes = <<>>
              /\ e.depth \in Nat

NodeOK(j, n) == /\ n.tag \in [bytes : Seq(Nat), data : BOOLEAN] /\ n.value \in Seq(Nat)
                /\ ~n.tag.data => n.tag.bytes = <<>>
                /\ n.parent \in BOOLEAN /\ n.depth \in Nat
                /\ n.first \in 0 .. Len(j.nodes) /\ n.next \in 0 .. Len(j.nodes)
                /\ n.up \in 0 .. Len(j.nodes)

LEMMA JobFacts ==
  ASSUME NEW j \in Jobs
  PROVE  /\ Len(j.nodes) \in Nat /\ \A k \in 1 .. Len(j.nodes) : NodeOK(j, j.nodes[k])
         /\ j.frames \in Nat /\ j.depth \in Nat /\ j.elements \in Nat
         /\ (j.nodes # <<>> => 1 \in 1 .. Len(j.nodes))
<1> DEFINE S == [tag : [bytes : Seq(Nat), data : BOOLEAN], value : Seq(Nat), parent : BOOLEAN,
                 depth : Nat, first : Nat, next : Nat, up : Nat]
<1>1. j.nodes \in Seq(S) /\ j.frames \in Nat /\ j.depth \in Nat /\ j.elements \in Nat
  BY JobsAssumption
<1> HIDE DEF S
<1>2. Len(j.nodes) \in Nat /\ (j.nodes # <<>> => 1 \in 1 .. Len(j.nodes))
  BY <1>1, EmptySeq
<1>3. ASSUME NEW k \in 1 .. Len(j.nodes) PROVE NodeOK(j, j.nodes[k])
  <2>1. j.nodes[k] \in S
    BY <1>1, <1>2
  <2>2. /\ ~j.nodes[k].tag.data => j.nodes[k].tag.bytes = <<>>
        /\ {j.nodes[k].first, j.nodes[k].next, j.nodes[k].up} \subseteq 0 .. Len(j.nodes)
    BY JobsAssumption
  <2> QED
    BY <2>1, <2>2 DEF NodeOK, S
<1> QED
  BY <1>1, <1>2, <1>3

\* An event made of a node, or an END.
LEMMA EventIsOK ==
  /\ \A kind : \A d \in Nat : EventOK(Event(kind, Zeroed, d))
  /\ \A kind : \A d \in Nat : \A j \in Jobs : \A k \in 1 .. Len(j.nodes) :
       EventOK(Event(kind, j.nodes[k], d))
<1>1. ASSUME NEW kind, NEW d \in Nat PROVE EventOK(Event(kind, Zeroed, d))
  BY DEF EventOK, Event, Zeroed
<1>2. ASSUME NEW kind, NEW d \in Nat, NEW j \in Jobs, NEW k \in 1 .. Len(j.nodes)
      PROVE  EventOK(Event(kind, j.nodes[k], d))
  <2>1. NodeOK(j, j.nodes[k])
    BY JobFacts
  <2> QED
    BY <2>1 DEF EventOK, Event, NodeOK
<1> QED
  BY <1>1, <1>2

\* Either source starts, goes on and synthesises its ENDs on the nodes of the job.
LEMMA FreshOK ==
  ASSUME NEW j \in Jobs PROVE SourceOK(j, Fresh(j))
<1>1. Len(j.nodes) \in Nat /\ (j.nodes # <<>> => 1 \in 1 .. Len(j.nodes))
  BY JobFacts
<1>2. CASE j.source = "preorder"
  BY <1>1, <1>2 DEF SourceOK, Fresh, PreorderSource
<1>3. CASE j.source # "preorder"
  <2> DEFINE first == IF j.nodes = <<>> THEN 0 ELSE 1
             single == j.source = "node"
  <2>1. first \in 0 .. Len(j.nodes) /\ single \in BOOLEAN
    BY <1>1
  <2> HIDE DEF first, single
  <2>2. DocumentSource(first, single) \in [next : 0 .. Len(j.nodes), depth : Nat,
                                           single : BOOLEAN, closing : BOOLEAN]
    BY <2>1 DEF DocumentSource
  <2> QED
    BY <1>3, <2>2 DEF SourceOK, Fresh, first, single
<1> QED
  BY <1>2, <1>3

LEMMA OnwardOK ==
  ASSUME NEW j \in Jobs, j.source # "preorder", NEW s, SourceOK(j, s), NEW k \in 1 .. Len(j.nodes)
  PROVE  SourceOK(j, Onward(j, s, k))
<1>1. NodeOK(j, j.nodes[k]) /\ Len(j.nodes) \in Nat
  BY JobFacts
<1>2. s \in [next : 0 .. Len(j.nodes), depth : Nat, single : BOOLEAN, closing : BOOLEAN]
  BY DEF SourceOK
<1>3. /\ j.nodes[k].next \in 0 .. Len(j.nodes) /\ j.nodes[k].up \in 0 .. Len(j.nodes)
      /\ 0 \in 0 .. Len(j.nodes)
  BY <1>1 DEF NodeOK
<1>4. Onward(j, s, k) \in [next : 0 .. Len(j.nodes), depth : Nat, single : BOOLEAN, closing : BOOLEAN]
  <2>1. s.depth # 0 => s.depth - 1 \in Nat
    BY <1>2
  <2> QED
    BY <1>2, <1>3, <2>1 DEF Onward
<1> QED
  BY <1>4 DEF SourceOK

LEMMA DocumentNextOK ==
  ASSUME NEW j \in Jobs, j.source # "preorder", NEW s, SourceOK(j, s)
  PROVE  /\ SourceOK(j, document_next(j, s).src)
         /\ (document_next(j, s).rc = "OK" => EventOK(document_next(j, s).event))
<1> DEFINE p == document_next(j, s)
           k == s.next
<1>1. s \in [next : 0 .. Len(j.nodes), depth : Nat, single : BOOLEAN, closing : BOOLEAN]
      /\ Len(j.nodes) \in Nat
  BY JobFacts DEF SourceOK
<1>2. CASE k = 0
  BY <1>2 DEF document_next
<1>3. CASE k # 0
  <2>1. k \in 1 .. Len(j.nodes) /\ s.depth \in Nat
    BY <1>1, <1>3
  <2>2. NodeOK(j, j.nodes[k]) /\ SourceOK(j, Onward(j, s, k))
    BY <2>1, JobFacts, OnwardOK
  <2> HIDE DEF k
  <2>3. CASE s.closing
    <3>1. p = [rc |-> "OK", event |-> Event("END", Zeroed, s.depth), src |-> Onward(j, s, k)]
      BY <1>3, <2>3 DEF document_next, k
    <3>2. EventOK(Event("END", Zeroed, s.depth))
      BY <2>1, EventIsOK
    <3> QED
      BY <2>2, <3>1, <3>2
  <2>4. CASE ~s.closing /\ ~j.nodes[k].parent
    <3>1. p = [rc |-> "OK", event |-> Event("ELEMENT", j.nodes[k], s.depth), src |-> Onward(j, s, k)]
      BY <1>3, <2>4 DEF document_next, k
    <3>2. EventOK(Event("ELEMENT", j.nodes[k], s.depth))
      BY <2>1, EventIsOK
    <3> QED
      BY <2>2, <3>1, <3>2
  <2>5. CASE ~s.closing /\ j.nodes[k].parent
    <3> DEFINE t == IF j.nodes[k].first # 0
                      THEN [s EXCEPT !.next = j.nodes[k].first, !.depth = @ + 1]
                      ELSE [s EXCEPT !.closing = TRUE]
    <3>1. p = [rc |-> "OK", event |-> Event("BEGIN", j.nodes[k], s.depth), src |-> t]
      BY <1>3, <2>5 DEF document_next, k
    <3>2. EventOK(Event("BEGIN", j.nodes[k], s.depth))
      BY <2>1, EventIsOK
    <3>3. SourceOK(j, t)
      <4>1. j.nodes[k].first \in 0 .. Len(j.nodes)
        BY <2>2 DEF NodeOK
      <4>2. [s EXCEPT !.next = j.nodes[k].first, !.depth = @ + 1]
              \in [next : 0 .. Len(j.nodes), depth : Nat, single : BOOLEAN, closing : BOOLEAN]
        <5> DEFINE f == j.nodes[k].first
                   d == s.depth + 1
        <5>1. f \in 0 .. Len(j.nodes) /\ d \in Nat
          BY <2>1, <4>1
        <5> HIDE DEF f, d
        <5>2. [s EXCEPT !.next = f, !.depth = d]
                \in [next : 0 .. Len(j.nodes), depth : Nat, single : BOOLEAN, closing : BOOLEAN]
          BY <1>1, <5>1
        <5> QED
          BY <5>2 DEF f, d
      <4>3. [s EXCEPT !.closing = TRUE]
              \in [next : 0 .. Len(j.nodes), depth : Nat, single : BOOLEAN, closing : BOOLEAN]
        BY <1>1
      <4> QED
        BY <4>2, <4>3 DEF SourceOK
    <3> QED
      BY <3>1, <3>2, <3>3
  <2> QED
    BY <2>3, <2>4, <2>5
<1> QED
  BY <1>2, <1>3

LEMMA PulledOK ==
  ASSUME NEW j \in Jobs, j.source = "preorder", NEW s, SourceOK(j, s)
  PROVE  /\ SourceOK(j, Pulled(j, s).src)
         /\ (Pulled(j, s).rc = "OK" => Pulled(j, s).src.done \/ Pulled(j, s).src.available)
<1>1. /\ s \in [at : 0 .. Len(j.nodes), available : BOOLEAN, open : Nat, done : BOOLEAN]
      /\ Len(j.nodes) \in Nat /\ (s.available => s.at # 0)
  BY JobFacts DEF SourceOK
<1>2. CASE s.available \/ s.done
  BY <1>2 DEF Pulled
<1>3. CASE ~(s.available \/ s.done) /\ s.at = Len(j.nodes)
  <2> DEFINE t == [s EXCEPT !.done = TRUE]
  <2>1. Pulled(j, s) = [rc |-> "OK", src |-> t]
    BY <1>3 DEF Pulled
  <2>2. t.done /\ SourceOK(j, t)
    BY <1>1 DEF SourceOK
  <2>3. Pulled(j, s).src = t
    BY <2>1
  <2> HIDE DEF t
  <2> QED
    BY <2>2, <2>3
<1>4. CASE ~(s.available \/ s.done) /\ s.at # Len(j.nodes)
  <2>1. s.at + 1 \in 0 .. Len(j.nodes) /\ s.at + 1 # 0
    BY <1>1, <1>4
  <2> DEFINE t == [s EXCEPT !.at = @ + 1]
             u == [s EXCEPT !.at = @ + 1, !.available = TRUE]
  <2>2. Pulled(j, s) = [rc |-> "CALLBACK", src |-> t] \/ Pulled(j, s) = [rc |-> "OK", src |-> u]
    BY <1>4 DEF Pulled
  <2>3. SourceOK(j, t) /\ SourceOK(j, u) /\ u.available
    BY <1>1, <2>1 DEF SourceOK
  <2>4. \/ Pulled(j, s).rc # "OK" /\ Pulled(j, s).src = t
        \/ Pulled(j, s).rc = "OK" /\ Pulled(j, s).src = u
    BY <2>2
  <2> HIDE DEF t, u
  <2> QED
    BY <2>3, <2>4
<1> QED
  BY <1>2, <1>3, <1>4

LEMMA SynthesisedOK ==
  ASSUME NEW j \in Jobs, j.source = "preorder", NEW s, SourceOK(j, s), s.done \/ s.available
  PROVE  /\ SourceOK(j, Synthesised(j, s).src)
         /\ (Synthesised(j, s).rc = "OK" => EventOK(Synthesised(j, s).event))
<1>1. /\ s \in [at : 0 .. Len(j.nodes), available : BOOLEAN, open : Nat, done : BOOLEAN]
      /\ Len(j.nodes) \in Nat /\ (s.available => s.at # 0)
  BY JobFacts DEF SourceOK
<1> DEFINE closing == s.open # 0 /\ (s.done \/ s.open > Depth(j, s.at))
<1>2. CASE closing
  <2> DEFINE t == [s EXCEPT !.open = @ - 1]
  <2>1. Synthesised(j, s) = [rc |-> "OK", event |-> Event("END", Zeroed, s.open - 1), src |-> t]
    BY <1>2 DEF Synthesised
  <2>2. s.open - 1 \in Nat
    BY <1>1, <1>2
  <2>3. SourceOK(j, t)
    BY <1>1, <2>2 DEF SourceOK
  <2>4. EventOK(Event("END", Zeroed, s.open - 1))
    BY <2>2, EventIsOK
  <2> QED
    BY <2>1, <2>3, <2>4
<1>3. CASE ~closing /\ s.done
  BY <1>3 DEF Synthesised
<1>4. CASE ~closing /\ ~s.done
  <2>1. s.at \in 1 .. Len(j.nodes)
    BY <1>1, <1>4
  <2> DEFINE n == j.nodes[s.at]
             kind == IF n.parent THEN "BEGIN" ELSE "ELEMENT"
             t == [s EXCEPT !.available = FALSE, !.open = IF n.parent THEN @ + 1 ELSE @]
  <2>2. Synthesised(j, s) = [rc |-> "OK", event |-> Event(kind, n, n.depth), src |-> t]
    BY <1>4 DEF Synthesised
  <2>3. n.depth \in Nat /\ n.parent \in BOOLEAN
    BY <2>1, JobFacts DEF NodeOK
  <2>4. EventOK(Event(kind, n, n.depth))
    BY <2>1, <2>3, EventIsOK
  <2> HIDE DEF n
  <2>5. SourceOK(j, t)
    <3> DEFINE open == IF n.parent THEN s.open + 1 ELSE s.open
    <3>1. open \in Nat
      BY <1>1
    <3>2. t = [s EXCEPT !.available = FALSE, !.open = open]
      BY <1>1
    <3> HIDE DEF t, open
    <3> QED
      BY <1>1, <3>1, <3>2 DEF SourceOK
  <2> QED
    BY <2>2, <2>4, <2>5
<1> QED
  BY <1>2, <1>3, <1>4

\* One pull of either source.
LEMMA PullOK ==
  ASSUME job \in Jobs, SourceOK(job, src)
  PROVE  SourceOK(job, Pull.src) /\ (Pull.rc = "OK" => EventOK(Pull.event))
<1>1. CASE job.source = "preorder"
  <2>1. /\ SourceOK(job, Pulled(job, src).src)
        /\ (Pulled(job, src).rc = "OK" => Pulled(job, src).src.done \/ Pulled(job, src).src.available)
    BY <1>1, PulledOK
  <2>2. CASE Pulled(job, src).rc # "OK"
    BY <1>1, <2>1, <2>2 DEF Pull, preorder_event
  <2>3. CASE Pulled(job, src).rc = "OK"
    <3>1. Pull = Synthesised(job, Pulled(job, src).src)
      BY <1>1, <2>3 DEF Pull, preorder_event
    <3> QED
      BY <1>1, <2>1, <2>3, <3>1, SynthesisedOK
  <2> QED
    BY <2>2, <2>3
<1>2. CASE job.source # "preorder"
  BY <1>2, DocumentNextOK DEF Pull
<1> QED
  BY <1>1, <1>2

\* The limits of the measuring writer, with the workspace that it writes into.
DraftLimits == [size |-> ws.data, scratch |-> ws.scratch, frames |-> MeasureLimits.frames,
                depth |-> MeasureLimits.depth, elements |-> MeasureLimits.elements]

\* The workspace was short of what the last replay needed.
Short == ws.needData > Len(draft.buf) \/ ws.needScratch > Len(draft.scratch)

WorkspaceOK == /\ ws.data \in Nat /\ ws.scratch \in Nat /\ ws.frames \in Nat
               /\ ws.needData \in Nat /\ ws.needScratch \in Nat
               /\ ws = [data |-> ws.data, scratch |-> ws.scratch, needData |-> ws.needData,
                        needScratch |-> ws.needScratch, fuel |-> ws.fuel, frames |-> ws.frames,
                        rounds |-> ws.rounds]

(***************************************************************************)
(* The invariant of a measured encoding.  A request for storage is made     *)
(* only by an event that was neither refused nor failed, for more than the  *)
(* draft's buffers hold; it stands until the next replay, so that whoever   *)
(* repeats the replay does it for this request.  That the buffers are the   *)
(* workspace needs the measuring writer to be a sound one throughout.       *)
(***************************************************************************)
StageInv ==
  /\ job \in Jobs /\ SourceOK(job, src) /\ WorkspaceOK /\ failed \in BOOLEAN
  /\ phase = "start" => ~failed
  /\ phase = "frames" => job.source # "preorder" /\ ~failed
  /\ phase = "measure" => /\ ~failed /\ ws.needData = 0 /\ ws.needScratch = 0
                          /\ draft.format = job.format /\ WriterInv(draft, DraftLimits)
  /\ phase \in {"short", "scratch"} => job.source # "preorder" /\ ~failed /\ Short
  /\ phase = "scratch" => ws.needData <= ws.data
  /\ phase = "deliver" => job.source # "preorder"
  /\ phase = "done" /\ job.source = "preorder" /\ ws.needData + ws.needScratch # 0 =>
       ~failed /\ Short

LEMMA StageInitInv == StageInit => StageInv
<1> SUFFICES ASSUME StageInit PROVE StageInv
  OBVIOUS
<1>1. job \in Jobs /\ SourceOK(job, src) /\ job.frames \in Nat
  BY FreshOK, JobFacts DEF StageInit
<1>2. WorkspaceOK
  <2> DEFINE f == IF job.source = "preorder" THEN job.frames ELSE 0
  <2>1. f \in Nat
    BY <1>1
  <2>2. ws = [data |-> 0, scratch |-> 0, needData |-> 0, needScratch |-> 0, fuel |-> job.fuel,
              frames |-> f, rounds |-> 0]
    BY DEF StageInit
  <2> HIDE DEF f
  <2> QED
    BY <2>1, <2>2 DEF WorkspaceOK
<1>3. /\ phase \in {"start", "frames"} /\ failed = FALSE
      /\ (phase = "frames" => job.source # "preorder")
  BY DEF StageInit
<1> QED
  BY <1>1, <1>2, <1>3 DEF StageInv

\* The workspace is room enough for a writer, whatever it has grown to.
LEMMA DraftFits ==
  ASSUME FormatsSound, job \in Jobs, WorkspaceOK
  PROVE  /\ Fits(job.format, DraftLimits) /\ EncodesOctets(job.format)
         /\ DraftLimits.size = ws.data /\ DraftLimits.scratch = ws.scratch
<1>1. Len(job.nodes) \in Nat /\ job.depth \in Nat /\ job.elements \in Nat
  BY JobFacts
<1>2. ws.frames \in Nat /\ ws.data \in Nat /\ ws.scratch \in Nat
  BY DEF WorkspaceOK
<1>3. MeasureLimits.frames \in Nat /\ MeasureLimits.depth \in Nat /\ MeasureLimits.elements \in Nat
  BY <1>1, <1>2 DEF MeasureLimits
<1>4. EncodesOctets(job.format)
      /\ \A n \in Nat : \A t \in Leftovers(job.format, n) : t \in Seq(Nat) /\ Len(t) <= n
  BY DEF FormatsSound
<1>5. \A n \in 0 .. ws.data : n \in Nat
  OBVIOUS
<1> QED
  BY <1>2, <1>3, <1>4, <1>5 DEF Fits, DraftLimits

\* The writer's calls look at the limits for what a caller has set, not at the room.
LEMMA EventLimits ==
  ASSUME NEW w, NEW event
  PROVE  WriteEvent(w, MeasureLimits, event) = WriteEvent(w, DraftLimits, event)
<1>1. /\ DraftLimits.frames = MeasureLimits.frames /\ DraftLimits.depth = MeasureLimits.depth
      /\ DraftLimits.elements = MeasureLimits.elements
  BY DEF DraftLimits
<1>2. OverLimit(w, MeasureLimits) <=> OverLimit(w, DraftLimits)
  BY <1>1 DEF OverLimit
<1>3. \A tag : BeginResult(w, MeasureLimits, tag) = BeginResult(w, DraftLimits, tag)
  BY <1>1, <1>2 DEF BeginResult
<1>4. \A tag : Begin(w, MeasureLimits, tag) = Begin(w, DraftLimits, tag)
  BY <1>3 DEF Begin
<1>5. \A e : WriteElement(w, MeasureLimits, e) = WriteElement(w, DraftLimits, e)
  BY <1>2 DEF WriteElement
<1> QED
  BY <1>4, <1>5 DEF WriteEvent

\* What the workspace lacks is a number, and more than the draft's buffers hold.
LEMMA ShortageOK ==
  ASSUME job \in Jobs, WorkspaceOK, EncodesOctets(draft.format),
         NEW tag \in Seq(Nat), NEW value \in Seq(Nat), NEW start \in Nat, NEW closing \in BOOLEAN,
         draft.pos \in Nat, start <= draft.pos
  PROVE  LET need == Shortage(draft, [tag |-> tag, value |-> value], start, closing)
         IN  /\ need.data \in Nat /\ need.scratch \in Nat
             /\ (need.data # 0 => need.data > ws.data)
             /\ (need.scratch # 0 => need.scratch > ws.scratch)
<1> DEFINE b == Encoded(draft.format, [tag |-> tag, value |-> value])
           end == start + Len(b.bytes)
           room == draft.pos - start
           need == Shortage(draft, [tag |-> tag, value |-> value], start, closing)
<1>1. b.rc = "OK" => b.bytes \in Seq(Nat)
  BY DEF EncodesOctets
<1>2. b.rc = "OK" => end \in Nat
  BY <1>1
<1>3. room \in Nat /\ ws.data \in Nat /\ ws.scratch \in Nat
  BY DEF WorkspaceOK
<1>4. /\ need.data = IF b.rc = "OK" /\ end > ws.data THEN end ELSE 0
      /\ need.scratch = IF b.rc = "OK" /\ closing /\ room > ws.scratch THEN room ELSE 0
  BY DEF Shortage
<1> HIDE DEF need, b, end, room
<1>5. need.data \in Nat /\ (need.data # 0 => need.data > ws.data)
  BY <1>2, <1>3, <1>4
<1>6. need.scratch \in Nat /\ (need.scratch # 0 => need.scratch > ws.scratch)
  BY <1>3, <1>4
<1> QED
  BY <1>5, <1>6 DEF need

\* The same of what an event needs before it is written.
LEMMA NeedOK ==
  ASSUME job \in Jobs, WorkspaceOK, EncodesOctets(draft.format), WriterInv(draft, DraftLimits),
         NEW event, EventOK(event), EventRefusal(event) = "OK"
  PROVE  /\ NeedOf(event).data \in Nat /\ NeedOf(event).scratch \in Nat
         /\ (NeedOf(event).data # 0 => NeedOf(event).data > ws.data)
         /\ (NeedOf(event).scratch # 0 => NeedOf(event).scratch > ws.scratch)
<1>1. draft.pos \in Nat
  BY WriterFacts
<1>2. CASE event.kind = "END"
  <2>1. draft.frames # <<>>
    BY <1>2 DEF EventRefusal, EventMisplaced
  <2>2. /\ Top(draft) \in WriterFrames /\ Top(draft).start <= draft.pos
        /\ Content(draft) \in Seq(Nat) /\ TagOf(draft, Top(draft)) \in Seq(Nat)
    BY <2>1, TopFacts
  <2>3. Top(draft).start \in Nat
    BY <2>2, FrameFacts
  <2>4. NeedOf(event) = Shortage(draft, [tag |-> TagOf(draft, Top(draft)), value |-> Content(draft)],
                                 Top(draft).start, TRUE)
    BY <1>2 DEF NeedOf
  <2> QED
    BY <1>1, <2>2, <2>3, <2>4, ShortageOK
<1>3. CASE event.kind = "ELEMENT"
  <2>1. event.tag.bytes \in Seq(Nat) /\ event.value \in Seq(Nat)
    BY DEF EventOK
  <2>2. NeedOf(event) = Shortage(draft, [tag |-> event.tag.bytes, value |-> event.value],
                                 draft.pos, FALSE)
    BY <1>3 DEF NeedOf
  <2>3. draft.pos <= draft.pos /\ FALSE \in BOOLEAN
    BY <1>1
  <2> DEFINE need == Shortage(draft, [tag |-> event.tag.bytes, value |-> event.value],
                              draft.pos, FALSE)
  <2>4. /\ need.data \in Nat /\ need.scratch \in Nat
        /\ (need.data # 0 => need.data > ws.data)
        /\ (need.scratch # 0 => need.scratch > ws.scratch)
    BY <1>1, <2>1, <2>3, ShortageOK
  <2> HIDE DEF need
  <2> QED
    BY <2>2, <2>4 DEF need
<1>4. CASE event.kind # "END" /\ event.kind # "ELEMENT"
  BY <1>4 DEF NeedOf
<1> QED
  BY <1>2, <1>3, <1>4

\* grow_workspace gives what is required.
LEMMA GrownEnough ==
  ASSUME NEW capacity \in Nat, NEW required \in Nat
  PROVE  Grown(capacity, required) \in Nat /\ required <= Grown(capacity, required)
<1>1. GrowMin \in Nat
  BY GrowAssumption
<1> DEFINE doubled == IF capacity * 2 < GrowMin THEN GrowMin ELSE capacity * 2
<1>2. doubled \in Nat
  BY <1>1
<1>3. Grown(capacity, required) = IF required <= capacity THEN capacity
                                  ELSE IF doubled < required THEN required ELSE doubled
  BY DEF Grown
<1> HIDE DEF doubled
<1> QED
  BY <1>2, <1>3

\* Steps that are no part of a replay.
LEMMA CountFramesInv ==
  ASSUME StageInv, CountFrames PROVE StageInv'
<1>1. job \in Jobs /\ SourceOK(job, src) /\ WorkspaceOK /\ phase = "frames" /\ Pull.rc = "OK"
      /\ failed \in BOOLEAN /\ ~failed
  BY DEF StageInv, CountFrames
<1>2. SourceOK(job, Pull.src) /\ Pull.event.depth \in Nat
  BY <1>1, PullOK DEF EventOK
<1>3. FramesFor(Pull.event) \in Nat
  BY <1>1, <1>2 DEF FramesFor, WorkspaceOK
<1>4. WorkspaceOK'
  <2> DEFINE f == FramesFor(Pull.event)
  <2>1. ws' = [ws EXCEPT !.frames = f] /\ f \in Nat
    BY <1>3 DEF CountFrames
  <2> HIDE DEF f
  <2> QED
    BY <1>1, <2>1 DEF WorkspaceOK
<1>5. /\ src' = Pull.src /\ job' = job /\ phase' = "frames" /\ failed' = failed
  BY <1>1 DEF CountFrames
<1>6. SourceOK(job', src')
  BY <1>2, <1>5
<1> QED
  BY <1>1, <1>4, <1>5, <1>6 DEF StageInv

LEMMA AllocateFramesInv ==
  ASSUME StageInv, AllocateFrames PROVE StageInv'
<1>1. job \in Jobs /\ SourceOK(job, src) /\ WorkspaceOK /\ phase = "frames" /\ failed \in BOOLEAN
      /\ ~failed
  BY DEF StageInv, AllocateFrames
<1>2. job' = job /\ src' = src
  BY DEF AllocateFrames
<1>3. CASE ws.frames # 0 /\ ws.fuel = 0
  <2>1. phase' = "done" /\ failed' = TRUE /\ ws' = ws
    BY <1>3 DEF AllocateFrames, Fails, Answer
  <2>2. WorkspaceOK'
    BY <1>1, <2>1 DEF WorkspaceOK
  <2>3. job.source # "preorder"
    BY <1>1 DEF StageInv
  <2> QED
    BY <1>1, <1>2, <2>1, <2>2, <2>3 DEF StageInv
<1>4. CASE ~(ws.frames # 0 /\ ws.fuel = 0)
  <2> DEFINE fuel == IF ws.frames # 0 THEN ws.fuel - 1 ELSE ws.fuel
  <2>1. phase' = "start" /\ failed' = failed /\ ws' = [ws EXCEPT !.fuel = fuel]
    BY <1>4 DEF AllocateFrames
  <2> HIDE DEF fuel
  <2>2. WorkspaceOK'
    BY <1>1, <2>1 DEF WorkspaceOK
  <2> QED
    BY <1>1, <1>2, <2>1, <2>2 DEF StageInv
<1> QED
  BY <1>3, <1>4

\* A replay starts with an empty writer on the workspace as it is.
LEMMA StartMeasureInv ==
  ASSUME FormatsSound, StageInv, StartMeasure PROVE StageInv'
<1>1. job \in Jobs /\ WorkspaceOK /\ phase = "start" /\ failed \in BOOLEAN /\ ~failed
  BY DEF StageInv, StartMeasure
<1>2. /\ job' = job /\ phase' = "measure" /\ failed' = failed /\ src' = Fresh(job)
      /\ draft' = TreeWriterInit(job.format, ws.data, ws.scratch)
      /\ ws' = [ws EXCEPT !.needData = 0, !.needScratch = 0]
  BY DEF StartMeasure
<1>3. WorkspaceOK' /\ ws'.needData = 0 /\ ws'.needScratch = 0 /\ ws'.data = ws.data
      /\ ws'.scratch = ws.scratch /\ ws'.frames = ws.frames
  BY <1>1, <1>2 DEF WorkspaceOK
<1>4. SourceOK(job', src')
  BY <1>1, <1>2, FreshOK
<1>5. DraftLimits' = DraftLimits
  BY <1>2, <1>3 DEF DraftLimits, MeasureLimits
<1>6. /\ Fits(job.format, DraftLimits)
      /\ DraftLimits.size = ws.data /\ DraftLimits.scratch = ws.scratch
  BY <1>1, DraftFits
<1>7. WriterInv(draft', DraftLimits) /\ draft'.format = job.format
  <2>1. WriterInv(TreeWriterInit(job.format, DraftLimits.size, DraftLimits.scratch), DraftLimits)
    BY <1>6, InitWriter
  <2> QED
    BY <1>2, <1>6, <2>1 DEF TreeWriterInit
<1>8. draft'.format = job'.format /\ WriterInv(draft', DraftLimits')
  BY <1>2, <1>5, <1>7
<1> QED
  BY <1>1, <1>2, <1>3, <1>4, <1>8 DEF StageInv

\* A replay that ends early with nothing asked for is over.
LEMMA EndsIdle ==
  ASSUME StageInv, phase = "measure", NEW rc, ReplayEnds(rc, ws), job' = job, SourceOK(job, src'),
         failed' \in BOOLEAN
  PROVE  StageInv'
<1>1. job \in Jobs /\ WorkspaceOK /\ ws.needData = 0 /\ ws.needScratch = 0
  BY DEF StageInv
<1>2. ws' = ws /\ phase' = "done"
  BY <1>1 DEF ReplayEnds, Fails, Answer
<1>3. WorkspaceOK'
  BY <1>1, <1>2 DEF WorkspaceOK
<1>4. ws'.needData + ws'.needScratch = 0 /\ SourceOK(job', src')
  BY <1>1, <1>2
<1> QED
  BY <1>1, <1>2, <1>3, <1>4 DEF StageInv

\* One event: only a shortage of the workspace's own is asked for.
LEMMA MeasureEventInv ==
  ASSUME FormatsSound, StageInv, MeasureEvent PROVE StageInv'
<1>1. /\ job \in Jobs /\ SourceOK(job, src) /\ WorkspaceOK /\ phase = "measure"
      /\ failed \in BOOLEAN /\ ~failed /\ ws.needData = 0 /\ ws.needScratch = 0
      /\ draft.format = job.format /\ WriterInv(draft, DraftLimits)
  BY DEF StageInv, MeasureEvent
<1>2. /\ Pull.rc = "OK" /\ src' = Pull.src /\ job' = job
      /\ Measure(Pull.event, EventRefusal(Pull.event), NeedOf(Pull.event))
  BY DEF MeasureEvent
<1>3. SourceOK(job, src') /\ EventOK(Pull.event)
  BY <1>1, <1>2, PullOK
<1> DEFINE event == Pull.event
           refusal == EventRefusal(event)
           need == NeedOf(event)
<1>4. EncodesOctets(draft.format) /\ Fits(job.format, DraftLimits)
      /\ DraftLimits.size = ws.data /\ DraftLimits.scratch = ws.scratch
  BY <1>1, DraftFits
<1>5. Measure(event, refusal, need) /\ EventOK(event)
  BY <1>2, <1>3
<1>6. refusal = "OK" => /\ need.data \in Nat /\ need.scratch \in Nat
                        /\ (need.data # 0 => need.data > ws.data)
                        /\ (need.scratch # 0 => need.scratch > ws.scratch)
  BY <1>1, <1>4, <1>5, NeedOK
<1> HIDE DEF event, refusal, need
<1>7. CASE refusal # "OK" /\ ReplayEnds(refusal, ws) /\ UNCHANGED <<draft, failed>>
  BY <1>1, <1>2, <1>3, <1>7, EndsIdle
<1>8. CASE refusal = "OK" /\ need.rc # "OK" /\ ReplayEnds(need.rc, ws) /\ failed' = TRUE
           /\ UNCHANGED draft
  BY <1>1, <1>2, <1>3, <1>8, EndsIdle
<1>9. CASE /\ refusal = "OK" /\ need.data + need.scratch # 0 /\ UNCHANGED <<draft, failed>>
           /\ ReplayEnds("BUFFER_TOO_SHORT",
                         [ws EXCEPT !.needData = need.data, !.needScratch = need.scratch])
  <2> DEFINE v == [ws EXCEPT !.needData = need.data, !.needScratch = need.scratch]
             d == need.data
             c == need.scratch
  <2>1. d \in Nat /\ c \in Nat /\ (d > ws.data \/ c > ws.scratch)
    BY <1>6, <1>9
  <2>2. ws' = [ws EXCEPT !.needData = d, !.needScratch = c]
    BY <1>9 DEF ReplayEnds
  <2> HIDE DEF d, c
  <2>3. WorkspaceOK' /\ ws'.needData = d /\ ws'.needScratch = c
    BY <1>1, <2>1, <2>2 DEF WorkspaceOK
  <2>4. Len(draft.buf) = ws.data /\ Len(draft.scratch) = ws.scratch
    BY <1>1, <1>4 DEF WriterInv
  <2>5. Short'
    BY <1>9, <2>1, <2>3, <2>4 DEF Short
  <2>6. (phase' = "short" /\ job.source # "preorder") \/ phase' = "done"
    BY <1>9 DEF ReplayEnds, Fails, Answer
  <2>7. SourceOK(job', src') /\ failed' = failed /\ job' = job
    BY <1>2, <1>3, <1>9
  <2> QED
    BY <1>1, <2>3, <2>5, <2>6, <2>7 DEF StageInv
<1>10. CASE /\ refusal = "OK" /\ need.data + need.scratch = 0
            /\ \E o \in WriteEvent(draft, MeasureLimits, event) :
                 /\ draft' = o.w
                 /\ failed' = (o.rc # "OK" /\ event.kind # "BEGIN")
                 /\ IF o.rc = "OK" THEN UNCHANGED <<phase, ws, answer>> ELSE ReplayEnds(o.rc, ws)
  <2>1. PICK o \in WriteEvent(draft, MeasureLimits, event) :
                 /\ draft' = o.w
                 /\ failed' = (o.rc # "OK" /\ event.kind # "BEGIN")
                 /\ IF o.rc = "OK" THEN UNCHANGED <<phase, ws, answer>> ELSE ReplayEnds(o.rc, ws)
    BY <1>10
  <2>2. CASE o.rc # "OK"
    <3>1. failed' \in BOOLEAN /\ ReplayEnds(o.rc, ws)
      BY <2>1, <2>2
    <3> QED
      BY <1>1, <1>2, <1>3, <3>1, EndsIdle
  <2>3. CASE o.rc = "OK"
    <3>1. phase' = phase /\ ws' = ws /\ failed' = FALSE /\ draft' = o.w
      BY <2>1, <2>3
    <3>2. o \in WriteEvent(draft, DraftLimits, event)
      BY <2>1, EventLimits
    <3>3. WriterInv(o.w, DraftLimits) /\ o.w.format = draft.format
      BY <1>1, <1>4, <1>5, <3>2, EventInv DEF EventOK
    <3>4. DraftLimits' = DraftLimits /\ WorkspaceOK'
      BY <1>1, <1>2, <3>1 DEF DraftLimits, MeasureLimits, WorkspaceOK
    <3>5. draft'.format = job'.format /\ WriterInv(draft', DraftLimits')
      BY <1>1, <1>2, <3>1, <3>3, <3>4
    <3>6. SourceOK(job', src')
      BY <1>2, <1>3
    <3> QED
      BY <1>1, <1>2, <3>1, <3>4, <3>5, <3>6 DEF StageInv
  <2> QED
    BY <2>2, <2>3
<1> QED
  BY <1>5, <1>7, <1>8, <1>9, <1>10 DEF Measure

LEMMA MeasureEndInv ==
  ASSUME StageInv, MeasureEnd PROVE StageInv'
<1>1. /\ job \in Jobs /\ SourceOK(job, src) /\ WorkspaceOK /\ failed \in BOOLEAN
      /\ ws.needData = 0 /\ ws.needScratch = 0
  BY DEF StageInv, MeasureEnd
<1>2. /\ src' = Pull.src /\ job' = job /\ ws' = ws /\ failed' = failed
      /\ (phase' = "done" \/ (phase' = "deliver" /\ job.source # "preorder"))
  BY DEF MeasureEnd, Fails, Answer
<1>3. SourceOK(job', src')
  BY <1>1, <1>2, PullOK
<1>4. WorkspaceOK' /\ ws'.needData + ws'.needScratch = 0
  BY <1>1, <1>2 DEF WorkspaceOK
<1> QED
  BY <1>1, <1>2, <1>3, <1>4 DEF StageInv

\* Growing: data first, and the request is kept until scratch has grown too.
LEMMA GrowDataInv ==
  ASSUME StageInv, GrowData PROVE StageInv'
<1>1. /\ job \in Jobs /\ SourceOK(job, src) /\ WorkspaceOK /\ failed \in BOOLEAN /\ ~failed
      /\ job.source # "preorder" /\ Short
  BY DEF StageInv, GrowData
<1>2. job' = job /\ src' = src /\ draft' = draft /\ SourceOK(job', src')
  BY <1>1 DEF GrowData
<1>3. CASE ws.needData > ws.data /\ ws.fuel = 0
  <2>1. phase' = "done" /\ failed' = TRUE /\ ws' = ws
    BY <1>3 DEF GrowData, Fails, Answer
  <2>2. WorkspaceOK'
    BY <1>1, <2>1 DEF WorkspaceOK
  <2> QED
    BY <1>1, <1>2, <2>1, <2>2 DEF StageInv
<1>4. CASE ~(ws.needData > ws.data /\ ws.fuel = 0)
  <2> DEFINE fuel == IF ws.needData > ws.data THEN ws.fuel - 1 ELSE ws.fuel
             data == Grown(ws.data, ws.needData)
  <2>1. phase' = "scratch" /\ failed' = failed /\ ws' = [ws EXCEPT !.data = data, !.fuel = fuel]
    BY <1>4 DEF GrowData
  <2>2. data \in Nat /\ ws.needData <= data
    BY <1>1, GrownEnough DEF WorkspaceOK
  <2> HIDE DEF fuel, data
  <2>3. /\ WorkspaceOK' /\ ws'.needData = ws.needData /\ ws'.needScratch = ws.needScratch
        /\ ws'.data = data
    BY <1>1, <2>1, <2>2 DEF WorkspaceOK
  <2>4. Short'
    BY <1>1, <1>2, <2>3 DEF Short
  <2> QED
    BY <1>1, <1>2, <2>1, <2>2, <2>3, <2>4 DEF StageInv
<1> QED
  BY <1>3, <1>4

LEMMA GrowScratchInv ==
  ASSUME StageInv, GrowScratch
  PROVE  /\ StageInv'
         /\ (phase' = "start" => /\ ~failed /\ Short
                                 /\ ws'.data >= ws.needData /\ ws'.scratch >= ws.needScratch)
<1>1. /\ job \in Jobs /\ SourceOK(job, src) /\ WorkspaceOK /\ failed \in BOOLEAN /\ ~failed
      /\ job.source # "preorder" /\ Short /\ ws.needData <= ws.data
  BY DEF StageInv, GrowScratch
<1>2. job' = job /\ src' = src /\ draft' = draft /\ SourceOK(job', src')
  BY <1>1 DEF GrowScratch
<1>3. CASE ws.needScratch > ws.scratch /\ ws.fuel = 0
  <2>1. phase' = "done" /\ failed' = TRUE /\ ws' = ws
    BY <1>3 DEF GrowScratch, Fails, Answer
  <2>2. WorkspaceOK'
    BY <1>1, <2>1 DEF WorkspaceOK
  <2> QED
    BY <1>1, <1>2, <2>1, <2>2 DEF StageInv
<1>4. CASE ~(ws.needScratch > ws.scratch /\ ws.fuel = 0)
  <2> DEFINE fuel == IF ws.needScratch > ws.scratch THEN ws.fuel - 1 ELSE ws.fuel
             scratch == Grown(ws.scratch, ws.needScratch)
             rounds == ws.rounds + 1
  <2>1. /\ phase' = "start" /\ failed' = failed
        /\ ws' = [ws EXCEPT !.scratch = scratch, !.rounds = rounds, !.fuel = fuel]
    BY <1>4 DEF GrowScratch
  <2>2. scratch \in Nat /\ ws.needScratch <= scratch
    BY <1>1, GrownEnough DEF WorkspaceOK
  <2> HIDE DEF fuel, scratch, rounds
  <2>3. /\ WorkspaceOK' /\ ws'.needData = ws.needData /\ ws'.needScratch = ws.needScratch
        /\ ws'.data = ws.data /\ ws'.scratch = scratch
    BY <1>1, <2>1, <2>2 DEF WorkspaceOK
  <2>4. ws'.data >= ws.needData /\ ws'.scratch >= ws.needScratch
    BY <1>1, <2>2, <2>3 DEF WorkspaceOK
  <2> QED
    BY <1>1, <1>2, <2>1, <2>3, <2>4 DEF StageInv
<1> QED
  BY <1>3, <1>4

LEMMA CallerReplaysInv ==
  ASSUME StageInv, CallerReplays
  PROVE  /\ StageInv'
         /\ ~failed /\ Short /\ ws'.data >= ws.needData /\ ws'.scratch >= ws.needScratch
<1>1. /\ job \in Jobs /\ SourceOK(job, src) /\ WorkspaceOK /\ failed \in BOOLEAN /\ ~failed /\ Short
  BY DEF StageInv, CallerReplays
<1>2. /\ job' = job /\ src' = src /\ draft' = draft /\ SourceOK(job', src') /\ phase' = "start"
      /\ failed' = failed
  BY <1>1 DEF CallerReplays
<1> DEFINE data == IF ws.needData > ws.data THEN ws.needData ELSE ws.data
           scratch == IF ws.needScratch > ws.scratch THEN ws.needScratch ELSE ws.scratch
           rounds == ws.rounds + 1
<1>3. ws' = [ws EXCEPT !.data = data, !.scratch = scratch, !.rounds = rounds]
  BY DEF CallerReplays
<1>4. data \in Nat /\ scratch \in Nat /\ data >= ws.needData /\ scratch >= ws.needScratch
  BY <1>1 DEF WorkspaceOK
<1> HIDE DEF data, scratch, rounds
<1>5. WorkspaceOK' /\ ws'.data = data /\ ws'.scratch = scratch
  BY <1>1, <1>3, <1>4 DEF WorkspaceOK
<1> QED
  BY <1>1, <1>2, <1>4, <1>5 DEF StageInv

LEMMA DeliverInv ==
  ASSUME StageInv, Deliver PROVE StageInv'
<1>1. /\ job \in Jobs /\ SourceOK(job, src) /\ WorkspaceOK /\ failed \in BOOLEAN
      /\ job.source # "preorder"
  BY DEF StageInv, Deliver
<1>2. /\ job' = job /\ src' = src /\ ws' = ws /\ failed' = failed /\ phase' = "done"
      /\ SourceOK(job', src')
  BY <1>1 DEF Deliver, Answer
<1>3. WorkspaceOK'
  BY <1>1, <1>2 DEF WorkspaceOK
<1> QED
  BY <1>1, <1>2, <1>3 DEF StageInv

LEMMA StageStepInv == FormatsSound /\ StageInv /\ [StageNext]_stageVars => StageInv'
<1> SUFFICES ASSUME FormatsSound, StageInv, [StageNext]_stageVars PROVE StageInv'
  OBVIOUS
<1>1. CASE UNCHANGED stageVars
  <2>1. job' = job /\ phase' = phase /\ src' = src /\ ws' = ws /\ draft' = draft /\ failed' = failed
    BY <1>1 DEF stageVars
  <2>2. WorkspaceOK' = WorkspaceOK /\ Short' = Short /\ DraftLimits' = DraftLimits
    BY <2>1 DEF WorkspaceOK, Short, DraftLimits, MeasureLimits
  <2>3. SourceOK(job', src') = SourceOK(job, src)
        /\ WriterInv(draft', DraftLimits') = WriterInv(draft, DraftLimits)
    BY <2>1, <2>2
  <2> QED
    BY <2>1, <2>2, <2>3 DEF StageInv
<1>2. CASE StageNext
  BY <1>2, CountFramesInv, AllocateFramesInv, StartMeasureInv, MeasureEventInv, MeasureEndInv,
     GrowDataInv, GrowScratchInv, CallerReplaysInv, DeliverInv DEF StageNext
<1> QED
  BY <1>1, <1>2

\* What a replay relies on, in the run's words.
Regrown == phase # "frames" /\ phase' = "start" =>
             /\ ~failed
             /\ ws'.data >= ws.needData /\ ws'.scratch >= ws.needScratch
             /\ ws.needData > Len(draft.buf) \/ ws.needScratch > Len(draft.scratch)

LEMMA StepRegrows ==
  ASSUME StageInv, StageNext PROVE Regrown
<1>1. CASE GrowScratch
  BY <1>1, GrowScratchInv DEF Regrown, Short
<1>2. CASE CallerReplays
  BY <1>2, CallerReplaysInv DEF Regrown, Short
<1>3. CASE CountFrames \/ AllocateFrames
  BY <1>3 DEF CountFrames, AllocateFrames, Regrown
<1>4. CASE StartMeasure \/ MeasureEnd \/ GrowData \/ Deliver
  BY <1>4 DEF StartMeasure, MeasureEnd, GrowData, Deliver, Fails, Answer, Regrown
<1>5. CASE MeasureEvent
  <2>1. phase = "measure" /\ Measure(Pull.event, EventRefusal(Pull.event), NeedOf(Pull.event))
    BY <1>5 DEF MeasureEvent
  <2>2. phase' \in {"measure", "short", "done"}
    BY <2>1 DEF Measure, ReplayEnds, Fails, Answer
  <2> QED
    BY <2>2 DEF Regrown
<1> QED
  BY <1>1, <1>2, <1>3, <1>4, <1>5 DEF StageNext

(***************************************************************************)
(* An encoding is replayed only because the workspace itself was short of   *)
(* what the last replay needed, and only once it has grown that far.        *)
(***************************************************************************)
THEOREM ReplaysOnlyGrown == FormatsSound => (StageSpec => ReplaysGrow)
<1> SUFFICES ASSUME FormatsSound PROVE StageSpec => ReplaysGrow
  OBVIOUS
<1>1. StageInv /\ [StageNext]_stageVars => StageInv'
  BY StageStepInv
<1>2. StageInv /\ [StageNext]_stageVars => [Regrown]_stageVars
  BY StepRegrows
<1> QED
  BY <1>1, <1>2, StageInitInv, PTL DEF StageSpec, ReplaysGrow, Regrown
=============================================================================
