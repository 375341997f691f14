----------------------------- MODULE Canonical ------------------------------
(***************************************************************************)
(* Validation and writing under the canonical rules (src/tlv/src/builtins/  *)
(* asn1: der_validation.c, cer_validation.c, cer_values_internal.c): bounded *)
(* walks of nested elements with an explicit stack.  DER visits an element   *)
(* before its children, CER visits a constructed one when it is closed, and  *)
(* checks that long strings are cut into segments.                          *)
(*                                                                          *)
(* limits is a record with the inclusive bounds depth, input, value and      *)
(* elements.  The visitor is one that always continues; one that stops sees  *)
(* a prefix of the same elements.  Error offsets are left out.               *)
(***************************************************************************)
EXTENDS Wire, Codecs

CONSTANTS
  CerMaxSegment,     \* TLV_CER_MAX_SEGMENT_OCTETS: 1000 in the code
  CanonicalMaxDepth, \* TLV_DER_MAX_DEPTH and TLV_CER_MAX_DEPTH: 64 in the code
  Offered(_)         \* typed values offered to the encoder of a codec

ASSUME CanonicalBounds == CerMaxSegment \in Nat \ {0, 1} /\ CanonicalMaxDepth \in Nat

DerFormat == [kind |-> "fields", order |-> "TLV", scope |-> "VALUE", mask |-> {5},
              indefinite |-> FALSE, ident |-> DerIdentifier, len |-> MinimalLength]
CerFormat == [DerFormat EXCEPT !.ident = Asn1Identifier, !.len = CerLength]

(***************************************************************************)
(* A traversal x: the data, the depth and count it starts with, its limits, *)
(* whether it ends with the first element, whether it checks values, and    *)
(* for CER the segments the data are the content of.  Its answer: the       *)
(* elements in the order of visits, and the bytes used.                     *)
(***************************************************************************)
Walk(rc, seen, used) == [rc |-> rc, seen |-> seen, used |-> used]

Number(tag)     == TagNumberOf(tag)
Recognised(tag) == Universal(tag) /\ Number(tag) <= LastAssigned
Visited(tag, value, depth) == [tag |-> tag, value |-> value, depth |-> depth]

-----------------------------------------------------------------------------
\* tlv_der_read_element
NotRead(rc) == [rc |-> rc, tag |-> <<>>, value |-> <<>>, used |-> 0]
DerLengthAnswer(w, limits, t, l) ==
  LET header == t.used + l.used
  IN  IF l.rc # "OK" THEN NotRead(l.rc)
      ELSE IF l.length > limits.value THEN NotRead("LIMIT")
      ELSE IF l.length > Len(w) - header THEN NotRead("TRUNCATED")
      ELSE [rc |-> "OK", tag |-> t.tag, value |-> SubSeq(w, header + 1, header + l.length),
            used |-> header + l.length]
DerTagAnswer(w, limits, t) ==
  IF t.rc # "OK" THEN NotRead(t.rc)
  ELSE DerLengthAnswer(w, limits, t, VariableLengthRead(MinimalLength, Drop(w, t.used)))
DerReadElement(w, limits) == DerTagAnswer(w, limits, DerReadTag(w))

\* The strict check of a UNIVERSAL primitive element.
StrictValue(strict, tag, value) ==
  IF strict /\ Universal(tag) /\ ~IsConstructed(tag) THEN UniversalValue(Number(tag), value)
  ELSE "OK"

\* traverse of der_validation.c: s.ends are the ends of the enclosing values, of which the
\* first is the input's.
RECURSIVE DerWalk(_, _)
DerEntered(x, s, e, end, ends, value) ==
  LET seen  == Append(s.seen, Visited(e.tag, e.value, x.depth + Len(s.ends) - 1))
      first == IF x.one /\ s.pos = 0 THEN [ends EXCEPT ![1] = end] ELSE ends
  IN  IF value # "OK" THEN Walk(value, s.seen, 0)
      ELSE IF ~IsConstructed(e.tag) \/ e.value = <<>>
        THEN DerWalk(x, [pos |-> end, ends |-> first, seen |-> seen])
      ELSE IF x.depth + Len(s.ends) - 1 = x.limits.depth THEN Walk("LIMIT", seen, 0)
      ELSE DerWalk(x, [pos |-> end - Len(e.value), ends |-> Append(first, end), seen |-> seen])

DerRead(x, s, e) ==
  IF e.rc # "OK" THEN Walk(e.rc, s.seen, 0)
  ELSE DerEntered(x, s, e, s.pos + e.used, s.ends, StrictValue(x.strict, e.tag, e.value))

DerWalk(x, s) ==
  IF s.pos = Last(s.ends)
    THEN IF Len(s.ends) = 1 THEN Walk("OK", s.seen, s.pos)
         ELSE DerWalk(x, [s EXCEPT !.ends = Front(@)])
  ELSE IF \/ x.depth + Len(s.ends) - 1 > x.limits.depth
          \/ x.count + Len(s.seen) = x.limits.elements
    THEN Walk("LIMIT", s.seen, 0)
  ELSE DerRead(x, s, DerReadElement(SubSeq(x.data, s.pos + 1, Last(s.ends)), x.limits))

DerTraverse(x) == DerWalk(x, [pos |-> 0, ends |-> <<Len(x.data)>>, seen |-> <<>>])

-----------------------------------------------------------------------------
\* tlv_cer_type_info: the UNIVERSAL string types, which CER cuts into segments.
BitString    == 3
Utf8String   == 12
SegmentTypes == {BitString, 4, 7, Utf8String} \cup 18 .. 22 \cup 25 .. 28 \cup {30}
Segmentable(tag)   == Recognised(tag) /\ Number(tag) \in SegmentTypes
PrimitiveOnly(tag) == Recognised(tag) /\ Number(tag) \notin SegmentTypes \cup MustConstruct

\* tlv_cer_segment_state_t: the segments so far (the last one is the pending one) of a
\* string of this number; 0 when the enclosing value is no such string.
NoSegments       == [number |-> 0, parts |-> <<>>, utf8 |-> Utf8Start]
SegmentsOf(tag)  == IF Segmentable(tag) THEN [NoSegments EXCEPT !.number = Number(tag)]
                    ELSE NoSegments
Total(parts)     == FoldLeft(LAMBDA n, p : n + Len(p), 0, parts)

\* validate_character_segment, or the UTF-8 stream across segments.
CharactersOK(g, v) == CASE g.number = Utf8String       -> Utf8Update(g.utf8, v).ok
                        [] g.number \in {BitString, 4} -> TRUE
                        [] OTHER                       -> ValueOK(g.number, v)

\* tlv_cer_segment_state_add: what it answers and the state it leaves.
SegmentAdd(g, strict, tag, v) ==
  IF g.parts # <<>> /\ Len(Last(g.parts)) # CerMaxSegment THEN "INVALID_LENGTH"
  ELSE IF g.parts # <<>> /\ strict /\ g.number = BitString /\ Last(g.parts)[1] # 0 THEN "INVALID_VALUE"
  ELSE IF tag # <<g.number>> THEN "INVALID_TAG"
  ELSE IF Len(v) \notin 1 .. CerMaxSegment THEN "INVALID_LENGTH"
  ELSE IF strict /\ ~CharactersOK(g, v) THEN "INVALID_VALUE" ELSE "OK"
SegmentAdded(g, v) == [g EXCEPT !.parts = Append(@, v), !.utf8 = Utf8Update(@, v)]

\* A finish that takes a string that one primitive element could have held.
SegmentFinish_Unjustified(g, strict) ==
  IF g.parts = <<>> THEN "INVALID_LENGTH"
  ELSE IF strict /\ g.number = BitString /\ ~IsBitString(Last(g.parts)) THEN "INVALID_VALUE"
  ELSE IF strict /\ g.number = Utf8String /\ ~Utf8Finish(g.utf8) THEN "INVALID_VALUE" ELSE "OK"

\* tlv_cer_segment_state_finish
SegmentFinish(g, strict) ==
  IF g.parts = <<>> \/ Total(g.parts) <= CerMaxSegment THEN "INVALID_LENGTH"
  ELSE IF strict /\ g.number = BitString /\ ~IsBitString(Last(g.parts)) THEN "INVALID_VALUE"
  ELSE IF strict /\ g.number = Utf8String /\ ~Utf8Finish(g.utf8) THEN "INVALID_VALUE" ELSE "OK"
Finished(g, strict) == IF g.number = 0 THEN "OK" ELSE SegmentFinish(g, strict)

(***************************************************************************)
(* traverse of cer_validation.c.  s.levels are the open indefinite values;  *)
(* the first stands for the call itself and holds its outer_segments, the   *)
(* others are the array levels[TLV_CER_MAX_DEPTH].  What happens beyond the  *)
(* array's end is undefined: the answer OVERRUN stands for any.             *)
(***************************************************************************)
Level(tag, start, g) == [tag |-> tag, start |-> start, segments |-> g]
CerDepth(x, s)       == x.depth + Len(s.levels) - 1

RECURSIVE CerWalk(_, _)

\* The element was visited; a walk for one element ends at the outermost level.
CerVisited(x, s) == IF x.one /\ Len(s.levels) = 1 THEN Walk("OK", s.seen, s.pos) ELSE CerWalk(x, s)

\* A zero byte: the end-of-contents of the innermost level.
CerClosed(x, s, level, rc) ==
  LET value == SubSeq(x.data, level.start + 1, s.pos)
  IN  IF Len(value) > x.limits.value THEN Walk("LIMIT", s.seen, 0)
      ELSE IF rc # "OK" THEN Walk(rc, s.seen, 0)
      ELSE CerVisited(x, [s EXCEPT !.pos = @ + EocSize, !.levels = Front(@),
                            !.seen = Append(@, Visited(level.tag, value, CerDepth(x, s) - 1))])
CerEoc(x, s, w) ==
  IF Len(w) < EocSize THEN Walk("TRUNCATED", s.seen, 0)
  ELSE IF w[2] # 0 THEN Walk("INVALID_LENGTH", s.seen, 0)
  ELSE IF Len(s.levels) = 1 THEN Walk("INVALID_TAG", s.seen, 0)
  ELSE CerClosed(x, s, Last(s.levels), Finished(Last(s.levels).segments, x.strict))

\* An indefinite length: descend, unless a segment is due or the type is primitive.
CerOpen(x, s, tag, start) ==
  IF ~IsConstructed(tag) THEN Walk("INVALID_LENGTH", s.seen, 0)
  ELSE IF Last(s.levels).segments.number # 0 THEN Walk("INVALID_TAG", s.seen, 0)
  ELSE IF PrimitiveOnly(tag) THEN Walk("INVALID_LENGTH", s.seen, 0)
  ELSE IF CerDepth(x, s) = x.limits.depth THEN Walk("LIMIT", s.seen, 0)
  ELSE IF Len(s.levels) > CanonicalMaxDepth THEN Walk("OVERRUN", s.seen, 0)
  ELSE CerWalk(x, [s EXCEPT !.pos = start, !.count = @ + 1,
                            !.levels = Append(@, Level(tag, start, SegmentsOf(tag)))])

\* The value of a primitive element outside a segmented string.
WholeValue(tag, v, limits, strict) ==
  IF Len(v) > limits.value THEN "LIMIT"
  ELSE IF Segmentable(tag) /\ Len(v) > CerMaxSegment THEN "INVALID_LENGTH"
  ELSE IF Recognised(tag) THEN StrictValue(strict, tag, v) ELSE "OK"

CerPut(x, s, tag, v, end, rc) ==
  IF rc # "OK" THEN Walk(rc, s.seen, 0)
  ELSE CerVisited(x, [s EXCEPT !.pos = end, !.count = @ + 1,
                        !.seen = Append(@, Visited(tag, v, CerDepth(x, s))),
                        !.levels[Len(s.levels)].segments =
                           IF @.number = 0 THEN @ ELSE SegmentAdded(@, v)])
CerValue(x, s, g, tag, v, end) ==
  CerPut(x, s, tag, v, end, IF g.number = 0 THEN WholeValue(tag, v, x.limits, x.strict)
                            ELSE SegmentAdd(g, x.strict, tag, v))
CerPrimitive(x, s, w, t, l) ==
  LET header == t.used + l.used
  IN  IF IsConstructed(t.tag) THEN Walk("INVALID_LENGTH", s.seen, 0)
      ELSE IF l.rc # "OK" THEN Walk(l.rc, s.seen, 0)
      ELSE IF l.length > Len(w) - header THEN Walk("TRUNCATED", s.seen, 0)
      ELSE CerValue(x, s, Last(s.levels).segments, t.tag,
                    SubSeq(w, header + 1, header + l.length), s.pos + header + l.length)

CerElement(x, s, w, t) ==
  IF t.rc # "OK" THEN Walk(t.rc, s.seen, 0)
  ELSE IF Len(w) = t.used THEN Walk("TRUNCATED", s.seen, 0)
  ELSE IF w[t.used + 1] = LongFormBit THEN CerOpen(x, s, t.tag, s.pos + t.used + 1)
  ELSE CerPrimitive(x, s, w, t, VariableLengthRead(MinimalLength, Drop(w, t.used)))

CerRound(x, s, w) ==
  IF w = <<>>
    THEN IF Len(s.levels) > 1 THEN Walk("TRUNCATED", s.seen, 0)
         ELSE Walk(Finished(s.levels[1].segments, x.strict), s.seen, s.pos)
  ELSE IF w[1] = 0 THEN CerEoc(x, s, w)
  ELSE IF s.count = x.limits.elements THEN Walk("LIMIT", s.seen, 0)
  ELSE CerElement(x, s, w, Asn1ReadIdentifier(w))
CerWalk(x, s) == CerRound(x, s, Drop(x.data, s.pos))

CerTraverse(x) == CerWalk(x, [pos |-> 0, count |-> x.count, seen |-> <<>>,
                              levels |-> <<Level(<<>>, 0, x.outer)>>])

-----------------------------------------------------------------------------
\* The public calls of both rule sets: visit_impl, read_impl and write_impl.
Traversal(w, nested, limits, one, strict, outer) ==
  [data |-> w, depth |-> nested, count |-> nested, limits |-> limits, one |-> one,
   strict |-> strict, outer |-> outer]
Traverse(rules, x) == IF rules = "der" THEN DerTraverse(x) ELSE CerTraverse(x)

Canonical(rules, w, limits, strict, one) ==
  IF limits.depth > CanonicalMaxDepth THEN Walk("UNSUPPORTED", <<>>, 0)
  ELSE IF Len(w) > limits.input THEN Walk("LIMIT", <<>>, 0)
  ELSE IF one /\ w = <<>> THEN Walk("END", <<>>, 0)
  ELSE Traverse(rules, Traversal(w, 0, limits, one, strict, NoSegments))
Visit(rules, w, limits, strict) == Canonical(rules, w, limits, strict, FALSE)
Read(rules, w, limits, strict)  == Canonical(rules, w, limits, strict, TRUE)

\* The element of an accepted read: DER meets it first, CER last.
ReadElement(rules, r) ==
  LET e == IF rules = "der" THEN r.seen[1] ELSE Last(r.seen) IN [tag |-> e.tag, value |-> e.value]

Checked(b, rc) == IF rc = "OK" THEN b ELSE WriteError(rc)

DerContent(b, e, limits, strict, value) ==
  IF value # "OK" THEN WriteError(value)
  ELSE IF ~IsConstructed(e.tag) THEN b
  ELSE Checked(b, DerTraverse(Traversal(e.value, 1, limits, FALSE, strict, NoSegments)).rc)
DerPut(b, e, limits, strict) ==
  IF b.rc # "OK" THEN b
  ELSE IF limits.depth > CanonicalMaxDepth THEN WriteError("UNSUPPORTED")
  ELSE IF \/ Len(b.bytes) > limits.input \/ limits.elements = 0 \/ Len(e.value) > limits.value
    THEN WriteError("LIMIT")
  ELSE DerContent(b, e, limits, strict, StrictValue(strict, e.tag, e.value))
DerWrite(e, limits, strict) == DerPut(FormatEncode(DerFormat, e), e, limits, strict)

\* A constructed element: its content is checked, its own value size is not.
CerConstructed(b, e, limits, strict) ==
  IF Len(b) > limits.input THEN WriteError("LIMIT")
  ELSE Checked(Bytes(b),
         CerTraverse(Traversal(e.value, 1, limits, FALSE, strict, SegmentsOf(e.tag))).rc)

\* check_primitive_value, between the value's limit and the output's.
CerSized(b, limits) == IF b.rc = "OK" /\ Len(b.bytes) > limits.input THEN WriteError("LIMIT") ELSE b
CerWhole(e, limits, rc) ==
  IF rc # "OK" THEN WriteError(rc) ELSE CerSized(FormatEncode(CerFormat, e), limits)

CerPutTag(e, limits, strict, t) ==
  IF t.rc # "OK" THEN t
  ELSE IF IsConstructed(e.tag)
    THEN CerConstructed(e.tag \o <<LongFormBit>> \o e.value \o <<0, 0>>, e, limits, strict)
  ELSE CerWhole(e, limits, WholeValue(e.tag, e.value, limits, strict))
CerWrite(e, limits, strict) ==
  IF limits.depth > CanonicalMaxDepth THEN WriteError("UNSUPPORTED")
  ELSE IF limits.elements = 0 THEN WriteError("LIMIT")
  ELSE CerPutTag(e, limits, strict, Asn1WriteIdentifier(e.tag))

Write(rules, e, limits, strict) ==
  IF rules = "der" THEN DerWrite(e, limits, strict) ELSE CerWrite(e, limits, strict)

-----------------------------------------------------------------------------
\* write_segmented_string.  A BIT STRING's unused-bits octet precedes every segment: 0
\* in all but the last.
Pieces(src, chunk) ==
  LET full == (Len(src) - 1) \div chunk    \* segment_layout
  IN  [i \in 1 .. full + 1 |-> SubSeq(src, (i - 1) * chunk + 1, Min({i * chunk, Len(src)}))]
Segments(n, v) ==
  IF n # BitString THEN Pieces(v, CerMaxSegment)
  ELSE LET p == Pieces(Tail(v), CerMaxSegment - 1)
       IN  [i \in DOMAIN p |-> <<IF i = Len(p) THEN v[1] ELSE 0>> \o p[i]]
Segmented(tag, s) ==
  <<tag[1] + ConstructedBit, LongFormBit>>
    \o FoldLeft(LAMBDA b, p : b \o tag \o WriteLength(CerFormat, Len(p)).bytes \o p, <<>>, s)
    \o <<0, 0>>
SegmentedBytes(tag, s, limits) ==
  IF Len(Segmented(tag, s)) > limits.input \/ Len(s) + 1 > limits.elements THEN WriteError("LIMIT")
  ELSE Bytes(Segmented(tag, s))

SegmentedContent(tag, v, limits) ==
  IF Len(v) > limits.value THEN WriteError("LIMIT")
  ELSE IF Len(v) <= CerMaxSegment
    THEN CerSized(FormatEncode(CerFormat, [tag |-> tag, value |-> v]), limits)
  ELSE SegmentedBytes(tag, Segments(Number(tag), v), limits)

WriteSegmentedString(tag, v, limits) ==
  IF limits.depth > CanonicalMaxDepth THEN WriteError("UNSUPPORTED")
  ELSE IF limits.elements = 0 THEN WriteError("LIMIT")
  ELSE IF tag = <<>> \/ ~Universal(tag) \/ IsConstructed(tag) THEN WriteError("INVALID_ARG")
  ELSE IF Asn1WriteIdentifier(tag).rc # "OK" THEN Asn1WriteIdentifier(tag)
  ELSE IF ~Segmentable(tag) THEN WriteError("INVALID_ARG")
  ELSE IF UniversalValue(Number(tag), v) # "OK" THEN WriteError(UniversalValue(Number(tag), v))
  ELSE SegmentedContent(tag, v, limits)
-----------------------------------------------------------------------------
(***************************************************************************)
(* A reference for the walks: the elements of w by the format alone, as a    *)
(* recursive descent without limits, and CER's shapes said of a whole        *)
(* string at once.                                                           *)
(***************************************************************************)
FormatOf(rules) == IF rules = "der" THEN DerFormat ELSE CerFormat

SegmentShape(n, kids) ==
  /\ kids # <<>> /\ Total([i \in DOMAIN kids |-> kids[i].value]) > CerMaxSegment
  /\ \A i \in DOMAIN kids : /\ kids[i].tag = <<n>> /\ kids[i].value # <<>>
                            /\ IF i < Len(kids) THEN Len(kids[i].value) = CerMaxSegment
                               ELSE Len(kids[i].value) <= CerMaxSegment
CerShape(e, kids, segment) ==
  IF IsConstructed(e.tag)
    THEN ~PrimitiveOnly(e.tag) /\ (Segmentable(e.tag) => SegmentShape(Number(e.tag), kids))
    ELSE Segmentable(e.tag) /\ ~segment => Len(e.value) <= CerMaxSegment

RECURSIVE Forest(_, _, _, _)
Joint(rules, e, depth, segment, kids, rest) ==
  LET self == <<Visited(e.tag, e.value, depth)>>
  IN  [ok   |-> kids.ok /\ rest.ok /\ (rules = "cer" => CerShape(e, kids.seen, segment)),
       seen |-> (IF rules = "der" THEN self \o kids.seen ELSE kids.seen \o self) \o rest.seen]
Tree(rules, w, depth, segment, d, e) ==
  Joint(rules, e, depth, segment,
        IF IsConstructed(e.tag) THEN Forest(rules, e.value, depth + 1, Segmentable(e.tag))
        ELSE [ok |-> TRUE, seen |-> <<>>],
        Forest(rules, Drop(w, d.size), depth, segment))
FirstTree(rules, w, depth, segment, d) ==
  IF d.rc # "OK" THEN [ok |-> FALSE, seen |-> <<>>]
  ELSE Tree(rules, w, depth, segment, d, ElementOf(FormatOf(rules), w, d))
Forest(rules, w, depth, segment) ==
  IF w = <<>> THEN [ok |-> TRUE, seen |-> <<>>]
  ELSE FirstTree(rules, w, depth, segment, FormatDecode(FormatOf(rules), w))

\* CER refuses a constructed element at the depth limit even when it is empty.
WithinLimits(rules, seen, limits) ==
  /\ Len(seen) <= limits.elements
  /\ \A i \in DOMAIN seen :
       /\ Len(seen[i].value) <= limits.value /\ seen[i].depth <= limits.depth
       /\ rules = "cer" /\ IsConstructed(seen[i].tag) => seen[i].depth < limits.depth

\* A walk accepts exactly the well-formed forests within its limits, visits every element
\* once, parents first in DER, children first in CER, and never outgrows its stack.
WalkMatchesForest(rules, w, limits, v, f) ==
  IF f.ok /\ WithinLimits(rules, f.seen, limits)
    THEN v = Walk("OK", f.seen, Len(w)) ELSE v.rc \notin {"OK", "OVERRUN"}

\* What one reads, the other writes with the same bytes; more bytes change no verdict.
RewritesExactly(rules, w, limits, strict, r) ==
  r.rc = "OK" =>
    Write(rules, ReadElement(rules, r), limits, strict) = Bytes(SubSeq(w, 1, r.used))
ReadIsFinal(rules, w, limits, strict, r) ==
  w # <<>> /\ r.rc # Read(rules, Front(w), limits, strict).rc =>
    Read(rules, Front(w), limits, strict).rc \in {"END", "TRUNCATED"}

\* What is written reads back whole under the same limits, with three exceptions that
\* cer_validation.h:23, :61 and :162 do not make: tlv_cer_write does not hold a constructed
\* element to max_value_size, nor to the form of its type, nor to a max_depth of zero, which
\* leaves its walk no limit but the stack's end (see CerLevelsFit).  Within the limits that
\* are left the first and the last still read back whole, unless what was written is too deep
\* for any reader.
WriterLax(rules, e, limits) ==
  rules = "cer" /\ IsConstructed(e.tag)
    /\ (limits.depth = 0 \/ Len(e.value) > limits.value \/ PrimitiveOnly(e.tag))
HeldTo(e, limits) ==
  [limits EXCEPT !.value = Max({@, Len(e.value)}), !.depth = IF @ = 0 THEN CanonicalMaxDepth ELSE @]
ReadsWhole(rules, e, b, r) == r.rc = "OK" /\ r.used = Len(b) /\ ReadElement(rules, r) = e
LaxReads(e, limits, b, r) ==
  PrimitiveOnly(e.tag) \/ ReadsWhole("cer", e, b, r) \/ (limits.depth = 0 /\ r.rc = "LIMIT")
WritesReadable(rules, e, limits, strict, b) ==
  /\ b.rc = "OVERRUN" => rules = "cer" /\ IsConstructed(e.tag) /\ limits.depth = 0
  /\ b.rc = "OK" =>
       IF WriterLax(rules, e, limits)
         THEN LaxReads(e, limits, b.bytes, Read(rules, b.bytes, HeldTo(e, limits), strict))
         ELSE ReadsWhole(rules, e, b.bytes, Read(rules, b.bytes, limits, strict))

Ample == [depth |-> CanonicalMaxDepth, input |-> UintMax, value |-> UintMax, elements |-> UintMax]

\* The content of a string element read: its value, or its segments joined.
Content(e, seen) ==
  IF ~IsConstructed(e.tag) THEN e.value
  ELSE LET parts == [i \in 1 .. Len(seen) - 1 |-> seen[i].value]
       IN  IF Number(e.tag) # BitString THEN Joined(parts)
           ELSE <<Last(parts)[1]>> \o Joined([i \in DOMAIN parts |-> Tail(parts[i])])

\* Segmenting a string and reading it strictly gives the string, and a segmented string
\* has one encoding, save a BIT STRING whose last segment holds no bits: it is accepted
\* although its content fits a primitive element or a segment less, which
\* cer_validation.h:41 rules out.
SegmentedReads(n, v, b, r) ==
  b.rc = "OK" => r.rc = "OK" /\ r.used = Len(b.bytes) /\ Content(Last(r.seen), r.seen) = v
SegmentsRewrite(e, w, r) ==
  \/ WriteSegmentedString(<<Number(e.tag)>>, Content(e, r.seen), Ample) = Bytes(SubSeq(w, 1, r.used))
  \/ /\ Number(e.tag) = BitString /\ IsConstructed(e.tag)
     /\ Len(r.seen[Len(r.seen) - 1].value) = 1
SegmentsUnique(w, r) ==
  r.rc = "OK" => (Segmentable(Last(r.seen).tag) => SegmentsRewrite(Last(r.seen), w, r))

\* Elements to write: the window cut into a tag and a value, or whole as the value of one
\* of the tags its chunks begin with.
Candidates(w) == {[tag |-> SubSeq(w, 1, k), value |-> Drop(w, k)] : k \in DOMAIN w}
                   \cup {[tag |-> <<c[1]>>, value |-> w] : c \in format.alphabet}

CanonicalRules(rules, w, limits, strict) ==
  /\ RewritesExactly(rules, w, limits, strict, Read(rules, w, limits, strict))
  /\ Len(w) <= limits.input =>
       ReadIsFinal(rules, w, limits, strict, Read(rules, w, limits, strict))
  /\ \A e \in Candidates(w) :
       WritesReadable(rules, e, limits, strict, Write(rules, e, limits, strict))

SegmentedStrings(w, numbers) ==
  \A n \in numbers :
    LET b == WriteSegmentedString(<<n>>, w, Ample)
    IN  SegmentedReads(n, w, b, Read("cer", b.bytes, Ample, TRUE))

\* A tag made from a class and a number is read back whole and gives the number.
TagReads(rules, number, b) ==
  b.rc = "OK" => /\ ReadTag(FormatOf(rules), b.bytes) = [rc |-> "OK", tag |-> b.bytes, used |-> Len(b.bytes)]
                 /\ TagNumberOf(b.bytes) = number
TagsRead(rules, numbers) ==
  \A class \in 0 .. 3, constructed \in BOOLEAN, n \in numbers :
    LET t == TagBytes(class, constructed, n)
    IN  TagReads(rules, n, TagMake(t, WriteTag(FormatOf(rules), t)))

-----------------------------------------------------------------------------
\* The rules a configuration of this module names: none, der or cer.
Ruled == format.rules # "none"

\* The explicit stacks decide what a recursive grammar does, whatever the nesting: BER's
\* scan of contents, and within any limits the walks of tlv_der_visit and tlv_cer_visit,
\* which call the visitor once per element in their order.
WalksMatchGrammar ==
  /\ ScanMatchesGrammar
  /\ Ruled => \A limits \in format.limits :
       Len(window) <= limits.input /\ limits.depth <= CanonicalMaxDepth =>
         WalkMatchesForest(format.rules, window, limits,
           Visit(format.rules, window, limits, FALSE), Forest(format.rules, window, 0, FALSE))

\* Under DER and CER every element has one encoding: what is read is written back to the
\* same bytes, what is written reads back whole within the same limits (WriterLax names
\* what tlv_cer_write lets through), no verdict depends on bytes still to come, and a
\* segmented string is its content.
CanonicalForms ==
  /\ Ruled => \A limits \in format.limits, strict \in BOOLEAN :
       CanonicalRules(format.rules, window, limits, strict)
  /\ format.rules = "cer" => SegmentsUnique(window, Read("cer", window, Ample, TRUE))
  /\ SegmentedStrings(window, format.strings)
  /\ Ruled /\ window = <<>> => TagsRead(format.rules, 0 .. 40 \cup {127, 128, 16383, 16384})

(***************************************************************************)
(* What the header says of CER and the code does not do.                     *)
(***************************************************************************)
\* cer_validation.h:23 "All limits are inclusive, and zero is a real limit", and
\* docs/standards/cer/README.md:67 "Traversal uses a fixed stack": under any limits that
\* are accepted a write's walk keeps to its stack, levels[TLV_CER_MAX_DEPTH].
CerLevelsFit ==
  format.rules = "cer" =>
    \A limits \in format.limits, e \in Candidates(window), strict \in BOOLEAN :
      CerWrite(e, limits, strict).rc # "OVERRUN"

(***************************************************************************)
(* Codecs.  Codecs that normalise padding or widths may write other bytes   *)
(* than they read, and EMV digits that were padded beyond a byte may be     *)
(* refused by their own schema.                                             *)
(***************************************************************************)
Normalises(c) == \/ c.kind \in {"number", "schema", "digits", "text"}
                 \/ c.kind = "emv" /\ c.rep \in {"digits", "afl", "biometric"}
PaddedDigits(c, b) == c.kind = "emv" /\ c.rep = "digits" /\ b.rc = "SCHEMA"

CodecRewrites(c, v, d, b) ==
  \/ d.rc # "OK" \/ PaddedDigits(c, b)
  \/ b.rc = "OK" /\ (b.bytes = v \/ (Normalises(c) /\ CodecDecode(c, b.bytes) = d))

\* The number types beyond which a codec holds fewer values than the type.
Bounded == {2, 6, 10, 13, 35, 36}
Asn1Agrees(n, v, d) == IF d.rc = "OK" THEN ValueOK(n, v) ELSE n \in Bounded \/ ~ValueOK(n, v)

CodecReads(c, v, d) == /\ CodecRewrites(c, v, d, IF d.rc = "OK" THEN CodecEncode(c, d.value) ELSE d)
                       /\ c.kind = "asn1" => Asn1Agrees(c.number, v, d)

\* A codec and its inverse: a value read is written so that it reads the same, to the
\* same bytes unless the codec normalises; a value written reads back as itself; and the
\* ASN.1 codecs take the contents the strict validators take.
CodecsInvert ==
  \A c \in format.codecs :
    /\ CodecReads(c, window, CodecDecode(c, window))
    /\ window = <<>> => \A x \in Offered(c) :
         LET b == CodecEncode(c, x) IN b.rc = "OK" => CodecDecode(c, b.bytes) = Typed(x)
=============================================================================
