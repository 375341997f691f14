-------------------------- MODULE ReaderCore_proofs --------------------------
(***************************************************************************)
(* Lemmas on the pull reader's operators, for every set of streams, every   *)
(* SIZE_MAX and every decode callback: what one decode, one pull and one    *)
(* set_input can do to a window.                                            *)
(***************************************************************************)
EXTENDS ReaderCore, TLAPS

\* The length of a stream is a number (the domain of every offset below).
LEMMA StreamLength == \A s \in Streams : Len(s) \in Nat
BY CallbackAssumption

\* Replacing an answer's code leaves its ranges alone.
LEMMA FailedShape ==
  ASSUME NEW d \in Answers, NEW c \in CallbackCodes
  PROVE  /\ Failed(d, c) \in Answers
         /\ Failed(d, c).rc = c /\ Failed(d, c).size = d.size /\ Failed(d, c).value = d.value
BY DEF Failed, Answers

\* tlv_format_decode never publishes more than it was given: whatever the callback
\* answers, the code is one the reader's callers know, and an accepted element has at
\* least one byte, ends inside the window and holds its value.
LEMMA DecodeSound ==
  ASSUME NEW s \in Streams, NEW i \in 0 .. Len(s), NEW j \in i + 1 .. Len(s)
  PROVE  /\ Decode(s, i, j) \in Answers
         /\ Decode(s, i, j).rc \in DecodeResults
         /\ Decode(s, i, j).rc = "OK" =>
              /\ Decode(s, i, j).size \in 1 .. j - i
              /\ Decode(s, i, j).value.offset + Decode(s, i, j).value.size
                   <= Decode(s, i, j).size
<1> DEFINE d == Callback(SubSeq(s, i + 1, j))
           e == Decode(s, i, j)
<1>1. Len(s) \in Nat /\ i \in Nat /\ j \in Nat /\ j - i \in Nat
  BY StreamLength
<1>2. d \in Answers
  BY CallbackAssumption
<1> HIDE DEF d
<1>3. e = CheckedDecode(d, j - i)
  BY DEF Decode, d
<1> HIDE DEF e
<1>4. CallbackResult(d.rc) \in CallbackCodes
  BY DEF CallbackResult, CallbackCodes, ProviderErrors
<1>5. CallbackResult(d.rc) \in {"BUFFER_TOO_SHORT"} \cup DecodeResults
  BY DEF CallbackResult, DecodeResults, ProviderErrors
<1>6. CASE CallbackResult(d.rc) = "BUFFER_TOO_SHORT"
           \/ (CallbackResult(d.rc) = "OK" /\ ~SourceValid(d, j - i))
  <2>1. e = Failed(d, "CALLBACK")
    BY <1>3, <1>6 DEF CheckedDecode
  <2> QED
    BY <1>2, <2>1, FailedShape DEF CallbackCodes, DecodeResults, ProviderErrors, e
<1>7. CASE ~(CallbackResult(d.rc) = "BUFFER_TOO_SHORT"
             \/ (CallbackResult(d.rc) = "OK" /\ ~SourceValid(d, j - i)))
  <2>1. e = Failed(d, CallbackResult(d.rc))
    BY <1>3, <1>7 DEF CheckedDecode
  <2>2. e \in Answers /\ e.rc = CallbackResult(d.rc) /\ e.size = d.size /\ e.value = d.value
    BY <1>2, <1>4, <2>1, FailedShape
  <2>3. e.rc = "OK" => SourceValid(d, j - i)
    BY <1>7, <2>2
  <2>4. ASSUME SourceValid(d, j - i)
        PROVE  d.size \in 1 .. j - i /\ d.value.offset + d.value.size <= d.size
    BY <1>1, <1>2, <2>4 DEF SourceValid, RangeValid, Answers, Extents
  <2>5. e.rc \in DecodeResults
    BY <1>5, <1>7, <2>2
  <2> QED
    BY <2>2, <2>3, <2>4, <2>5 DEF e
<1> QED
  BY <1>6, <1>7

\* No sum or difference of the reader wraps inside a window.
LEMMA NoWrap ==
  ASSUME NEW a \in Nat, NEW b \in Nat
  PROVE  /\ a + b <= SizeMax => SizeAdd(a, b) = a + b
         /\ b <= a => SizeSub(a, b) = a - b
BY SizeMaxAssumption DEF SizeAdd, SizeSub

\* A reader with a window is valid, and what it reads is the window's undecoded rest.
LEMMA ValidWindow ==
  ASSUME NEW s \in Streams, NEW r \in Readers, InStream(s, r)
  PROVE  /\ ReaderValid(r) = "OK"
         /\ ReaderOffset(r) = r.base + r.pos
         /\ r.base + r.pos \in 0 .. Len(s) /\ r.base + r.size \in 0 .. Len(s)
<1>1. Len(s) \in Nat /\ SizeMax \in Nat
  BY StreamLength, SizeMaxAssumption
<1>2. r.base \in Nat /\ r.size \in Nat /\ r.pos \in Nat
  BY DEF Readers
<1>3. r.base <= SizeMax /\ r.base + r.pos <= SizeMax
  BY <1>1, <1>2 DEF InStream
<1>4. SizeSub(SizeMax, r.base) = SizeMax - r.base
  BY <1>1, <1>2, <1>3, NoWrap
<1>5. ReaderOffset(r) = r.base + r.pos
  BY <1>2, <1>3, NoWrap DEF ReaderOffset
<1> QED
  BY <1>1, <1>2, <1>4, <1>5 DEF ReaderValid, InStream

\* A pull returns a code of the reader's; a pull that succeeds moves the cursor forward
\* inside its window, over exactly the element the decoder accepted, and leaves the
\* window alone.
LEMMA PullSound ==
  ASSUME NEW s \in Streams, NEW r \in Readers, InStream(s, r)
  PROVE  /\ NextResult(s, r) \in {"END", "NEED_MORE_DATA"} \cup DecodeResults
         /\ NextResult(s, r) = "OK" =>
              /\ r.pos < r.size
              /\ ReadImpl(s, r) \in Answers /\ ReadImpl(s, r).rc = "OK"
              /\ ReadImpl(s, r).size \in 1 .. r.size - r.pos
              /\ ReadImpl(s, r).value.offset + ReadImpl(s, r).value.size
                   <= ReadImpl(s, r).size
              /\ Advance(s, r) = [r EXCEPT !.pos = r.pos + ReadImpl(s, r).size]
<1>1. /\ r.base \in Nat /\ r.size \in Nat /\ r.pos \in Nat /\ r.pos <= r.size
      /\ r.base + r.size <= SizeMax /\ SizeMax \in Nat /\ Len(s) \in Nat
  BY StreamLength, SizeMaxAssumption DEF Readers, InStream
<1>2. ReaderValid(r) = "OK"
  BY ValidWindow
<1>3. CASE r.pos = r.size
  BY <1>2, <1>3 DEF NextResult
<1>4. CASE r.pos # r.size
  <2>1. r.base + r.pos \in 0 .. Len(s) /\ r.base + r.size \in r.base + r.pos + 1 .. Len(s)
    BY <1>1, <1>4 DEF InStream
  <2>2. /\ ReadImpl(s, r) \in Answers /\ ReadImpl(s, r).rc \in DecodeResults
        /\ ReadImpl(s, r).rc = "OK" =>
             /\ ReadImpl(s, r).size \in 1 .. (r.base + r.size) - (r.base + r.pos)
             /\ ReadImpl(s, r).value.offset + ReadImpl(s, r).value.size <= ReadImpl(s, r).size
    BY <2>1, DecodeSound DEF ReadImpl
  <2>3. NextResult(s, r) \in {"NEED_MORE_DATA", ReadImpl(s, r).rc}
        /\ (NextResult(s, r) = "OK" => ReadImpl(s, r).rc = "OK")
    BY <1>2, <1>4 DEF NextResult
  <2>4. ASSUME ReadImpl(s, r).rc = "OK"
        PROVE  /\ ReadImpl(s, r).size \in 1 .. r.size - r.pos
               /\ SizeAdd(r.pos, ReadImpl(s, r).size) = r.pos + ReadImpl(s, r).size
    <3>1. ReadImpl(s, r).size \in 1 .. r.size - r.pos
      BY <1>1, <2>2, <2>4
    <3> QED
      BY <1>1, <3>1, NoWrap
  <2>5. ReadImpl(s, r).rc = "OK" => Advance(s, r) = [r EXCEPT !.pos = r.pos + ReadImpl(s, r).size]
    BY <2>4 DEF Advance
  <2>6. NextResult(s, r) \in {"END", "NEED_MORE_DATA"} \cup DecodeResults
    BY <2>2, <2>3
  <2>7. r.pos < r.size
    BY <1>1, <1>4
  <2> QED
    BY <2>2, <2>3, <2>4, <2>5, <2>6, <2>7
<1> QED
  BY <1>3, <1>4

\* What tlv_reader_set_input accepts is a window again: it keeps the bytes not yet
\* decoded, the absolute cursor, and, once final, its end.
LEMMA SetInputSound ==
  ASSUME NEW s \in Streams, NEW r \in Readers, WindowOK(s, r),
         NEW size \in Nat, NEW discard \in Nat, NEW final \in BOOLEAN,
         discard <= r.size, r.base + discard + size <= Len(s),
         final => r.base + discard + size = Len(s),
         SetInputResult(r, size, discard, final) = "OK"
  PROVE  /\ SetInput(r, size, discard, final) \in Readers
         /\ WindowOK(s, SetInput(r, size, discard, final))
         /\ SetInput(r, size, discard, final).base + SetInput(r, size, discard, final).pos
              = r.base + r.pos
         /\ SetInput(r, size, discard, final).base + SetInput(r, size, discard, final).size
              >= r.base + r.size
         /\ r.final => /\ SetInput(r, size, discard, final).final
                       /\ SetInput(r, size, discard, final).base
                            + SetInput(r, size, discard, final).size = r.base + r.size
<1>1. /\ r.base \in Nat /\ r.size \in Nat /\ r.pos \in Nat /\ r.pos <= r.size
      /\ r.base + r.size <= SizeMax /\ SizeMax \in Nat /\ Len(s) \in Nat /\ r.final \in BOOLEAN
  BY StreamLength, SizeMaxAssumption DEF Readers, WindowOK, InStream
<1>2. ReaderValid(r) = "OK"
  BY ValidWindow DEF WindowOK
<1>3. SizeSub(r.size, discard) = r.size - discard /\ SizeAdd(r.base, discard) = r.base + discard
  BY <1>1 DEF SizeSub, SizeAdd
<1>4. SizeSub(SizeMax, r.base + discard) = SizeMax - (r.base + discard)
  BY <1>1 DEF SizeSub
<1>5. /\ discard <= r.pos /\ size >= r.size - discard
      /\ r.final => final /\ size = r.size - discard
      /\ size <= SizeMax - (r.base + discard)
  BY <1>1, <1>2, <1>3, <1>4 DEF SetInputResult
<1>6. SizeSub(r.pos, discard) = r.pos - discard
  BY <1>1, <1>5, NoWrap
<1>7. SetInput(r, size, discard, final)
        = [base |-> r.base + discard, size |-> size, pos |-> r.pos - discard, final |-> final]
  BY <1>3, <1>6 DEF SetInput
<1> QED
  BY <1>1, <1>5, <1>7 DEF Readers, WindowOK, InStream
-----------------------------------------------------------------------------
\* A pull that decides something decides what the whole rest of the stream decides.
LEMMA PullIsRest ==
  ASSUME PrefixStable, NEW s \in Streams, NEW r \in Readers, WindowOK(s, r),
         NextResult(s, r) # "NEED_MORE_DATA"
  PROVE  LET at == r.base + r.pos
         IN  \/ /\ at < Len(s) /\ r.pos # r.size
                /\ ReadImpl(s, r) = DecodeRest(s, at)
                /\ NextResult(s, r) = ReadImpl(s, r).rc
                /\ ReadImpl(s, r).where <= r.size - r.pos \/ r.base + r.size = Len(s)
             \/ /\ at = Len(s) /\ r.pos = r.size
                /\ NextResult(s, r) = "END"
<1>1. /\ r.base \in Nat /\ r.size \in Nat /\ r.pos \in Nat /\ r.pos <= r.size
      /\ r.base + r.size <= Len(s) /\ Len(s) \in Nat
      /\ r.final => r.base + r.size = Len(s)
  BY StreamLength DEF Readers, WindowOK, InStream
<1>2. ReaderValid(r) = "OK"
  BY ValidWindow DEF WindowOK
<1>3. CASE r.pos = r.size
  BY <1>1, <1>2, <1>3 DEF NextResult
<1>4. CASE r.pos # r.size
  <2> DEFINE i == r.base + r.pos
             j == r.base + r.size
  <2>1. i \in 0 .. Len(s) /\ j \in i + 1 .. Len(s) /\ i < Len(s)
        /\ j - i = r.size - r.pos
    BY <1>1, <1>4
  <2>2. NextResult(s, r) = ReadImpl(s, r).rc
        /\ (ReadImpl(s, r).rc = "TRUNCATED" => r.final)
    BY <1>2, <1>4 DEF NextResult
  <2>3. ReadImpl(s, r) = Decode(s, i, j)
    BY DEF ReadImpl
  <2> HIDE DEF i, j
  <2>4. CASE ReadImpl(s, r).rc = "TRUNCATED"
    <3>1. j = Len(s)
      BY <1>1, <2>2, <2>4 DEF j
    <3> QED
      BY <1>4, <2>1, <2>2, <2>3, <3>1 DEF DecodeRest, i, j
  <2>5. CASE ReadImpl(s, r).rc # "TRUNCATED"
    <3>1. Decode(s, i, j) = DecodeRest(s, i) /\ Decode(s, i, j).where <= j - i
      BY <2>1, <2>3, <2>5 DEF PrefixStable
    <3> QED
      BY <1>4, <2>1, <2>2, <2>3, <3>1 DEF i
  <2> QED
    BY <2>4, <2>5
<1> QED
  BY <1>3, <1>4

\* What a pull reads and where it reports an error, if its window is all of a scope.
LEMMA LocationInWindow ==
  ASSUME NEW s \in Streams, NEW r \in Readers, InStream(s, r), r.pos # r.size
  PROVE  LET at == r.base + r.pos
             d  == ReadImpl(s, r)
         IN  /\ d \in Answers /\ d.where \in Nat
             /\ Location(s, r) = {at + w : w \in {x \in {d.where} : x <= r.size - r.pos}}
<1> DEFINE at == r.base + r.pos
           d  == ReadImpl(s, r)
<1>1. /\ r.base \in Nat /\ r.size \in Nat /\ r.pos \in Nat /\ r.pos <= r.size
      /\ r.base + r.size <= Len(s) /\ Len(s) \in Nat
      /\ r.base + r.size <= SizeMax /\ SizeMax \in Nat
  BY StreamLength, SizeMaxAssumption DEF Readers, InStream
<1>2. d \in Answers
  <2>1. at \in 0 .. Len(s) /\ r.base + r.size \in at + 1 .. Len(s)
    BY <1>1
  <2> QED
    BY <2>1, DecodeSound DEF ReadImpl
<1>3. d.where \in Nat
  BY <1>2 DEF Answers
<1>4. ReaderOffset(r) = at /\ SizeSub(r.size, r.pos) = r.size - r.pos
  BY <1>1, ValidWindow DEF SizeSub
<1> HIDE DEF d, at
<1>5. Location(s, r) = {SizeAdd(at, w) : w \in {x \in {d.where} : x <= r.size - r.pos}}
  BY <1>4 DEF Location, d
<1>6. d.where <= r.size - r.pos => SizeAdd(at, d.where) = at + d.where
  BY <1>1, <1>3 DEF at, SizeAdd
<1> QED BY <1>2, <1>3, <1>5, <1>6 DEF at, d

\* A pull's location is the one the reader without windows gives.
LEMMA LocationIsRest ==
  ASSUME PrefixStable, NEW s \in Streams, NEW r \in Readers, WindowOK(s, r), r.pos # r.size,
         NextResult(s, r) # "NEED_MORE_DATA"
  PROVE  Location(s, r)
           = {(r.base + r.pos) + w : w \in {x \in {DecodeRest(s, r.base + r.pos).where} :
                                              x <= Len(s) - (r.base + r.pos)}}
<1> DEFINE at == r.base + r.pos
           d  == ReadImpl(s, r)
<1>1. /\ r.base \in Nat /\ r.size \in Nat /\ r.pos \in Nat /\ r.pos <= r.size
      /\ r.base + r.size <= Len(s) /\ Len(s) \in Nat /\ InStream(s, r)
  BY StreamLength DEF Readers, WindowOK, InStream
<1>2. d = DecodeRest(s, at) /\ (d.where <= r.size - r.pos \/ r.base + r.size = Len(s))
  BY PullIsRest
<1>3. /\ d.where \in Nat
      /\ Location(s, r) = {at + w : w \in {x \in {d.where} : x <= r.size - r.pos}}
  BY <1>1, LocationInWindow
<1> HIDE DEF d
<1>4. d.where <= r.size - r.pos <=> d.where <= Len(s) - at
  BY <1>1, <1>2, <1>3
<1> QED
  BY <1>2, <1>3, <1>4
=============================================================================
