------------------------------ MODULE Compose -------------------------------
(***************************************************************************)
(* Formats: the composition of fields into an element's wire form           *)
(* (src/tlv/src/formats/compose.c, packed.c), with BER, DER and CER among   *)
(* them.  A format f is a record:                                           *)
(*   kind     "fields", "tagged" (with tag-only tags f.tagOnly) or "packed" *)
(*   ident, len   the configurations of its identifier and length fields    *)
(*   order    "TLV" or "LTV"        scope  "VALUE" or "TAG_AND_VALUE"       *)
(*   mask     bit positions of the constructed-bit predicate, {} for none   *)
(* and a packed one has header, tag, length (bit ranges) and known (the     *)
(* numbers its identifier table holds canonically) instead of ident and len.*)
(***************************************************************************)
EXTENDS Ber

NoRange == [offset |-> 0, size |-> 0]
Range1(offset, size) == [offset |-> offset, size |-> size]

\* A decode callback's answers: see module Format.
Refuse(rc, where) ==
  [rc |-> rc, where |-> where, size |-> 0, header |-> NoRange, value |-> NoRange,
   trailer |-> NoRange, tag |-> NoRange, bound |-> FALSE, constructed |-> FALSE]

Accept(tag, header, value, trailer, constructed) ==
  [rc |-> "OK", where |-> 0, size |-> header + value + trailer,
   header |-> Range1(0, header), value |-> Range1(header, value),
   trailer |-> Range1(header + value, trailer), tag |-> tag, bound |-> TRUE,
   constructed |-> constructed]

\* The format's field callbacks.
ReadTag(f, w) == CASE f.ident.kind = "fixed"    -> FixedIdentifierRead(f.ident, w)
                   [] f.ident.kind = "variable" -> VariableIdentifierRead(f.ident, w)
                   [] f.ident.kind = "ber"      -> BerReadTag(w)
                   [] f.ident.kind = "asn1"     -> Asn1ReadIdentifier(w)
                   [] f.ident.kind = "der"      -> DerReadTag(w)
WriteTag(f, tag) == CASE f.ident.kind = "fixed"    -> FixedIdentifierWrite(f.ident, tag)
                      [] f.ident.kind = "variable" -> VariableIdentifierWrite(f.ident, tag)
                      [] f.ident.kind = "ber"      -> BerWriteTag(tag)
                      [] f.ident.kind = "asn1"     -> Asn1WriteIdentifier(tag)
                      [] f.ident.kind = "der"      -> DerWriteTag(tag)
ReadLength(f, tag, w) == CASE f.len.kind = "fixed"    -> FixedLengthRead(f.len, w)
                           [] f.len.kind = "variable" -> VariableLengthRead(f.len, w)
                           [] f.len.kind = "escaped"  -> EscapedLengthRead(f.len, w)
                           [] f.len.kind = "ber"      -> ReadValueBounds(tag, w)
                           [] f.len.kind = "minimal"  -> VariableLengthRead(MinimalLength, w)
                           [] f.len.kind = "cer"      -> CerValueBounds(tag, w)
WriteLength(f, n) == CASE f.len.kind = "fixed"    -> FixedLengthWrite(f.len, n)
                       [] f.len.kind = "variable" -> VariableLengthWrite(f.len, n)
                       [] f.len.kind = "escaped"  -> EscapedLengthWrite(f.len, n)
                       [] f.len.kind \in {"ber", "minimal", "cer"}
                            -> VariableLengthWrite(BerLength, n)

\* tlv_constructed_bit_predicate with byte_index 0 and value = mask.
Constructed(f, tag) == f.mask # {} /\ tag # <<>> /\ f.mask \subseteq Bits(tag[1])

-----------------------------------------------------------------------------
\* tlv_fields_decode, with what the identifier field answered (t) and what the length
\* field answered (l): the first field's failure counts, then the value and the trailer
\* must be among the bytes that remain.
FieldsAnswer(f, w, t, l) ==
  LET tlv  == f.order = "TLV"
      both == f.scope = "TAG_AND_VALUE"
      tagAt == IF tlv THEN 0 ELSE l.used
      lenAt == IF tlv THEN t.used ELSE 0
      empty  == l.rc = "OK" /\ both /\ l.length = 0
      header == t.used + l.used
      value  == IF both THEN l.length - t.used ELSE l.length
  IN  IF tlv /\ t.rc # "OK" THEN Refuse(t.rc, tagAt)
      ELSE IF l.rc # "OK" \/ empty
        THEN Refuse(IF empty THEN "INVALID_LENGTH" ELSE l.rc, lenAt + l.where)
      ELSE IF t.rc # "OK" THEN Refuse(t.rc, tagAt)
      ELSE IF value < 0 THEN Refuse("INVALID_LENGTH", lenAt)
      ELSE IF value > Len(w) - header THEN Refuse("TRUNCATED", header)
      ELSE IF l.trailer > Len(w) - header - value THEN Refuse("TRUNCATED", header + value)
      ELSE Accept(Range1(tagAt, t.used), header, value, l.trailer, Constructed(f, t.tag))

TagFirst(f, w, t)    == FieldsAnswer(f, w, t, ReadLength(f, t.tag, Drop(w, t.used)))
LengthFirst(f, w, l) == FieldsAnswer(f, w, ReadTag(f, Drop(w, l.used)), l)

FieldsDecode(f, w) == IF f.order = "TLV" THEN TagFirst(f, w, ReadTag(f, w))
                      ELSE LengthFirst(f, w, ReadLength(f, <<>>, w))

\* tlv_tagged_fields_decode: the tags in f.tagOnly stand alone; tag first.
TaggedAnswer(f, w, t) ==
  IF t.rc # "OK" THEN Refuse(t.rc, 0)
  ELSE IF t.tag \notin f.tagOnly THEN TagFirst(f, w, t)
  ELSE Accept(Range1(0, t.used), t.used, 0, 0, Constructed(f, t.tag))

TaggedDecode(f, w) == TaggedAnswer(f, w, ReadTag(f, w))

\* tlv_packed_decode: the identifier is a number looked up in a table, and the length
\* is checked against the window before the table is.
PackedDecode(f, w) ==
  LET type  == PackedFieldRead(f.tag, w)
      count == PackedFieldRead(f.length, w)
      tag   == Envelope(f.tag)
      value == IF f.scope = "TAG_AND_VALUE" THEN count - tag.size ELSE count
  IN  IF Len(w) < f.header THEN Refuse("TRUNCATED", 0)
      ELSE IF value < 0 THEN Refuse("INVALID_LENGTH", Envelope(f.length).offset)
      ELSE IF value > Len(w) - f.header THEN Refuse("TRUNCATED", f.header)
      ELSE IF type \notin f.known THEN Refuse("INVALID_TAG", tag.offset)
      ELSE Accept(tag, f.header, value, 0, FALSE)

\* format->decode
DecodeCallback(f, w) == CASE f.kind = "fields" -> FieldsDecode(f, w)
                          [] f.kind = "tagged" -> TaggedDecode(f, w)
                          [] f.kind = "packed" -> PackedDecode(f, w)

\* The element an accepted answer d on w stands for: what it borrows from the window,
\* or, for a packed format, from the identifier table (one byte per entry here).
ElementOf(f, w, d) ==
  [tag   |-> IF f.kind = "packed" THEN <<PackedFieldRead(f.tag, w)>>
             ELSE SubSeq(w, d.tag.offset + 1, d.tag.offset + d.tag.size),
   value |-> SubSeq(w, d.value.offset + 1, d.value.offset + d.value.size)]

-----------------------------------------------------------------------------
\* What the length field counts of an element with the written tag and n value bytes.
CountedSize(f, tag, n) == IF f.scope = "TAG_AND_VALUE" THEN n + Len(tag) ELSE n

\* tlv_fields_measure and tlv_fields_encode of an element with the written tag t.
PutFields(f, t, l, value) ==
  IF l.rc # "OK" THEN l
  ELSE Bytes((IF f.order = "TLV" THEN t.bytes \o l.bytes ELSE l.bytes \o t.bytes) \o value)

PutCounted(f, t, value, n) ==
  IF t.rc # "OK" THEN t
  ELSE IF n > UintMax THEN WriteError("OVERFLOW")
  ELSE PutFields(f, t, WriteLength(f, n), value)

FieldsPut(f, t, value) == PutCounted(f, t, value, CountedSize(f, t.bytes, Len(value)))

FieldsEncode(f, e) == FieldsPut(f, WriteTag(f, e.tag), e.value)

TaggedPut(f, t, value) ==
  IF t.rc # "OK" THEN t
  ELSE IF t.bytes \notin f.tagOnly THEN FieldsPut(f, t, value)
  ELSE IF value # <<>> THEN WriteError("INVALID_LENGTH") ELSE t

TaggedEncode(f, e) == TaggedPut(f, WriteTag(f, e.tag), e.value)

\* tlv_packed_measure and tlv_packed_encode, with one-byte identifiers.
PackedEncode(f, e) ==
  LET overhead == IF f.scope = "TAG_AND_VALUE" THEN Envelope(f.tag).size ELSE 0
      count    == Len(e.value) + overhead
  IN  IF Len(e.tag) # 1 THEN WriteError("INVALID_TAG_SIZE")
      ELSE IF e.tag[1] >= 2 ^ f.tag.bitWidth THEN WriteError("INVALID_TAG")
      ELSE IF count >= 2 ^ f.length.bitWidth THEN WriteError("INVALID_LENGTH")
      ELSE Bytes(PackedHeader(f, e.tag[1], count) \o e.value)

\* Constructed elements go the indefinite way in tlv_format_ber_indefinite, which takes
\* no others, and in tlv_format_cer (cer_encode).
Indefinite(f, e) ==
  f.kind = "fields" /\ (f.indefinite \/ (f.len.kind = "cer" /\ IsConstructed(e.tag)))

\* format->encode
EncodeCallback(f, e) == CASE Indefinite(f, e)    -> IndefiniteEncode(e, WriteTag(f, e.tag))
                          [] f.kind = "fields" /\ ~Indefinite(f, e) -> FieldsEncode(f, e)
                          [] f.kind = "tagged"   -> TaggedEncode(f, e)
                          [] f.kind = "packed"   -> PackedEncode(f, e)

\* What the *_format_init functions accept.
FormatInit(f) ==
  /\ f.order \in {"TLV", "LTV"} /\ f.scope \in {"VALUE", "TAG_AND_VALUE"}
  /\ f.kind = "packed" =>
       /\ f.header \in 1 .. UintOctets
       /\ f.tag.byteOrder = f.length.byteOrder
       /\ \A c \in {f.tag, f.length} : /\ c.storage = f.header /\ c.bitWidth > 0
                                       /\ c.bitOffset + c.bitWidth <= 8 * c.storage
       /\ \/ f.tag.bitOffset >= f.length.bitOffset + f.length.bitWidth
          \/ f.length.bitOffset >= f.tag.bitOffset + f.tag.bitWidth
  /\ f.kind # "packed" /\ f.ident.kind \in {"fixed", "variable"} =>
       IdentifierValidate(f.ident) /\ LengthValidate(f.len)
  /\ f.kind = "tagged" =>
       /\ f.order = "TLV" /\ f.scope = "VALUE"
       /\ \A tag \in f.tagOnly : tag # <<>> /\ WriteTag(f, tag).rc = "OK"

-----------------------------------------------------------------------------
\* tlv_format_ber, as the models of the readers and writers use it.
BerFormat == [kind |-> "fields", order |-> "TLV", scope |-> "VALUE", mask |-> {5},
              tagOnly |-> {}, indefinite |-> FALSE, ident |-> BerIdentifier,
              len |-> BerLength]

\* The callback's answers on every window of some streams, tabulated once.
Windows(s)   == {SubSeq(s, i, j) : i \in 1 .. Len(s), j \in 1 .. Len(s)} \ {<<>>}
AnswersOn(S) == <<>> @@ [w \in UNION {Windows(s) : s \in S} |-> FieldsDecode(BerFormat, w)]
=============================================================================
