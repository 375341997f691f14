-------------------------------- MODULE Ber ---------------------------------
(***************************************************************************)
(* BER framing (src/tlv/src/builtins/asn1/ber.c, ber_internal.c): Variable  *)
(* fields under the BER policies, and the scan that finds the end of an     *)
(* indefinite-length value with an explicit stack of open scopes.           *)
(***************************************************************************)
EXTENDS Fields

CONSTANTS
  BerMaxDepth,  \* TLV_BER_MAX_DEPTH: 64 in the code
  BerTagMax     \* TLV_ASN1_TAG_MAX_SIZE: 8 in the code

ASSUME BerBoundsAssumption == BerMaxDepth \in Nat \ {0} /\ BerTagMax \in Nat \ {0}

ConstructedBit == 32    \* TLV_ASN1_CONSTRUCTED_BIT
LongFormBit    == 128   \* TLV_BER_LENGTH_LONG_FORM_BIT; alone: indefinite length
EocSize        == 2     \* TLV_BER_EOC_SIZE

BerIdentifier == [kind |-> "ber", inline |-> 0 .. 4, escape |-> 0 .. 4, continuation |-> {7},
                  payload |-> 0 .. 6, max |-> BerTagMax, forbidden |-> {}, rejectZeroFirst |-> TRUE,
                  minimal |-> FALSE]
BerLength == [kind |-> "ber", longForm |-> {7}, payload |-> 0 .. 6, byteOrder |-> "BIG",
              policy |-> {[allowShort |-> TRUE, allowLong |-> TRUE, minimal |-> FALSE,
                           maxLongOctets |-> 126, maxValue |-> UintMax]}]

IsConstructed(tag) == tag # <<>> /\ 5 \in Bits(tag[1])   \* tlv_asn1_is_constructed

\* read_tag and write_tag of ber.c: universal tag zero is reserved for EOC.
ReservedTag(w) == w # <<>> /\ w[1] \in {0, ConstructedBit}
BerReadTag(w) == IF ReservedTag(w) THEN TagError("INVALID_TAG", 0)
                 ELSE VariableIdentifierRead(BerIdentifier, w)
BerWriteTag(tag) == IF ReservedTag(tag) THEN WriteError("INVALID_TAG")
                    ELSE VariableIdentifierWrite(BerIdentifier, tag)

-----------------------------------------------------------------------------
\* A scan's answer: the value's size and what it consumed, or an error at `where'.
Scanned(value, consumed) == [rc |-> "OK", value |-> value, consumed |-> consumed, where |-> 0]

\* A scan that reports every missing byte as one still to come.
ScanFailure_Unbounded(rc, where, bounded) ==
  [rc |-> rc, value |-> 0, consumed |-> 0, where |-> where]

\* A scan that takes every missing byte for a malformed scope.
ScanFailure_AllBounded(rc, where, bounded) ==
  [rc |-> IF rc = "TRUNCATED" THEN "INVALID_LENGTH" ELSE rc,
   value |-> 0, consumed |-> 0, where |-> where]

\* scan_failure: bytes missing inside a definite scope can never arrive.
ScanFailure(rc, where, bounded) ==
  [rc |-> IF rc = "TRUNCATED" /\ bounded THEN "INVALID_LENGTH" ELSE rc,
   value |-> 0, consumed |-> 0, where |-> where]

Scope == [end : Nat, terminated : BOOLEAN, bounded : BOOLEAN]

(***************************************************************************)
(* The loop of tlv_ber_scan_contents_diag.  Its state is the position (from *)
(* 0) and the open scopes, the innermost last; without scopes it has its    *)
(* answer.                                                                  *)
(***************************************************************************)
ScanStates == [pos : Nat, scopes : Seq(Scope),
               answer : SUBSET [rc : STRING, value : Nat, consumed : Nat, where : Nat]]

GoOn(pos, scopes) == [pos |-> pos, scopes |-> scopes, answer |-> {}]
Stop(answer)      == [pos |-> 0, scopes |-> <<>>, answer |-> {answer}]
StopAt(rc, where, scopes) == Stop(ScanFailure(rc, where, Last(scopes).bounded))

\* The innermost scope ends at pos; the bytes after it start at next.
CloseScope(pos, next, scopes) ==
  IF Len(scopes) = 1 THEN Stop(Scanned(pos, next)) ELSE GoOn(next, Front(scopes))

\* The value of an element, l long from valueAt; open: up to an EOC in the innermost scope.
ScanValue(scopes, constructed, open, valueAt, l) ==
  IF l > Last(scopes).end - valueAt THEN StopAt("TRUNCATED", valueAt, scopes)
  ELSE IF ~constructed THEN GoOn(valueAt + l, scopes)
  ELSE IF Len(scopes) = BerMaxDepth THEN StopAt("LIMIT", valueAt, scopes)
  ELSE GoOn(valueAt, Append(scopes, [end |-> valueAt + l, terminated |-> open,
                                     bounded |-> Last(scopes).bounded \/ ~open]))

ScanDefinite(scopes, constructed, lenAt, len) ==
  IF len.rc # "OK" THEN StopAt(len.rc, lenAt, scopes)
  ELSE ScanValue(scopes, constructed, FALSE, lenAt + len.used, len.length)

ScanLength(scopes, constructed, lenAt, w) ==
  IF w = <<>> THEN StopAt("TRUNCATED", lenAt, scopes)
  ELSE IF w[1] # LongFormBit
    THEN ScanDefinite(scopes, constructed, lenAt, VariableLengthRead(BerLength, w))
  ELSE IF ~constructed THEN StopAt("INVALID_LENGTH", lenAt, scopes)
  ELSE ScanValue(scopes, constructed, TRUE, lenAt + 1, Last(scopes).end - lenAt - 1)

ScanTag(scopes, pos, w, t) ==
  IF t.rc # "OK" THEN StopAt(t.rc, pos, scopes)
  ELSE ScanLength(scopes, IsConstructed(t.tag), pos + t.used, Drop(w, t.used))

\* One round: w is what the innermost scope still holds.
ScanRound(scopes, pos, w) ==
  IF w = <<>> THEN IF Last(scopes).terminated THEN StopAt("TRUNCATED", pos, scopes)
                   ELSE CloseScope(pos, pos, scopes)
  ELSE IF w[1] # 0 THEN ScanTag(scopes, pos, w, BerReadTag(w))
  ELSE IF Len(w) < EocSize THEN StopAt("TRUNCATED", pos, scopes)
  ELSE IF w[2] # 0 THEN StopAt("INVALID_LENGTH", pos, scopes)
  ELSE IF ~Last(scopes).terminated THEN StopAt("INVALID_TAG", pos, scopes)
  ELSE CloseScope(pos, pos + EocSize, scopes)

ScanFrom(w, first) ==
  LET Loop[s \in ScanStates] ==
        IF s.scopes = <<>> THEN CHOOSE a \in s.answer : TRUE
        ELSE Loop[ScanRound(s.scopes, s.pos, SubSeq(w, s.pos + 1, Last(s.scopes).end))]
  IN  Loop[GoOn(0, <<first>>)]

\* A scan that ends an indefinite value at the first zero pair it meets.
ScanContents_FirstEoc(w, indefinite) ==
  LET pairs == {k \in 1 .. Len(w) - 1 : w[k] = 0 /\ w[k + 1] = 0}
  IN  IF indefinite /\ pairs # {} THEN Scanned(Min(pairs) - 1, Min(pairs) + 1)
      ELSE ScanFrom(w, [end |-> Len(w), terminated |-> indefinite, bounded |-> FALSE])

\* tlv_ber_scan_contents_diag
ScanContents(w, indefinite) ==
  ScanFrom(w, [end |-> Len(w), terminated |-> indefinite, bounded |-> FALSE])

\* read_value_bounds: the resolver that tlv_fields_decode calls for BER's length field.
IndefiniteBounds(s) ==
  IF s.rc # "OK" THEN [LengthError(s.rc, 1) EXCEPT !.where = s.where + 1]
  ELSE [LengthOK(s.value, 1) EXCEPT !.trailer = EocSize]

ReadValueBounds(tag, w) ==
  IF w = <<>> \/ w[1] # LongFormBit THEN VariableLengthRead(BerLength, w)
  ELSE IF ~IsConstructed(tag) THEN LengthError("INVALID_LENGTH", 1)
  ELSE IndefiniteBounds(ScanContents(Drop(w, 1), TRUE))

\* tlv_asn1_indefinite_encode, with what the format's write_tag answered (t): the content
\* must be well-framed BER.
Wrapped(e, rc) == IF rc # "OK" THEN WriteError(rc)
                  ELSE Bytes(e.tag \o <<LongFormBit>> \o e.value \o <<0, 0>>)
IndefiniteEncode(e, t) ==
  IF t.rc # "OK" THEN t
  ELSE IF ~IsConstructed(e.tag) THEN WriteError("INVALID_LENGTH")
  ELSE Wrapped(e, ScanContents(e.value, FALSE).rc)
-----------------------------------------------------------------------------
(***************************************************************************)
(* The fields of tlv_format_der and tlv_format_cer                          *)
(* (src/tlv/src/builtins/asn1: asn1_internal.c, identifier.c, der.c, cer.c): *)
(* BER's, restricted to identifiers and lengths with one canonical form.    *)
(***************************************************************************)
\* The policies of tlv_asn1_read_identifier and tlv_asn1_read_minimal_length.
Asn1Identifier == [BerIdentifier EXCEPT !.kind = "asn1", !.minimal = TRUE]
DerIdentifier  == [Asn1Identifier EXCEPT !.kind = "der"]
MinimalLength  == [BerLength EXCEPT !.kind = "minimal",
                                    !.policy = {[p EXCEPT !.minimal = TRUE] : p \in @}]
CerLength      == [MinimalLength EXCEPT !.kind = "cer"]

MustConstruct  == {8, 11, 16, 17, 29}   \* tlv_asn1_number_must_construct
LastAssigned   == 36                    \* larger universal numbers are opaque

\* The class bits of an identifier are clear.
Universal(tag) == Bits(tag[1]) \cap {6, 7} = {}

\* The number of an accepted tag as the identifier checks see it: from three bytes on it
\* is above every assigned number.
ShortNumber(tag) == CASE Len(tag) = 1 -> tag[1] % 32
                      [] Len(tag) = 2 -> tag[2]
                      [] OTHER        -> 127

\* tlv_asn1_tag_number_checked of a tag that its write_tag accepts.
TagNumberOf(tag) ==
  IF Len(tag) = 1 THEN tag[1] % 32 ELSE FoldLeft(LAMBDA n, b : n * 128 + (b % 128), 0, Tail(tag))

\* A tag t that was read, unless its universal number is reserved or lacks the
\* constructed bit it must have.
Classified(t) ==
  IF /\ t.rc = "OK" /\ Universal(t.tag)
     /\ \/ ShortNumber(t.tag) \in {0, 15}
        \/ ShortNumber(t.tag) \in MustConstruct /\ ~IsConstructed(t.tag)
    THEN TagError("INVALID_TAG", 0) ELSE t

Asn1ReadIdentifier(w) == Classified(VariableIdentifierRead(Asn1Identifier, w))

\* der_read_tag: every other assigned universal number stays primitive.
DerClassified(t) ==
  IF /\ t.rc = "OK" /\ Universal(t.tag) /\ IsConstructed(t.tag)
     /\ ShortNumber(t.tag) <= LastAssigned /\ ShortNumber(t.tag) \notin MustConstruct
    THEN TagError("INVALID_TAG", 0) ELSE t

DerReadTag(w) == DerClassified(Asn1ReadIdentifier(w))

\* tlv_asn1_write_identifier_checked, for CER and for DER.
Asn1WriteIdentifier(tag) == WriteRead(Asn1Identifier, tag, Asn1ReadIdentifier(tag))
DerWriteTag(tag)         == WriteRead(DerIdentifier, tag, DerReadTag(tag))

\* read_value_bounds of cer.c: constructed values are indefinite, primitive ones definite.
CerValueBounds(tag, w) ==
  IF w = <<>> THEN LengthError("TRUNCATED", 0)
  ELSE IF IsConstructed(tag) # (w[1] = LongFormBit) THEN LengthError("INVALID_LENGTH", 1)
  ELSE IF IsConstructed(tag) THEN IndefiniteBounds(ScanContents(Drop(w, 1), TRUE))
  ELSE VariableLengthRead(MinimalLength, w)

-----------------------------------------------------------------------------
\* tlv_asn1_tag_make_checked: the tag bytes of a class (0..3) and number, which `written'
\* (what write_tag answers of them) then accepts or not.
Base128(n) ==
  LET Digits[k \in Nat] == IF k < 128 THEN <<k>> ELSE Append(Digits[k \div 128], k % 128)
      d == Digits[n]
  IN  [i \in DOMAIN d |-> IF i < Len(d) THEN d[i] + 128 ELSE d[i]]

TagBytes(class, constructed, number) ==
  LET lead == class * 64 + (IF constructed THEN ConstructedBit ELSE 0)
  IN  IF number < 31 THEN <<lead + number>> ELSE <<lead + 31>> \o Base128(number)

TagMake(bytes, written) ==
  IF Len(bytes) > BerTagMax THEN WriteError("INVALID_TAG_SIZE")
  ELSE IF written.rc # "OK" THEN WriteError("INVALID_TAG")
  ELSE Bytes(bytes)
=============================================================================
