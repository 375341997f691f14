------------------------------- MODULE Values -------------------------------
(***************************************************************************)
(* The contents of primitive UNIVERSAL elements (src/tlv/src/builtins/asn1: *)
(* asn1_values_internal.c, asn1_codec.c; src/tlv/src/utf8_internal.c): what  *)
(* the canonical rules accept, and the codecs between content bytes and     *)
(* typed values.  A validator is a predicate on the content v.              *)
(***************************************************************************)
EXTENDS Ber

CONSTANT MaxArcs   \* TLV_ASN1_OID_MAX_ARCS and TLV_ASN1_IRI_MAX_ARCS: 32 in the code

ASSUME MaxArcsAssumption == MaxArcs \in Nat \ {0, 1}

Digits == 48 .. 57
DotCh  == 46    \* '.'
Slash  == 47    \* '/'
ZuluCh == 90    \* 'Z'
TimeCh == 84    \* 'T'

Subset(v, set) == \A i \in DOMAIN v : v[i] \in set

IsBoolean(v) == v \in {<<0>>, <<255>>}

\* A first octet that only repeats the sign of the next one.
Redundant(v) == Len(v) > 1 /\ ((v[1] = 0 /\ v[2] < 128) \/ (v[1] = 255 /\ v[2] >= 128))

\* Minimal two's complement: INTEGER, ENUMERATED and the exponents of REAL.
IsInteger(v)   == v # <<>> /\ ~Redundant(v)
IsNull(v)      == v = <<>>

\* The unused bits that the first octet counts are clear in the last one.
IsBitString(v) ==
  /\ v # <<>> /\ v[1] <= 7
  /\ IF Len(v) = 1 THEN v[1] = 0 ELSE Last(v) % 2 ^ v[1] = 0

\* Base-128 subidentifiers, none with a leading zero digit, the last one ended.
IsOid(v) ==
  /\ v # <<>> /\ Last(v) < 128
  /\ \A i \in DOMAIN v : v[i] = 128 => i > 1 /\ v[i - 1] >= 128

\* Binary REAL with base 2 and no scale: e octets of exponent and an odd mantissa.
IsBinaryReal(v, e) ==
  /\ e <= 3 /\ Len(v) >= e + 2
  /\ IsInteger(SubSeq(v, 2, e + 1))
  /\ Len(v) > e + 2 => v[e + 2] # 0
  /\ Last(v) % 2 = 1

IsReal(v) ==
  \/ v = <<>>
  \/ Len(v) = 1 /\ v[1] \in 64 .. 67
  \/ v # <<>> /\ v[1] >= 128 /\ Bits(v[1]) \cap 2 .. 5 = {} /\ IsBinaryReal(v, (v[1] % 4) + 1)

Numeric   == Digits \cup {32}
Printable == Digits \cup 65 .. 90 \cup 97 .. 122 \cup {32, 39, 40, 41, 43, 44, 45, 46, 47, 58, 61, 63}
Ia5       == 0 .. 127
Visible   == 32 .. 126

-----------------------------------------------------------------------------
(***************************************************************************)
(* tlv_utf8_stream_t: the bytes of a code point still incomplete; ok is     *)
(* FALSE once a byte was refused.                                           *)
(***************************************************************************)
Utf8Start == [pending |-> <<>>, ok |-> TRUE]

Utf8Need(b) == CASE b \in 192 .. 223 -> 2 [] b \in 224 .. 239 -> 3 [] b \in 240 .. 247 -> 4
                 [] OTHER -> 0

\* utf8_stream_finish_codepoint: neither overlong, nor a surrogate, nor out of range.
CodePoint(p) ==
  FoldLeft(LAMBDA c, b : c * 64 + (b % 64), p[1] % 2 ^ (7 - Len(p)), Tail(p))
CodePointOK(n, c) ==
  /\ c >= (CASE n = 2 -> 128 [] n = 3 -> 2048 [] n = 4 -> 65536)
  /\ c <= 1114111 /\ c \notin 55296 .. 57343

Collected(p) == IF Len(p) < Utf8Need(p[1]) THEN [pending |-> p, ok |-> TRUE]
                ELSE [pending |-> <<>>, ok |-> CodePointOK(Len(p), CodePoint(p))]

Utf8Byte(s, b) ==
  IF ~s.ok THEN s
  ELSE IF s.pending # <<>>
    THEN IF b \in 128 .. 191 THEN Collected(Append(s.pending, b)) ELSE [s EXCEPT !.ok = FALSE]
  ELSE IF b < 128 THEN s
  ELSE [pending |-> <<b>>, ok |-> Utf8Need(b) > 0]

Utf8Update(s, v) == FoldLeft(Utf8Byte, s, v)
Utf8Finish(s)    == s.ok /\ s.pending = <<>>
IsUtf8(v)        == Utf8Finish(Utf8Update(Utf8Start, v))

\* Four-byte code points and two-byte code units, bytewise: no surrogates.
IsUniversalString(v) ==
  /\ Len(v) % 4 = 0
  /\ \A i \in DOMAIN v : i % 4 = 1 =>
       /\ v[i] = 0 /\ v[i + 1] <= 16
       /\ ~(v[i + 1] = 0 /\ v[i + 2] \in 216 .. 223)
IsBmpString(v) ==
  /\ Len(v) % 2 = 0
  /\ \A i \in DOMAIN v : i % 2 = 1 => v[i] \notin 216 .. 223

-----------------------------------------------------------------------------
\* Digit strings of calendar fields; days are range-checked only.
Pair(v, i)  == (v[i] - 48) * 10 + v[i + 1] - 48
DateOK(month, day)               == month \in 1 .. 12 /\ day \in 1 .. 31
ClockOK(hour, minute, second)    == hour <= 23 /\ minute <= 59 /\ second <= 59

IsDate(v)      == Len(v) = 8 /\ Subset(v, Digits) /\ DateOK(Pair(v, 5), Pair(v, 7))
IsTimeOfDay(v) == Len(v) = 6 /\ Subset(v, Digits) /\ ClockOK(Pair(v, 1), Pair(v, 3), Pair(v, 5))
IsDateTime(v)  == Len(v) = 14 /\ IsDate(SubSeq(v, 1, 8)) /\ IsTimeOfDay(SubSeq(v, 9, 14))

\* YYMMDDHHMMSSZ
IsUtcTime(v) == /\ Len(v) = 13 /\ Subset(Front(v), Digits) /\ v[13] = ZuluCh
                /\ DateOK(Pair(v, 3), Pair(v, 5)) /\ ClockOK(Pair(v, 7), Pair(v, 9), Pair(v, 11))

\* YYYYMMDDHHMMSS, a fraction that does not end in '0', Z.
IsFraction(v) == v # <<>> /\ Subset(v, Digits) /\ Last(v) # 48
IsGeneralizedTime(v) ==
  /\ Len(v) >= 15 /\ IsDateTime(SubSeq(v, 1, 14)) /\ Last(v) = ZuluCh
  /\ Len(v) > 15 => v[15] = DotCh /\ IsFraction(SubSeq(v, 16, Len(v) - 1))

IsTime(v) == v # <<>> /\ Subset(v, Visible)

(***************************************************************************)
(* DURATION: components of strictly increasing rank in the date part and in *)
(* the time part.  phase: before a component ("start"), in its digits       *)
(* ("int"), after its point ("dot"), in its fraction ("frac"), refused      *)
(* ("bad").  rank is the current part's; T starts the time part at rank 0.  *)
(***************************************************************************)
DesignatorRank(time, b) ==
  CASE b = 77 -> 2
    [] ~time /\ b = 89 -> 1 [] ~time /\ b = 68 -> 3     \* Y M D
    [] time /\ b = 72 -> 1  [] time /\ b = 83 -> 3      \* H M S
    [] OTHER -> 0

Designated(s, rank) ==
  [s EXCEPT !.rank = rank,
            !.phase = IF rank > s.rank /\ ~(s.time /\ s.phase = "frac" /\ rank # 3)
                        THEN "start" ELSE "bad"]

DurationByte(s, b) ==
  CASE s.phase = "start" /\ ~s.time /\ b = TimeCh -> [s EXCEPT !.time = TRUE, !.rank = 0]
    [] s.phase \in {"start", "int"} /\ b \in Digits -> [s EXCEPT !.phase = "int"]
    [] s.phase = "int" /\ b = DotCh                 -> [s EXCEPT !.phase = "dot"]
    [] s.phase \in {"dot", "frac"} /\ b \in Digits  -> [s EXCEPT !.phase = "frac"]
    [] s.phase \in {"int", "frac"} /\ b \notin Digits \cup {DotCh}
                                                    -> Designated(s, DesignatorRank(s.time, b))
    [] OTHER                                        -> [s EXCEPT !.phase = "bad"]

DurationEnd(v) == FoldLeft(DurationByte, [phase |-> "start", time |-> FALSE, rank |-> 0], v)
IsDuration(v)  == DurationEnd(v).phase = "start" /\ DurationEnd(v).rank > 0

\* validate_iri_arcs: '/'-separated labels, none empty, after a '/' iff absolute.
IsIri(absolute, v) ==
  /\ v # <<>> /\ IsUtf8(v)
  /\ (v[1] = Slash) = absolute /\ Last(v) # Slash
  /\ \A i \in 1 .. Len(v) - 1 : v[i] # Slash \/ v[i + 1] # Slash

-----------------------------------------------------------------------------
Unrestricted == {4, 7, 20, 21, 25, 27}   \* OCTET STRING and the ISO 2022 strings

\* The assigned numbers with primitive content and what each accepts.
ValueOK(n, v) ==
  CASE n = 1             -> IsBoolean(v)
    [] n \in {2, 10}     -> IsInteger(v)
    [] n = 3             -> IsBitString(v)
    [] n \in Unrestricted -> TRUE
    [] n = 5             -> IsNull(v)
    [] n \in {6, 13}     -> IsOid(v)
    [] n = 9             -> IsReal(v)
    [] n = 12            -> IsUtf8(v)
    [] n = 14            -> IsTime(v)
    [] n = 18            -> Subset(v, Numeric)
    [] n = 19            -> Subset(v, Printable)
    [] n = 22            -> Subset(v, Ia5)
    [] n = 23            -> IsUtcTime(v)
    [] n = 24            -> IsGeneralizedTime(v)
    [] n = 26            -> Subset(v, Visible)
    [] n = 28            -> IsUniversalString(v)
    [] n = 30            -> IsBmpString(v)
    [] n = 31            -> IsDate(v)
    [] n = 32            -> IsTimeOfDay(v)
    [] n = 33            -> IsDateTime(v)
    [] n = 34            -> IsDuration(v)
    [] n = 35            -> IsIri(TRUE, v)
    [] n = 36            -> IsIri(FALSE, v)

ValueNumbers == 1 .. LastAssigned \ (MustConstruct \cup {15})

\* tlv_asn1_validate_universal_value
UniversalValue(n, v) == IF n \notin ValueNumbers THEN "UNSUPPORTED"
                        ELSE IF ValueOK(n, v) THEN "OK" ELSE "INVALID_VALUE"
=============================================================================
