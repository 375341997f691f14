------------------------------- MODULE Codecs -------------------------------
(***************************************************************************)
(* Codecs between the content bytes of an element and a typed value         *)
(* (tlv_codec_t): the generic ones (src/tlv/src/codec, schema/number.c),    *)
(* ASN.1 (builtins/asn1/asn1_codec.c), EMV (builtins/emv/emv_codec.c), LLDP  *)
(* (builtins/lldp/codec.c) and Bluetooth (builtins/bluetooth).  A codec c is *)
(* a record with its kind and its context; decoding answers [rc, value] and  *)
(* encoding [rc, bytes].  Destinations are large enough.                    *)
(***************************************************************************)
EXTENDS Values

CONSTANTS
  Track2PanMax,            \* TLV_EMV_TRACK2_PAN_MAX_DIGITS: 19
  Track2DiscretionaryMax,  \* TLV_EMV_TRACK2_DISCRETIONARY_MAX_DIGITS: 30
  NumberMax,               \* octets of a binary number: 8
  NumberListMax,           \* capacity of tlv_emv_number_list_t: 4
  AflMax                   \* TLV_EMV_AFL_MAX_ENTRIES: 63

Typed(x)  == [rc |-> "OK", value |-> x]
Untyped   == [rc |-> "INVALID_VALUE", value |-> 0]
Unwritten == WriteError("INVALID_VALUE")

TypedIf(ok, x)  == IF ok THEN Typed(x) ELSE Untyped
BytesIf(ok, b)  == IF ok THEN Bytes(b) ELSE Unwritten

-----------------------------------------------------------------------------
(* codec/values.c, ipv4.c, bluetooth/uuid.c: whole bytes and fixed widths *)

UintDecode(c, v) == IF Len(v) = c.width THEN Typed(ReadUint(v, c.byteOrder)) ELSE Untyped
UintEncode(c, n) == Bytes(WriteUint(n, c.width, c.byteOrder))

\* An IPv4 address and a 128-bit UUID, which is reversed.
ArrayDecode(c, v) == TypedIf(Len(v) = c.width, MostSignificantFirst(v, c.byteOrder))
ArrayEncode(c, x) == Bytes(MostSignificantFirst(x, c.byteOrder))

\* Lists of addresses or UUIDs borrow the whole value and say how wide an entry is.
ListDecode(c, v) == TypedIf(Len(v) % c.width = 0, [raw |-> v, width |-> c.width])
ListEncode(c, x) == BytesIf(x.width = c.width /\ Len(x.raw) % c.width = 0, x.raw)

\* integer_decode_value and encode_integer: two's complement, at most a machine integer.
TwosValue(v) == ReadUint(v, "BIG") - (IF v[1] >= 128 THEN 256 ^ Len(v) ELSE 0)
IntegerDecode(v) == TypedIf(IsInteger(v) /\ Len(v) <= UintOctets, v)

\* A minimal size that forgets the sign of the octet it stops at.
MinimalOctets_Unsigned(full) ==
  Drop(full, Min({k \in 1 .. Len(full) : full[k] # 0 \/ k = Len(full)}) - 1)

\* integer_minimal_size drops the leading octets that only repeat the sign.
MinimalOctets(full) ==
  LET Cut(k) == ~Redundant(Drop(full, k - 1))
  IN  Drop(full, Min({k \in 1 .. Len(full) : Cut(k)}) - 1)
TwosOctets(n) == WriteUint(IF n < 0 THEN n + 256 ^ UintOctets ELSE n, UintOctets, "BIG")

IntegerTyped(d) == IF d.rc = "OK" THEN Typed(TwosValue(d.value)) ELSE d

-----------------------------------------------------------------------------
(* codec/number.c, schema/number.c: BCD and binary numbers *)

NumberLimit(c)  == IF c.encoding = "BCD" THEN 9 ELSE NumberMax
NumberOrder(c)  == IF c.encoding = "LE" THEN "LITTLE" ELSE "BIG"
BcdValue(v)     == FoldLeft(LAMBDA n, b : n * 100 + (b \div 16) * 10 + (b % 16), 0, v)
BcdDigits(v)    == \A i \in DOMAIN v : v[i] \div 16 <= 9 /\ v[i] % 16 <= 9
BcdOctets(n, w) == [i \in 1 .. w |-> LET p == (n \div 100 ^ (w - i)) % 100
                                     IN  (p \div 10) * 16 + (p % 10)]

NumberDecode(c, v) ==
  IF v = <<>> \/ Len(v) > NumberLimit(c) \/ (c.width > 0 /\ Len(v) # c.width) THEN Untyped
  ELSE IF c.encoding = "BCD" THEN TypedIf(BcdDigits(v) /\ BcdValue(v) < 10 ^ c.digits, BcdValue(v))
  ELSE Typed(ReadUint(v, NumberOrder(c)))

Radix(c)          == IF c.encoding = "BCD" THEN 100 ELSE 256
NaturalWidth(c, n) ==
  LET Width[k \in Nat] == IF k < Radix(c) THEN 1 ELSE 1 + Width[k \div Radix(c)] IN Width[n]
NumberOctets(c, n, w) == IF c.encoding = "BCD" THEN BcdOctets(n, w) ELSE WriteUint(n, w, NumberOrder(c))

NumberEncode(c, n) ==
  IF \/ c.encoding = "BCD" /\ n >= 10 ^ c.digits
     \/ c.width > 0 /\ NaturalWidth(c, n) > c.width
    THEN Unwritten
  ELSE Bytes(NumberOctets(c, n, IF c.width > 0 THEN c.width ELSE NaturalWidth(c, n)))

\* tlv_schema_number_decode and _encode: the width is widened until the schema takes it.
SchemaNumberDecode(c, v) ==
  IF Len(v) \notin c.lengths THEN [Untyped EXCEPT !.rc = "SCHEMA"] ELSE NumberDecode(c, v)

SchemaNumberWiden(c, n, b) ==
  LET widths == {w \in Len(b.bytes) .. NumberLimit(c) : w \in c.lengths}
  IN  IF b.rc # "OK" THEN b
      ELSE IF c.width > 0 THEN IF c.width \in c.lengths THEN b ELSE WriteError("SCHEMA")
      ELSE IF widths = {} THEN WriteError("SCHEMA")
      ELSE NumberEncode([c EXCEPT !.width = Min(widths)], n)
SchemaNumberEncode(c, n) == SchemaNumberWiden(c, n, NumberEncode(c, n))

-----------------------------------------------------------------------------
(* codec/digits.c, text.c *)

\* The nibbles of v, the high one of each byte first.
Nibbles(v) == [i \in 1 .. 2 * Len(v) |-> IF i % 2 = 1 THEN v[(i + 1) \div 2] \div 16
                                         ELSE v[i \div 2] % 16]
Packed(d)  == [i \in 1 .. Len(d) \div 2 |-> d[2 * i - 1] * 16 + d[2 * i]]
Decimal(d) == \A i \in DOMAIN d : d[i] <= 9

\* Decimal nibbles before any padding nibble 15.
Unpadded(d)        == SelectSeq(d, LAMBDA x : x # 15)
DigitsAnswer(d, s) == TypedIf(s = SubSeq(d, 1, Len(s)) /\ Decimal(s), s)
DigitsOf(d)        == DigitsAnswer(d, Unpadded(d))
DigitsDecode(c, v) == IF c.width > 0 /\ Len(v) # c.width THEN Untyped ELSE DigitsOf(Nibbles(v))

DigitsEncode(c, s) ==
  LET half == (Len(s) + 1) \div 2
      size == IF c.width > 0 THEN c.width ELSE half
  IN  BytesIf(half <= size /\ Decimal(s),
              Packed([i \in 1 .. 2 * size |-> IF i <= Len(s) THEN s[i] ELSE 15]))

Alphabet(c) == IF c.alphabet = "printable" THEN Visible
               ELSE Digits \cup 65 .. 90 \cup 97 .. 122
Stripped(v) == SubSeq(v, 1, Max({0} \cup {i \in DOMAIN v : v[i] # 0}))

TextAnswer(c, v)  == TypedIf(Subset(v, Alphabet(c)), v)
TextDecode(c, v)  == IF c.width > 0 /\ Len(v) # c.width THEN Untyped
                     ELSE TextAnswer(c, IF c.zeroPadding THEN Stripped(v) ELSE v)
TextEncode(c, s)  ==
  LET size == IF c.zeroPadding /\ Len(s) < c.width THEN c.width ELSE Len(s)
  IN  BytesIf((c.width > 0 => size = c.width) /\ Subset(s, Alphabet(c)),
              [i \in 1 .. size |-> IF i <= Len(s) THEN s[i] ELSE 0])

-----------------------------------------------------------------------------
(* builtins/asn1/asn1_codec.c *)

\* decode_oid_subidentifiers: the arcs of v, Overflowed among them when one is too large.
ArcStep(s, b) ==
  LET arc == IF s.arc = Overflowed \/ s.arc > UintMax \div 128 THEN Overflowed
             ELSE s.arc * 128 + (b % 128)
  IN  IF b >= 128 THEN [s EXCEPT !.arc = arc] ELSE [arc |-> 0, raw |-> Append(s.raw, arc)]
RawArcs(v) == FoldLeft(ArcStep, [arc |-> 0, raw |-> <<>>], v).raw

\* The first subidentifier holds the first two arcs of an OBJECT IDENTIFIER.
SplitArcs(raw) ==
  LET top == IF raw[1] < 40 THEN 0 ELSE IF raw[1] < 80 THEN 1 ELSE 2
  IN  <<top, raw[1] - 40 * top>> \o Tail(raw)

OidAnswer(absolute, raw) ==
  IF Overflowed \in ToSet(raw) \/ Len(raw) > MaxArcs - (IF absolute THEN 1 ELSE 0) THEN Untyped
  ELSE Typed(IF absolute THEN SplitArcs(raw) ELSE raw)
OidDecode(absolute, v) == IF IsOid(v) THEN OidAnswer(absolute, RawArcs(v)) ELSE Untyped

OidArcsOK(absolute, arcs) ==
  /\ Len(arcs) <= MaxArcs /\ arcs # <<>>
  /\ absolute => /\ Len(arcs) >= 2 /\ arcs[1] <= 2
                 /\ IF arcs[1] < 2 THEN arcs[2] < 40 ELSE arcs[2] <= UintMax - 80
JoinArcs(absolute, arcs) ==
  IF absolute THEN <<arcs[1] * 40 + arcs[2]>> \o Drop(arcs, 2) ELSE arcs
OidEncode(absolute, arcs) ==
  IF ~OidArcsOK(absolute, arcs) THEN Unwritten
  ELSE Bytes(FoldLeft(LAMBDA b, arc : b \o Base128(arc), <<>>, JoinArcs(absolute, arcs)))

\* Code units instead of bytes: a count of `width'-byte units over the borrowed bytes.
UnitsDecode(ok, width, v) == TypedIf(ok, [data |-> v, length |-> Len(v) \div width])
UnitsEncode(n, width, s)  ==
  LET b == SubSeq(s.data, 1, s.length * width) IN BytesIf(ValueOK(n, b), b)

\* Calendar fields, in pairs of digits; a year is two pairs.
Two(n) == <<48 + ((n \div 10) % 10), 48 + (n % 10)>>
Year(y) == Two(y \div 100) \o Two(y % 100)
Date(v)  == [year |-> Pair(v, 1) * 100 + Pair(v, 3), month |-> Pair(v, 5), day |-> Pair(v, 7)]
Clock(v) == [hour |-> Pair(v, 1), minute |-> Pair(v, 3), second |-> Pair(v, 5)]
DateBytes(d)  == Year(d.year) \o Two(d.month) \o Two(d.day)
ClockBytes(t) == Two(t.hour) \o Two(t.minute) \o Two(t.second)
DateValid(d)  == d.year \in 0 .. 9999 /\ DateOK(d.month, d.day)
ClockValid(t) == ClockOK(t.hour, t.minute, t.second)

UtcCentury(v) == (IF Pair(v, 1) < 50 THEN <<50, 48>> ELSE <<49, 57>>) \o v   \* 20 or 19
UtcTimeDecode(v) ==
  IF ~IsUtcTime(v) THEN Untyped
  ELSE Typed([date |-> Date(UtcCentury(v)), clock |-> Clock(Drop(v, 6))])
UtcTimeEncode(t) ==
  BytesIf(t.date.year \in 1950 .. 2049 /\ DateValid(t.date) /\ ClockValid(t.clock),
          Drop(DateBytes(t.date), 2) \o ClockBytes(t.clock) \o <<ZuluCh>>)

GeneralizedTimeDecode(v) ==
  IF ~IsGeneralizedTime(v) THEN Untyped
  ELSE Typed([date |-> Date(v), clock |-> Clock(Drop(v, 8)),
              fraction |-> IF Len(v) > 15 THEN SubSeq(v, 16, Len(v) - 1) ELSE <<>>])
GeneralizedTimeEncode(t) ==
  BytesIf(DateValid(t.date) /\ ClockValid(t.clock) /\ (t.fraction # <<>> => IsFraction(t.fraction)),
          DateBytes(t.date) \o ClockBytes(t.clock)
            \o (IF t.fraction = <<>> THEN <<>> ELSE <<DotCh>> \o t.fraction) \o <<ZuluCh>>)

DateTimeDecode(v) == IF ~IsDateTime(v) THEN Untyped
                     ELSE Typed([date |-> Date(v), clock |-> Clock(Drop(v, 8))])
DateTimeEncode(t) == BytesIf(DateValid(t.date) /\ ClockValid(t.clock),
                             DateBytes(t.date) \o ClockBytes(t.clock))

\* decode_iri_like and encode_iri_like: labels between slashes.
IriStep(arcs, b) == IF b = Slash THEN Append(arcs, <<>>)
                    ELSE Append(Front(arcs), Append(Last(arcs), b))
IriArcs(absolute, v) == FoldLeft(IriStep, << <<>> >>, IF absolute THEN Tail(v) ELSE v)
IriDecode(absolute, v) ==
  IF IsIri(absolute, v) /\ Len(IriArcs(absolute, v)) <= MaxArcs
    THEN Typed(IriArcs(absolute, v)) ELSE Untyped
IriEncode(absolute, arcs) ==
  LET joined == FoldLeft(LAMBDA b, a : b \o <<Slash>> \o a, <<>>, arcs)
  IN  BytesIf(/\ arcs # <<>> /\ Len(arcs) <= MaxArcs
              /\ \A i \in DOMAIN arcs : arcs[i] # <<>> /\ IsUtf8(arcs[i]) /\ Slash \notin ToSet(arcs[i]),
              IF absolute THEN joined ELSE Tail(joined))

\* decode_string, encode_string and the octet string: the bytes themselves.
SpanDecode(n, v) == TypedIf(ValueOK(n, v), v)
SpanEncode(n, x) == BytesIf(ValueOK(n, x), x)

\* The codec of universal number n.
Asn1Decode(n, v) ==
  CASE n = 1         -> TypedIf(IsBoolean(v), v = <<255>>)
    [] n \in {2, 10} -> IntegerTyped(IntegerDecode(v))
    [] n = 3         -> IF ~IsBitString(v) THEN Untyped
                        ELSE Typed([unused |-> v[1], data |-> Tail(v)])
    [] n \in {6, 13} -> OidDecode(n = 6, v)
    [] n = 23        -> UtcTimeDecode(v)
    [] n = 24        -> GeneralizedTimeDecode(v)
    [] n = 28        -> UnitsDecode(IsUniversalString(v), 4, v)
    [] n = 30        -> UnitsDecode(IsBmpString(v), 2, v)
    [] n = 31        -> IF IsDate(v) THEN Typed(Date(v)) ELSE Untyped
    [] n = 32        -> IF IsTimeOfDay(v) THEN Typed(Clock(v)) ELSE Untyped
    [] n = 33        -> DateTimeDecode(v)
    [] n \in {35, 36} -> IriDecode(n = 35, v)
    [] OTHER         -> SpanDecode(n, v)

Asn1Encode(n, x) ==
  CASE n = 1         -> Bytes(<<IF x THEN 255 ELSE 0>>)
    [] n \in {2, 10} -> Bytes(MinimalOctets(TwosOctets(x)))
    [] n = 3         -> BytesIf(IsBitString(<<x.unused>> \o x.data), <<x.unused>> \o x.data)
    [] n \in {6, 13} -> OidEncode(n = 6, x)
    [] n = 23        -> UtcTimeEncode(x)
    [] n = 24        -> GeneralizedTimeEncode(x)
    [] n = 28        -> UnitsEncode(n, 4, x)
    [] n = 30        -> UnitsEncode(n, 2, x)
    [] n = 31        -> BytesIf(DateValid(x), DateBytes(x))
    [] n = 32        -> BytesIf(ClockValid(x), ClockBytes(x))
    [] n = 33        -> DateTimeEncode(x)
    [] n \in {35, 36} -> IriEncode(n = 35, x)
    [] n = 5         -> Bytes(<<>>)
    [] OTHER         -> SpanEncode(n, x)
-----------------------------------------------------------------------------
(* builtins/lldp/codec.c *)

AddressValid(family, n) == /\ family # 0 /\ n # 0
                           /\ family = 1 => n = 4
                           /\ family = 2 => n = 16

\* c.mac is the subtype of a MAC address, the next one that of a network address.
IdValid(c, subtype, p) == /\ subtype \in 1 .. 7 /\ p # <<>>
                          /\ subtype = c.mac => Len(p) = 6
                          /\ subtype = c.mac + 1 => Len(p) >= 2 /\ AddressValid(p[1], Len(p) - 1)
IdDecode(c, v) == IF Len(v) >= 2 /\ IdValid(c, v[1], Tail(v))
                    THEN Typed([subtype |-> v[1], identifier |-> Tail(v)]) ELSE Untyped
IdEncode(c, x) == BytesIf(IdValid(c, x.subtype, x.identifier), <<x.subtype>> \o x.identifier)

\* No capability is enabled that is not supported.
Supports(w) == \A i \in {1, 2} : Bits(w[i + 2]) \subseteq Bits(w[i])
CapabilitiesDecode(v) ==
  IF Len(v) = 4 /\ Supports(v)
    THEN Typed([supported |-> ReadUint(SubSeq(v, 1, 2), "BIG"), enabled |-> ReadUint(Drop(v, 2), "BIG")])
    ELSE Untyped
CapabilitiesBytes(w) == BytesIf(Supports(w), w)
CapabilitiesEncode(x) == CapabilitiesBytes(WriteUint(x.supported, 2, "BIG") \o WriteUint(x.enabled, 2, "BIG"))

\* A counted address, an interface number and a counted OID; `at' bytes precede the
\* interface.
ManagementAnswer(v, at) ==
  IF /\ AddressValid(v[2], v[1] - 1) /\ v[at + 1] \in 1 .. 3
     /\ v[at + 6] <= 128 /\ v[at + 6] = Len(v) - at - 6
    THEN Typed([family |-> v[2], address |-> SubSeq(v, 3, at), interface |-> v[at + 1],
                number |-> ReadUint(SubSeq(v, at + 2, at + 5), "BIG"), oid |-> Drop(v, at + 6)])
    ELSE Untyped
ManagementDecode(v) ==
  IF Len(v) >= 9 /\ v[1] \in 2 .. 32 /\ v[1] <= Len(v) - 7 THEN ManagementAnswer(v, v[1] + 1)
  ELSE Untyped
ManagementEncode(x) ==
  BytesIf(/\ Len(x.address) <= 31 /\ Len(x.oid) <= 128
          /\ AddressValid(x.family, Len(x.address)) /\ x.interface \in 1 .. 3,
          <<Len(x.address) + 1, x.family>> \o x.address \o <<x.interface>>
            \o WriteUint(x.number, 4, "BIG") \o <<Len(x.oid)>> \o x.oid)

OrganisationDecode(v) ==
  TypedIf(Len(v) >= 4, [oui |-> SubSeq(v, 1, 3), subtype |-> v[4], payload |-> Drop(v, 4)])
OrganisationEncode(x) == Bytes(x.oui \o <<x.subtype>> \o x.payload)

-----------------------------------------------------------------------------
(* builtins/bluetooth: ad_codec.c, manufacturer_data.c, service_data.c *)

FlagsOK(v)  == v = <<>> \/ Last(v) # 0
SpanOK(c, v) == IF c.kind = "flags" THEN FlagsOK(v) ELSE IsUtf8(v)

TxPowerDecode(v) == IF Len(v) = 1 /\ v[1] # 128 THEN Typed(TwosValue(v)) ELSE Untyped
TxPowerEncode(n) == BytesIf(n # -128, <<n % 256>>)

\* A company or service identifier in front of a payload; raw is a view only.
PrefixId(c, b)    == IF c.width = 16 THEN Reverse(b) ELSE ReadUint(b, "LITTLE")
PrefixBytes(c, x) == IF c.width = 16 THEN Reverse(x) ELSE WriteUint(x, c.width, "LITTLE")
PrefixedDecode(c, v) ==
  IF Len(v) < c.width THEN Untyped
  ELSE Typed([id |-> PrefixId(c, SubSeq(v, 1, c.width)), payload |-> Drop(v, c.width), raw |-> v])
PrefixedEncode(c, x) == Bytes(PrefixBytes(c, x.id) \o x.payload)

-----------------------------------------------------------------------------
(* builtins/emv/emv_codec.c: c.lengths are the lengths its schema entry takes *)

Ill == [Untyped EXCEPT !.rc = "SCHEMA"]
Bcd(n, width) == [encoding |-> "BCD", digits |-> n, width |-> width]
Binary(width) == [encoding |-> "BE", width |-> width]
NumberOf(n, width) == IF n > 0 THEN Bcd(n, width) ELSE Binary(width)

\* read_number and its use: f takes the number, which must satisfy ok.
WithNumber(d, ok(_), f(_)) == IF d.rc = "OK" /\ ok(d.value) THEN Typed(f(d.value)) ELSE Untyped

\* Three two-digit fields.
Triple(n)  == <<n \div 10000, (n \div 100) % 100, n % 100>>
Scaled(x)  == x[1] * 10000 + x[2] * 100 + x[3]
MonthDays  == <<31, 28, 31, 30, 31, 30, 31, 31, 30, 31, 30, 31>>
EmvDateOK(x) == /\ x[1] <= 99 /\ x[2] \in 1 .. 12
                /\ x[3] \in 1 .. MonthDays[x[2]] + (IF x[2] = 2 /\ x[1] % 4 = 0 THEN 1 ELSE 0)
EmvTimeOK(x) == ClockOK(x[1], x[2], x[3])
Accounts     == {0, 10, 20, 30}
Palm         == 131072
Biometrics   == {2, 4, 8, 16, Palm}

Groups(v, w) == [i \in 1 .. Len(v) \div w |-> SubSeq(v, (i - 1) * w + 1, i * w)]
Joined(s)    == FoldLeft(LAMBDA a, b : a \o b, <<>>, s)

ListWidth(c) == (c.argument + 1) \div 2
NumberListAnswer(d) ==
  TypedIf(\A i \in DOMAIN d : d[i].rc = "OK", [i \in DOMAIN d |-> d[i].value])
NumberListDecode(c, v) ==
  IF Len(v) % ListWidth(c) # 0 \/ Len(v) \div ListWidth(c) > NumberListMax THEN Untyped
  ELSE NumberListAnswer([i \in 1 .. Len(v) \div ListWidth(c) |->
         NumberDecode(NumberOf(c.argument, ListWidth(c)), Groups(v, ListWidth(c))[i])])
NumberListBytes(b) ==
  BytesIf(\A i \in DOMAIN b : b[i].rc = "OK", Joined([i \in DOMAIN b |-> b[i].bytes]))
NumberListEncode(c, x) ==
  IF x = <<>> \/ Len(x) > NumberListMax THEN Unwritten
  ELSE NumberListBytes([i \in DOMAIN x |-> NumberEncode(NumberOf(c.argument, ListWidth(c)), x[i])])

\* An application file locator entry: SFI, first and last record, records authenticated.
\* The low three bits of the SFI byte are dropped.
AflEntryOK(e) == e[1] \in 1 .. 30 /\ e[2] >= 1 /\ e[3] >= e[2] /\ e[4] <= e[3] - e[2] + 1
AflEntry(b)   == [b EXCEPT ![1] = @ \div 8]
AflAnswer(x)  == TypedIf(\A i \in DOMAIN x : AflEntryOK(x[i]), x)
AflDecode(v)  == AflAnswer([i \in 1 .. Len(v) \div 4 |-> AflEntry(Groups(v, 4)[i])])
AflEncode(x)  == BytesIf(/\ x # <<>> /\ Len(x) <= AflMax /\ \A i \in DOMAIN x : AflEntryOK(x[i]),
                         Joined([i \in DOMAIN x |-> [x[i] EXCEPT ![1] = @ * 8]]))

\* Track 2: primary account number, separator 13, expiry YYMM, service code, the rest.
Track2Fields(d, sep) ==
  [pan |-> SubSeq(d, 1, sep - 1), year |-> d[sep + 1] * 10 + d[sep + 2],
   month |-> d[sep + 3] * 10 + d[sep + 4],
   service |-> d[sep + 5] * 100 + d[sep + 6] * 10 + d[sep + 7], rest |-> Drop(d, sep + 7)]
Track2Split(d, seps) ==
  IF \/ seps = {} \/ Min(seps) = 1 \/ Len(d) < Min(seps) + 7
     \/ Len(d) - Min(seps) - 7 > Track2DiscretionaryMax
     \/ \E i \in DOMAIN d \ {Min(seps)} : d[i] > 9
    THEN Untyped
  ELSE TypedIf(Track2Fields(d, Min(seps)).month \in 1 .. 12, Track2Fields(d, Min(seps)))
Track2Digits(d) == Track2Split(d, {i \in DOMAIN d : d[i] = 13 /\ i <= Track2PanMax + 1})
Track2Decode(v) ==
  IF v = <<>> THEN Untyped
  ELSE Track2Digits(IF Last(v) % 16 = 15 THEN Front(Nibbles(v)) ELSE Nibbles(v))

Track2Nibbles(x) ==
  x.pan \o <<13, x.year \div 10, x.year % 10, x.month \div 10, x.month % 10,
             x.service \div 100, (x.service \div 10) % 10, x.service % 10>> \o x.rest
Padded(d) == IF Len(d) % 2 = 1 THEN Append(d, 15) ELSE d
Track2Encode(x) ==
  BytesIf(/\ Len(x.pan) \in 1 .. Track2PanMax /\ Len(x.rest) <= Track2DiscretionaryMax
          /\ x.month \in 1 .. 12 /\ x.year <= 99 /\ x.service <= 999
          /\ Decimal(x.pan) /\ Decimal(x.rest),
          Packed(Padded(Track2Nibbles(x))))

EmvDigits(c, d) ==
  IF d.rc = "OK" /\ c.argument > 0 /\ Len(d.value) \notin 1 .. c.argument THEN Untyped ELSE d

EmvAnswer(c, v) ==
  LET Read(n) == NumberDecode(NumberOf(n, Len(v)), v)
      Same(n) == n
  IN  CASE c.rep = "digits"     -> EmvDigits(c, DigitsOf(Nibbles(v)))
        [] c.rep = "date"       -> WithNumber(Read(6), LAMBDA n : EmvDateOK(Triple(n)), Triple)
        [] c.rep = "time"       -> WithNumber(Read(6), LAMBDA n : EmvTimeOK(Triple(n)), Triple)
        [] c.rep = "account"    -> WithNumber(Read(2), LAMBDA n : n \in Accounts, Same)
        [] c.rep = "biometric"  -> WithNumber(Read(0), LAMBDA n : n \in Biometrics, Same)
        [] c.rep = "cryptogram" -> Typed([type |-> v[1] \div 64, flags |-> v[1] % 64])
        [] c.rep = "numbers"    -> NumberListDecode(c, v)
        [] c.rep = "afl"        -> AflDecode(v)
        [] c.rep = "cvm"        -> Typed([method |-> v[1], condition |-> v[2], result |-> v[3]])
        [] c.rep = "track2"     -> Track2Decode(v)

EmvBytes(c, x) ==
  LET Put(n, value) == Bytes(NumberOctets(NumberOf(n, 0), value, Min(c.lengths)))
  IN  CASE c.rep = "date"       -> IF EmvDateOK(x) THEN Put(6, Scaled(x)) ELSE Unwritten
        [] c.rep = "time"       -> IF EmvTimeOK(x) THEN Put(6, Scaled(x)) ELSE Unwritten
        [] c.rep = "account"    -> IF x \in Accounts THEN Put(2, x) ELSE Unwritten
        [] c.rep = "biometric"  -> IF x \in Biometrics
                                     THEN Bytes(WriteUint(x, IF x = Palm THEN 3 ELSE 1, "BIG"))
                                     ELSE Unwritten
        [] c.rep = "cryptogram" -> BytesIf(x.type <= 3 /\ x.flags <= 63, <<x.type * 64 + x.flags>>)
        [] c.rep = "numbers"    -> NumberListEncode(c, x)
        [] c.rep = "afl"        -> AflEncode(x)
        [] c.rep = "cvm"        -> Bytes(<<x.method, x.condition, x.result>>)
        [] c.rep = "track2"     -> Track2Encode(x)

\* emv_value_decode, emv_value_encode and encode_digits
EmvDecode(c, v) == IF Len(v) \notin c.lengths THEN Ill ELSE EmvAnswer(c, v)
EmvSized(c, b)  == IF b.rc = "OK" /\ Len(b.bytes) \notin c.lengths THEN WriteError("SCHEMA") ELSE b
EmvEncode(c, x) ==
  IF c.rep # "digits" THEN EmvSized(c, EmvBytes(c, x))
  ELSE IF (Len(x) + 1) \div 2 \notin c.lengths THEN WriteError("SCHEMA")
  ELSE IF c.argument > 0 /\ Len(x) \notin 1 .. c.argument THEN Unwritten
  ELSE DigitsEncode([width |-> 0], x)

-----------------------------------------------------------------------------
\* tlv_codec_decode and tlv_codec_encode
CodecDecode(c, v) ==
  CASE c.kind = "uint"         -> UintDecode(c, v)
    [] c.kind = "array"        -> ArrayDecode(c, v)
    [] c.kind = "list"         -> ListDecode(c, v)
    [] c.kind = "number"       -> NumberDecode(c, v)
    [] c.kind = "schema"       -> SchemaNumberDecode(c, v)
    [] c.kind = "digits"       -> DigitsDecode(c, v)
    [] c.kind = "text"         -> TextDecode(c, v)
    [] c.kind = "asn1"         -> Asn1Decode(c.number, v)
    [] c.kind = "id"           -> IdDecode(c, v)
    [] c.kind = "capabilities" -> CapabilitiesDecode(v)
    [] c.kind = "management"   -> ManagementDecode(v)
    [] c.kind = "organisation" -> OrganisationDecode(v)
    [] c.kind \in {"flags", "name"} -> TypedIf(SpanOK(c, v), v)
    [] c.kind = "power"        -> TxPowerDecode(v)
    [] c.kind = "prefixed"     -> PrefixedDecode(c, v)
    [] c.kind = "emv"          -> EmvDecode(c, v)

CodecEncode(c, x) ==
  CASE c.kind = "uint"         -> UintEncode(c, x)
    [] c.kind = "array"        -> ArrayEncode(c, x)
    [] c.kind = "list"         -> ListEncode(c, x)
    [] c.kind = "number"       -> NumberEncode(c, x)
    [] c.kind = "schema"       -> SchemaNumberEncode(c, x)
    [] c.kind = "digits"       -> DigitsEncode(c, x)
    [] c.kind = "text"         -> TextEncode(c, x)
    [] c.kind = "asn1"         -> Asn1Encode(c.number, x)
    [] c.kind = "id"           -> IdEncode(c, x)
    [] c.kind = "capabilities" -> CapabilitiesEncode(x)
    [] c.kind = "management"   -> ManagementEncode(x)
    [] c.kind = "organisation" -> OrganisationEncode(x)
    [] c.kind \in {"flags", "name"} -> BytesIf(SpanOK(c, x), x)
    [] c.kind = "power"        -> TxPowerEncode(x)
    [] c.kind = "prefixed"     -> PrefixedEncode(c, x)
    [] c.kind = "emv"          -> EmvEncode(c, x)
=============================================================================
