------------------------------- MODULE MCWire -------------------------------
(***************************************************************************)
(* Configurations of every composition the repository offers, each with the *)
(* few byte values its decoder tells apart, and of the canonical rules and  *)
(* the codecs, each with the chunks that make its cases.                    *)
(***************************************************************************)
EXTENDS Canonical

Fixed(n, order) == [kind |-> "fixed", size |-> n, byteOrder |-> order]

Fields0 == [kind |-> "fields", order |-> "TLV", scope |-> "VALUE", mask |-> {},
            tagOnly |-> {}, indefinite |-> FALSE]

\* A variable identifier with a two-bit inline part and two-bit digits.
Variable == [kind |-> "variable", inline |-> {0, 1}, escape |-> {0, 1}, continuation |-> {7},
             payload |-> {0, 2}, max |-> 3, forbidden |-> {2}, rejectZeroFirst |-> TRUE,
             minimal |-> TRUE]
VariableLen(policy) == [kind |-> "variable", longForm |-> {7}, payload |-> {0, 1},
                        byteOrder |-> "LITTLE", policy |-> policy]
Minimal == [allowShort |-> TRUE, allowLong |-> TRUE, minimal |-> TRUE, maxLongOctets |-> 2,
            maxValue |-> 300]

Each(bytes) == {<<b>> : b \in bytes}

\* No canonical rules, no strings to segment, no codecs.
Plain == [rules |-> "none", limits |-> {}, strings |-> {}, codecs |-> {}]

Fix(f, i, l, a, p) ==
  f @@ [ident |-> i, len |-> l, alphabet |-> Each(a), max |-> 5, pad |-> p] @@ Plain

FixedFormats == {Fix([Fields0 EXCEPT !.order = o, !.scope = s], Fixed(i, "BIG"), Fixed(l, b),
                     {0, 1, 2}, 600)
                   : o \in {"TLV", "LTV"}, s \in {"VALUE", "TAG_AND_VALUE"},
                     i \in {0, 1, 2}, l \in {1, 2}, b \in {"BIG", "LITTLE"}}

VariableFormats == {Fix([Fields0 EXCEPT !.order = o, !.scope = s, !.mask = {5}], Variable,
                        VariableLen(p), {0, 1, 3, 132, 130}, 0)
                      : o \in {"TLV", "LTV"}, s \in {"VALUE", "TAG_AND_VALUE"},
                        p \in {{}, {Minimal}}}

EscapedFormats == {Fix([Fields0 EXCEPT !.kind = k, !.tagOnly = t], Fixed(1, "BIG"),
                       [kind |-> "escaped", escape |-> 2, ext |-> 1, byteOrder |-> "BIG",
                        minExtended |-> m, maxLength |-> 3], {0, 1, 2, 3}, 9)
                     : k \in {"fields", "tagged"}, t \in {{<<0>>, <<3>>}}, m \in {1, 2}}

\* Nested definite and indefinite scopes; long tags and lengths; length overflow.
BerConfiguration(i, a, n) ==
  [Fix([Fields0 EXCEPT !.mask = {5}, !.indefinite = i], BerIdentifier, BerLength, a, 200)
     EXCEPT !.max = n]
BerFormats == {BerConfiguration(FALSE, {0, 1, 48, 128}, 7),
               BerConfiguration(TRUE, {0, 1, 48, 128}, 7),
               BerConfiguration(FALSE, {0, 31, 129, 63}, 6),
               BerConfiguration(FALSE, {1, 131}, 6)}

PackedField(offset, width, order) ==
  [storage |-> 2, bitOffset |-> offset, bitWidth |-> width, byteOrder |-> order]

PackedFormats == {Plain @@ [kind |-> "packed", order |-> "TLV", scope |-> s, mask |-> {}, header |-> 2,
                   tag |-> PackedField(t, 2, b), length |-> PackedField(8, 2, b), known |-> n,
                   indefinite |-> FALSE, alphabet |-> Each({0, 1, 6, 129}),
                   max |-> 5, pad |-> 9]
                    : s \in {"VALUE", "TAG_AND_VALUE"}, t \in {0, 7, 9},
                      b \in {"BIG", "LITTLE"}, n \in {0 .. 3, {0, 2}}}

-----------------------------------------------------------------------------
Tight   == [depth |-> 1, input |-> 10, value |-> 3, elements |-> 3]
Shallow == [Ample EXCEPT !.depth = 0]
TooDeep == [Ample EXCEPT !.depth = CanonicalMaxDepth + 1]

Grow(f, chunks, n) == Plain @@ f @@ [alphabet |-> chunks, max |-> n, pad |-> 0]
Under(rules, chunks, n, limits) ==
  [Grow(FormatOf(rules), chunks, n) EXCEPT !.rules = rules, !.limits = limits]

\* DER: nested SEQUENCEs with BOOLEAN and INTEGER; long tags and lengths.  CER: nesting,
\* strings in segments of four, a BIT STRING's unused bits, a character across segments.
CanonicalFormats ==
  {Under("der", Each({0, 1, 2, 48}) \cup {<<48, 4>>}, 6, {Ample, Tight, Shallow}),
   Under("der", Each({1, 31, 36, 129, 63}), 4, {Ample, TooDeep}),
   Under("cer", {<<48, 128>>, <<36, 128>>, <<4, 1, 1>>, <<34, 128>>, <<0, 0>>, <<0>>}, 9,
         {Ample, Tight, Shallow}),
   Under("cer", {<<35, 128>>, <<3, 4, 0, 1, 1, 1>>, <<3, 2, 1, 2>>, <<3, 2, 2, 2>>, <<3, 1, 0>>,
                 <<0, 0>>}, 15, {Ample}),
   Under("cer", {<<44, 128>>, <<12, 4, 97, 97, 97, 195>>, <<12, 4, 97, 97, 97, 97>>,
                 <<12, 1, 169>>, <<12, 2, 169, 97>>, <<0, 0>>}, 16, {Ample}),
   [Grow(CerFormat, Each({0, 1, 195, 169}), 6) EXCEPT !.strings = {3, 4, 12, 19, 30}]}

\* CER's constructed elements deep enough for the stack of its walk.
CerFormats == {Under("cer", {<<48, 128>>, <<4, 1, 1>>, <<34, 128>>, <<0, 0>>}, 12, {Ample, Tight, Shallow})}

-----------------------------------------------------------------------------
Uint(n, order)  == [kind |-> "uint", width |-> n, byteOrder |-> order]
Array(n, order) == [kind |-> "array", width |-> n, byteOrder |-> order]
ListOf(n)       == [kind |-> "list", width |-> n]
NumberBy(e, width, digits) ==
  [kind |-> "number", encoding |-> e, width |-> width, digits |-> digits]
SchemaNumber(e, width, digits, lengths) ==
  [NumberBy(e, width, digits) EXCEPT !.kind = "schema"] @@ [lengths |-> lengths]
DigitsBy(width) == [kind |-> "digits", width |-> width]
Text(width, alphabet, pads) ==
  [kind |-> "text", width |-> width, alphabet |-> alphabet, zeroPadding |-> pads]
Type(n)         == [kind |-> "asn1", number |-> n]
Id(mac)         == [kind |-> "id", mac |-> mac]
Kind(k)         == [kind |-> k]
Prefixed(n)     == [kind |-> "prefixed", width |-> n]
Emv(rep, lengths, argument) ==
  [kind |-> "emv", rep |-> rep, lengths |-> lengths, argument |-> argument]

With(codecs, chunks, n) ==
  [Grow([Fields0 EXCEPT !.mask = {}] @@ [ident |-> Fixed(1, "BIG"), len |-> Fixed(1, "BIG")],
        chunks, n) EXCEPT !.codecs = codecs]

\* '2012', '1231', ... as chunks of digits.
Chars(s) == [i \in DOMAIN s |-> 48 + s[i]]
Point    == -2    \* Chars(<<Point>>) is '.'
Zulu     == 42    \* Chars(<<Zulu>>) is 'Z'

CodecFormats ==
  {With({Uint(1, "BIG"), Uint(2, "BIG"), Uint(3, "LITTLE"), Array(4, "BIG"), ListOf(2), ListOf(4),
         NumberBy("BE", 0, 0), NumberBy("LE", 2, 0), SchemaNumber("BE", 0, 0, {2, 3}),
         Kind("power"), Kind("flags"), Kind("capabilities"), Kind("organisation"), Prefixed(2)}
          \cup {Type(n) : n \in {1, 2, 3, 4, 5, 6, 9, 10, 13, 28, 30}},
        Each({0, 1, 127, 128, 255}), 4),
   With({Array(16, "LITTLE"), Prefixed(16), ListOf(16)}, {<<1, 2, 3, 4, 5, 6, 7, 8>>, <<9>>, <<9, 9, 9>>}, 17),
   With({NumberBy("BCD", 0, 3), NumberBy("BCD", 2, 4), SchemaNumber("BCD", 0, 3, {2}),
         SchemaNumber("BCD", 1, 2, {2}), DigitsBy(0), DigitsBy(2),
         Emv("digits", 1 .. 3, 4), Emv("digits", {2}, 0), Emv("date", {3}, 0), Emv("time", {3}, 0),
         Emv("account", {1}, 0), Emv("numbers", {2, 4}, 3), Emv("numbers", 1 .. 4, 1)},
        Each({0, 1, 2, 16, 18, 31, 41, 96, 255}), 3),
   With({Emv("biometric", 1 .. 3, 0), Emv("cryptogram", {1}, 0), Emv("cvm", {3}, 0),
         Emv("afl", {4, 8}, 0)}, Each({0, 2, 8}) \cup {<<8, 1, 1>>, <<9, 1, 2>>}, 5),
   With({Emv("track2", 0 .. 19, 0)}, {<<29>>, <<209>>, <<17>>, <<31>>, <<1, 17>>}, 6),
   With({Type(12), Type(22), Type(35), Type(36), Kind("name")},
        Each({47, 97, 128, 160, 194, 224, 237, 244}), 4),
   With({Text(0, "printable", FALSE), Text(3, "printable", TRUE), Text(2, "other", TRUE),
         Type(18), Type(19), Type(26), Type(14)}, Each({0, 32, 48, 65, 127}), 4),
   With({Type(34)}, Each({49, 46, 77, 68, 84, 83}), 4),
   With({Type(23), Type(32)},
        {Chars(<<9, 9, 1, 2>>), Chars(<<3, 1, 2, 3>>), Chars(<<5, 9, 5, 9>>), Chars(<<0, 0>>),
         Chars(<<Zulu>>)}, 13),
   With({Type(24), Type(31), Type(33)},
        {Chars(<<2, 0, 1, 2>>), Chars(<<1, 2, 3, 1>>), Chars(<<2, 3, 5, 9>>), Chars(<<5, 9>>),
         Chars(<<5, 9, Zulu>>), Chars(<<5, 9, Point, 5, Zulu>>), Chars(<<5, 9, Point, 0, Zulu>>)}, 17),
   With({Id(4), Id(3)}, {<<4>>, <<0>>, <<5, 1>>, <<1, 1>>, <<1, 1, 1>>}, 7),
   With({Kind("management")}, {<<2, 3, 1>>, <<5, 1, 1>>, <<1, 0, 0, 0>>, <<1>>, <<0>>}, 10)}

\* Typed values for the encoders: in range, at its ends and beyond.
Numbers == {0, 1, 9, 10, 31, 99, 100, 127, 128, 255, 256, 999, 1000, 9999, 32767}
Integers == Numbers \cup {-n : n \in Numbers} \cup {-129, -32768}
ArcLists == {<<>>, <<1>>, <<0, 39>>, <<1, 40>>, <<2, 0>>, <<2, 48>>, <<3, 1>>, <<2, 65455>>,
             <<2, 65456>>, <<1, 2, 128>>, <<0, 0, 127, 128>>, <<0, 0, 65535, 1>>}
Dates  == {[year |-> y, month |-> m, day |-> d] : y \in {0, 1949, 1950, 1999, 2000, 2049, 2050, 10000},
                                                  m \in {0, 1, 12, 13}, d \in {0, 1, 31, 32}}
Clocks == {[hour |-> h, minute |-> 59, second |-> s] : h \in {0, 23, 24}, s \in {0, 59, 60}}
Moments(d) == {[date |-> x, clock |-> t] : x \in d, t \in Clocks}
DigitLists == {<<>>, <<1>>, <<1, 0>>, <<0, 0, 9>>, <<9, 8, 7, 6>>, <<1, 2, 3, 4, 5>>, <<10>>}
Triples == {<<y, m, d>> : y \in {0, 1, 4, 99, 100}, m \in {0, 1, 2, 12, 23, 24}, d \in {0, 28, 29, 30, 59}}

EmvInputs(rep) ==
  CASE rep = "digits" -> DigitLists
    [] rep \in {"date", "time"} -> Triples
    [] rep \in {"account", "biometric"} -> {0, 2, 10, 16, 20, 30, 40, Palm}
    [] rep = "cryptogram" -> [type : 0 .. 4, flags : {0, 63, 64}]
    [] rep = "numbers" -> {<<>>, <<9>>, <<10>>, <<0, 999>>, <<1, 1000>>, <<1, 2, 3>>, <<1, 2, 3, 4, 5>>}
    [] rep = "afl" -> {<<>>} \cup {<< <<s, 1, l, n>> >> : s \in {0, 1, 30, 31}, l \in 0 .. 2, n \in 0 .. 3}
    [] rep = "cvm" -> [method : {0, 255}, condition : {1}, result : {2}]
    [] rep = "track2" -> [pan : {<<>>, <<1>>, <<1, 2, 3>>, <<1, 2, 3, 4>>}, year : {0, 99, 100},
                          month : {0, 1, 12, 13}, service : {7, 999, 1000}, rest : {<<>>, <<5>>, <<5, 6, 7>>}]

Asn1Inputs(n) ==
  CASE n = 1 -> BOOLEAN
    [] n \in {2, 10} -> Integers
    [] n = 3 -> [unused : 0 .. 8, data : {<<>>, <<1>>, <<128>>}]
    [] n \in {6, 13} -> ArcLists
    [] n = 23 -> Moments(Dates)
    [] n = 24 -> {x @@ [fraction |-> r] : x \in Moments({d \in Dates : d.year = 1999}),
                                          r \in {<<>>, <<48>>, <<53>>, <<48, 53>>, <<46>>}}
    [] n = 28 -> {[data |-> <<0, 16, 1, 2>>, length |-> 1], [data |-> <<0, 17, 1, 2>>, length |-> 1]}
    [] n = 30 -> {[data |-> <<1, 2, 3, 4>>, length |-> 2], [data |-> <<216, 2>>, length |-> 1]}
    [] n = 31 -> Dates
    [] n = 32 -> Clocks
    [] n = 33 -> Moments({d \in Dates : d.year # 1950})
    [] n \in {35, 36} -> {<<>>, << <<97>> >>, << <<97>>, <<98, 97>> >>, << <<47>> >>, << <<>>, <<97>> >>,
                          << <<195>>, <<169>> >>}
    [] n = 5 -> {<<>>}
    [] OTHER -> {<<>>, <<32>>, <<195, 169>>}

TypedInputs(c) ==
  CASE c.kind = "uint" -> {n \in Numbers : n < 256 ^ c.width}
    [] c.kind = "array" -> {[i \in 1 .. c.width |-> i]}
    [] c.kind = "list" -> {[raw |-> <<1, 2, 3, 4>>, width |-> k] : k \in {2, 4}}
    [] c.kind \in {"number", "schema"} -> Numbers
    [] c.kind = "digits" -> DigitLists
    [] c.kind = "text" -> {<<>>, <<48>>, <<48, 65>>, <<48, 32, 65>>, <<0>>, <<48, 48, 48, 48>>}
    [] c.kind = "asn1" -> Asn1Inputs(c.number)
    [] c.kind = "id" -> [subtype : 0 .. 8, identifier : {<<>>, <<1>>, <<1, 2, 3, 4, 5>>, <<9, 1, 1, 1, 1, 1>>}]
    [] c.kind = "capabilities" -> [supported : {0, 3, 257}, enabled : {0, 1, 256}]
    [] c.kind = "management" -> [family : 0 .. 3, address : {<<>>, <<1>>, <<1, 2, 3, 4>>},
                                 interface : 0 .. 4, number : {0, 258}, oid : {<<>>, <<1, 2>>}]
    [] c.kind = "organisation" -> [oui : {<<1, 2, 3>>}, subtype : {0}, payload : {<<>>, <<1>>}]
    [] c.kind \in {"flags", "name"} -> {<<>>, <<0>>, <<1>>, <<195, 169>>}
    [] c.kind = "power" -> {-128, -127, 0, 127}
    [] c.kind = "prefixed" -> IF c.width = 16 THEN {} ELSE {[id |-> 513, payload |-> <<3>>, raw |-> <<1, 2, 3>>]}
    [] c.kind = "emv" -> EmvInputs(c.rep)

AllFormats == FixedFormats \cup VariableFormats \cup EscapedFormats \cup PackedFormats
                \cup BerFormats \cup CanonicalFormats \cup CodecFormats
=============================================================================
