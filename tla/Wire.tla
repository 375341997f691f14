-------------------------------- MODULE Wire --------------------------------
(***************************************************************************)
(* A window growing chunk by chunk in front of one format: the situation of *)
(* an incremental reader retrying an incomplete element.  It checks what    *)
(* module ReaderCore calls PrefixStable of the formats this repository      *)
(* ships, and that their decoders and encoders agree.                       *)
(***************************************************************************)
EXTENDS Compose, Format

(***************************************************************************)
(* Beside the fields Compose names, a configuration here bounds its own     *)
(* exploration: alphabet is the set of chunks the window grows by (single   *)
(* bytes its decoder tells apart, or whole fields), max the longest window, *)
(* pad a number of zero bytes that completes any value the alphabet can     *)
(* declare (0: a value may be too long to complete).                        *)
(***************************************************************************)
CONSTANT Configurations

VARIABLES
  format,   \* the tlv_format_t in use
  window    \* the bytes received so far

vars == <<format, window>>

Init == /\ format \in {f \in Configurations : FormatInit(f)}
        /\ window = <<>>

Receive(c) == /\ Len(window) + Len(c) <= format.max
              /\ window' = window \o c
              /\ UNCHANGED format

Next == \E c \in format.alphabet : Receive(c)

Spec == Init /\ [][Next]_vars

-----------------------------------------------------------------------------
\* tlv_format_decode on a window.
FormatDecode(f, w) == IF w = <<>> THEN Refuse("END", 0)
                      ELSE CheckedDecode(DecodeCallback(f, w), Len(w))

\* tlv_format_encode into a buffer of exactly the measured size.
CheckedEncode(b)   == IF b.rc = "OK" /\ b.bytes = <<>> THEN WriteError("CALLBACK") ELSE b
FormatEncode(f, e) == CheckedEncode(EncodeCallback(f, e))

(***************************************************************************)
(* The contract of tlv_decode_fn (include/tlv/format.h): TRUNCATED only     *)
(* when more bytes could complete the element, every other answer final.    *)
(* An appended byte never changes an accepted element, an error code or an  *)
(* error's offset, through nested indefinite scopes, long lengths and tags, *)
(* and the offset lies in the window that showed the error.                 *)
(***************************************************************************)
VerdictsAreFinal ==
  [][ LET d == FormatDecode(format, window)
      IN  d.rc \notin {"END", "TRUNCATED"} =>
            FormatDecode(format, window') = d /\ d.where <= Len(window) ]_vars

\* Answer d says that exactly `bytes' are the element e.
IsElement(f, e, bytes, d) ==
  d.rc = "OK" /\ d.size = Len(bytes) /\ ElementOf(f, bytes, d) = e

\* What the encoder wrote of e (b) decodes to e, also when more bytes follow.
ReadsBack(f, e, b, more) == IsElement(f, e, b.bytes, FormatDecode(f, b.bytes \o more))

Rewrites(f, e, b) == b.rc = "OK" /\ ReadsBack(f, e, b, <<>>)
Survives(f, e, b) == b.rc = "OK" => ReadsBack(f, e, b, <<0>>)

Reencodes(f, e) ==
  \/ Rewrites(f, e, FormatEncode(f, e))
  \/ f.indefinite /\ (~IsConstructed(e.tag) \/ ScanContents(e.value, FALSE).rc # "OK")

\* Whatever a decoder accepts its own encoder can write again, and the rewritten bytes
\* decode to the same tag and value.  BER's indefinite encoder takes constructed tags
\* only and refuses content that is not well-framed BER.
DecodedReencodes ==
  LET d == FormatDecode(format, window)
  IN  d.rc = "OK" => Reencodes(format, ElementOf(format, window, d))

\* Every element an encoder accepts (here: each split of the window into tag and value)
\* decodes back whole, also when more bytes follow.
EncodedDecodes ==
  \A k \in 0 .. Len(window) :
    LET e == [tag |-> SubSeq(window, 1, k), value |-> Drop(window, k)]
    IN  \/ format.kind = "packed" /\ (k = 0 \/ e.tag[1] \notin format.known)
        \/ Survives(format, e, FormatEncode(format, e))

\* TRUNCATED is honest: some continuation (zeros fill values and close every indefinite
\* scope) brings a verdict.  Otherwise an incremental reader would answer NEED_MORE_DATA
\* for ever, whatever it is sent.
TruncationEnds ==
  LET zeros == [i \in 1 .. format.pad |-> 0]
  IN  format.pad > 0 /\ FormatDecode(format, window).rc = "TRUNCATED" =>
        \E more \in {zeros, <<1>> \o zeros} :
          FormatDecode(format, window \o more).rc # "TRUNCATED"

\* Decoder and encoder of one format are each other's inverse, and the decoder asks for
\* more bytes only where they help.
RoundTrips == DecodedReencodes /\ EncodedDecodes /\ TruncationEnds

-----------------------------------------------------------------------------
\* BER content by its grammar, as a recursive descent without stack, bounds or codes:
\* the size of the first element of w and of the elements before the end (or the EOC)
\* of a definite (or indefinite) value; -1 when w does not begin with one.
RECURSIVE ElementSize(_), ContentSize(_, _)
Plus(n, size) == IF size < 0 THEN -1 ELSE n + size

DefiniteSize(constructed, w, l) ==
  IF /\ l.rc = "OK" /\ l.length <= Len(w) - l.used
     /\ constructed => ContentSize(SubSeq(w, l.used + 1, l.used + l.length), FALSE) >= 0
    THEN l.used + l.length ELSE -1

\* w begins with a length.
FramedSize(constructed, w) ==
  IF w = <<>> THEN -1
  ELSE IF w[1] # LongFormBit THEN DefiniteSize(constructed, w, VariableLengthRead(BerLength, w))
  ELSE IF constructed THEN Plus(1 + EocSize, ContentSize(Tail(w), TRUE)) ELSE -1

TaggedSize(w, t) ==
  IF t.rc = "OK" THEN Plus(t.used, FramedSize(IsConstructed(t.tag), Drop(w, t.used))) ELSE -1

ElementSize(w) == TaggedSize(w, BerReadTag(w))

Followed(w, n, indefinite) ==
  IF n < 0 THEN -1 ELSE Plus(n, ContentSize(Drop(w, n), indefinite))

ContentSize(w, indefinite) ==
  IF w = <<>> THEN IF indefinite THEN -1 ELSE 0
  ELSE IF indefinite /\ Len(w) >= EocSize /\ w[1] = 0 /\ w[2] = 0 THEN 0
  ELSE Followed(w, ElementSize(w), indefinite)

\* The explicit-stack scan accepts exactly the grammar, with the same value size, save
\* that it may refuse nesting beyond TLV_BER_MAX_DEPTH.
ScanMatchesGrammar ==
  format.kind = "fields" /\ format.len.kind = "ber" => \A indefinite \in BOOLEAN :
    LET Agree(s, n) == IF s.rc = "OK" THEN n = s.value ELSE n = -1 \/ s.rc = "LIMIT"
    IN  Agree(ScanContents(window, indefinite), ContentSize(window, indefinite))
=============================================================================
