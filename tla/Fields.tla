------------------------------- MODULE Fields -------------------------------
(***************************************************************************)
(* The field encodings formats are composed of: Fixed, Variable, Escaped    *)
(* and Packed identifiers and lengths (src/tlv/src/field, endian.c).        *)
(*                                                                         *)
(* A byte is 0..255 and a mask is the set of its bit positions.  A reader   *)
(* answers [rc, tag, used] or [rc, length, used, where, trailer] on the     *)
(* bytes w that remain (used is the field's extent, where and trailer are   *)
(* set by BER's resolver only); a writer answers [rc, bytes].  Sizing and   *)
(* writing share one callback in the code, so a field's size is Len(bytes). *)
(***************************************************************************)
EXTENDS Integers, Sequences, SequencesExt, FiniteSetsExt

CONSTANT UintOctets   \* octets of a tlv_size_t: 8 in the code

ASSUME UintOctetsAssumption == UintOctets \in 1 .. 3   \* TLC's integers are 32 bits

UintMax == 256 ^ UintOctets - 1

Drop(w, n) == SubSeq(w, n + 1, Len(w))
Bits(b)    == {i \in 0 .. 7 : (b \div 2 ^ i) % 2 = 1}

TagOK(tag)           == [rc |-> "OK", tag |-> tag, used |-> Len(tag)]
TagError(rc, used)   == [rc |-> rc, tag |-> <<>>, used |-> used]
LengthOK(n, used)    == [rc |-> "OK", length |-> n, used |-> used, where |-> 0, trailer |-> 0]
LengthError(rc, used) == [LengthOK(0, used) EXCEPT !.rc = rc]
Bytes(b)             == [rc |-> "OK", bytes |-> b]
WriteError(rc)       == [rc |-> rc, bytes |-> <<>>]

-----------------------------------------------------------------------------
\* tlv_read_uint and tlv_write_uint, on at most UintOctets bytes.
MostSignificantFirst(w, order) == IF order = "BIG" THEN w ELSE Reverse(w)
ReadUint(w, order) == FoldLeft(LAMBDA v, b : v * 256 + b, 0, MostSignificantFirst(w, order))
WriteUint(n, width, order) ==
  MostSignificantFirst([i \in 1 .. width |-> (n \div 256 ^ (width - i)) % 256], order)

\* unpack and pack: the bits under a mask as a number, least significant first.
Rank(mask, i)   == Cardinality({j \in mask : j < i})
Unpack(b, mask) == MapThenSumSet(LAMBDA i : 2 ^ Rank(mask, i), Bits(b) \cap mask)
Pack(v, mask)   == MapThenSumSet(LAMBDA i : 2 ^ i * ((v \div 2 ^ Rank(mask, i)) % 2), mask)
MaxUnder(mask)  == 2 ^ Cardinality(mask) - 1

-----------------------------------------------------------------------------
\* Fixed: c.size bytes (fixed.c).
FixedIdentifierRead(c, w) ==
  IF Len(w) < c.size THEN TagError("TRUNCATED", Len(w)) ELSE TagOK(SubSeq(w, 1, c.size))

FixedIdentifierWrite(c, tag) ==
  IF Len(tag) # c.size THEN WriteError("INVALID_TAG_SIZE") ELSE Bytes(tag)

FixedLengthRead(c, w) ==
  IF Len(w) < c.size THEN LengthError("TRUNCATED", Len(w))
  ELSE LengthOK(ReadUint(SubSeq(w, 1, c.size), c.byteOrder), c.size)

FixedLengthWrite(c, n) ==
  IF n >= 256 ^ c.size THEN WriteError("INVALID_LENGTH")
  ELSE Bytes(WriteUint(n, c.size, c.byteOrder))

-----------------------------------------------------------------------------
\* Variable identifiers: a leading byte whose inline bits are the escape pattern is
\* followed by digits, all but the last with the continuation bit (variable.c).
Escapes(c, b) == Bits(b) \cap c.inline = c.escape

IdentifierPrefixRefused(c, w) ==
  \/ w[1] \in c.forbidden
  \/ c.rejectZeroFirst /\ Len(w) > 1 /\ Escapes(c, w[1]) /\ Bits(w[2]) \cap c.payload = {}

\* The number of digits read before the loop ends: a digit that is malformed or last,
\* the size limit, or the end of the bytes.
LastDigit(c, w) ==
  LET stops == {k \in 2 .. Len(w) : \/ ~(Bits(w[k]) \subseteq c.continuation \cup c.payload)
                                    \/ Bits(w[k]) \cap c.continuation = {}}
  IN  IF stops = {} THEN 0 ELSE Min(stops)

\* The tag number in the digits w; it saturates above what the leading byte can hold.
TagNumber(c, w) ==
  FoldLeft(LAMBDA v, b : IF v > MaxUnder(c.inline) THEN v
                         ELSE v * (MaxUnder(c.payload) + 1) + Unpack(b, c.payload), 0, w)

\* A number that needs the digits, or the one whose inline form is the escape.
NeedsDigits(c, number) ==
  \/ number > MaxUnder(c.inline)
  \/ number = Unpack(MapThenSumSet(LAMBDA i : 2 ^ i, c.escape), c.inline)

IdentifierMinimal(c, w) ==
  c.minimal => /\ ~(Len(w) > 2 /\ Bits(w[2]) \cap c.payload = {})
               /\ NeedsDigits(c, TagNumber(c, Tail(w)))

\* An escaped identifier whose last digit is w[last], 0 when it is not there.
DigitsRead(c, w, last) ==
  IF last > c.max \/ (last = 0 /\ Len(w) >= c.max) THEN TagError("INVALID_TAG_SIZE", 0)
  ELSE IF last = 0 THEN TagError("TRUNCATED", Len(w))
  ELSE IF ~(Bits(w[last]) \subseteq c.continuation \cup c.payload) THEN TagError("INVALID_TAG", 0)
  ELSE IF ~IdentifierMinimal(c, SubSeq(w, 1, last)) THEN TagError("INVALID_TAG", 0)
  ELSE TagOK(SubSeq(w, 1, last))

VariableIdentifierRead(c, w) ==
  IF w = <<>> THEN TagError("TRUNCATED", 0)
  ELSE IF IdentifierPrefixRefused(c, w) THEN TagError("INVALID_TAG", 0)
  ELSE IF Escapes(c, w[1]) THEN DigitsRead(c, w, LastDigit(c, w))
  ELSE TagOK(SubSeq(w, 1, 1))

\* A tag is written if reading it gives t, all of it.
WriteRead(c, tag, t) ==
  IF Len(tag) = 0 \/ Len(tag) > c.max \/ t.rc = "INVALID_TAG_SIZE"
    THEN WriteError("INVALID_TAG_SIZE")
  ELSE IF t.rc # "OK" \/ t.used # Len(tag) THEN WriteError("INVALID_TAG")
  ELSE Bytes(tag)

VariableIdentifierWrite(c, tag) == WriteRead(c, tag, VariableIdentifierRead(c, tag))

-----------------------------------------------------------------------------
\* Variable lengths: short form, or a count of octets (variable.c).  c.policy = {} is
\* the NULL policy, otherwise the set holds the one policy record.
Overflowed == -1
FoldLength(digits) ==
  FoldLeft(LAMBDA v, b : IF v = Overflowed \/ v > UintMax \div 256 THEN Overflowed
                         ELSE v * 256 + b, 0, digits)

LongFormRefused(c, value, digits) ==
  \E p \in c.policy :
    \/ value > p.maxValue
    \/ /\ p.minimal
       /\ \/ p.allowShort /\ value <= MaxUnder(c.payload)
          \/ Len(digits) > 1 /\ digits[1] = 0

\* The length `value' in the digits of a long form.
LongFormRead(c, digits, value) ==
  IF value = Overflowed
    THEN LengthError(IF c.policy = {} THEN "OVERFLOW" ELSE "INVALID_LENGTH", Len(digits) + 1)
  ELSE IF LongFormRefused(c, value, digits) THEN LengthError("INVALID_LENGTH", Len(digits) + 1)
  ELSE LengthOK(value, Len(digits) + 1)

DigitsLength(c, digits) == LongFormRead(c, digits, FoldLength(digits))

\* A length whose leading byte holds `count': the length itself or its octets.
CountedLength(c, w, count) ==
  IF Bits(w[1]) \cap c.longForm = {} THEN
    IF \E p \in c.policy : ~p.allowShort \/ count > p.maxValue
      THEN LengthError("INVALID_LENGTH", 1) ELSE LengthOK(count, 1)
  ELSE IF count = 0 \/ \E p \in c.policy : ~p.allowLong \/ count > p.maxLongOctets
    THEN LengthError("INVALID_LENGTH", 1)
  ELSE IF count >= Len(w) THEN LengthError("TRUNCATED", Len(w))
  ELSE DigitsLength(c, MostSignificantFirst(SubSeq(w, 2, count + 1), c.byteOrder))

VariableLengthRead(c, w) ==
  IF w = <<>> THEN LengthError("TRUNCATED", 0)
  ELSE IF ~(Bits(w[1]) \subseteq c.longForm \cup c.payload) THEN LengthError("INVALID_LENGTH", 1)
  ELSE CountedLength(c, w, Unpack(w[1], c.payload))

\* Octets of the shortest long form of n: at least one.
OctetsOf(n) == Min({k \in 1 .. UintOctets : n < 256 ^ k})

VariableLengthWrite(c, n) ==
  LET long  == n > MaxUnder(c.payload) \/ \E p \in c.policy : ~p.allowShort
      count == OctetsOf(n)
  IN  IF \E p \in c.policy : n > p.maxValue THEN WriteError("INVALID_LENGTH")
      ELSE IF ~long THEN Bytes(<<Pack(n, c.payload)>>)
      ELSE IF \/ count > MaxUnder(c.payload)
              \/ \E p \in c.policy : ~p.allowLong \/ count > p.maxLongOctets
        THEN WriteError("INVALID_LENGTH")
      ELSE Bytes(<<MapThenSumSet(LAMBDA i : 2 ^ i, c.longForm) + Pack(count, c.payload)>>
                 \o WriteUint(n, count, c.byteOrder))

-----------------------------------------------------------------------------
\* Escaped lengths: one byte below the escape value, else the escape and a fixed
\* extension (escaped.c).
ExtendedLength(c, value) ==
  IF value < c.minExtended \/ value > c.maxLength THEN LengthError("INVALID_LENGTH", 1 + c.ext)
  ELSE LengthOK(value, 1 + c.ext)

EscapedLengthRead(c, w) ==
  IF w = <<>> THEN LengthError("TRUNCATED", 0)
  ELSE IF w[1] > c.escape THEN LengthError("INVALID_LENGTH", 1)
  ELSE IF w[1] < c.escape THEN LengthOK(w[1], 1)
  ELSE IF Len(w) < 1 + c.ext THEN LengthError("TRUNCATED", Len(w))
  ELSE ExtendedLength(c, ReadUint(SubSeq(w, 2, 1 + c.ext), c.byteOrder))

\* A writer that keeps the short form for the escape value itself.
EscapedLengthWrite_OffByOne(c, n) ==
  IF n > c.maxLength THEN WriteError("INVALID_LENGTH")
  ELSE IF n <= c.escape THEN Bytes(<<n>>)
  ELSE Bytes(<<c.escape>> \o WriteUint(n, c.ext, c.byteOrder))

EscapedLengthWrite(c, n) ==
  IF n > c.maxLength THEN WriteError("INVALID_LENGTH")
  ELSE IF n < c.escape THEN Bytes(<<n>>)
  ELSE Bytes(<<c.escape>> \o WriteUint(n, c.ext, c.byteOrder))

-----------------------------------------------------------------------------
\* Packed fields: a bit range of a fixed-size header (packed.c of field and formats).
PackedFieldRead(c, w) ==
  (ReadUint(SubSeq(w, 1, c.storage), c.byteOrder) \div 2 ^ c.bitOffset) % 2 ^ c.bitWidth

\* The bytes of the header a field touches (envelope).
Envelope(c) ==
  LET first == c.bitOffset \div 8
      last  == (c.bitOffset + c.bitWidth - 1) \div 8
  IN  [offset |-> IF c.byteOrder = "LITTLE" THEN first ELSE c.storage - last - 1,
       size   |-> last - first + 1]

\* Both fields of a layout written into a zeroed header: they do not overlap.
PackedHeader(f, type, count) ==
  WriteUint(type * 2 ^ f.tag.bitOffset + count * 2 ^ f.length.bitOffset, f.header,
            f.tag.byteOrder)

-----------------------------------------------------------------------------
\* What the *_validate functions accept of a configuration.
IdentifierValidate(c) ==
  CASE c.kind = "fixed"    -> c.size > 0
    [] c.kind = "variable" -> /\ c.inline # {} /\ c.escape \subseteq c.inline
                              /\ Cardinality(c.continuation) = 1 /\ c.payload # {}
                              /\ c.continuation \cap c.payload = {} /\ c.max > 0
LengthValidate(c) ==
  CASE c.kind = "fixed"    -> c.size \in 1 .. UintOctets
    [] c.kind = "variable" -> /\ Cardinality(c.longForm) = 1 /\ c.payload # {}
                              /\ c.longForm \cap c.payload = {}
                              /\ \A p \in c.policy : /\ p.allowShort \/ p.allowLong
                                                     /\ p.allowLong => p.maxLongOctets > 0
    [] c.kind = "escaped"  -> /\ c.escape > 0 /\ c.ext \in 1 .. UintOctets
                              /\ c.minExtended <= c.escape /\ c.maxLength >= c.escape
                              /\ c.maxLength < 256 ^ c.ext
=============================================================================
