----------------------------- MODULE ReaderCore -----------------------------
(***************************************************************************)
(* The pull reader of src/tlv/src/reader/reader.c as operators on one       *)
(* tlv_reader_t.  Reader.tla and TreeReader.tla build state machines on it. *)
(*                                                                         *)
(* A reader is [base, size, pos, final]: base_offset, size, pos and         *)
(* final_input.  Its window is the caller's buffer, and the caller's part   *)
(* of the contract is that the buffer holds the bytes base+1 .. base+size   *)
(* of one logical stream, so `data' is not a component of the record.       *)
(***************************************************************************)
EXTENDS Format

CONSTANTS
  Streams,      \* the logical byte streams under consideration
  SizeMax,      \* SIZE_MAX
  Callback(_)   \* format->decode, on a nonempty window

\* The answers a decode callback can give: any code and any ranges at all.
Extents == [offset : Nat, size : Nat]
Answers == [rc : CallbackCodes, where : Nat, size : Nat, header : Extents, value : Extents,
            trailer : Extents, tag : Extents, bound : BOOLEAN, constructed : BOOLEAN]

ASSUME SizeMaxAssumption == SizeMax \in Nat \ {0}

\* A stream is a finite sequence, and the callback answers on every window of it
\* with a record of the answer's shape; nothing is assumed of what it says.
ASSUME CallbackAssumption ==
  \A s \in Streams :
    /\ Len(s) \in Nat
    /\ \A i \in 0 .. Len(s) : \A j \in i + 1 .. Len(s) : Callback(SubSeq(s, i + 1, j)) \in Answers

\* tlv_format_decode on the stream's bytes i+1 .. j, i < j.
Decode(s, i, j) == CheckedDecode(Callback(SubSeq(s, i + 1, j)), j - i)

\* The same with every byte of the stream at hand.
DecodeRest(s, i) == Decode(s, i, Len(s))

(***************************************************************************)
(* The promises of tlv_decode_fn that the library cannot enforce            *)
(* (include/tlv/format.h): a verdict other than TRUNCATED is final, bytes   *)
(* appended to the window do not change it, and an error lies in the window.*)
(***************************************************************************)
PrefixStable ==
  \A s \in Streams : \A i \in 0 .. Len(s) : \A j \in i + 1 .. Len(s) :
    Decode(s, i, j).rc # "TRUNCATED" =>
      Decode(s, i, j) = DecodeRest(s, i) /\ Decode(s, i, j).where <= j - i

-----------------------------------------------------------------------------
\* size_t arithmetic: one addition or subtraction of in-range operands, modulo
\* SizeMax + 1.
SizeAdd(a, b) == IF a + b > SizeMax THEN a + b - (SizeMax + 1) ELSE a + b
SizeSub(a, b) == IF a >= b THEN a - b ELSE a + (SizeMax + 1) - b

\* The largest window that a buffer of the bytes of s from offset base can be.
Available(s, base) == IF Len(s) - base > SizeMax THEN SizeMax ELSE Len(s) - base

Readers == [base : Nat, size : Nat, pos : Nat, final : BOOLEAN]

\* tlv_reader_init (final) and tlv_reader_init_incremental over the first n bytes.
ReaderInit(n, final) == [base |-> 0, size |-> n, pos |-> 0, final |-> final]

\* The window stays a window: the cursor is inside it, it is inside the stream, no
\* absolute offset in it exceeds SIZE_MAX; and a final window ends where the stream does.
InStream(s, r) == /\ r.pos <= r.size
                  /\ r.base + r.size <= Len(s) /\ r.base + r.size <= SizeMax
WindowOK(s, r) == InStream(s, r) /\ (r.final => r.base + r.size = Len(s))

\* reader_valid
ReaderValid(r) == IF r.pos > r.size THEN "INVALID_ARG"
                  ELSE IF r.size > SizeSub(SizeMax, r.base) THEN "OVERFLOW" ELSE "OK"

ReaderOffset(r) == SizeAdd(r.base, r.pos)         \* tlv_reader_offset
ReaderAtEnd(r)  == r.final /\ r.pos = r.size      \* tlv_reader_at_end

\* Checks that let a later window extend final input, and checks that want new bytes in
\* every window.
SetInputResult_Reopens(r, size, discard, final) ==
  IF ReaderValid(r) # "OK" THEN ReaderValid(r)
  ELSE IF discard > r.pos \/ size < SizeSub(r.size, discard) THEN "INVALID_ARG"
  ELSE IF size > SizeSub(SizeMax, SizeAdd(r.base, discard)) THEN "OVERFLOW" ELSE "OK"
SetInputResult_WantsBytes(r, size, discard, final) ==
  IF ReaderValid(r) # "OK" THEN ReaderValid(r)
  ELSE IF discard > r.pos \/ size <= SizeSub(r.size, discard) THEN "INVALID_ARG"
  ELSE IF size > SizeSub(SizeMax, SizeAdd(r.base, discard)) THEN "OVERFLOW" ELSE "OK"

\* The result of tlv_reader_set_input, checks in the code's order.
SetInputResult(r, size, discard, final) ==
  LET retained == SizeSub(r.size, discard)
      base     == SizeAdd(r.base, discard)
  IN  IF ReaderValid(r) # "OK" THEN ReaderValid(r)
      ELSE IF discard > r.pos \/ size < retained THEN "INVALID_ARG"
      ELSE IF r.final /\ (~final \/ size # retained) THEN "INVALID_STATE"
      ELSE IF size > SizeSub(SizeMax, base) THEN "OVERFLOW" ELSE "OK"

\* A rebase that forgets to move the cursor with the window.
SetInput_KeepsPos(r, size, discard, final) ==
  [base |-> SizeAdd(r.base, discard), size |-> size, pos |-> r.pos, final |-> final]

\* The window tlv_reader_set_input installs on success.
SetInput(r, size, discard, final) ==
  [base |-> SizeAdd(r.base, discard), size |-> size,
   pos  |-> SizeSub(r.pos, discard), final |-> final]

-----------------------------------------------------------------------------
\* What tlv_read_impl sees: the undecoded rest of the window.
ReadImpl(s, r) == Decode(s, r.base + r.pos, r.base + r.size)

\* A reader that hands a short read to the caller as an error of the stream.
NextResult_Truncates(s, r) ==
  IF ReaderValid(r) # "OK" THEN ReaderValid(r)
  ELSE IF r.pos = r.size THEN IF r.final THEN "END" ELSE "NEED_MORE_DATA"
  ELSE ReadImpl(s, r).rc

\* The code tlv_reader_next returns.
NextResult(s, r) ==
  IF ReaderValid(r) # "OK" THEN ReaderValid(r)
  ELSE IF r.pos = r.size THEN IF r.final THEN "END" ELSE "NEED_MORE_DATA"
  ELSE IF ReadImpl(s, r).rc = "TRUNCATED" /\ ~r.final THEN "NEED_MORE_DATA"
  ELSE ReadImpl(s, r).rc

\* The reader after a successful pull: only then does the cursor move, over the
\* whole encoded element.
Advance(s, r) == [r EXCEPT !.pos = SizeAdd(r.pos, ReadImpl(s, r).size)]

\* Where in the stream a pull reports its verdict: at most one absolute offset.  A
\* callback's offset beyond the rest of the window is dropped, others are translated.
Location(s, r) ==
  IF r.pos = r.size THEN {ReaderOffset(r)}
  ELSE {SizeAdd(ReaderOffset(r), w) : w \in {x \in {ReadImpl(s, r).where} :
                                                 x <= SizeSub(r.size, r.pos)}}

-----------------------------------------------------------------------------
Verdicts == {"CONTINUE", "STOP", "ERROR", "OTHER"}   \* OTHER: not a tlv_visit_result_t

\* What a visitor loop (visitor.c) returns for a visitor's answer.
VisitReturn(v) == CASE v \in {"CONTINUE", "STOP"} -> "OK"
                    [] v = "ERROR"                -> "VISITOR"
                    [] OTHER                      -> "CALLBACK"
=============================================================================
