------------------------------- MODULE Format -------------------------------
(***************************************************************************)
(* The guard that tlv_format_decode puts between a format's decode          *)
(* callback and every caller (src/tlv/src/format.c).  A format is data plus *)
(* callbacks supplied by anyone, so the library trusts neither the code a   *)
(* callback returns nor the byte ranges it publishes.                       *)
(*                                                                         *)
(* A callback's answer on a window is a record.  `rc' is the code it        *)
(* returned; the rest is read only for "OK", except `where', which is read  *)
(* only for an error (tlv_format_error_t.offset):                           *)
(*   size                   tlv_source_t.size, the bytes of the element     *)
(*   header, value, trailer ranges [offset, size] that should partition it  *)
(*   tag                    the identifier's own range inside the header    *)
(*   bound                  the three ranges are present and the element's  *)
(*                          tag and value views are the bytes they name     *)
(*   constructed            what is_constructed says of the decoded tag     *)
(* A window is only its bytes; data pointers are not modelled.              *)
(***************************************************************************)
EXTENDS Integers, Sequences

\* The errors that tlv_callback_result lets through from a provider; BUFFER_TOO_SHORT
\* too, but a decoder has no buffer (see CheckedDecode).
ProviderErrors == {"TRUNCATED", "INVALID_TAG", "INVALID_LENGTH", "INVALID_TAG_SIZE",
                   "OVERFLOW", "LIMIT", "INVALID_VALUE", "UNSUPPORTED", "CALLBACK",
                   "NULL_ARG", "OUT_OF_MEMORY", "VISITOR", "SCHEMA", "INVALID_ARG", "SYNTAX",
                   "INVALID_SCHEMA", "NATIVE_SIZE", "INVALID_STATE"}

\* What a callback can return; OTHER is not a tlv_result_t.
CallbackCodes == {"OK", "END", "NEED_MORE_DATA", "BUFFER_TOO_SHORT", "OTHER"} \cup ProviderErrors

\* What tlv_format_decode can answer on a nonempty window.
DecodeResults == {"OK"} \cup ProviderErrors

\* tlv_callback_result(rc, 0): control codes (END, NEED_MORE_DATA) and unknown
\* discriminators are defects of the provider.
CallbackResult(rc) == IF rc \in {"OK", "BUFFER_TOO_SHORT"} \cup ProviderErrors
                        THEN rc ELSE "CALLBACK"

RangeValid(r, n) == r.offset <= n /\ r.size <= n - r.offset

\* A guard that forgets to hold the element against the window it came from.
SourceValid_NoWindow(d, n) ==
  /\ d.bound
  /\ d.size > 0
  /\ d.header.offset = 0
  /\ d.value.offset = d.header.size
  /\ d.trailer.offset = d.value.offset + d.value.size
  /\ d.trailer.size = d.size - d.trailer.offset

\* The source ranges of an accepted element partition 1..n bytes of the window.
SourceValid(d, n) ==
  /\ d.bound
  /\ d.size > 0 /\ d.size <= n
  /\ d.header.offset = 0
  /\ RangeValid(d.header, d.size) /\ RangeValid(d.value, d.size)
  /\ RangeValid(d.trailer, d.size) /\ RangeValid(d.tag, d.size)
  /\ d.value.offset = d.header.size
  /\ d.trailer.offset = d.value.offset + d.value.size
  /\ d.trailer.size = d.size - d.trailer.offset

\* An answer with its code replaced.
Failed(d, rc) == [d EXCEPT !.rc = rc]

\* tlv_format_decode after the callback answered d on a window of n > 0 bytes.
CheckedDecode(d, n) ==
  LET rc == CallbackResult(d.rc)
  IN  IF rc = "BUFFER_TOO_SHORT" \/ (rc = "OK" /\ ~SourceValid(d, n))
        THEN Failed(d, "CALLBACK")
        ELSE Failed(d, rc)
=============================================================================
