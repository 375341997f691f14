---------------------------- MODULE StreamReader ----------------------------
(***************************************************************************)
(* What a sequential reader promises (include/tlv/reader/reader.h): the     *)
(* elements of one byte stream, in order, each exactly once, then one       *)
(* verdict (TLV_END or the error of the byte where decoding stops).  There  *)
(* are no windows here: every decode sees the whole rest of the stream.     *)
(***************************************************************************)
EXTENDS Integers, Sequences

CONSTANTS
  Streams,
  DecodeRest(_, _)   \* tlv_format_decode on stream s from absolute offset i < Len(s)

VARIABLES
  stream,     \* the logical stream
  at,         \* absolute offset of the next element
  delivered,  \* elements handed out, with their absolute offsets
  outcome     \* the verdict [rc, loc]; rc = "OPEN" until there is one

vars == <<stream, at, delivered, outcome>>

Open == [rc |-> "OPEN", loc |-> {}]

\* A decode error's location, absolute; none when the decoder gave none in range.
ErrorAt(d) == {at + w : w \in {x \in {d.where} : x <= Len(stream) - at}}

Init == /\ stream \in Streams
        /\ at = 0
        /\ delivered = <<>>
        /\ outcome = Open

Deliver ==
  LET d == DecodeRest(stream, at)
  IN  /\ at < Len(stream) /\ d.rc = "OK"
      /\ at' = at + d.size
      /\ delivered' = Append(delivered, [offset |-> at, source |-> d])
      /\ UNCHANGED <<stream, outcome>>

End == /\ at = Len(stream)
       /\ outcome' = [rc |-> "END", loc |-> {at}]
       /\ UNCHANGED <<stream, at, delivered>>

Fail ==
  LET d == DecodeRest(stream, at)
  IN  /\ at < Len(stream) /\ d.rc # "OK"
      /\ outcome' = [rc |-> d.rc, loc |-> ErrorAt(d)]
      /\ UNCHANGED <<stream, at, delivered>>

Next == Deliver \/ End \/ Fail

Spec == Init /\ [][Next]_vars
=============================================================================
