------------------------------- MODULE Reader -------------------------------
(***************************************************************************)
(* One sequential reader and the caller that feeds it: the pull API         *)
(* tlv_reader_next, the window API tlv_reader_set_input                     *)
(* (src/tlv/src/reader/reader.c) and the visitor loop tlv_reader_visit      *)
(* (src/tlv/src/reader/visitor.c).  The caller may split the stream into    *)
(* windows in any way, keep or drop any consumed prefix, make calls the     *)
(* reader refuses, mix pulls with visits and resume a visit that stopped.   *)
(***************************************************************************)
EXTENDS ReaderCore

VARIABLES
  stream,     \* the logical stream the caller's buffers come from
  rd,         \* the tlv_reader_t
  result,     \* what the last call returned
  visiting,   \* a tlv_reader_visit loop is between two callbacks
  verdict,    \* the visitor's last answer, "NONE" when the last call asked none
  delivered,  \* history: every element handed to the caller, in order
  outcome     \* history: the last verdict other than OK and NEED_MORE_DATA

vars == <<stream, rd, result, visiting, verdict, delivered, outcome>>

Open == [rc |-> "OPEN", loc |-> {}]

Results == {"OK", "END", "NEED_MORE_DATA", "INVALID_ARG", "INVALID_STATE", "OVERFLOW",
            "VISITOR"} \cup DecodeResults

Init == /\ stream \in Streams
        /\ \E n \in 0 .. Available(stream, 0) : \E final \in BOOLEAN :
             /\ final => n = Len(stream)
             /\ rd = ReaderInit(n, final)
        /\ result = "OK" /\ visiting = FALSE /\ verdict = "NONE"
        /\ delivered = <<>> /\ outcome = Open

-----------------------------------------------------------------------------
\* One pull that returned code: an element, a verdict, or nothing yet.
Pulled(code) ==
  \/ /\ code = "OK"
     /\ rd' = Advance(stream, rd)
     /\ delivered' = Append(delivered, [offset |-> ReaderOffset(rd),
                                        source |-> ReadImpl(stream, rd)])
     /\ UNCHANGED outcome
  \/ /\ code = "NEED_MORE_DATA"
     /\ UNCHANGED <<rd, delivered, outcome>>
  \/ /\ code \notin {"OK", "NEED_MORE_DATA"}
     /\ outcome' = [rc |-> code, loc |-> Location(stream, rd)]
     /\ UNCHANGED <<rd, delivered>>

\* tlv_reader_next
ReaderNext ==
  /\ ~visiting
  /\ Pulled(NextResult(stream, rd))
  /\ result' = NextResult(stream, rd)
  /\ verdict' = "NONE"
  /\ UNCHANGED <<stream, visiting>>

\* tlv_reader_set_input: a window of `size' bytes that drops `discard' bytes of the
\* old one.  The caller says final only at the true end of the stream.
ReaderSetInput(size, discard, final) ==
  LET code == SetInputResult(rd, size, discard, final)
  IN  /\ ~visiting
      /\ final => rd.base + discard + size = Len(stream)
      /\ rd' = IF code = "OK" THEN SetInput(rd, size, discard, final) ELSE rd
      /\ result' = code
      /\ verdict' = "NONE"
      /\ UNCHANGED <<stream, visiting, delivered, outcome>>

ReaderFeed == \E discard \in 0 .. rd.size : \E size \in 0 .. Available(stream, rd.base + discard) :
                \E final \in BOOLEAN : ReaderSetInput(size, discard, final)

\* tlv_reader_visit: the loop stops at the end of final input ...
VisitEnd == /\ ReaderAtEnd(rd)
            /\ visiting' = FALSE /\ result' = "OK" /\ verdict' = "NONE"
            /\ UNCHANGED <<stream, rd, delivered, outcome>>

\* ... or where the pull has no element ...
VisitPullFails ==
  /\ ~ReaderAtEnd(rd) /\ NextResult(stream, rd) # "OK"
  /\ Pulled(NextResult(stream, rd))
  /\ visiting' = FALSE /\ result' = NextResult(stream, rd) /\ verdict' = "NONE"
  /\ UNCHANGED stream

\* ... or when the visitor, which has been given the consumed element, says so.
VisitElement(v) ==
  /\ ~ReaderAtEnd(rd) /\ NextResult(stream, rd) = "OK"
  /\ Pulled("OK")
  /\ visiting' = (v = "CONTINUE") /\ result' = VisitReturn(v) /\ verdict' = v
  /\ UNCHANGED stream

ReaderVisit == VisitEnd \/ VisitPullFails \/ \E v \in Verdicts : VisitElement(v)

Next == ReaderNext \/ ReaderFeed \/ ReaderVisit

(***************************************************************************)
(* Fairness is the caller's: a started visit runs on (it is a loop inside   *)
(* one call), the caller keeps pulling, and keeps supplying bytes or the    *)
(* final flag while it has any left.  The library has no thread of its own. *)
(***************************************************************************)
Supply == \E discard \in 0 .. rd.pos : \E size \in 0 .. Available(stream, rd.base + discard) :
            \E final \in BOOLEAN :
              /\ discard + size > rd.size \/ (final /\ ~rd.final)
              /\ SetInputResult(rd, size, discard, final) = "OK"
              /\ ReaderSetInput(size, discard, final)

Fairness == WF_vars(visiting /\ ReaderVisit) /\ WF_vars(ReaderNext) /\ WF_vars(Supply)

Spec == Init /\ [][Next]_vars

FairSpec == Spec /\ Fairness

-----------------------------------------------------------------------------
\* The type of the reader's record and of the recorded history.
TypeOK ==
  /\ stream \in Streams
  /\ rd \in Readers
  /\ result \in Results
  /\ visiting \in BOOLEAN
  /\ verdict \in Verdicts \cup {"NONE"}

(***************************************************************************)
(* After any sequence of pulls, visits, accepted and refused set_input      *)
(* calls, with any decode callback, the reader's window is one, so no       *)
(* size_t sum of reader.c wraps and no decode reads outside the buffer.     *)
(***************************************************************************)
WindowInv == WindowOK(stream, rd)

\* Types and window together: whatever a decode callback answers, reader.c returns documented
\* codes only and stays inside its buffer.
ReaderSafe == TypeOK /\ WindowInv

\* Elements handed out tile the stream: each begins where its predecessor ended and
\* the cursor is at the end of the last one, whatever the windows were (reader.h: only
\* a successful read advances the cursor, by the complete encoded extent).
DeliveredTile ==
  /\ \A k \in 1 .. Len(delivered) :
       delivered[k].offset = IF k = 1 THEN 0
                             ELSE delivered[k-1].offset + delivered[k-1].source.size
  /\ rd.base + rd.pos = IF delivered = <<>> THEN 0
                        ELSE LET e == delivered[Len(delivered)]
                             IN  e.offset + e.source.size

\* No step reopens final input or moves its end, and only a pull that delivers moves
\* the absolute cursor: tlv_reader_set_input rebases the window under it.
FinalSticks ==
  [][ /\ rd.final => rd'.final /\ rd'.base + rd'.size = rd.base + rd.size
      /\ rd'.base + rd'.pos # rd.base + rd.pos => delivered' # delivered ]_vars

\* Once a pull has reported END or an error, no later call of any kind delivers an
\* element or reports a different code or location.
VerdictSticks ==
  [][ outcome # Open => outcome' = outcome /\ delivered' = delivered ]_vars

(***************************************************************************)
(* Chunk invariance: however the stream is cut into windows, the reader is  *)
(* the StreamReader that never saw a window: same elements, same verdict,   *)
(* same absolute offsets.                                                   *)
(***************************************************************************)
Abstract == INSTANCE StreamReader WITH at <- rd.base + rd.pos

ChunkInvariant == Abstract!Spec

\* A caller that goes on pulling and supplying always reaches the stream's end or its
\* error: NEED_MORE_DATA cannot repeat for ever once all bytes are there.
EventuallyDecided == Len(stream) <= SizeMax ~> (outcome # Open \/ ReaderAtEnd(rd))
=============================================================================
