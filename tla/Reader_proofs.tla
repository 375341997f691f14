---------------------------- MODULE Reader_proofs ----------------------------
(***************************************************************************)
(* The sequential reader, for every set of streams, every SIZE_MAX and      *)
(* every decode callback: its window stays a window, what it delivers       *)
(* tiles the stream, final input stays final; and, if the callback's        *)
(* verdicts do not change when bytes are appended, it implements the reader *)
(* that never saw a window.                                                 *)
(***************************************************************************)
EXTENDS Reader, ReaderCore_proofs

\* The elements delivered so far: a sequence of [offset, source] records.
DeliveredType == delivered \in Seq([offset : Nat, source : Answers])

\* The inductive invariant of the window: types, the window, and the history's type.
\* The window needs the types for arithmetic, the history's type needs the window
\* (ReadImpl is an answer only on a window that is inside the stream).
ReaderInv == TypeOK /\ WindowInv /\ DeliveredType

\* A fresh tlv_reader_t, final or incremental, satisfies the invariant.
LEMMA InitInv == Init => ReaderInv
<1> SUFFICES ASSUME Init PROVE ReaderInv
  OBVIOUS
<1>1. Len(stream) \in Nat /\ SizeMax \in Nat
  BY StreamLength, SizeMaxAssumption DEF Init
<1>2. PICK n \in 0 .. Available(stream, 0), final \in BOOLEAN :
        (final => n = Len(stream)) /\ rd = ReaderInit(n, final)
  BY DEF Init
<1>3. n \in Nat /\ n <= Len(stream) /\ n <= SizeMax
  BY <1>1 DEF Available
<1>4. rd \in Readers /\ WindowOK(stream, rd)
  BY <1>1, <1>2, <1>3 DEF ReaderInit, Readers, WindowOK, InStream
<1>5. result \in Results
  BY DEF Init, Results
<1>6. delivered \in Seq([offset : Nat, source : Answers])
  BY DEF Init
<1> QED
  BY <1>4, <1>5, <1>6 DEF ReaderInv, TypeOK, WindowInv, DeliveredType, Init

\* One pull keeps the invariant's state part.
LEMMA PulledInv ==
  ASSUME ReaderInv, Pulled(NextResult(stream, rd)), stream' = stream
  PROVE  rd' \in Readers /\ WindowOK(stream, rd') /\ DeliveredType'
<1>1. stream \in Streams /\ rd \in Readers /\ WindowOK(stream, rd)
  BY DEF ReaderInv, TypeOK, WindowInv
<1>2. CASE NextResult(stream, rd) = "OK"
  <2>1. /\ ReadImpl(stream, rd) \in Answers
        /\ ReadImpl(stream, rd).size \in 1 .. rd.size - rd.pos
        /\ rd' = [rd EXCEPT !.pos = rd.pos + ReadImpl(stream, rd).size]
    BY <1>1, <1>2, PullSound DEF Pulled, WindowOK
  <2>2. rd' \in Readers /\ WindowOK(stream, rd')
    BY <1>1, <2>1 DEF Readers, WindowOK, InStream
  <2>3. ReaderOffset(rd) \in Nat
    BY <1>1, ValidWindow DEF WindowOK
  <2>4. delivered' = Append(delivered, [offset |-> ReaderOffset(rd),
                                        source |-> ReadImpl(stream, rd)])
    BY <1>2 DEF Pulled
  <2>5. [offset |-> ReaderOffset(rd), source |-> ReadImpl(stream, rd)]
          \in [offset : Nat, source : Answers]
    BY <2>1, <2>3
  <2>6. DeliveredType'
    BY <2>4, <2>5 DEF ReaderInv, DeliveredType
  <2> QED
    BY <2>2, <2>6
<1>3. CASE NextResult(stream, rd) # "OK"
  <2>1. rd' = rd /\ delivered' = delivered
    BY <1>3 DEF Pulled
  <2> QED
    BY <1>1, <2>1 DEF ReaderInv, DeliveredType
<1> QED
  BY <1>2, <1>3

\* The window a caller offers is a window of the stream.
LEMMA FedInv ==
  ASSUME ReaderInv, NEW discard \in 0 .. rd.size,
         NEW size \in 0 .. Available(stream, rd.base + discard), NEW final \in BOOLEAN,
         ReaderSetInput(size, discard, final)
  PROVE  /\ rd' \in Readers /\ WindowOK(stream, rd')
         /\ rd'.base + rd'.pos = rd.base + rd.pos
         /\ rd.final => rd'.final /\ rd'.base + rd'.size = rd.base + rd.size
         /\ result' \in Results
<1>1. stream \in Streams /\ rd \in Readers /\ WindowOK(stream, rd)
  BY DEF ReaderInv, TypeOK, WindowInv
<1>2. Len(stream) \in Nat /\ SizeMax \in Nat /\ rd.base \in Nat /\ rd.size \in Nat
  BY <1>1, StreamLength, SizeMaxAssumption DEF Readers
<1>3. size \in Nat /\ discard \in Nat /\ discard <= rd.size
      /\ rd.base + discard + size <= Len(stream)
  BY <1>1, <1>2 DEF Available, WindowOK, InStream
<1>4. final => rd.base + discard + size = Len(stream)
  BY DEF ReaderSetInput
<1>5. ReaderValid(rd) = "OK"
  BY <1>1, ValidWindow DEF WindowOK
<1>6. SetInputResult(rd, size, discard, final)
        \in {"OK", "INVALID_ARG", "INVALID_STATE", "OVERFLOW"}
  BY <1>5 DEF SetInputResult
<1>7. result' \in Results
  BY <1>6 DEF ReaderSetInput, Results
<1>8. CASE SetInputResult(rd, size, discard, final) = "OK"
  <2>1. rd' = SetInput(rd, size, discard, final)
    BY <1>8 DEF ReaderSetInput
  <2> QED
    BY <1>1, <1>3, <1>4, <1>7, <1>8, <2>1, SetInputSound
<1>9. CASE SetInputResult(rd, size, discard, final) # "OK"
  <2>1. rd' = rd
    BY <1>9 DEF ReaderSetInput
  <2> QED
    BY <1>1, <1>7, <2>1
<1> QED
  BY <1>8, <1>9

\* What a pull returns is a result of the reader.
LEMMA PullCode == ReaderInv => NextResult(stream, rd) \in Results
BY PullSound DEF ReaderInv, TypeOK, WindowInv, WindowOK, Results

\* Every call of the reader API, accepted or refused, and every turn of the visitor loop
\* preserves it.
LEMMA StepInv == ReaderInv /\ [Next]_vars => ReaderInv'
<1> SUFFICES ASSUME ReaderInv, [Next]_vars PROVE ReaderInv'
  OBVIOUS
<1> USE DEF ReaderInv
<1>1. CASE ReaderNext
  <2>1. rd' \in Readers /\ WindowOK(stream, rd') /\ DeliveredType' /\ stream' = stream
    BY <1>1, PulledInv DEF ReaderNext
  <2>2. result' \in Results
    BY <1>1, PullCode DEF ReaderNext
  <2> QED
    BY <1>1, <2>1, <2>2 DEF ReaderNext, TypeOK, WindowInv
<1>2. CASE ReaderFeed
  <2>0. PICK discard \in 0 .. rd.size : \E size \in 0 .. Available(stream, rd.base + discard) :
          \E final \in BOOLEAN : ReaderSetInput(size, discard, final)
    BY <1>2 DEF ReaderFeed
  <2>1. PICK size \in 0 .. Available(stream, rd.base + discard), final \in BOOLEAN :
          ReaderSetInput(size, discard, final)
    BY <2>0
  <2>2. rd' \in Readers /\ WindowOK(stream, rd') /\ result' \in Results
    BY <2>1, FedInv
  <2> QED
    BY <2>1, <2>2 DEF ReaderSetInput, TypeOK, WindowInv, DeliveredType
<1>3. CASE VisitEnd
  BY <1>3 DEF VisitEnd, TypeOK, WindowInv, DeliveredType, Results
<1>4. CASE VisitPullFails
  <2>1. rd' \in Readers /\ WindowOK(stream, rd') /\ DeliveredType' /\ stream' = stream
    BY <1>4, PulledInv DEF VisitPullFails
  <2>2. result' \in Results
    BY <1>4, PullCode DEF VisitPullFails
  <2> QED
    BY <1>4, <2>1, <2>2 DEF VisitPullFails, TypeOK, WindowInv
<1>5. ASSUME NEW v \in Verdicts, VisitElement(v)
      PROVE  ReaderInv'
  <2>1. rd' \in Readers /\ WindowOK(stream, rd') /\ DeliveredType' /\ stream' = stream
    BY <1>5, PulledInv DEF VisitElement
  <2>2. VisitReturn(v) \in Results
    BY DEF VisitReturn, Verdicts, Results, DecodeResults, ProviderErrors
  <2>3. (v = "CONTINUE") \in BOOLEAN
    OBVIOUS
  <2> QED
    BY <1>5, <2>1, <2>2, <2>3 DEF VisitElement, TypeOK, WindowInv
<1>6. CASE UNCHANGED vars
  BY <1>6 DEF vars, TypeOK, WindowInv, DeliveredType
<1> QED
  BY <1>1, <1>2, <1>3, <1>4, <1>5, <1>6 DEF Next, ReaderVisit

\* The reader's record, codes and flags keep their types, and after any calls in any order, with any decode callback, no size_t sum of reader.c
\* wraps and the cursor stays in the window, the window in the stream.
THEOREM WindowSafe == Spec => []ReaderSafe
<1>1. Spec => []ReaderInv
  BY InitInv, StepInv, PTL DEF Spec
<1>2. ReaderInv => ReaderSafe
  BY DEF ReaderInv, ReaderSafe
<1> QED
  BY <1>1, <1>2, PTL

-----------------------------------------------------------------------------
\* Final input stays final and its end stays put, and only a pull that delivers an
\* element moves the absolute cursor.
THEOREM FinalIsFinal == Spec => FinalSticks
<1>1. Spec => []ReaderInv
  BY InitInv, StepInv, PTL DEF Spec
<1> DEFINE Sticks == /\ rd.final => rd'.final /\ rd'.base + rd'.size = rd.base + rd.size
                     /\ rd'.base + rd'.pos # rd.base + rd.pos => delivered' # delivered
<1>2. ReaderInv /\ [Next]_vars => [Sticks]_vars
  <2> SUFFICES ASSUME ReaderInv, Next PROVE Sticks
    BY DEF vars
  <2>0. stream \in Streams /\ rd \in Readers /\ WindowOK(stream, rd)
    BY DEF ReaderInv, TypeOK, WindowInv
  <2>1. ASSUME Pulled(NextResult(stream, rd)) PROVE Sticks
    <3>1. CASE NextResult(stream, rd) = "OK"
      <4>1. rd' = [rd EXCEPT !.pos = rd.pos + ReadImpl(stream, rd).size]
        BY <2>0, <2>1, <3>1, PullSound DEF Pulled, WindowOK
      <4>2. rd'.final = rd.final /\ rd'.base = rd.base /\ rd'.size = rd.size
        BY <2>0, <4>1 DEF Readers
      <4>3. Len(delivered') = Len(delivered) + 1 /\ Len(delivered) \in Nat
        BY <2>1, <3>1 DEF Pulled, ReaderInv, DeliveredType
      <4> QED
        BY <4>2, <4>3
    <3>2. CASE NextResult(stream, rd) # "OK"
      BY <2>1, <3>2 DEF Pulled
    <3> QED
      BY <3>1, <3>2
  <2>2. CASE ReaderNext
    BY <2>1, <2>2 DEF ReaderNext
  <2>3. CASE ReaderFeed
    <3>1. PICK discard \in 0 .. rd.size :
            \E size \in 0 .. Available(stream, rd.base + discard) :
              \E final \in BOOLEAN : ReaderSetInput(size, discard, final)
      BY <2>3 DEF ReaderFeed
    <3> QED
      BY <3>1, FedInv
  <2>4. CASE VisitEnd
    BY <2>4 DEF VisitEnd
  <2>5. CASE VisitPullFails
    BY <2>1, <2>5 DEF VisitPullFails
  <2>6. ASSUME NEW v \in Verdicts, VisitElement(v) PROVE Sticks
    BY <2>1, <2>6 DEF VisitElement
  <2> QED
    BY <2>2, <2>3, <2>4, <2>5, <2>6 DEF Next, ReaderVisit
<1> QED
  BY <1>1, <1>2, PTL DEF Spec, FinalSticks

-----------------------------------------------------------------------------
\* Elements tile the stream, whatever the callback says and however it is cut.
THEOREM ElementsTile == Spec => []DeliveredTile
<1>1. Init => DeliveredTile
  BY DEF Init, ReaderInit, DeliveredTile
<1>2. ReaderInv /\ DeliveredTile /\ [Next]_vars => DeliveredTile'
  <2> SUFFICES ASSUME ReaderInv, DeliveredTile, [Next]_vars PROVE DeliveredTile'
    OBVIOUS
  <2>0. stream \in Streams /\ rd \in Readers /\ WindowOK(stream, rd)
        /\ delivered \in Seq([offset : Nat, source : Answers])
    BY DEF ReaderInv, TypeOK, WindowInv, DeliveredType
  <2>1. ASSUME delivered' = delivered, rd'.base + rd'.pos = rd.base + rd.pos
        PROVE  DeliveredTile'
    BY <2>1 DEF DeliveredTile
  <2>2. ASSUME Pulled(NextResult(stream, rd)) PROVE DeliveredTile'
    <3>1. CASE NextResult(stream, rd) = "OK"
      <4> DEFINE d == ReadImpl(stream, rd)
                 e == [offset |-> rd.base + rd.pos, source |-> d]
      <4>1. d \in Answers /\ rd' = [rd EXCEPT !.pos = rd.pos + d.size]
        BY <2>0, <2>2, <3>1, PullSound DEF Pulled, WindowOK
      <4>2. delivered' = Append(delivered, e)
        BY <2>0, <2>2, <3>1, ValidWindow DEF Pulled, WindowOK
      <4>3. d.size \in Nat
        BY <4>1 DEF Answers
      <4> HIDE DEF d
      <4>4. rd'.base + rd'.pos = e.offset + e.source.size
        BY <2>0, <4>1, <4>3 DEF Readers
      <4>5. /\ Len(delivered') = Len(delivered) + 1 /\ Len(delivered) \in Nat
            /\ delivered'[Len(delivered')] = e
            /\ \A k \in 1 .. Len(delivered) : delivered'[k] = delivered[k]
        BY <2>0, <4>1, <4>2
      <4>6. ASSUME NEW k \in 1 .. Len(delivered')
            PROVE  delivered'[k].offset
                     = IF k = 1 THEN 0
                       ELSE delivered'[k-1].offset + delivered'[k-1].source.size
        <5>1. CASE k <= Len(delivered)
          BY <4>5, <4>6, <5>1 DEF DeliveredTile
        <5>2. CASE k = Len(delivered) + 1 /\ k # 1
          <6>1. delivered # <<>> /\ k - 1 = Len(delivered) /\ k - 1 \in 1 .. Len(delivered)
            BY <2>0, <4>5, <5>2
          <6>2. rd.base + rd.pos = delivered[k-1].offset + delivered[k-1].source.size
            BY <6>1 DEF DeliveredTile
          <6> QED
            BY <4>5, <5>2, <6>1, <6>2
        <5>3. CASE k = Len(delivered) + 1 /\ k = 1
          <6>1. delivered = <<>>
            BY <2>0, <4>5, <5>3
          <6>2. rd.base + rd.pos = 0
            BY <6>1 DEF DeliveredTile
          <6> QED
            BY <4>5, <5>3, <6>2
        <5> QED
          BY <4>5, <5>1, <5>2, <5>3
      <4>7. delivered' # <<>>
        BY <4>5
      <4> HIDE DEF e
      <4> QED
        BY <4>4, <4>5, <4>6, <4>7 DEF DeliveredTile
    <3>2. CASE NextResult(stream, rd) # "OK"
      BY <2>1, <2>2, <3>2 DEF Pulled
    <3> QED
      BY <3>1, <3>2
  <2>3. CASE ReaderNext
    BY <2>2, <2>3 DEF ReaderNext
  <2>4. CASE ReaderFeed
    <3>1. PICK discard \in 0 .. rd.size :
            \E size \in 0 .. Available(stream, rd.base + discard) :
              \E final \in BOOLEAN : ReaderSetInput(size, discard, final)
      BY <2>4 DEF ReaderFeed
    <3>2. rd'.base + rd'.pos = rd.base + rd.pos
      BY <3>1, FedInv
    <3> QED
      BY <2>1, <3>1, <3>2 DEF ReaderSetInput
  <2>5. CASE VisitEnd
    BY <2>1, <2>5 DEF VisitEnd
  <2>6. CASE VisitPullFails
    BY <2>2, <2>6 DEF VisitPullFails
  <2>7. ASSUME NEW v \in Verdicts, VisitElement(v) PROVE DeliveredTile'
    BY <2>2, <2>7 DEF VisitElement
  <2>8. CASE UNCHANGED vars
    BY <2>1, <2>8 DEF vars
  <2> QED
    BY <2>3, <2>4, <2>5, <2>6, <2>7, <2>8 DEF Next, ReaderVisit
<1>3. Spec => []ReaderInv
  BY InitInv, StepInv, PTL DEF Spec
<1> QED
  BY <1>1, <1>2, <1>3, PTL DEF Spec

-----------------------------------------------------------------------------
\* One pull is a step of the reader without windows, or none.
LEMMA PullRefines ==
  ASSUME PrefixStable, ReaderInv, Pulled(NextResult(stream, rd)), stream' = stream
  PROVE  [Abstract!Next]_Abstract!vars
<1> DEFINE at == rd.base + rd.pos
<1>1. stream \in Streams /\ rd \in Readers /\ WindowOK(stream, rd)
  BY DEF ReaderInv, TypeOK, WindowInv
<1>2. CASE NextResult(stream, rd) = "NEED_MORE_DATA"
  BY <1>2 DEF Pulled, Abstract!vars
<1>3. CASE NextResult(stream, rd) = "OK"
  <2>1. at < Len(stream) /\ ReadImpl(stream, rd) = DecodeRest(stream, at)
        /\ ReadImpl(stream, rd).rc = "OK"
    BY <1>1, <1>3, PullIsRest
  <2>2. rd' = [rd EXCEPT !.pos = rd.pos + ReadImpl(stream, rd).size]
        /\ ReadImpl(stream, rd).size \in 1 .. rd.size - rd.pos
    BY <1>1, <1>3, PullSound DEF Pulled, WindowOK
  <2>3. rd'.base + rd'.pos = at + DecodeRest(stream, at).size
    BY <1>1, <2>1, <2>2 DEF Readers
  <2>4. ReaderOffset(rd) = at
    BY <1>1, ValidWindow DEF WindowOK
  <2>5. delivered' = Append(delivered, [offset |-> at, source |-> DecodeRest(stream, at)])
        /\ outcome' = outcome
    BY <1>3, <2>1, <2>4 DEF Pulled
  <2> QED
    BY <2>1, <2>3, <2>5 DEF Abstract!Next, Abstract!Deliver
<1>4. CASE NextResult(stream, rd) \notin {"OK", "NEED_MORE_DATA"}
  <2>1. rd' = rd /\ delivered' = delivered
        /\ outcome' = [rc |-> NextResult(stream, rd), loc |-> Location(stream, rd)]
    BY <1>4 DEF Pulled
  <2>2. CASE rd.pos = rd.size
    <3>1. at = Len(stream) /\ NextResult(stream, rd) = "END"
      BY <1>1, <1>4, <2>2, PullIsRest
    <3>2. Location(stream, rd) = {at}
      BY <1>1, <2>2, ValidWindow DEF Location, WindowOK
    <3> QED
      BY <2>1, <3>1, <3>2 DEF Abstract!Next, Abstract!End
  <2>3. CASE rd.pos # rd.size
    <3>1. at < Len(stream) /\ NextResult(stream, rd) = DecodeRest(stream, at).rc
      BY <1>1, <1>4, <2>3, PullIsRest
    <3>2. Location(stream, rd) = Abstract!ErrorAt(DecodeRest(stream, at))
      BY <1>1, <1>4, <2>3, LocationIsRest DEF Abstract!ErrorAt
    <3> QED
      BY <1>4, <2>1, <3>1, <3>2 DEF Abstract!Next, Abstract!Fail
  <2> QED
    BY <2>2, <2>3
<1> QED
  BY <1>2, <1>3, <1>4

\* Every step is a step of the reader without windows, or none.
LEMMA StepRefines ==
  ASSUME PrefixStable, ReaderInv, [Next]_vars
  PROVE  [Abstract!Next]_Abstract!vars
<1>1. CASE ReaderNext
  BY <1>1, PullRefines DEF ReaderNext
<1>2. CASE ReaderFeed
  <2>1. PICK discard \in 0 .. rd.size :
          \E size \in 0 .. Available(stream, rd.base + discard) :
            \E final \in BOOLEAN : ReaderSetInput(size, discard, final)
    BY <1>2 DEF ReaderFeed
  <2>2. rd'.base + rd'.pos = rd.base + rd.pos
    BY <2>1, FedInv
  <2> QED
    BY <2>1, <2>2 DEF ReaderSetInput, Abstract!vars
<1>3. CASE VisitEnd
  BY <1>3 DEF VisitEnd, Abstract!vars
<1>4. CASE VisitPullFails
  BY <1>4, PullRefines DEF VisitPullFails
<1>5. ASSUME NEW v \in Verdicts, VisitElement(v) PROVE [Abstract!Next]_Abstract!vars
  BY <1>5, PullRefines DEF VisitElement
<1>6. CASE UNCHANGED vars
  BY <1>6 DEF vars, Abstract!vars
<1> QED
  BY <1>1, <1>2, <1>3, <1>4, <1>5, <1>6 DEF Next, ReaderVisit

\* Chunk invariance, for every stream, every division into windows and every decode
\* callback whose verdicts are final: the incremental reader implements StreamReader.
THEOREM ChunkInvariance == PrefixStable => (Spec => ChunkInvariant)
<1> SUFFICES ASSUME PrefixStable PROVE Spec => ChunkInvariant
  OBVIOUS
<1>1. Init => Abstract!Init
  BY DEF Init, ReaderInit, Abstract!Init, Open, Abstract!Open
<1>2. ReaderInv /\ [Next]_vars => [Abstract!Next]_Abstract!vars
  BY StepRefines
<1>3. Spec => []ReaderInv
  BY InitInv, StepInv, PTL DEF Spec
<1> QED
  BY <1>1, <1>2, <1>3, PTL DEF Spec, ChunkInvariant, Abstract!Spec

-----------------------------------------------------------------------------
\* A verdict on record is what the rest of the stream decides where the cursor stands.
VerdictInv ==
  LET at == rd.base + rd.pos
  IN  outcome # Open =>
        \/ at = Len(stream) /\ outcome = [rc |-> "END", loc |-> {at}]
        \/ /\ at # Len(stream) /\ DecodeRest(stream, at).rc # "OK"
           /\ outcome = [rc  |-> DecodeRest(stream, at).rc,
                         loc |-> Abstract!ErrorAt(DecodeRest(stream, at))]

\* Once END or an error was reported, no pull, visit or new window delivers another
\* element or reports something else, whatever bytes arrive later, for every decode
\* callback whose verdicts are final (tlv_decode_fn's own promise).
THEOREM VerdictIsLast == PrefixStable => (Spec => VerdictSticks)
<1> SUFFICES ASSUME PrefixStable PROVE Spec => VerdictSticks
  OBVIOUS
<1>1. Init => VerdictInv
  BY DEF Init, VerdictInv
<1>2. ReaderInv /\ VerdictInv /\ [Next]_vars
        => VerdictInv' /\ (outcome # Open => outcome' = outcome /\ delivered' = delivered)
  <2> SUFFICES ASSUME ReaderInv, VerdictInv, [Next]_vars
               PROVE  VerdictInv' /\ (outcome # Open => outcome' = outcome /\ delivered' = delivered)
    OBVIOUS
  <2> DEFINE at == rd.base + rd.pos
  <2>1. [Abstract!Next]_Abstract!vars
    BY StepRefines
  <2>2. at \in Int /\ Len(stream) \in Nat
    BY StreamLength DEF ReaderInv, TypeOK, Readers
  <2>3. CASE UNCHANGED Abstract!vars
    BY <2>3 DEF Abstract!vars, VerdictInv, Abstract!ErrorAt
  <2>4. CASE Abstract!Deliver
    BY <2>2, <2>4 DEF Abstract!Deliver, VerdictInv
  <2>5. CASE Abstract!Fail
    <3> DEFINE d == DecodeRest(stream, at)
    <3>1. /\ at < Len(stream) /\ d.rc # "OK" /\ delivered' = delivered
          /\ outcome' = [rc |-> d.rc, loc |-> Abstract!ErrorAt(d)]
          /\ stream' = stream /\ rd'.base + rd'.pos = at
      BY <2>5 DEF Abstract!Fail
    <3>2. d' = d /\ Abstract!ErrorAt(d)' = Abstract!ErrorAt(d)
      BY <3>1 DEF Abstract!ErrorAt
    <3>3. at # Len(stream)
      BY <2>2, <3>1
    <3>4. VerdictInv'
      BY <3>1, <3>2, <3>3 DEF VerdictInv
    <3>5. outcome # Open => outcome' = outcome
      BY <3>1, <3>3 DEF VerdictInv
    <3> QED
      BY <3>1, <3>4, <3>5
  <2>6. CASE Abstract!End
    BY <2>2, <2>6 DEF Abstract!End, VerdictInv
  <2> QED
    BY <2>1, <2>3, <2>4, <2>5, <2>6 DEF Abstract!Next
<1>3. Spec => []ReaderInv
  BY InitInv, StepInv, PTL DEF Spec
<1>4. Spec => []VerdictInv
  BY <1>1, <1>2, <1>3, PTL DEF Spec
<1>5. ReaderInv /\ VerdictInv /\ [Next]_vars
        => [outcome # Open => outcome' = outcome /\ delivered' = delivered]_vars
  BY <1>2
<1> QED
  BY <1>3, <1>4, <1>5, PTL DEF Spec, VerdictSticks
=============================================================================
