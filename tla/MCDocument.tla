----------------------------- MODULE MCDocument -----------------------------
(* Small documents for TLC. *)
EXTENDS Document, DocumentBuilder

Wire(events, rc, size) == [events |-> events, rc |-> rc, size |-> size]
Nothing  == Wire(<<>>, "OK", 0)
Leaf     == Wire(<<"BYTES">>, "OK", 3)
Pair     == Wire(<<"ELEMENT", "BYTES">>, "OK", 5)
Nest     == Wire(<<"BEGIN", "ELEMENT", "END">>, "OK", 4)
Deep     == Wire(<<"BEGIN", "BEGIN", "BYTES", "END", "END">>, "OK", 7)
Mixed    == Wire(<<"BEGIN", "ELEMENT", "END", "BYTES">>, "OK", 7)
Fork     == Wire(<<"BEGIN", "END", "BEGIN", "BEGIN", "END", "END">>, "OK", 6)
Broken   == Wire(<<"BYTES">>, "TRUNCATED", 4)

Entry(kind, content) == [kind |-> kind, content |-> content]


Caller(contents, inserts, values, fuels, nested, edits) ==
  [contents |-> contents, inserts |-> inserts, values |-> values, fuels |-> fuels,
   nested |-> nested, edits |-> edits]

\* Every edit, with memory running out anywhere.
Editors == {Caller({Deep, Mixed, Broken},
                   {Entry("PRIMITIVE", Leaf), Entry("PARENT", Nothing), Entry("PARENT", Nest),
                    Entry("PARENT", Broken), Entry("UNWRITABLE", Nothing)},
                   {Nothing, Pair, Nest, Broken}, {0, 1, 2, 3, 9}, 0, 2)}

\* Selections and what is done with them; and callbacks inside callbacks, in which one makes
\* any call, or up to two that edit what is there.
Selecting == Caller({Fork, Nest}, {Entry("PARENT", Leaf), Entry("UNWRITABLE", Nothing)},
                    {Leaf, Broken}, {5, 9}, 1, 1)
Adding    == Caller({Mixed}, {Entry("PRIMITIVE", Nothing)}, {Nothing}, {9}, 2, 1)
Erasing   == Caller({Mixed}, {}, {}, {9}, 2, 2)
Changing  == Caller({Nest}, {}, {Nothing}, {9}, 2, 2)
Queriers  == {Selecting, Adding, Erasing, Changing}

-----------------------------------------------------------------------------
\* Streams for builders, cut between roots anywhere, and memory that may end anywhere.
NoStreams == {}
BuildStreams == {Deep, Mixed, Fork, Broken, Pair, Leaf,
                 Wire(<<"BYTES", "BEGIN", "BEGIN", "ELEMENT", "END", "BYTES", "END", "ELEMENT">>, "OK", 12),
                 Wire(<<"BEGIN", "BEGIN", "BEGIN", "BEGIN", "END", "END", "END", "END">>, "OK", 8)}

\* One at a time: an existing document with its caller, or a builder.
BuilderIdle == /\ builder = NoBuilder /\ built = NoDocument /\ answer = "IDLE" /\ goal = NoGoal
               /\ reader = [content |-> Nothing, at |-> 0, level |-> 0, fed |-> 0, final |-> TRUE,
                            last |-> 0]
MCInit == Init /\ (BuilderIdle \/ BuilderInit)
Solo == answer = "IDLE" /\ UNCHANGED <<caller, builderVars>>

MCNext == \/ DoParse /\ Solo
          \/ DoInsert /\ Solo
          \/ DoSetValue /\ Solo
          \/ DoErase /\ Solo
          \/ DoFree /\ Solo
          \/ DoVisit /\ Solo
          \/ VisitContinue /\ Solo
          \/ VisitEnd /\ Solo
          \/ CommitStep /\ Solo
          \/ DoReset /\ Solo
          \/ DoEvaluate /\ Solo
          \/ EvalFeed /\ Solo
          \/ EvalEnd /\ Solo
          \/ DoNext /\ Solo
          \/ DoProgramVisit /\ Solo
          \/ ProgramContinue /\ Solo
          \/ ProgramEnd /\ Solo
          \/ DoEdit /\ Solo
          \/ EditStep /\ Solo
          \/ answer # "IDLE" /\ BuilderNext /\ UNCHANGED vars
MCSpec == MCInit /\ [][MCNext]_<<vars, builderVars>>
=============================================================================
