------------------------------ MODULE MCReader ------------------------------
(***************************************************************************)
(* Readers over BER, and over a callback that breaks the rules which the    *)
(* guard enforces.                                                          *)
(***************************************************************************)
EXTENDS Reader, Compose

\* Every stream of up to three bytes out of a tag, an empty length (or EOC), a
\* constructed tag and the indefinite length; and longer ones: two primitives; an
\* indefinite value with a trailer, then a primitive; a reserved tag and a reserved
\* length after an element; a value cut off by the end; an open scope that the end cuts
\* off; a malformed definite scope inside an indefinite one; one byte more than SizeMax.
BerStreams == UNION {[1 .. n -> {0, 1, 48, 128}] : n \in 0 .. 3} \cup
              {<<1, 0, 1, 1, 0>>, <<48, 128, 1, 0, 0, 0, 1, 0>>, <<1, 0, 0, 0>>,
               <<1, 0, 1, 255, 1>>, <<1, 1, 0, 1, 3, 0>>, <<1, 0, 48, 128, 1, 0>>,
               <<48, 128, 48, 1, 1, 0, 0>>, <<1, 0, 1, 0, 1, 0, 1, 0, 0>>}

-----------------------------------------------------------------------------
\* One well-formed single-byte element, and the ways to lie about it: past the window, no
\* progress, control codes, an encoder's code, an offset out of range, views of other bytes.
Honest == [rc |-> "OK", where |-> 0, size |-> 1, header |-> Range1(0, 1),
           value |-> Range1(1, 0), trailer |-> Range1(1, 0), tag |-> Range1(0, 1),
           bound |-> TRUE, constructed |-> FALSE]

RogueCallback(w) ==
  CASE w[1] = 200 -> Honest
    [] w[1] = 201 -> [Honest EXCEPT !.size = Len(w) + 1, !.value.size = Len(w),
                                    !.trailer.offset = Len(w) + 1]
    [] w[1] = 202 -> [Honest EXCEPT !.size = 0, !.header.size = 0, !.value.offset = 0,
                                    !.trailer.offset = 0, !.tag.size = 0]
    [] w[1] = 203 -> [Honest EXCEPT !.rc = IF Len(w) = 1 THEN "END" ELSE "NEED_MORE_DATA"]
    [] w[1] = 204 -> [Honest EXCEPT !.rc = "BUFFER_TOO_SHORT"]
    [] w[1] = 205 -> [Honest EXCEPT !.rc = "INVALID_TAG", !.where = 9]
    [] w[1] = 206 -> [Honest EXCEPT !.bound = FALSE]

RogueStreams == {<<200, a, b>> : a \in 200 .. 206, b \in {200, 201}}

AllStreams == BerStreams \cup RogueStreams
BerAnswers == AnswersOn(BerStreams)
EitherCallback(w) == IF w[1] >= 200 /\ w[1] < 255 THEN RogueCallback(w) ELSE BerAnswers[w]
=============================================================================
