------------------------------- MODULE MCTree -------------------------------
(***************************************************************************)
(* Tree readers over nested BER, with frame arrays and limits that the      *)
(* streams exhaust.                                                         *)
(***************************************************************************)
EXTENDS TreeReader, Compose

\* Two levels and a sibling; an empty container, bare and inside another; indefinite
\* containers, whose trailers separate `end' from `resume', nested, alone and empty; a
\* child that exceeds its complete parent; an error in a child with a sibling after the
\* parent; a truncated root after a container; several scopes closing at one offset.
TreeStreams == {<<>>, <<48, 2, 1, 0, 1, 0>>, <<48, 0, 48, 2, 48, 0>>,
                <<48, 128, 1, 0, 0, 0>>, <<48, 128, 0, 0, 1, 0>>,
                <<48, 2, 1, 1, 1, 0>>, <<48, 2, 0, 0, 1, 0>>, <<48, 2, 1, 0, 48, 1>>,
                <<48, 4, 48, 2, 1, 0>>}

TreeAnswers == AnswersOn(TreeStreams)
TreeCallback(w) == TreeAnswers[w]

TreeLimits == {[capacity |-> 2, depth |-> 2, elements |-> 9],
               [capacity |-> 0, depth |-> 2, elements |-> 9],
               [capacity |-> 2, depth |-> 1, elements |-> 9],
               [capacity |-> 2, depth |-> 2, elements |-> 1]}

\* BER meets what the theorem on FollowsWalk asks of a format.
ASSUME BerIsWalkable == PrefixStable /\ Headed
=============================================================================
