----------------------------- MODULE MCGameplay -----------------------------
(* Gameplay on small instances. *)
EXTENDS Gameplay

CONSTANTS q1, q2, a1, a2, a3

\* Without a repetition, with one at once, and with one after another question.
ShortStreams == {<<q1, q2>>, <<q1, q1>>, <<q1, q2, q1>>}

\* A pool of two questions, gone through twice.
RepeatingStream == {<<q1, q2, q1, q2>>}

\* The player does not know the answer to the second question.
Keys == [q \in {q1, q2} |-> IF q = q1 THEN {a1} ELSE {}]
=============================================================================
