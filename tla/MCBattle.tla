------------------------------ MODULE MCBattle ------------------------------
(* Battle on a small instance. *)
EXTENDS Battle

CONSTANTS q1, q2, good, bad

TwoQuestions == <<q1, q2>>

\* Neither player knows the answer to q2.
Keys == [q \in {q1, q2} |-> IF q = q1 THEN {good} ELSE {}]

\* Player 1 may answer to the end of the stream and once more, player 2 one
\* answer, again and again.
LongAndShort == <<4, 1>>
=============================================================================
