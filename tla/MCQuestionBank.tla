-------------------------- MODULE MCQuestionBank --------------------------
(***************************************************************************)
(* Three questions, two versions of the first; seed files that add, change *)
(* and repeat questions, and one the seeder must refuse.                   *)
(***************************************************************************)
EXTENDS QuestionBank, TLC

CONSTANTS q1, q2, q3, v1, w1, v2, v3, bad

MCTitle == v1 :> 1 @@ w1 :> 1 @@ v2 :> 2 @@ v3 :> 3 @@ bad :> 4

Of(q, v) == [id |-> q, text |-> v]

MCFile == {<<Of(q1, v1), Of(q2, v2)>>, <<Of(q1, w1), Of(q3, v3)>>,
           <<Of(q2, v2), Of(q3, bad)>>, <<Of(q1, v1), Of(q2, w1)>>}

\* Any deterministic family of permutations: rotations by varying steps.
MCShuffle(s, c, n) == [i \in 1 .. n |-> ((i + s + c * c) % n) + 1]
=============================================================================
