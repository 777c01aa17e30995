----------------------------- MODULE MCRatings -----------------------------
(***************************************************************************)
(* The engine with K = 32 and expected scores in sixty-fourths, so that    *)
(* the changes to be rounded fall on halves every other time.  The curve   *)
(* is that of Elo at differences 0, 400 and 800 and linear in between.     *)
(***************************************************************************)
EXTENDS Ratings, TLC

CONSTANTS p1, p2, p3

Grid == <<32, 6, 1, 0>>

Above(d) ==
    LET i == d \div 400 + 1 IN Grid[i] - ((Grid[i] - Grid[i + 1]) * (d % 400)) \div 400

MCExpect == [d \in -800 .. 800 |-> IF d >= 0 THEN Above(d) ELSE 64 - Above(-d)]

\* One player who reaches the floor with his first defeat, and two others.
MCStart == p1 :> 5 @@ p2 :> 60 @@ p3 :> 400
=============================================================================
