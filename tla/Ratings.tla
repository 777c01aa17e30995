------------------------------ MODULE Ratings ------------------------------
(***************************************************************************)
(* The Elo engine and the ratings service (src/backend/internal/ratings).  *)
(* A result is applied inside the transaction of a caller: one row of      *)
(* rating_history per player, published by the caller's commit or lost by  *)
(* its rollback.  Nothing in the server calls the service yet; the caller  *)
(* is taken at the words of its interface: it hands over the ratings its   *)
(* players have and keeps the new ones.                                    *)
(***************************************************************************)
EXTENDS Integers, Sequences

CONSTANTS
    Player,     \* users with a rating
    Outcome,    \* values of MatchOutcome a caller may pass, valid or not
    KFactor,    \* the K-factor of the engine
    Half,       \* scores are counted in units of 1 / (2 * Half)
    Expect,     \* Expect[d]: the score expected against a rating d higher, for
                \* the differences at which it is neither nearly one nor zero
    Start,      \* users.rating at the beginning
    MaxMatches, \* bound: results applied
    Null

Unit == 2 * Half

\* 1 / (1 + 10^(d/400)) and its mirror image add up to one.  (The engine
\* evaluates both in floating point; it rounds K times the difference to the
\* score, which is never within an ulp of a half unless it is zero.)
ASSUME EngineAssumption ==
    /\ KFactor \in Nat
    /\ Half \in Nat \ {0}
    /\ 0 \in DOMAIN Expect
    /\ \A d \in DOMAIN Expect :
          /\ d \in Int /\ -d \in DOMAIN Expect
          /\ Expect[d] \in 0 .. Unit
          /\ Expect[d] + Expect[-d] = Unit

ASSUME PlayerAssumption == Start \in [Player -> Nat] /\ MaxMatches \in Nat

\* Rows of rating_history, and the transaction that writes them: the rows it has
\* inserted and the one that is next.
HistoryRow == [user : Player, before : Int, after : Int, delta : Int]

Call == [rows : Seq(HistoryRow), next : HistoryRow \cup {Null}]

ASSUME NullAssumption == Null \notin HistoryRow /\ Null \notin Call

VARIABLES
    rating,     \* users.rating
    history,    \* rows of rating_history, oldest first
    call        \* the transaction in which a result is being applied

vars == <<rating, history, call>>

-----------------------------------------------------------------------------
(* EloEngine.Calculate.                                                    *)

\* Mutant: floor(x + 1/2) rounds halves up, losses included.
RoundHalfUp(n) == (n + Half) \div Unit

\* math.Round(n / Unit): halves away from zero.
Round(n) == IF n < 0 THEN -((Half - n) \div Unit) ELSE (n + Half) \div Unit

\* The score of player A; the switch makes a draw of anything unknown.
ScoreA(o) == CASE o = "Player1Win" -> Unit [] o = "Player2Win" -> 0 [] OTHER -> Half

ScoreB(o) == Unit - ScoreA(o)

\* expA and expB.
Expected(d) == IF d \in DOMAIN Expect THEN Expect[d] ELSE IF d > 0 THEN 0 ELSE Unit

\* deltaA and deltaB before the floor.
Change(own, other, score) == Round(KFactor * (score - Expected(other - own)))

\* Mutant: no floor.
Unfloored(r) == r

Floor(r) == IF r < 0 THEN 0 ELSE r

\* RatingUpdate: Delta is computed after the floor.
Update(own, other, score) ==
    LET after == Floor(own + Change(own, other, score))
    IN  [before |-> own, after |-> after, delta |-> after - own]

-----------------------------------------------------------------------------
(* ApplyRatingUpdatesTx.                                                   *)

Row(p, u) == [user |-> p, before |-> u.before, after |-> u.after, delta |-> u.delta]

Valid(o) == o \in {"Player1Win", "Draw", "Player2Win"}

Init ==
    /\ rating = Start
    /\ history = <<>>
    /\ call = Null

\* The outcome is checked, both updates are computed and the row of player A is
\* inserted; the row of player B is next.
Apply(a, b, o) ==
    /\ call = Null
    /\ Len(history) < 2 * MaxMatches
    /\ a # b
    /\ Valid(o)
    /\ call' = [rows |-> <<Row(a, Update(rating[a], rating[b], ScoreA(o)))>>,
                next |-> Row(b, Update(rating[b], rating[a], ScoreB(o)))]
    /\ UNCHANGED <<rating, history>>

\* Mutant: the row of player A is published before that of player B.
PublishEarly ==
    /\ history' = history \o call.rows
    /\ call' = [rows |-> <<call.next>>, next |-> Null]
    /\ UNCHANGED rating

InsertSecond ==
    /\ call' = [rows |-> Append(call.rows, call.next), next |-> Null]
    /\ UNCHANGED <<rating, history>>

RecordB == call # Null /\ call.next # Null /\ InsertSecond

\* The caller commits and keeps the new ratings.
Commit ==
    /\ call # Null
    /\ call.next = Null
    /\ history' = history \o call.rows
    /\ rating' = [p \in Player |->
                     IF \E k \in DOMAIN call.rows : call.rows[k].user = p
                     THEN call.rows[CHOOSE k \in DOMAIN call.rows : call.rows[k].user = p].after
                     ELSE rating[p]]
    /\ call' = Null

\* An insert fails, or something else in the caller's transaction.
Rollback ==
    /\ call # Null
    /\ call' = Null
    /\ UNCHANGED <<rating, history>>

Next ==
    \/ \E a, b \in Player, o \in Outcome : Apply(a, b, o)
    \/ RecordB
    \/ Commit
    \/ Rollback

Spec == Init /\ [][Next]_vars

-----------------------------------------------------------------------------
(* Properties.                                                             *)

\* Ratings never fall below zero, and the rows are well formed.
TypeOK ==
    /\ rating \in [Player -> Nat]
    /\ history \in Seq(HistoryRow)
    /\ call \in Call \cup {Null}

\* The CHECK constraints of rating_history.
Accepted(row) == row.before >= 0 /\ row.after >= 0 /\ row.delta = row.after - row.before

\* Every row the service writes passes the CHECK constraints of its table, so
\* that no insert is refused for the floor or the stored delta.
RowsAccepted ==
    /\ \A k \in DOMAIN history : Accepted(history[k])
    /\ call # Null => \A k \in DOMAIN call.rows : Accepted(call.rows[k])

\* Of two players of a match, both do not gain and both do not lose.
Opposed(x, y) ==
    /\ x.user # y.user
    /\ ~(x.delta > 0 /\ y.delta > 0)
    /\ ~(x.delta < 0 /\ y.delta < 0)

Matches == 1 .. Len(history) \div 2

\* The log is made of whole matches: rows come in pairs, one for each of two
\* players, and neither of the two gains while the other does.
PairedRows ==
    /\ Len(history) % 2 = 0
    /\ \A k \in Matches : Opposed(history[2 * k - 1], history[2 * k])

\* No points are lost, and points appear only at the floor.
Balanced(x, y) ==
    /\ x.delta + y.delta >= 0
    /\ x.delta + y.delta > 0 => x.after = 0 \/ y.after = 0

\* What one player gains the other loses, except that a loser who reaches zero
\* loses no more than he has: points are never destroyed.
ZeroSum == \A k \in Matches : Balanced(history[2 * k - 1], history[2 * k])
=============================================================================
