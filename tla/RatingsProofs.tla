--------------------------- MODULE RatingsProofs ---------------------------
(***************************************************************************)
(* Theorems about Ratings, for any players, K-factor, scale and curve of   *)
(* expected scores that is symmetric.                                      *)
(***************************************************************************)
EXTENDS Ratings, SequenceTheorems, TLAPS

-----------------------------------------------------------------------------
(* The arithmetic of the engine.                                           *)

\* Rounding is symmetric: this is what makes the game zero-sum.
LEMMA RoundSymmetric ==
    ASSUME NEW n \in Int
    PROVE  Round(n) \in Int /\ Round(-n) = -Round(n)
<1>1. Half \in Nat /\ Half > 0 /\ Unit \in Nat /\ Unit > 0 /\ Half < Unit
  BY EngineAssumption DEF Unit
<1>2. CASE n = 0
  <2>1. Half \div Unit = 0
    BY <1>1
  <2>2. QED
    BY <1>2, <2>1, <1>1 DEF Round
<1>3. CASE n > 0
  BY <1>1, <1>3 DEF Round
<1>4. CASE n < 0
  BY <1>1, <1>4 DEF Round
<1>5. QED
  BY <1>2, <1>3, <1>4

\* The scores of the two players add up to one.
LEMMA Scores ==
    ASSUME NEW o
    PROVE  ScoreA(o) \in Int /\ ScoreB(o) = Unit - ScoreA(o)
<1>1. Unit \in Int /\ Half \in Int
  BY EngineAssumption DEF Unit
<1>2. ScoreA(o) \in {Unit, 0, Half}
  BY SMT DEF ScoreA
<1>3. QED
  BY <1>1, <1>2 DEF ScoreB

\* So do the expected scores.
LEMMA ExpectedScores ==
    ASSUME NEW d \in Int
    PROVE  Expected(d) \in Int /\ Expected(-d) = Unit - Expected(d)
<1>1. Unit \in Int
  BY EngineAssumption DEF Unit
<1>2. CASE d \in DOMAIN Expect
  BY <1>1, <1>2, EngineAssumption DEF Expected
<1>3. CASE d \notin DOMAIN Expect
  <2>1. -d \notin DOMAIN Expect
    <3>1. -(-d) = d
      OBVIOUS
    <3>2. QED
      BY <1>3, <3>1, EngineAssumption
  <2>2. d # 0
    BY <1>3, EngineAssumption
  <2>3. CASE d > 0
    BY <1>1, <1>3, <2>1, <2>3 DEF Expected
  <2>4. CASE d < 0
    BY <1>1, <1>3, <2>1, <2>4 DEF Expected
  <2>5. QED
    BY <2>2, <2>3, <2>4
<1>4. QED
  BY <1>2, <1>3

\* Before the floor one player gains what the other loses.
LEMMA Opposite ==
    ASSUME NEW x \in Int, NEW y \in Int, NEW o
    PROVE  /\ Change(x, y, ScoreA(o)) \in Int
           /\ Change(y, x, ScoreB(o)) = -Change(x, y, ScoreA(o))
<1> DEFINE e == Expected(y - x)
           v == ScoreA(o) - e
<1>1. e \in Int /\ Expected(x - y) = Unit - e /\ Unit \in Int /\ KFactor \in Int
  <2>1. y - x \in Int /\ -(y - x) = x - y
    OBVIOUS
  <2>2. e \in Int /\ Expected(-(y - x)) = Unit - e
    BY <2>1, ExpectedScores
  <2>3. QED
    BY <2>1, <2>2, EngineAssumption DEF Unit
<1>2. v \in Int /\ ScoreB(o) - Expected(x - y) = -v
  BY <1>1, Scores
<1> HIDE DEF v, e
<1>3. KFactor * v \in Int /\ KFactor * (-v) = -(KFactor * v)
  BY <1>1, <1>2
<1>4. Round(KFactor * v) \in Int /\ Round(-(KFactor * v)) = -Round(KFactor * v)
  BY <1>3, RoundSymmetric
<1>5. Change(x, y, ScoreA(o)) = Round(KFactor * v)
  BY DEF Change, v, e
<1>6. Change(y, x, ScoreB(o)) = Round(KFactor * (-v))
  BY <1>2 DEF Change
<1>7. QED
  BY <1>3, <1>4, <1>5, <1>6

\* What one match writes.
Match(x, y) ==
    /\ x \in HistoryRow /\ y \in HistoryRow
    /\ Accepted(x) /\ Accepted(y)
    /\ Opposed(x, y)
    /\ Balanced(x, y)

\* The rows of one result are accepted, opposed and balanced.
LEMMA OneMatch ==
    ASSUME NEW a \in Player, NEW b \in Player, a # b, NEW o,
           NEW x \in Nat, NEW y \in Nat
    PROVE  Match(Row(a, Update(x, y, ScoreA(o))), Row(b, Update(y, x, ScoreB(o))))
<1> DEFINE c == Change(x, y, ScoreA(o))
           p == Row(a, Update(x, y, ScoreA(o)))
           q == Row(b, Update(y, x, ScoreB(o)))
<1>1. c \in Int /\ Change(y, x, ScoreB(o)) = -c
  BY Opposite
<1>2. p = [user |-> a, before |-> x, after |-> Floor(x + c), delta |-> Floor(x + c) - x]
  BY DEF Row, Update
<1>3. q = [user |-> b, before |-> y, after |-> Floor(y + (-c)), delta |-> Floor(y + (-c)) - y]
  BY <1>1 DEF Row, Update
<1> HIDE DEF c, p, q
<1>4. /\ Floor(x + c) \in Nat /\ Floor(y + (-c)) \in Nat
      /\ Floor(x + c) = IF x + c < 0 THEN 0 ELSE x + c
      /\ Floor(y + (-c)) = IF y + (-c) < 0 THEN 0 ELSE y + (-c)
  BY <1>1 DEF Floor
<1>5. p \in HistoryRow /\ q \in HistoryRow
  BY <1>2, <1>3, <1>4 DEF HistoryRow
<1>6. Accepted(p) /\ Accepted(q)
  BY <1>2, <1>3, <1>4 DEF Accepted
<1>7. Opposed(p, q)
  BY <1>1, <1>2, <1>3, <1>4 DEF Opposed
<1>8. Balanced(p, q)
  BY <1>1, <1>2, <1>3, <1>4 DEF Balanced
<1>9. QED
  BY <1>5, <1>6, <1>7, <1>8 DEF Match, p, q

-----------------------------------------------------------------------------
(* The inductive invariant.                                                *)

\* A transaction in progress holds one row of a match with the other to come,
\* or both rows.
CallOK ==
    call # Null =>
        \/ call.next # Null /\ Len(call.rows) = 1 /\ Match(call.rows[1], call.next)
        \/ call.next = Null /\ Len(call.rows) = 2 /\ Match(call.rows[1], call.rows[2])

HistoryOK ==
    /\ Len(history) % 2 = 0
    /\ \A k \in Matches : Match(history[2 * k - 1], history[2 * k])

IInv == TypeOK /\ CallOK /\ HistoryOK

\* Appending a match to whole matches leaves whole matches.
LEMMA WholeMatches ==
    ASSUME NEW h \in Seq(HistoryRow), NEW t \in Seq(HistoryRow), Len(t) = 2,
           Len(h) % 2 = 0, Match(t[1], t[2]),
           \A k \in 1 .. Len(h) \div 2 : Match(h[2 * k - 1], h[2 * k])
    PROVE  /\ Len(h \o t) % 2 = 0
           /\ \A k \in 1 .. Len(h \o t) \div 2 : Match((h \o t)[2 * k - 1], (h \o t)[2 * k])
<1> DEFINE g == h \o t
<1>0. /\ Len(h \o t) = Len(h) + Len(t)
      /\ \A i \in 1 .. Len(h) + Len(t) :
            (h \o t)[i] = IF i <= Len(h) THEN h[i] ELSE t[i - Len(h)]
  BY ConcatProperties, Zenon
<1>1. /\ Len(g) = Len(h) + 2
      /\ \A i \in 1 .. Len(h) + 2 : g[i] = IF i <= Len(h) THEN h[i] ELSE t[i - Len(h)]
  BY <1>0
<1>2. \A i \in 1 .. Len(h) : g[i] = h[i]
  BY <1>1
<1>3. g[Len(h) + 1] = t[1] /\ g[Len(h) + 2] = t[2]
  BY <1>1
<1> HIDE DEF g
<1>4. ASSUME NEW k \in 1 .. Len(g) \div 2 PROVE Match(g[2 * k - 1], g[2 * k])
  <2>1. Len(h) \in Nat /\ k \in Nat /\ k >= 1 /\ k <= (Len(h) + 2) \div 2
    BY <1>1, <1>4
  <2>2. CASE 2 * k <= Len(h)
    <3>1. k \in 1 .. Len(h) \div 2 /\ 2 * k - 1 \in 1 .. Len(h) /\ 2 * k \in 1 .. Len(h)
      BY <2>1, <2>2
    <3>2. Match(h[2 * k - 1], h[2 * k])
      BY <3>1
    <3>3. QED
      BY <3>1, <3>2, <1>2
  <2>3. CASE 2 * k > Len(h)
    <3>1. PICK m \in Nat : Len(h) = 2 * m
      <4>1. Len(h) = 2 * (Len(h) \div 2) /\ Len(h) \div 2 \in Nat
        BY <2>1
      <4>2. QED
        BY <4>1
    <3>2. (Len(h) + 2) \div 2 = m + 1
      BY <3>1
    <3>3. 2 * k - 1 = Len(h) + 1 /\ 2 * k = Len(h) + 2
      BY <2>1, <2>3, <3>1, <3>2
    <3>4. QED
      BY <3>3, <1>3
  <2>4. QED
    BY <2>1, <2>2, <2>3
<1>5. Len(g) % 2 = 0
  BY <1>1
<1>6. QED
  BY <1>4, <1>5 DEF g

\* The invariant holds in every reachable state.
THEOREM Invariance == Spec => []IInv
<1>1. Init => IInv
  <2> SUFFICES ASSUME Init PROVE IInv
    OBVIOUS
  <2>1. Len(history) = 0 /\ history \in Seq(HistoryRow) /\ Len(history) \div 2 = 0
    BY DEF Init
  <2>2. QED
    BY <2>1, PlayerAssumption DEF Init, IInv, TypeOK, CallOK, HistoryOK, Matches
<1>2. IInv /\ [Next]_vars => IInv'
  <2> SUFFICES ASSUME IInv, [Next]_vars PROVE IInv'
    OBVIOUS
  <2>1. ASSUME NEW a \in Player, NEW b \in Player, NEW o \in Outcome, Apply(a, b, o)
        PROVE  IInv'
    <3>1. PICK p, q : /\ call' = [rows |-> <<p>>, next |-> q]
                      /\ Match(p, q)
      <4>1. Match(Row(a, Update(rating[a], rating[b], ScoreA(o))),
                  Row(b, Update(rating[b], rating[a], ScoreB(o))))
        BY <2>1, OneMatch DEF Apply, IInv, TypeOK
      <4>2. QED
        BY <2>1, <4>1 DEF Apply
    <3>2. p \in HistoryRow /\ q \in HistoryRow /\ q # Null
      BY <3>1, NullAssumption DEF Match
    <3>3. call' \in Call
      BY <3>1, <3>2 DEF Call
    <3>4. call'.next # Null /\ Len(call'.rows) = 1 /\ Match(call'.rows[1], call'.next)
      BY <3>1, <3>2
    <3>5. QED
      BY <2>1, <3>3, <3>4 DEF Apply, IInv, TypeOK, CallOK, HistoryOK, Matches
  <2>2. ASSUME RecordB PROVE IInv'
    <3>1. call \in Call /\ Len(call.rows) = 1 /\ Match(call.rows[1], call.next)
      BY <2>2 DEF RecordB, IInv, TypeOK, CallOK
    <3>2. call.rows \in Seq(HistoryRow) /\ call.next \in HistoryRow
      BY <3>1 DEF Call, Match
    <3>3. call' = [rows |-> Append(call.rows, call.next), next |-> Null]
      BY <2>2 DEF RecordB, InsertSecond
    <3>4. /\ call'.next = Null
          /\ call'.rows \in Seq(HistoryRow)
          /\ Len(call'.rows) = 2
          /\ call'.rows[1] = call.rows[1] /\ call'.rows[2] = call.next
      BY <3>1, <3>2, <3>3, AppendProperties
    <3>5. call' \in Call
      BY <3>3, <3>4 DEF Call
    <3>6. QED
      BY <2>2, <3>1, <3>4, <3>5 DEF RecordB, InsertSecond, IInv, TypeOK, CallOK, HistoryOK, Matches
  <2>3. ASSUME Commit PROVE IInv'
    <3>1. /\ call.rows \in Seq(HistoryRow) /\ Len(call.rows) = 2
          /\ Match(call.rows[1], call.rows[2])
      BY <2>3 DEF Commit, IInv, TypeOK, CallOK, Call
    <3>2. \A k \in DOMAIN call.rows : call.rows[k].after \in Nat
      <4>1. DOMAIN call.rows = {1, 2}
        BY <3>1
      <4>2. call.rows[1].after \in Nat /\ call.rows[2].after \in Nat
        BY <3>1 DEF Match, HistoryRow, Accepted
      <4>3. QED
        BY <4>1, <4>2
    <3>3. rating' \in [Player -> Nat]
      BY <2>3, <3>2 DEF Commit, IInv, TypeOK
    <3>4. history' = history \o call.rows /\ history \in Seq(HistoryRow)
      BY <2>3 DEF Commit, IInv, TypeOK
    <3>5. HistoryOK'
      <4>1. /\ Len(history \o call.rows) % 2 = 0
            /\ \A k \in 1 .. Len(history \o call.rows) \div 2 :
                  Match((history \o call.rows)[2 * k - 1], (history \o call.rows)[2 * k])
        BY <3>1, <3>4, WholeMatches DEF IInv, HistoryOK, Matches
      <4>2. QED
        BY <3>4, <4>1 DEF HistoryOK, Matches
    <3>6. history' \in Seq(HistoryRow)
      BY <3>1, <3>4
    <3>7. QED
      BY <2>3, <3>3, <3>5, <3>6 DEF Commit, IInv, TypeOK, CallOK
  <2>4. CASE Rollback
    BY <2>4 DEF Rollback, IInv, TypeOK, CallOK, HistoryOK, Matches
  <2>5. CASE UNCHANGED vars
    BY <2>5 DEF vars, IInv, TypeOK, CallOK, HistoryOK, Matches
  <2>6. QED
    BY <2>1, <2>2, <2>3, <2>4, <2>5 DEF Next
<1>3. QED
  BY <1>1, <1>2, PTL DEF Spec

-----------------------------------------------------------------------------
(* The properties of the runs.                                             *)

\* Ratings never fall below zero.
THEOREM TypeCorrect == Spec => []TypeOK
<1>1. IInv => TypeOK
  BY DEF IInv
<1>2. QED
  BY <1>1, Invariance, PTL

\* Every row passes the CHECK constraints of rating_history.
THEOREM AllRowsAccepted == Spec => []RowsAccepted
<1>1. IInv => RowsAccepted
  <2> SUFFICES ASSUME IInv PROVE RowsAccepted
    OBVIOUS
  <2>1. ASSUME NEW i \in DOMAIN history PROVE Accepted(history[i])
    <3>1. history \in Seq(HistoryRow) /\ Len(history) % 2 = 0 /\ Len(history) \in Nat
      BY DEF IInv, TypeOK, HistoryOK
    <3>2. i \in Nat /\ i >= 1 /\ i <= Len(history)
      BY <2>1, <3>1
    <3>3. PICK k \in Matches : i = 2 * k - 1 \/ i = 2 * k
      <4>1. (i + 1) \div 2 \in 1 .. Len(history) \div 2
        BY <3>1, <3>2
      <4>2. i = 2 * ((i + 1) \div 2) - 1 \/ i = 2 * ((i + 1) \div 2)
        BY <3>2
      <4>3. QED
        BY <4>1, <4>2 DEF Matches
    <3>4. QED
      BY <3>3 DEF IInv, HistoryOK, Match
  <2>2. ASSUME call # Null PROVE \A k \in DOMAIN call.rows : Accepted(call.rows[k])
    <3>1. call.rows \in Seq(HistoryRow) /\ Len(call.rows) \in {1, 2}
      BY <2>2 DEF IInv, TypeOK, CallOK, Call
    <3>2. Accepted(call.rows[1]) /\ (Len(call.rows) = 2 => Accepted(call.rows[2]))
      BY <2>2 DEF IInv, CallOK, Match
    <3>3. QED
      BY <3>1, <3>2
  <2>3. QED
    BY <2>1, <2>2 DEF RowsAccepted
<1>2. QED
  BY <1>1, Invariance, PTL

\* The history is made of whole matches between two players.
THEOREM AlwaysPaired == Spec => []PairedRows
<1>1. IInv => PairedRows
  BY DEF IInv, HistoryOK, PairedRows, Match
<1>2. QED
  BY <1>1, Invariance, PTL

\* No match destroys points, and points appear only at the floor.
THEOREM AlwaysZeroSum == Spec => []ZeroSum
<1>1. IInv => ZeroSum
  BY DEF IInv, HistoryOK, ZeroSum, Match
<1>2. QED
  BY <1>1, Invariance, PTL
=============================================================================
