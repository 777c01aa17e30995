------------------------------- MODULE Match -------------------------------
(***************************************************************************)
(* What a battle promises its two players, without tables, locks or        *)
(* processes.  Each player answers one shared stream of questions in       *)
(* order: a right answer, or a second wrong one, moves on to the next      *)
(* question.  At some moment the match closes, once, and from then on      *)
(* neither the answers nor the outcome change.  Battle implements this     *)
(* module.                                                                 *)
(***************************************************************************)
EXTENDS Naturals, Sequences, FiniteSets

CONSTANTS
    Stream,     \* the questions, in the order they are asked
    Answer,     \* what a player may answer
    Key,        \* Key[q]: the answers that are right for question q
    Null

Player == {1, 2}

VARIABLES
    open,       \* whether the match still runs
    log,        \* log[p]: the answers of p, oldest first
    outcome     \* Null, then what CloseWith says

vars == <<open, log, outcome>>

\* Where a player stands after the answers l: index of the question to answer.
Position(l) ==
    IF l = <<>> THEN 1
    ELSE LET last == l[Len(l)]
             tries == {k \in DOMAIN l : l[k].at = last.at}
         IN  IF last.right \/ Cardinality(tries) = 2 THEN last.at + 1 ELSE last.at

Score(l) == Cardinality({k \in DOMAIN l : l[k].right})

Outcome(l1, l2) ==
    IF Score(l1) > Score(l2) THEN 1 ELSE IF Score(l2) > Score(l1) THEN 2 ELSE Null

Init ==
    /\ open = TRUE
    /\ log = [p \in Player |-> <<>>]
    /\ outcome = Null

Give(p, a) ==
    LET at == Position(log[p]) IN
    /\ open
    /\ at <= Len(Stream)
    /\ log' = [log EXCEPT ![p] =
                  Append(@, [at |-> at, answer |-> a, right |-> a \in Key[Stream[at]]])]
    /\ UNCHANGED <<open, outcome>>

Close ==
    /\ open
    /\ open' = FALSE
    /\ outcome' = Outcome(log[1], log[2])
    /\ UNCHANGED log

Next == Close \/ \E p \in Player, a \in Answer : Give(p, a)

Spec == Init /\ [][Next]_vars
=============================================================================
