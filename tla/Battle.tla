------------------------------- MODULE Battle -------------------------------
(***************************************************************************)
(* A battle (src/backend/internal/battle): requests of its two players and *)
(* the cleanup worker run transactions against PostgreSQL at READ          *)
(* COMMITTED, one statement per action.  SELECT ... FOR UPDATE and UPDATE  *)
(* wait for the lock of the row; what a transaction writes is published by *)
(* its last action, the commit, which also releases its locks; an error, a *)
(* cancelled request or a crash of the server rolls it back.               *)
(* Players are numbered in the order of their user ids.                    *)
(***************************************************************************)
EXTENDS Naturals, Sequences, FiniteSets

CONSTANTS
    Request,    \* handler goroutines that serve players
    Worker,     \* the cleanup worker
    LobbyTx,    \* a transaction of the rooms service on the battle's room
    Stream,     \* battle_question_sequence: the questions in order
    Answer,     \* well-formed answers
    Key,        \* Key[q]: the answers ValidateAnswer finds right for q
    MaxIndex,   \* bound: the greatest index that player p sends is MaxIndex[p]
    Null

Player == {1, 2}
Process == Request \cup {Worker}

ASSUME ProcessAssumption ==
    /\ Null \notin Process \cup Player
    /\ Worker \notin Request
    /\ LobbyTx \notin Process

ASSUME StreamAssumption == Stream \in Seq(DOMAIN Key)

ASSUME BoundAssumption == MaxIndex \in [Player -> Nat]

VARIABLES
    bstatus,    \* battles.status: "active" or "finished"
    winner,     \* battles.winner_user_id
    late,       \* whether battles.ended_at has passed
    card,       \* card[p]: the row of battle_players of player p
    subs,       \* subs[p]: the rows of submissions of p, oldest first
    room,       \* rooms.status: "in_battle", "ready", or "other"
    rowLock,    \* rowLock[p]: the process whose transaction locks card[p]
    roomLock,   \* the process whose transaction locks the room
    pc,         \* pc[t]: the next statement of process t
    req,        \* req[t]: the submission t serves
    seen        \* seen[t][p]: the row of p as the transaction of t read it

data == <<bstatus, winner, late, card, subs, room>>
locks == <<rowLock, roomLock>>
vars == <<data, locks, pc, req, seen>>

\* at, the place in the stream, and index, the submission_index of the request,
\* are not columns of submissions: they are recorded for the properties.
Submission == [at : Nat, index : Nat, answer : Answer, right : BOOLEAN]

Card == [score : Nat, correct : Nat, incorrect : Nat, index : Nat,
         attempts : Nat, result : {Null, "win", "loss", "draw"}]

ASSUME CardAssumption == Null \notin Card

NewCard == [score |-> 0, correct |-> 0, incorrect |-> 0, index |-> 0,
            attempts |-> 0, result |-> Null]

NoRequest == [player |-> Null, index |-> 0, answer |-> Null]
NothingSeen == [p \in Player |-> Null]

\* StartBattleTx: the battle is active and its players have played nothing.
Init ==
    /\ bstatus = "active"
    /\ winner = Null
    /\ late = FALSE
    /\ card = [p \in Player |-> NewCard]
    /\ subs = [p \in Player |-> <<>>]
    /\ room = "in_battle"
    /\ rowLock = [p \in Player |-> Null]
    /\ roomLock = Null
    /\ pc = [t \in Process |-> "idle"]
    /\ req = [t \in Process |-> NoRequest]
    /\ seen = [t \in Process |-> NothingSeen]

-----------------------------------------------------------------------------
(* Transactions.                                                           *)

Goto(t, l) == pc' = [pc EXCEPT ![t] = l]

\* Commit or roll back: the locks of t are released and what it read is
\* forgotten; t continues at l.
EndTx(t, l) ==
    /\ Goto(t, l)
    /\ rowLock' = [p \in Player |-> IF rowLock[p] = t THEN Null ELSE rowLock[p]]
    /\ roomLock' = IF roomLock = t THEN Null ELSE roomLock
    /\ req' = [req EXCEPT ![t] = NoRequest]
    /\ seen' = [seen EXCEPT ![t] = NothingSeen]

\* Mutant: SELECT without FOR UPDATE.
ReadUnlocked(t, p) ==
    /\ UNCHANGED locks
    /\ seen' = [seen EXCEPT ![t][p] = card[p]]

\* SELECT ... FOR UPDATE of one row of battle_players: waits for the lock, then
\* reads the committed row.
LockRow(t, p) ==
    /\ rowLock[p] = Null
    /\ rowLock' = [rowLock EXCEPT ![p] = t]
    /\ seen' = [seen EXCEPT ![t][p] = card[p]]
    /\ UNCHANGED roomLock

InTx(t) == pc[t] # "idle"

\* The transaction of t fails.
Abort(t) ==
    /\ InTx(t)
    /\ EndTx(t, "idle")
    /\ UNCHANGED data

-----------------------------------------------------------------------------
(* SubmitAnswer.                                                           *)

(***************************************************************************)
(* The unlocked check that the battle is active is not repeated under the  *)
(* lock by this read: it may be stale by then, and an error of its query   *)
(* is ignored.  Hence no condition on the battle here.                     *)
(***************************************************************************)
Submit(t, p, n, a) ==
    /\ pc[t] = "idle"
    /\ Goto(t, "lock")
    /\ req' = [req EXCEPT ![t] = [player |-> p, index |-> n, answer |-> a]]
    /\ UNCHANGED <<data, locks, seen>>

\* Mutant: the query has the wrong status.
OverdueFinished == bstatus = "finished" /\ late

\* An active battle whose time is up.
Overdue == bstatus = "active" /\ late

\* checkBattleActive.
BattleCheck ==
    IF bstatus = "finished" THEN "finished" ELSE IF Overdue THEN "expired" ELSE "goes on"

\* The unlocked check of SubmitAnswer, or the check of GetNextQuestion, finds
\* the time of an active battle up.
FindExpired(t) ==
    /\ pc[t] = "idle"
    /\ Overdue
    /\ Goto(t, "begin")
    /\ UNCHANGED <<data, locks, req, seen>>

LockPlayer(t) ==
    /\ pc[t] = "lock"
    /\ LockRow(t, req[t].player)
    /\ Goto(t, "check")
    /\ UNCHANGED <<data, req>>

Expected(c) == c.correct + c.incorrect + 1

IndexExpected(n, c) == n = Expected(c)

CurrentQuestion(c) == Stream[c.index + 1]

QuestionLeft(c) == c.index < Len(Stream)

\* Duplicates are looked up by question, not by place in the stream.
AnsweredBefore(p, q, a) ==
    \E k \in DOMAIN subs[p] : Stream[subs[p][k].at] = q /\ subs[p][k].answer = a

Accepted(t) ==
    LET p == req[t].player
        c == seen[t][p]
    IN  /\ QuestionLeft(c)
        /\ IndexExpected(req[t].index, c)
        /\ ~AnsweredBefore(p, CurrentQuestion(c), req[t].answer)

\* Finished, exhausted, duplicate or out of order: roll back.
Refuse(t) ==
    /\ pc[t] = "check"
    /\ BattleCheck # "expired"
    /\ BattleCheck = "goes on" => ~Accepted(t)
    /\ EndTx(t, "idle")
    /\ UNCHANGED data

\* Too late: roll back, then complete the battle.
RefuseExpired(t) ==
    /\ pc[t] = "check"
    /\ BattleCheck = "expired"
    /\ EndTx(t, "begin")
    /\ UNCHANGED data

Accept(t) ==
    /\ pc[t] = "check"
    /\ BattleCheck = "goes on"
    /\ Accepted(t)
    /\ Goto(t, "write")
    /\ UNCHANGED <<data, locks, req, seen>>

\* Mutant: the attempts are not reset when a question is skipped.
AfterWrongNoReset(c) ==
    LET skip == c.attempts + 1 >= 2 IN
    [c EXCEPT !.incorrect = @ + 1,
              !.attempts = @ + 1,
              !.index = IF skip THEN @ + 1 ELSE @]

AfterRight(c) ==
    [c EXCEPT !.score = @ + 1, !.correct = @ + 1, !.index = @ + 1, !.attempts = 0]

\* The second wrong attempt skips the question.
AfterWrong(c) ==
    LET skip == c.attempts + 1 >= 2 IN
    [c EXCEPT !.incorrect = @ + 1,
              !.attempts = IF skip THEN 0 ELSE @ + 1,
              !.index = IF skip THEN @ + 1 ELSE @]

\* INSERT INTO submissions, UPDATE battle_players, COMMIT.  The time may have
\* run out since the check.
Write(t) ==
    LET p == req[t].player
        c == seen[t][p]
        right == req[t].answer \in Key[CurrentQuestion(c)]
    IN  /\ pc[t] = "write"
        /\ subs' = [subs EXCEPT ![p] =
                       Append(@, [at |-> c.index + 1, index |-> req[t].index,
                                  answer |-> req[t].answer, right |-> right])]
        /\ card' = [card EXCEPT ![p] = [(IF right THEN AfterRight(c) ELSE AfterWrong(c))
                                           EXCEPT !.result = card[p].result]]
        /\ EndTx(t, "idle")
        /\ UNCHANGED <<bstatus, winner, late, room>>

-----------------------------------------------------------------------------
(* CompleteBattle.                                                         *)

\* First look at the battle: a finished one needs nothing.
BeginCompletion(t) ==
    /\ pc[t] = "begin"
    /\ Goto(t, IF bstatus = "finished" THEN "idle" ELSE "lockAll")
    /\ UNCHANGED <<data, locks, req, seen>>

\* Mutant: no ORDER BY, the rows are locked in any order.
AnyRow(t) == {p \in Player : seen[t][p] = Null}

\* ORDER BY user_id: the rows are locked from the smallest id on.
NextRow(t) == {p \in Player : seen[t][p] = Null /\ \A q \in Player : q < p => seen[t][q] # Null}

LockNextRow(t) ==
    /\ pc[t] = "lockAll"
    /\ \E p \in NextRow(t) : LockRow(t, p)
    /\ Goto(t, IF \A p \in Player : seen'[t][p] # Null THEN "recheck" ELSE "lockAll")
    /\ UNCHANGED <<data, req>>

\* Mutant: the second look at the battle is missing.
AfterSecondLookBlind == "lockRoom"

\* Second look, under the locks: somebody else may have completed the battle
\* while this transaction waited.
AfterSecondLook == IF bstatus = "finished" THEN "idle" ELSE "lockRoom"

Recheck(t) ==
    /\ pc[t] = "recheck"
    /\ IF AfterSecondLook = "idle"
       THEN EndTx(t, "idle")
       ELSE /\ Goto(t, AfterSecondLook)
            /\ UNCHANGED <<locks, req, seen>>
    /\ UNCHANGED data

\* UPDATE rooms waits for the lobby's transaction on the same row.
LockRoom(t) ==
    /\ pc[t] = "lockRoom"
    /\ roomLock = Null
    /\ roomLock' = t
    /\ Goto(t, "finish")
    /\ UNCHANGED <<data, rowLock, req, seen>>

\* Mutant: a draw is given to the first player.
WinnerNoDraw(c) == IF c[2].score > c[1].score THEN 2 ELSE 1

WinnerOf(c) ==
    IF c[1].score > c[2].score THEN 1
    ELSE IF c[2].score > c[1].score THEN 2 ELSE Null

ResultOf(p, w) == IF w = Null THEN "draw" ELSE IF w = p THEN "win" ELSE "loss"

\* The UPDATEs of battle_players, rooms and battles, and COMMIT.
Finish(t) ==
    LET w == WinnerOf(seen[t]) IN
    /\ pc[t] = "finish"
    /\ card' = [p \in Player |-> [card[p] EXCEPT !.result = ResultOf(p, w)]]
    /\ room' = "ready"
    /\ bstatus' = "finished"
    /\ winner' = w
    /\ EndTx(t, "idle")
    /\ UNCHANGED <<late, subs>>

-----------------------------------------------------------------------------
\* One tick of the worker: ExpireActiveBattles finds the battle.
Sweep == FindExpired(Worker)

\* The lobby: any handler locks the room and, when it is not in battle, may
\* change its status (a rematch is a new battle).
LobbyLocks ==
    /\ roomLock = Null
    /\ roomLock' = LobbyTx
    /\ UNCHANGED <<data, rowLock, pc, req, seen>>

LobbyCommits ==
    /\ roomLock = LobbyTx
    /\ roomLock' = Null
    /\ room' \in {room} \cup IF room = "in_battle" THEN {} ELSE {"ready", "other"}
    /\ UNCHANGED <<bstatus, winner, late, card, subs, rowLock, pc, req, seen>>

TimeUp ==
    /\ ~late
    /\ late' = TRUE
    /\ UNCHANGED <<bstatus, winner, card, subs, room, locks, pc, req, seen>>

SubmitStep(t) == LockPlayer(t) \/ Refuse(t) \/ RefuseExpired(t) \/ Accept(t) \/ Write(t)

CompleteStep(t) ==
    BeginCompletion(t) \/ LockNextRow(t) \/ Recheck(t) \/ LockRoom(t) \/ Finish(t)

Next ==
    \/ \E t \in Request, p \in Player, a \in Answer :
           \E n \in 1 .. MaxIndex[p] : Submit(t, p, n, a)
    \/ \E t \in Request : FindExpired(t)
    \/ \E t \in Request : SubmitStep(t)
    \/ \E t \in Process : CompleteStep(t)
    \/ \E t \in Process : Abort(t)
    \/ Sweep
    \/ LobbyLocks
    \/ LobbyCommits
    \/ TimeUp

Spec == Init /\ [][Next]_vars

(***************************************************************************)
(* Handlers and lobby transactions run to their end, the clock runs, and   *)
(* the worker ticks; its transactions fail finitely often.  PostgreSQL     *)
(* serves the waiters of a row in the order of their arrival, so a process *)
(* does not wait for ever for a lock that is free again and again: the     *)
(* lock requests of the worker are strongly fair.                          *)
(***************************************************************************)
FairSpec ==
    /\ Spec
    /\ WF_vars(TimeUp) /\ WF_vars(LobbyCommits) /\ WF_vars(Sweep)
    /\ \A t \in Request : WF_vars(SubmitStep(t) \/ CompleteStep(t) \/ Abort(t))
    /\ WF_vars(BeginCompletion(Worker) \/ Recheck(Worker) \/ Finish(Worker))
    /\ SF_vars(LockNextRow(Worker)) /\ SF_vars(LockRoom(Worker))
    /\ <>[][~Abort(Worker)]_vars

-----------------------------------------------------------------------------
(* Properties.                                                             *)

Label == {"idle", "lock", "check", "write", "begin", "lockAll", "recheck",
          "lockRoom", "finish"}

\* Every row and every process variable has the shape the code gives it.
TypeOK ==
    /\ bstatus \in {"active", "finished"}
    /\ winner \in Player \cup {Null}
    /\ late \in BOOLEAN
    /\ card \in [Player -> Card]
    /\ subs \in [Player -> Seq(Submission)]
    /\ room \in {"in_battle", "ready", "other"}
    /\ rowLock \in [Player -> Process \cup {Null}]
    /\ roomLock \in Process \cup {LobbyTx, Null}
    /\ pc \in [Process -> Label]
    /\ req \in [Process -> [player : Player \cup {Null}, index : Nat,
                            answer : Answer \cup {Null}]]
    /\ seen \in [Process -> [Player -> Card \cup {Null}]]

\* However the requests of a player interleave and are retried, his card counts
\* each of his logged answers once: nothing is lost and nothing counted twice,
\* and the k-th answer is the one the client sent as number k.
CardMatchesLog ==
    \A p \in Player :
        /\ card[p].correct + card[p].incorrect = Len(subs[p])
        /\ card[p].correct = Cardinality({k \in DOMAIN subs[p] : subs[p][k].right})
        /\ card[p].score = card[p].correct
        /\ \A k \in DOMAIN subs[p] : subs[p][k].index = k

\* The answers p gave at place i of the stream.
Tries(p, i) == {k \in DOMAIN subs[p] : subs[p][k].at = i}

\* The question pointer is where the logged answers put it: past exactly the
\* questions with a right or with two wrong answers, and the attempts counted
\* are those at the current question.
PointerMatchesLog ==
    \A p \in Player :
        /\ \A i \in DOMAIN Stream :
              i <= card[p].index <=>
                 Cardinality(Tries(p, i)) = 2 \/ \E k \in Tries(p, i) : subs[p][k].right
        /\ card[p].attempts = Cardinality(Tries(p, card[p].index + 1))
        /\ card[p].index <= Len(Stream)

\* The stored winner and results are those of the final scores: no answer that
\* was being written while the battle closed is left out of the comparison.
ResultsMatchScores ==
    IF bstatus = "active"
    THEN winner = Null /\ \A p \in Player : card[p].result = Null
    ELSE /\ winner = WinnerOf(card)
         /\ \A p \in Player : card[p].result = ResultOf(p, winner)

\* Only an expired battle is closed, and closing it releases its room in the
\* same step; a late second completion never touches the room again, whatever
\* the lobby has made of it since.
RoomReleasedOnce ==
    [][LET closing == bstatus = "active" /\ bstatus' = "finished"
       IN  /\ closing => late /\ room' = "ready"
           /\ room' # room => closing \/ roomLock = LobbyTx
           /\ bstatus' = "active" => room' = "in_battle"]_vars

\* The process t waits for, if any.
Waits(t, u) ==
    \/ pc[t] = "lock" /\ rowLock[req[t].player] = u
    \/ pc[t] = "lockAll" /\ \E p \in NextRow(t) : rowLock[p] = u
    \/ pc[t] = "lockRoom" /\ roomLock = u

\* No group of transactions waits for each other's row locks.
NoLockDeadlock ==
    \A S \in (SUBSET Process) \ {{}} : \E t \in S : \A u \in S : ~Waits(t, u)

\* To its players the battle is a Match, and every commit one of its steps.
TheMatch == INSTANCE Match WITH
    open <- bstatus = "active",
    log <- [p \in Player |->
              [k \in DOMAIN subs[p] |->
                 [at |-> subs[p][k].at, answer |-> subs[p][k].answer,
                  right |-> subs[p][k].right]]],
    outcome <- winner

ImplementsMatch == TheMatch!Spec

\* The battle is over, in the end, whatever its players do.
BattleEnds == <>(bstatus = "finished")
=============================================================================
