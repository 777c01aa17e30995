------------------------------- MODULE Pool -------------------------------
(***************************************************************************)
(* The connection pool (src/backend/internal/platform/database) under the  *)
(* handlers of auth, rooms and battle and the cleanup worker.  A call is   *)
(* the list of the statements it still has to run, reduced to those that   *)
(* may wait: for a connection of the pool, or for a row another            *)
(* transaction has locked.  What the statements compute is in              *)
(* AuthSessions, Rooms and Battle.                                         *)
(***************************************************************************)
EXTENDS Integers, FiniteSets, SequencesExt

CONSTANTS
    Handler,    \* requests the HTTP server runs at a time
    Worker,     \* startCleanupWorkers
    MaxConns,   \* connections of the pool
    Room,       \* rooms, by number, each with its battle of two players
    Key,        \* by number: a free room code, an email, a handle, a user, a session
    Null

Proc == Handler \cup {Worker}

ASSUME PoolAssumption ==
    /\ IsFiniteSet(Proc) /\ MaxConns \in Nat \ {0}
    /\ IsFiniteSet(Room) /\ Room \subseteq Nat \ {0}
    /\ Key \subseteq Nat \ {0}
    /\ Worker \notin Handler /\ Null \notin Proc

\* Rows that are locked: the row of a room and those of its two players.
RoomRow(r) == <<r, 0>>

Card(r, k) == <<r, k>>

\* What one transaction has to itself: a row of users or auth_sessions it
\* updates, or a value it inserts into a unique column.
Alone(k) == <<0, k>>

Row == (Room \X (0 .. 2)) \cup ({0} \X Key)

VARIABLES
    todo,       \* statements each process still has to run
    inTx,       \* processes that hold the connection of a transaction
    reading,    \* processes that hold the connection of a single query
    free,       \* how many connections are in the pool
    queue,      \* processes waiting for one, served in order
    lockedBy    \* the process whose transaction has locked a row

pool == <<free, queue>>
vars == <<todo, inTx, reading, free, queue, lockedBy>>

-----------------------------------------------------------------------------
(* The statements of the calls.                                            *)

\* (db.QueryRow and db.Query; db.Begin; SELECT ... FOR UPDATE and UPDATE.)
Query == <<"query", 0>>
Begin == <<"begin">>
Lock(row) == <<"lock", row>>
Commit == <<"commit">>

\* The query after which the battle of a room is checked for its time.
BattleQuery(r) == <<"query", r>>

\* GetQuestionByID takes a connection only when the cache misses.
LookUp == {<<>>, <<Query>>}

\* A transaction, or a single UPDATE, that locks one row.
Transaction(row) == <<Begin, Lock(row), Commit>>

\* An attempt of CreateRoom locks the room that has the code it drew, or inserts
\* its own; after the former it draws again, three times in all.
Inserts == {Transaction(Alone(k)) : k \in Key}

Collisions == {Transaction(RoomRow(r)) : r \in Room}

OrAgain(attempts) == Inserts \cup {first \o next : first \in Collisions, next \in attempts}

Creates == OrAgain(OrAgain(Inserts \cup Collisions))

\* LeaveRoom, and StartBattle when the room is in battle.
Leave(r) == Transaction(RoomRow(r))

\* JoinRoom and ToggleReady, which then read the room through the pool.
Lobby(r) == Transaction(RoomRow(r)) \o <<Query>>

\* Signup inserts an email and a handle, then a session.
Signup(email, handle) == <<Begin, Lock(Alone(email)), Lock(Alone(handle)), Commit, Query>>

\* Login reads the user, updates its last_login_at and inserts a session.
Login(user) == <<Query>> \o (Transaction(Alone(user)) \o <<Query>>)

\* Refresh reads session and user, and revokes the session.
Refresh(session) == <<Query, Query>> \o Transaction(Alone(session))

Logout(session) == Transaction(Alone(session))

Me == <<Query>>

\* StartBattle, which reads the questions through the pool.
StartBattle(r) == <<Begin, Lock(RoomRow(r)), Query, Commit>>

\* Mutant: a completion locks the player who asked for it first.
CompleteOwnFirst(r, k) ==
    <<Begin, Lock(Card(r, k)), Lock(Card(r, 3 - k)), Lock(RoomRow(r)), Commit>>

\* CompleteBattle, whoever asks for it; k is the player.
CompleteBattle(r, k) ==
    <<Begin, Lock(Card(r, 1)), Lock(Card(r, 2)), Lock(RoomRow(r)), Commit>>

\* GetNextQuestion.
NextQuestion(r, look) == <<BattleQuery(r)>> \o look

\* SubmitAnswer of player k: the battle; in the transaction the sequence and
\* twice the question, through the pool.
SubmitAnswer(r, k, look1, look2) ==
    <<BattleQuery(r), Begin, Lock(Card(r, k)), Query>> \o look1 \o look2 \o <<Commit>>

\* ORDER BY id ASC.
Ordered(rs) ==
    {list \in SetToSeqs(rs) : \A i, j \in DOMAIN list : i < j => list[i] < list[j]}

\* ExpireRooms over a list of rooms, then the query of ExpireActiveBattles.
Cleanup(list) ==
    <<Begin>> \o [i \in DOMAIN list |-> Lock(RoomRow(list[i]))] \o <<Commit, Query>>

\* ExpireActiveBattles completes the battles it found, one after the other, with
\* the five statements of each.
Completions(list) ==
    [i \in 1 .. 5 * Len(list) |->
        CompleteBattle(list[((i - 1) \div 5) + 1], 1)[((i - 1) % 5) + 1]]

-----------------------------------------------------------------------------
(* The pool and the locks.                                                 *)

Busy(p) == todo[p] # <<>>

Waiting(p) == \E i \in DOMAIN queue : queue[i] = p

At(p, what) == Busy(p) /\ Head(todo[p])[1] = what

Init ==
    /\ todo = [p \in Proc |-> <<>>]
    /\ inTx = {}
    /\ reading = {}
    /\ free = MaxConns
    /\ queue = <<>>
    /\ lockedBy = [row \in Row |-> Null]

\* A request arrives, or the ticker of the worker fires.
Call(p, script) ==
    /\ ~Busy(p)
    /\ todo' = [todo EXCEPT ![p] = script]
    /\ UNCHANGED <<inTx, reading, pool, lockedBy>>

Arrive(h) ==
    \E r \in Room, k \in 1 .. 2 :
        \/ \E script \in Creates : Call(h, script)
        \/ Call(h, Leave(r))
        \/ Call(h, Lobby(r))
        \/ Call(h, StartBattle(r))
        \/ \E look1, look2 \in LookUp : Call(h, SubmitAnswer(r, k, look1, look2))
        \/ \E look \in LookUp : Call(h, NextQuestion(r, look))

\* The routes of auth; the index of emails is checked before that of handles.
ArriveAuth(h) ==
    \E k \in Key :
        \/ \E handle \in Key : k < handle /\ Call(h, Signup(k, handle))
        \/ Call(h, Login(k))
        \/ Call(h, Refresh(k))
        \/ Call(h, Logout(k))
        \/ Call(h, Me)

Tick == \E rs \in SUBSET Room : \E list \in Ordered(rs) : Call(Worker, Cleanup(list))

\* The pool hands p a connection.
Connect(p) ==
    /\ free > 0
    /\ free' = free - 1
    /\ \/ /\ At(p, "begin")
          /\ inTx' = inTx \cup {p}
          /\ todo' = [todo EXCEPT ![p] = Tail(@)]
          /\ UNCHANGED reading
       \/ /\ At(p, "query")
          /\ reading' = reading \cup {p}
          /\ UNCHANGED <<inTx, todo>>
    /\ UNCHANGED lockedBy

\* The pool is asked for a connection; p waits when none is free.
Ask(p) ==
    /\ At(p, "begin") \/ At(p, "query")
    /\ ~Waiting(p) /\ p \notin reading
    /\ \/ /\ Connect(p)
          /\ UNCHANGED queue
       \/ /\ free = 0
          /\ queue' = Append(queue, p)
          /\ UNCHANGED <<todo, inTx, reading, free, lockedBy>>

\* The oldest request gets a connection that came back.
Grant ==
    /\ queue # <<>>
    /\ Connect(Head(queue))
    /\ queue' = Tail(queue)

\* The result of a query is read and its connection goes back.  A battle that
\* turns out to be over its time is completed; the worker completes all such.
QueryDone(p) ==
    /\ p \in reading
    /\ reading' = reading \ {p}
    /\ free' = free + 1
    /\ \/ todo' = [todo EXCEPT ![p] = Tail(@)]
       \/ \E r \in Room, k \in 1 .. 2 :
             /\ Head(todo[p]) = BattleQuery(r)
             /\ todo' = [todo EXCEPT ![p] = CompleteBattle(r, k)]
       \/ /\ p = Worker
          /\ \E rs \in SUBSET Room : \E list \in Ordered(rs) :
                todo' = [todo EXCEPT ![p] = Completions(list)]
    /\ UNCHANGED <<inTx, queue, lockedBy>>

\* The transaction of p locks a row, or has it already.
LockRow(p) ==
    /\ At(p, "lock")
    /\ LET row == Head(todo[p])[2]
       IN  /\ lockedBy[row] \in {Null, p}
           /\ lockedBy' = [lockedBy EXCEPT ![row] = p]
    /\ todo' = [todo EXCEPT ![p] = Tail(@)]
    /\ UNCHANGED <<inTx, reading, pool>>

\* Mutant: no deferred Rollback.
ReturnedByQuery(p) == Cardinality({p} \cap reading)

\* What goes back to the pool when p stops: db.QueryRow releases its connection,
\* and the deferred tx.Rollback that of the transaction.
Returned(p) == Cardinality({p} \cap inTx) + Cardinality({p} \cap reading)

\* The transaction ends, its connection and its locks are free.
End(p, next) ==
    /\ inTx' = inTx \ {p}
    /\ reading' = reading \ {p}
    /\ free' = free + Returned(p)
    /\ lockedBy' = [row \in Row |-> IF lockedBy[row] = p THEN Null ELSE lockedBy[row]]
    /\ todo' = [todo EXCEPT ![p] = next]

CommitTx(p) ==
    /\ At(p, "commit")
    /\ End(p, Tail(todo[p]))
    /\ UNCHANGED queue

\* SubmitAnswer finds the battle over its time once the player is locked; it
\* rolls back and completes the battle.
FindExpired(p, r, k) ==
    /\ p \in Handler
    /\ p \in inTx /\ At(p, "query")
    /\ p \notin reading /\ ~Waiting(p)
    /\ lockedBy[Card(r, k)] = p
    /\ End(p, CompleteBattle(r, k))
    /\ UNCHANGED queue

\* What a process does after an error: the worker goes on with its next
\* transaction, a handler answers.
AfterError(p) ==
    IF p = Worker /\ \E i \in DOMAIN todo[p] : todo[p][i] = Commit
    THEN LET i == CHOOSE i \in DOMAIN todo[p] :
                     todo[p][i] = Commit /\ \A j \in 1 .. i - 1 : todo[p][j] # Commit
         IN  SubSeq(todo[p], i + 1, Len(todo[p]))
    ELSE <<>>

\* The queue when p has left it.
LeftBy(p) ==
    IF Waiting(p) THEN RemoveAt(queue, CHOOSE i \in DOMAIN queue : queue[i] = p) ELSE queue

\* A statement fails, a check of the handler refuses, the client goes away.
Fail(p) ==
    /\ Busy(p)
    /\ End(p, AfterError(p))
    /\ queue' = LeftBy(p)

Step(p) ==
    \/ Ask(p)
    \/ QueryDone(p)
    \/ LockRow(p)
    \/ CommitTx(p)
    \/ \E r \in Room, k \in 1 .. 2 : FindExpired(p, r, k)

\* A connection that comes back is given to the oldest request before anything else.
Settled == free = 0 \/ queue = <<>>

Next ==
    \/ Grant
    \/ /\ Settled
       /\ \/ \E h \in Handler : Arrive(h) \/ ArriveAuth(h)
          \/ Tick
          \/ \E p \in Proc : Step(p) \/ Fail(p)

Spec == Init /\ [][Next]_vars

\* The pool serves its queue, statements return, and a row that is free again
\* and again is one day granted: PostgreSQL queues those who wait for it.
Fairness ==
    /\ WF_vars(Grant)
    /\ \A p \in Proc :
          /\ WF_vars(Ask(p) \/ QueryDone(p) \/ CommitTx(p))
          /\ SF_vars(LockRow(p))

FairSpec == Spec /\ Fairness

-----------------------------------------------------------------------------
(* Properties.                                                             *)

Statement == {Query, Begin, Commit} \cup {BattleQuery(r) : r \in Room} \cup {Lock(row) : row \in Row}

TypeOK ==
    /\ todo \in [Proc -> Seq(Statement)]
    /\ inTx \subseteq Proc
    /\ reading \subseteq Proc
    /\ free \in 0 .. MaxConns
    /\ queue \in Seq(Proc)
    /\ lockedBy \in [Row -> Proc \cup {Null}]

\* Every connection is in the pool or with one process, whatever fails where,
\* and a call that is over holds neither a connection nor a row.
NothingLeaks ==
    /\ free = MaxConns - Cardinality(inTx) - Cardinality(reading)
    /\ \A p \in inTx \cup reading : Busy(p)
    /\ \A row \in Row : lockedBy[row] # Null => lockedBy[row] \in inTx

\* p waits, and only for processes of S.
WaitsWithin(p, S) ==
    \/ Waiting(p) /\ free = 0 /\ inTx \cup reading \subseteq S
    \/ At(p, "lock") /\ lockedBy[Head(todo[p])[2]] \in S \ {p}

\* No set of calls waits for one another, for connections and rows together.
NoDeadlock ==
    \A S \in SUBSET Proc : S # {} => \E p \in S : ~WaitsWithin(p, S)

\* When calls do wait for one another, transactions hold every connection, all
\* of them are among those calls, and one waits for a connection more.
OnlyStarvation ==
    \A S \in SUBSET Proc :
        S # {} /\ (\A p \in S : WaitsWithin(p, S)) =>
            /\ Cardinality(inTx) = MaxConns /\ inTx \subseteq S
            /\ \E p \in inTx : Waiting(p)

\* Every call returns.
CallsReturn == \A p \in Proc : Busy(p) ~> ~Busy(p)

\* docs/database/transactions.md on connection pool starvation: "We resolved
\* this by propagating the transaction handle".
StarvationResolved == NoDeadlock
=============================================================================
