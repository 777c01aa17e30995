------------------------------ MODULE RoomsTx ------------------------------
(***************************************************************************)
(* The handlers of the lobby (src/backend/internal/rooms/service.go)       *)
(* statement by statement: many requests run at once, each waits for the   *)
(* lock on the row of its room, reads, decides from what it has read, and  *)
(* writes; the cleanup worker collects the locks of several rooms.  The    *)
(* tables are those of Rooms, whose actions are whole transactions:        *)
(* ImplementsRooms says that nothing is lost by looking at them that way.  *)
(* Writes become visible at the commit, so the last statement of a         *)
(* transaction and its commit are one step.                                *)
(***************************************************************************)
EXTENDS Rooms

CONSTANTS
    Call,           \* requests being served at the same time
    MaxAttempts,    \* draws of a code in CreateRoom
    Sweeper         \* the cleanup worker

VARIABLES
    lock,       \* lock[r]: who holds the lock on the row of room r, or Null
    calls,      \* calls[p]: the request, or Null
    pass        \* the transaction of ExpireRooms, or Null

tables == vars
txVars == <<vars, lock, calls, pass>>

Kind == {"create", "join", "ready", "joined", "leave", "start"}

Request ==
    [kind : Kind,
     user : User,
     code : Code \cup {Null},
     at : {"draw", "find", "read", "write", "insert", "inserted", "duplicate"},
     tries : 0 .. MaxAttempts,
     room : Room \cup {Null},
     seen : RoomStatus \cup {Null},     \* the status read with the lock
     rows : SUBSET PlayerRow]           \* the active players read

\* The rooms a pass still has to lock, and those it has locked.
Pass == [todo : SUBSET Room, got : SUBSET Room]

ASSUME TxAssumption ==
    /\ MaxAttempts \in Nat \ {0}
    /\ Sweeper \notin Call
    /\ Null \notin Call \cup Room \cup Request \cup RoomStatus \cup Pass \cup {Sweeper}

TxInit ==
    /\ Init
    /\ lock = [r \in Room |-> Null]
    /\ calls = [p \in Call |-> Null]
    /\ pass = Null

At(p, place) == calls[p] # Null /\ calls[p].at = place

ReleasedBy(p) == [r \in Room |-> IF lock[r] = p THEN Null ELSE lock[r]]

\* The request is answered; its transaction, if it has one, is over.
Ends(p) ==
    /\ calls' = [calls EXCEPT ![p] = Null]
    /\ lock' = ReleasedBy(p)
    /\ UNCHANGED pass

-----------------------------------------------------------------------------
(* From the request to its decision.                                       *)

Arrive(p, k, u, c) ==
    /\ calls[p] = Null
    /\ calls' = [calls EXCEPT ![p] =
          [kind |-> k, user |-> u, tries |-> 0, room |-> Null, seen |-> Null, rows |-> {},
           code |-> IF k = "create" THEN Null ELSE c,
           at |-> IF k = "create" THEN "draw" ELSE "find"]]
    /\ UNCHANGED <<tables, lock, pass>>

\* Mutant: the attempts are not counted.
Uncounted(n) == n

Counted(n) == n + 1

\* generateCode, and a transaction of its own for every attempt.
Draw(p, c) ==
    /\ At(p, "draw")
    /\ calls' = [calls EXCEPT ![p].at = "find", ![p].code = c, ![p].tries = Counted(@)]
    /\ UNCHANGED <<tables, lock, pass>>

\* Mutant: GetRoomByCode, without FOR UPDATE.
Unlocked(r) == TRUE

Free(r) == lock[r] = Null

\* GetRoomByCodeForUpdate waits for the row and then sees its latest version.
Find(p, r) ==
    /\ At(p, "find")
    /\ Exists(r) /\ code[r] = calls[p].code
    /\ Free(r)
    /\ lock' = [lock EXCEPT ![r] = p]
    /\ calls' = [calls EXCEPT ![p].at = "read", ![p].room = r, ![p].seen = status[r]]
    /\ UNCHANGED <<tables, pass>>

\* No row: an error for the players, what CreateRoom hopes for.
FindNothing(p) ==
    /\ At(p, "find")
    /\ ~CodeTaken(calls[p].code)
    /\ IF calls[p].kind = "create"
       THEN calls' = [calls EXCEPT ![p].at = "insert"] /\ UNCHANGED <<lock, pass>>
       ELSE Ends(p)
    /\ UNCHANGED tables

HasTriesLeft(c) == c.tries < MaxAttempts

\* "room code collision": the transaction rolls back and another code is drawn.
Collide(p) ==
    /\ At(p, "read")
    /\ calls[p].kind = "create"
    /\ IF HasTriesLeft(calls[p])
       THEN /\ calls' = [calls EXCEPT ![p].at = "draw", ![p].room = Null, ![p].seen = Null]
            /\ lock' = ReleasedBy(p)
            /\ UNCHANGED pass
       ELSE Ends(p)
    /\ UNCHANGED tables

\* GetActivePlayersForUpdate.
Read(p) ==
    /\ At(p, "read")
    /\ calls[p].kind # "create"
    /\ calls' = [calls EXCEPT ![p].at = "write", ![p].rows = Active(calls[p].room)]
    /\ UNCHANGED <<tables, lock, pass>>

-----------------------------------------------------------------------------
(* CreateRoom inserts.                                                     *)

\* The unique index on rooms.code makes an insert wait for another transaction
\* that has inserted the code and not committed.
InsertRoom(p) ==
    /\ At(p, "insert")
    /\ ~\E q \in Call : At(q, "inserted") /\ calls[q].code = calls[p].code
    /\ calls' = [calls EXCEPT ![p].at =
                    IF CodeTaken(calls[p].code) THEN "duplicate" ELSE "inserted"]
    /\ UNCHANGED <<tables, lock, pass>>

\* The host's seat, and the commit.
CommitCreate(p, r, d) ==
    /\ At(p, "inserted")
    /\ ~Exists(r)
    /\ status' = [status EXCEPT ![r] = "waiting"]
    /\ code' = [code EXCEPT ![r] = calls[p].code]
    /\ host' = [host EXCEPT ![r] = calls[p].user]
    /\ duration' = [duration EXCEPT ![r] = d]
    /\ players' = [players EXCEPT ![r] =
                      {[user |-> calls[p].user, seat |-> 1, status |-> "joined"]}]
    /\ UNCHANGED <<overdue, battles>>
    /\ Ends(p)

\* The unique violation is not a "room code collision" and ends the request.
ReportDuplicate(p) ==
    /\ At(p, "duplicate")
    /\ Ends(p)
    /\ UNCHANGED tables

-----------------------------------------------------------------------------
(* The decisions, from what the request c has read.                        *)

HasSeat(c) == \E x \in c.rows : x.user = c.user

\* Mutant: the seat after the last one ever taken, by whoever has left since.
SeatNeverReused(c) == [user |-> c.user, status |-> "joined",
                       seat |-> IF \E x \in players[c.room] : x.seat = 2 THEN 3 ELSE 2]

Seat(c) == [user |-> c.user, status |-> "joined",
            seat |-> IF \A x \in c.rows : x.seat = 2 THEN 1 ELSE 2]

MayJoin(c) ==
    /\ c.kind = "join"
    /\ ~HasSeat(c)
    /\ c.seen = "waiting"
    /\ \A x, y \in c.rows : x = y
    /\ UniqueActive(players[c.room] \cup {Seat(c)})

MayToggle(c) ==
    /\ c.kind \in {"ready", "joined"}
    /\ c.seen \in Open
    /\ \E x \in c.rows : x.user = c.user /\ x.status # c.kind
    /\ UpdateAccepted(c.room, c.user)

\* Mutant: the early return for a room in battle is missing.
MayLeaveBattle(c) == c.kind = "leave" /\ HasSeat(c)

MayLeave(c) == c.kind = "leave" /\ c.seen # "in_battle" /\ HasSeat(c)

MayStart(c) ==
    /\ c.kind = "start"
    /\ host[c.room] = c.user
    /\ c.seen = "ready"
    /\ IsPair(c.rows)
    /\ ~\E a \in Battle : ActiveBattle(c.room, a)

\* Refused, nothing to do, or turned down by an index.
Refuse(p) ==
    /\ At(p, "write")
    /\ LET c == calls[p] IN ~MayJoin(c) /\ ~MayToggle(c) /\ ~MayLeave(c) /\ ~MayStart(c)
    /\ Ends(p)
    /\ UNCHANGED tables

-----------------------------------------------------------------------------
(* The writes.                                                             *)

CommitJoin(p) ==
    LET c == calls[p]
    IN  /\ At(p, "write") /\ MayJoin(c)
        /\ players' = [players EXCEPT ![c.room] = @ \cup {Seat(c)}]
        /\ UNCHANGED <<status, lobbyVars, overdue, battles>>
        /\ Ends(p)

\* The status of the room is written only when it differs from the one read.
CommitToggle(p) ==
    LET c == calls[p]
        new == LobbyStatus(WithStatus(c.rows, c.user, c.kind))
    IN  /\ At(p, "write") /\ MayToggle(c)
        /\ players' = [players EXCEPT ![c.room] = WithStatus(@, c.user, c.kind)]
        /\ status' = IF new = c.seen THEN status ELSE [status EXCEPT ![c.room] = new]
        /\ UNCHANGED <<lobbyVars, overdue, battles>>
        /\ Ends(p)

CommitLeave(p) ==
    LET c == calls[p]
        new == StatusWithoutGuest(c.seen)
    IN  /\ At(p, "write") /\ MayLeave(c)
        /\ IF host[c.room] = c.user
           THEN /\ status' = [status EXCEPT ![c.room] = "closed"]
                /\ players' = [players EXCEPT ![c.room] = AllLeft(@)]
           ELSE /\ status' = IF new = c.seen THEN status ELSE [status EXCEPT ![c.room] = new]
                /\ players' = [players EXCEPT ![c.room] = WithStatus(@, c.user, "left")]
        /\ UNCHANGED <<lobbyVars, overdue, battles>>
        /\ Ends(p)

CommitStart(p, b) ==
    LET c == calls[p]
    IN  /\ At(p, "write") /\ MayStart(c)
        /\ battles[b] = Null
        /\ status' = [status EXCEPT ![c.room] = "in_battle"]
        /\ battles' = [battles EXCEPT ![b] =
              [room |-> c.room, players |-> {x.user : x \in c.rows},
               duration |-> BattleDuration(c.room), status |-> "active", over |-> FALSE]]
        /\ UNCHANGED <<lobbyVars, overdue, players>>
        /\ Ends(p)

\* A statement fails or the client goes away: the transaction is rolled back.
Abort(p) ==
    /\ calls[p] # Null
    /\ Ends(p)
    /\ UNCHANGED tables

-----------------------------------------------------------------------------
(* ExpireRooms.                                                            *)

\* The SELECT finds the overdue rooms as they are when it starts ...
SweepBegins ==
    /\ pass = Null
    /\ ExpiredRooms # {}
    /\ pass' = [todo |-> ExpiredRooms, got |-> {}]
    /\ UNCHANGED <<tables, lock, calls>>

\* Mutant: the rooms found are locked without looking at them again.
AnyFound(r) == TRUE

StillExpired(r) == r \in ExpiredRooms

\* ... and locks them one by one, looking at each again when it has its lock.
\* (In the order of their ids: which one comes first makes no difference here.)
SweepLock(r) ==
    /\ pass # Null
    /\ r \in pass.todo
    /\ Free(r)
    /\ IF StillExpired(r)
       THEN /\ lock' = [lock EXCEPT ![r] = Sweeper]
            /\ pass' = [todo |-> pass.todo \ {r}, got |-> pass.got \cup {r}]
       ELSE /\ pass' = [pass EXCEPT !.todo = @ \ {r}]
            /\ UNCHANGED lock
    /\ UNCHANGED <<tables, calls>>

SweepEnds ==
    /\ pass' = Null
    /\ lock' = ReleasedBy(Sweeper)
    /\ UNCHANGED calls

\* The updates of the rooms that were locked.
SweepCommits ==
    /\ pass # Null
    /\ pass.todo = {}
    /\ status' = [r \in Room |-> IF r \in pass.got THEN "expired" ELSE status[r]]
    /\ players' = [r \in Room |-> IF r \in pass.got THEN AllLeft(players[r]) ELSE players[r]]
    /\ UNCHANGED <<lobbyVars, overdue, battles>>
    /\ SweepEnds

SweepFails ==
    /\ pass # Null
    /\ SweepEnds
    /\ UNCHANGED tables

-----------------------------------------------------------------------------
\* CompleteBattle's UPDATE of the room waits for the lock, too.
Complete(b) ==
    /\ CompleteBattle(b)
    /\ Free(battles[b].room)
    /\ UNCHANGED <<lock, calls, pass>>

TimePasses ==
    /\ \/ \E r \in Room : LobbyTimeUp(r)
       \/ \E b \in Battle : BattleTimeUp(b)
    /\ UNCHANGED <<lock, calls, pass>>

\* What a request does without waiting for anybody.
Proceed(p) ==
    \/ \E c \in Code : Draw(p, c)
    \/ FindNothing(p)
    \/ Collide(p)
    \/ Read(p)
    \/ ReportDuplicate(p)
    \/ Refuse(p)
    \/ CommitJoin(p)
    \/ CommitToggle(p)
    \/ CommitLeave(p)

TxNext ==
    \/ \E p \in Call, k \in Kind, u \in User, c \in Code : Arrive(p, k, u, c)
    \/ \E p \in Call, r \in Room : Find(p, r)
    \/ \E p \in Call : Proceed(p) \/ InsertRoom(p) \/ Abort(p)
    \/ \E p \in Call, r \in Room, d \in Duration : CommitCreate(p, r, d)
    \/ \E p \in Call, b \in Battle : CommitStart(p, b)
    \/ SweepBegins
    \/ \E r \in Room : SweepLock(r)
    \/ SweepCommits
    \/ SweepFails
    \/ \E b \in Battle : Complete(b)
    \/ TimePasses

TxSpec == TxInit /\ [][TxNext]_txVars

(***************************************************************************)
(* Fairness.  A statement that waits for nobody is answered; a request     *)
(* that waits for a row or for another insert stands in a queue of the     *)
(* database and gets its turn if the row keeps becoming free.  The ids of  *)
(* rooms and battles do not run out in the code: a request that finds none *)
(* left in the model is allowed to fail.  The worker ticks for as long as  *)
(* the server runs, from some time on without errors of the database, and  *)
(* completes battles whose time is up.  Nothing is assumed of the players. *)
(***************************************************************************)
TxFairSpec ==
    /\ TxSpec
    /\ \A p \in Call :
          /\ WF_txVars(Proceed(p))
          /\ SF_txVars(InsertRoom(p))
          /\ SF_txVars(\E r \in Room : Find(p, r))
          /\ WF_txVars(\E r \in Room, d \in Duration : CommitCreate(p, r, d))
          /\ WF_txVars(\E b \in Battle : CommitStart(p, b))
          /\ WF_txVars(At(p, "inserted") /\ (\A r \in Room : Exists(r)) /\ Abort(p))
          /\ WF_txVars(At(p, "write") /\ (\A b \in Battle : battles[b] # Null) /\ Abort(p))
    /\ WF_txVars(SweepBegins) /\ WF_txVars(SweepCommits)
    /\ \A r \in Room : SF_txVars(SweepLock(r))
    /\ <>[][~(SweepFails /\ pass # [todo |-> {}, got |-> {}])]_txVars
    /\ \A b \in Battle :
          SF_txVars(Complete(b)) /\ WF_txVars(BattleTimeUp(b) /\ TimePasses)

-----------------------------------------------------------------------------
(* Properties.                                                             *)

\* Locks, requests and the pass of the worker are well formed.
TxTypeOK ==
    /\ TypeOK
    /\ lock \in [Room -> Call \cup {Sweeper, Null}]
    /\ calls \in [Call -> Request \cup {Null}]
    /\ pass \in Pass \cup {Null}

\* What a request has read under the lock of its room is still so when it
\* writes, whoever else is served and whatever battles complete meanwhile.
ReadsHold ==
    \A p \in Call : calls[p] # Null /\ calls[p].room # Null =>
        /\ calls[p].seen = status[calls[p].room]
        /\ At(p, "write") => calls[p].rows = Active(calls[p].room)

\* The rooms the worker has locked are still idle when it expires them: no
\* player who came back in time is thrown out.
SweepHolds == pass # Null => pass.got \subseteq ExpiredRooms

\* A request that passes its checks is not turned down by a unique index: the
\* tables admit a second active row or battle in no interleaving.
InsertsAccepted ==
    \A p \in Call : At(p, "write") /\ calls[p].kind = "join" =>
        LET c == calls[p]
        IN  ~HasSeat(c) /\ c.seen = "waiting" /\ (\A x, y \in c.rows : x = y) =>
                UniqueActive(players[c.room] \cup {Seat(c)})

\* Whatever the interleaving of their statements, the requests are whole
\* transactions one after the other: every commit is a step of Rooms, every
\* other step leaves the tables alone.
ImplementsRooms == Spec

\* Every request returns: nobody waits for ever for a room, and CreateRoom gives
\* up looking for a code.
CallsReturn == \A p \in Call : calls[p] # Null ~> calls[p] = Null
=============================================================================
