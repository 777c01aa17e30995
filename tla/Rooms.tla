------------------------------- MODULE Rooms -------------------------------
(***************************************************************************)
(* The lobby: rooms, the players seated in them and the battles they start *)
(* (src/backend/internal/rooms), at the granularity of one database        *)
(* transaction per action.  Every handler locks the row of its room first  *)
(* and keeps the lock until it commits.                                    *)
(* A request the code refuses changes nothing and is a stuttering step.    *)
(***************************************************************************)
EXTENDS Naturals

CONSTANTS
    Room,       \* ids of the rows of table rooms
    Battle,     \* ids of the rows of table battles
    User,       \* accounts
    Code,       \* room codes
    Null        \* a column without a value

VARIABLES
    status,     \* rooms.status, "none" for an id that is not in use
    code,       \* rooms.code
    host,       \* rooms.host_user_id
    duration,   \* rooms.duration_seconds
    overdue,    \* whether rooms.expires_at < NOW()
    players,    \* players[r]: the rows of room_players of room r
    battles     \* battles[b]: the row of a battle, or Null

lobbyVars == <<code, host, duration>>
vars == <<status, code, host, duration, overdue, players, battles>>

Duration == {120, 300}

\* The statuses a room is in while it can still be joined, left or started.
Open == {"waiting", "ready"}

RoomStatus == Open \cup {"in_battle", "closed", "expired"}

(***************************************************************************)
(* A row of room_players.  Rows of one user that differ only in their      *)
(* surrogate key and timestamps are one element: every statement either    *)
(* selects the active rows or updates all rows of a user.                  *)
(***************************************************************************)
PlayerRow == [user : User, seat : {1, 2}, status : {"joined", "ready", "left"}]

BattleRow == [room : Room, players : SUBSET User, duration : Duration,
              status : {"active", "finished"}, over : BOOLEAN]

ASSUME NullAssumption == Null \notin User \cup Code \cup Duration \cup BattleRow

-----------------------------------------------------------------------------
(* Queries and statements of the repository.                               *)

Exists(r) == status[r] # "none"

IsActiveRow(p) == p.status \in {"joined", "ready"}

Active(r) == {p \in players[r] : IsActiveRow(p)}

Members(r) == {p.user : p \in Active(r)}

IsActive(r, u) == \E p \in Active(r) : p.user = u

\* len(activePlayers) >= 2
Full(r) == \E p, q \in Active(r) : p # q

\* len(activePlayers) == 2
IsPair(rows) == \E p, q \in rows : p # q /\ rows = {p, q}

\* UPDATE room_players SET status = 'left' for the active rows.
AllLeft(rows) ==
    {IF IsActiveRow(p) THEN [p EXCEPT !.status = "left"] ELSE p : p \in rows}

\* The partial unique indexes on (room, user) and (room, seat).
UniqueActive(rows) ==
    \A p, q \in rows :
        /\ IsActiveRow(p) /\ IsActiveRow(q)
        /\ p.user = q.user \/ p.seat = q.seat
        => p = q

\* UPDATE room_players SET status WHERE room_id AND user_id.
WithStatus(rows, u, s) ==
    {IF p.user = u THEN [p EXCEPT !.status = s] ELSE p : p \in rows}

\* That UPDATE has no filter on the old status: when the user has a second
\* row, two rows become active and the unique index refuses the statement.
UpdateAccepted(r, u) ==
    \A p, q \in players[r] : p.user = u /\ q.user = u => p = q

ActiveBattle(r, b) ==
    battles[b] # Null /\ battles[b].room = r /\ battles[b].status = "active"

-----------------------------------------------------------------------------
Init ==
    /\ status = [r \in Room |-> "none"]
    /\ code = [r \in Room |-> Null]
    /\ host = [r \in Room |-> Null]
    /\ duration = [r \in Room |-> Null]
    /\ overdue = [r \in Room |-> FALSE]
    /\ players = [r \in Room |-> {}]
    /\ battles = [b \in Battle |-> Null]

\* A code that a row of rooms already carries, in whatever status, is drawn
\* again.
CodeTaken(c) == \E r \in Room : Exists(r) /\ code[r] = c

(***************************************************************************)
(* CreateRoom: three attempts at most to draw a free code; when none is    *)
(* found the request fails and nothing changes.                            *)
(***************************************************************************)
CreateRoom(r, u, c, d) ==
    /\ ~Exists(r)
    /\ ~CodeTaken(c)
    /\ status' = [status EXCEPT ![r] = "waiting"]
    /\ code' = [code EXCEPT ![r] = c]
    /\ host' = [host EXCEPT ![r] = u]
    /\ duration' = [duration EXCEPT ![r] = d]
    /\ players' = [players EXCEPT ![r] =
                      {[user |-> u, seat |-> 1, status |-> "joined"]}]
    /\ UNCHANGED <<overdue, battles>>

\* Seat 1 when no active player holds it, seat 2 otherwise.
SeatFor(r) == IF \A p \in Active(r) : p.seat = 2 THEN 1 ELSE 2

\* Mutant: the check that the room is full is missing.
JoinFullRoom(r, u) == ~IsActive(r, u) /\ status[r] = "waiting"

JoinAllowed(r, u) ==
    /\ ~IsActive(r, u)
    /\ status[r] = "waiting"
    /\ ~Full(r)

Newcomer(r, u) == [user |-> u, seat |-> SeatFor(r), status |-> "joined"]

JoinRoom(r, u) ==
    /\ JoinAllowed(r, u)
    /\ UniqueActive(players[r] \cup {Newcomer(r, u)})
    /\ players' = [players EXCEPT ![r] = @ \cup {Newcomer(r, u)}]
    /\ UNCHANGED <<status, lobbyVars, overdue, battles>>

\* Mutant: one ready player is enough.
AnyReady(rows) == IsPair(rows) /\ \E p \in rows : p.status = "ready"

BothReady(rows) == IsPair(rows) /\ \A p \in rows : p.status = "ready"

LobbyStatus(rows) == IF BothReady(rows) THEN "ready" ELSE "waiting"

(***************************************************************************)
(* ToggleReady: writes the row of the player, then recomputes the room     *)
(* from the active rows it read with the player's new status substituted.  *)
(***************************************************************************)
ToggleReady(r, u, s) ==
    /\ status[r] \in Open
    /\ \E p \in Active(r) : p.user = u /\ p.status # s
    /\ UpdateAccepted(r, u)
    /\ players' = [players EXCEPT ![r] = WithStatus(@, u, s)]
    /\ status' = [status EXCEPT ![r] = LobbyStatus(WithStatus(Active(r), u, s))]
    /\ UNCHANGED <<lobbyVars, overdue, battles>>

LeaveAllowed(r, u) == status[r] # "in_battle" /\ IsActive(r, u)

\* LeaveRoom by the host: the room closes and everybody is marked left.
HostLeaves(r, u) ==
    /\ LeaveAllowed(r, u)
    /\ host[r] = u
    /\ status' = [status EXCEPT ![r] = "closed"]
    /\ players' = [players EXCEPT ![r] = AllLeft(@)]
    /\ UNCHANGED <<lobbyVars, overdue, battles>>

\* Mutant: a ready room keeps its status when the guest leaves.
StatusKept(s) == s

StatusWithoutGuest(s) == IF s = "ready" THEN "waiting" ELSE s

\* LeaveRoom by a guest: a room that was ready waits again.
GuestLeaves(r, u) ==
    /\ LeaveAllowed(r, u)
    /\ host[r] # u
    /\ players' = [players EXCEPT ![r] = WithStatus(@, u, "left")]
    /\ status' = [status EXCEPT ![r] = StatusWithoutGuest(@)]
    /\ UNCHANGED <<lobbyVars, overdue, battles>>

\* The adapter between the two services fixes the length of every battle.
BattleDuration(r) == 300

(***************************************************************************)
(* StartBattle by the host of a ready room.  (On a room that is already    *)
(* in_battle the handler returns the active battle: a stuttering step.)    *)
(***************************************************************************)
StartBattle(r, u, b) ==
    /\ host[r] = u
    /\ status[r] = "ready"
    /\ IsPair(Active(r))
    /\ battles[b] = Null
    /\ ~\E a \in Battle : ActiveBattle(r, a)     \* idx_battles_active_room_unique
    /\ status' = [status EXCEPT ![r] = "in_battle"]
    /\ battles' = [battles EXCEPT ![b] =
                      [room |-> r, players |-> Members(r),
                       duration |-> BattleDuration(r),
                       status |-> "active", over |-> FALSE]]
    /\ UNCHANGED <<lobbyVars, overdue, players>>

\* Mutant: a finished battle is completed again.
CompletableTwice(b) == battles[b] # Null /\ battles[b].over

\* Mutant: the comparison with ended_at is the wrong way round.
CompletableEarly(b) ==
    battles[b] # Null /\ ~battles[b].over /\ battles[b].status = "active"

\* The code completes a battle whose time is up; the second of two calls finds
\* it finished and does nothing.
Completable(b) ==
    battles[b] # Null /\ battles[b].over /\ battles[b].status = "active"

(***************************************************************************)
(* CompleteBattle, seen from the lobby: it overwrites the status of the    *)
(* room without reading it.                                                *)
(***************************************************************************)
CompleteBattle(b) ==
    /\ Completable(b)
    /\ battles' = [battles EXCEPT ![b].status = "finished"]
    /\ status' = [status EXCEPT ![battles[b].room] = "ready"]
    /\ UNCHANGED <<lobbyVars, overdue, players>>

\* Mutant: rooms in battle expire, too.
OverdueRooms == {r \in Room : status[r] \in Open \cup {"in_battle"} /\ overdue[r]}

\* Mutant: the worker looks at waiting rooms only.
OverdueWaiting == {r \in Room : status[r] = "waiting" /\ overdue[r]}

ExpiredRooms == {r \in Room : status[r] \in Open /\ overdue[r]}

\* One pass of the cleanup worker, in one transaction: the rooms rs it found
\* overdue and still finds open when it gets their locks.  A room that becomes
\* overdue or open during the pass is left to the next.
ExpireRooms(rs) ==
    /\ rs # {}
    /\ rs \subseteq ExpiredRooms
    /\ status' = [r \in Room |-> IF r \in rs THEN "expired" ELSE status[r]]
    /\ players' = [r \in Room |-> IF r \in rs THEN AllLeft(players[r]) ELSE players[r]]
    /\ UNCHANGED <<lobbyVars, overdue, battles>>

-----------------------------------------------------------------------------
(* The clock: expires_at, and the ended_at of a battle, pass.              *)

LobbyTimeUp(r) ==
    /\ status[r] \in Open \cup {"in_battle"}
    /\ ~overdue[r]
    /\ overdue' = [overdue EXCEPT ![r] = TRUE]
    /\ UNCHANGED <<status, lobbyVars, players, battles>>

BattleTimeUp(b) ==
    /\ battles[b] # Null
    /\ ~battles[b].over
    /\ battles' = [battles EXCEPT ![b].over = TRUE]
    /\ UNCHANGED <<status, lobbyVars, overdue, players>>

-----------------------------------------------------------------------------
Next ==
    \/ \E r \in Room, u \in User, c \in Code, d \in Duration : CreateRoom(r, u, c, d)
    \/ \E r \in Room, u \in User : JoinRoom(r, u)
    \/ \E r \in Room, u \in User, s \in {"joined", "ready"} : ToggleReady(r, u, s)
    \/ \E r \in Room, u \in User : HostLeaves(r, u)
    \/ \E r \in Room, u \in User : GuestLeaves(r, u)
    \/ \E r \in Room, u \in User, b \in Battle : StartBattle(r, u, b)
    \/ \E b \in Battle : CompleteBattle(b)
    \/ \E rs \in SUBSET Room : ExpireRooms(rs)
    \/ \E r \in Room : LobbyTimeUp(r)
    \/ \E b \in Battle : BattleTimeUp(b)

Spec == Init /\ [][Next]_vars

-----------------------------------------------------------------------------
(* Properties.                                                             *)

\* Every column holds a value its table admits.
TypeOK ==
    /\ status \in [Room -> RoomStatus \cup {"none"}]
    /\ code \in [Room -> Code \cup {Null}]
    /\ host \in [Room -> User \cup {Null}]
    /\ duration \in [Room -> Duration \cup {Null}]
    /\ overdue \in [Room -> BOOLEAN]
    /\ players \in [Room -> SUBSET PlayerRow]
    /\ battles \in [Battle -> BattleRow \cup {Null}]

\* A room that is open or in battle has its host in seat 1, whoever joined,
\* left and came back (JoinRoom's "host left" branch is never needed).
HostSeated ==
    \A r \in Room : status[r] \in Open \cup {"in_battle"} =>
        \E p \in Active(r) : p.user = host[r] /\ p.seat = 1

\* The status column is a cached summary of room_players, maintained by five
\* handlers and, blindly, by the battle service.  It is always right: ready
\* and in_battle mean two active players who are both ready, waiting means
\* that there are not, and a room that is over holds nobody.
StatusMatchesPlayers ==
    \A r \in Room :
        /\ status[r] \in {"ready", "in_battle"} => BothReady(Active(r))
        /\ status[r] = "waiting" => ~BothReady(Active(r))
        /\ status[r] \in {"none", "closed", "expired"} => Active(r) = {}

\* A room is in_battle exactly while one battle of it is active, there is
\* never a second one, and its players are the two seated in the room: nobody
\* leaves, joins or is replaced while the battle runs.
BattleMatchesRoom ==
    \A r \in Room :
        /\ \A b \in Battle : ActiveBattle(r, b) =>
              status[r] = "in_battle" /\ battles[b].players = Members(r)
        /\ status[r] = "in_battle" => \E b \in Battle : ActiveBattle(r, b)
        /\ \A a, b \in Battle : ActiveBattle(r, a) /\ ActiveBattle(r, b) => a = b

\* What the handlers check under the lock of the room already excludes every
\* insert the partial unique indexes would refuse: no JoinRoom and no
\* StartBattle that passes its checks fails in the database.
IndexesRedundant ==
    \A r \in Room :
        /\ \A u \in User : JoinAllowed(r, u) => UniqueActive(players[r] \cup {Newcomer(r, u)})
        /\ status[r] = "ready" => ~\E b \in Battle : ActiveBattle(r, b)

\* The transitions a status may take: in_battle comes only from ready and goes
\* only back to ready, and closed and expired are final.  (The documents have
\* in_battle go to waiting: see DocumentedMatrix.)
Transition ==
    {<<"none", "waiting">>, <<"waiting", "ready">>, <<"ready", "waiting">>,
     <<"ready", "in_battle">>, <<"in_battle", "ready">>} \cup
    Open \X {"closed", "expired"}

StatusMatrix ==
    [][\A r \in Room : status'[r] # status[r] => <<status[r], status'[r]>> \in Transition]_vars

\* Seen by its players a room is a Lobby: read the phase off the status column
\* and the members off the active rows, and every transaction is one of the
\* Lobby's steps.  In particular a match starts only between two ready players,
\* although StartBattle trusts the cached status.
Phase(s) ==
    CASE s = "none" -> "unused"
      [] s \in Open -> "open"
      [] s = "in_battle" -> "playing"
      [] OTHER -> "over"

ReadyMembers(r) == {p.user : p \in {x \in Active(r) : x.status = "ready"}}

TheLobby == INSTANCE Lobby WITH
    phase <- [r \in Room |-> Phase(status[r])],
    owner <- host,
    members <- [r \in Room |-> Members(r)],
    ready <- [r \in Room |-> ReadyMembers(r)]

ImplementsLobby == TheLobby!Spec

\* The worker gets rid of an overdue lobby unless its players close it or
\* start a battle first.  (This and the next under the fairness of RoomsTx.)
OverdueLobbyEnds ==
    \A r \in Room : overdue[r] /\ status[r] \in Open ~> status[r] \notin Open

\* A room never stays in_battle: the battle runs out and gives the room back.
RoomComesBack ==
    \A r \in Room : status[r] = "in_battle" ~> status[r] # "in_battle"

-----------------------------------------------------------------------------
(* What the documentation says and the code does not do.                   *)

\* A player seated in an open room can be marked ready: the UPDATE that
\* ToggleReady issues for an active player is not refused by the database.
ReadyIsPossible ==
    \A r \in Room, u \in User :
        status[r] \in Open /\ IsActive(r, u) => UpdateAccepted(r, u)

\* The transitions of docs/deep-dives/room_state_machine.md: a battle that
\* finishes resets its room to waiting, or its room is closed.  CompleteBattle
\* makes the room ready, with both players still marked ready.
DocumentedTransition ==
    (Transition \ {<<"in_battle", "ready">>}) \cup {"in_battle"} \X {"waiting", "closed"}

DocumentedMatrix ==
    [][\A r \in Room : status'[r] # status[r] =>
          <<status[r], status'[r]>> \in DocumentedTransition]_vars
=============================================================================
