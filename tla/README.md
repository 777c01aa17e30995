# Verification of DSAblitz

TLA+ models, model-checking runs and machine-checked proofs for the Go backend
in `src/backend`, a server for 1v1 quiz battles. Every definition is translated
from the code; `PROJECT.json` names the lines each one stands for.

## 1. The system

One Go process serves HTTP; all state that matters is in PostgreSQL, at the
default isolation READ COMMITTED. Handlers run concurrently, one goroutine per
request, and coordinate only through row locks (`SELECT ... FOR UPDATE`, and the
locks `UPDATE` takes) and unique indexes. One background goroutine, the cleanup
worker, ticks every five seconds.

| component | state | operations | interacts with |
|---|---|---|---|
| rooms (`internal/rooms`) | tables `rooms`, `room_players` | CreateRoom, JoinRoom, ToggleReady, LeaveRoom, StartBattle, ExpireRooms | starts battles through `BattleCoordinator`, inside its own transaction; called by handlers and the worker |
| battle (`internal/battle`) | tables `battles`, `battle_players`, `battle_question_sequence`, `submissions` | StartBattleTx, GetNextQuestion, SubmitAnswer, CompleteBattle, ExpireActiveBattles | writes `rooms.status` directly when a battle ends; asks questions for the pool and for verdicts |
| server (`internal/server`) | the worker, routes | Run, Shutdown, startCleanupWorkers; the adapter between rooms and battle | calls rooms and battle |
| questions (`internal/questions`) | tables `questions`, `question_stats`, an in-memory cache filled at start-up | LoadCache, look-ups, ValidateAnswer; the seeder, a process of its own | called by battle |
| auth (`internal/auth`) | tables `users`, `user_stats`, `auth_sessions` | Signup, Login, Refresh (rotation), Logout, Me | guards the routes of rooms and battle |
| ratings (`internal/ratings`) | `user_stats`, `rating_history` | Elo engine, ApplyRatingUpdatesTx in a caller's transaction | nothing calls it yet |
| users, platform/cache | none | stubs | none |
| platform/database, configs, cmd | connection pool | start-up | used by all |
| migrations | the schema: checks and partial unique indexes | none | relied on by rooms and battle |

What is hard here, component by component, and what makes it correct:

- **rooms.** `rooms.status` is a cached summary of `room_players`; five handlers
  maintain it, and the battle service overwrites it blindly. It must agree with
  the players at all times, since StartBattle trusts it. Players leave and come
  back and the old rows stay, so statements must not hit the wrong ones. A room
  must be in battle exactly while it has an active battle, with its own players.
- **battle.** Submissions of one player overlap (retries, double clicks), and run
  against the completion of the battle, which up to three processes start at
  once, from a stale unlocked check. No answer may be lost or counted twice; the
  stored result must be that of the final scores; the room is released once;
  no cycle of lock waits may form; the battle must end.
- **auth.** Refreshes of one token race each other, a logout and the loss of their
  responses. A sign-in must have exactly one current session whatever happens,
  and the browser's cookie must not fall behind; signup is two transactions.
- **rooms, statement by statement.** Handlers decide from rows they read some
  statements before they write; only the lock on the room's row keeps other
  requests, the worker (which collects the locks of many rooms in one
  transaction) and a completing battle away. CreateRoom has no row to lock.
- **play.** The client resends answers over a network that loses and delays
  them; only the count of submissions tells a retry from a new answer. No answer
  may count twice or for another question, and a client that was reloaded must
  find its way back.
- **questions.** The seeder may stop anywhere and be run again; the cache of a
  running server and the table drift apart; a stream is longer than the pool of
  questions it is drawn from.
- **database.** Transactions that take a second connection while they hold one.
- **ratings.** Two rounded and floored changes must make one zero-sum match.

`PROJECT.json` lists these hazards, each at its line, with the properties that
cover it.

## 2. Modules

| module | models | granularity |
|---|---|---|
| `Lobby` | what a room promises its players: a host, at most one guest, who is ready, matches only between two ready players | abstract specification |
| `Rooms` | the rooms service, the expiry half of the worker, and a battle as far as its room sees it | one database transaction per action |
| `RoomsProofs` | theorems about `Rooms`; `Rooms` implements `Lobby` | |
| `Match` | what a battle promises its players: in-order answers to a shared stream, one closing, a result that follows from the answers | abstract specification |
| `Battle` | SubmitAnswer, CompleteBattle, ExpireActiveBattles of one battle, next to the lobby's transactions on its room | one statement per action |
| `BattleProofs` | theorems about `Battle`; `Battle` implements `Match` | |
| `AuthSessions` | accounts, refresh sessions, the handlers of auth and the cookie of the browser | one statement per action |
| `AuthSessionsProofs` | theorems about `AuthSessions` | |
| `RoomsTx` | the handlers of `Rooms` and the worker with their row locks, rollbacks and the retry of CreateRoom; extends `Rooms` and implements it | one statement that can wait or fail per action |
| `RoomsTxProofs` | `RoomsTx` implements `Rooms`; theorems about `RoomsTx` | |
| `Gameplay` | a player's page, the network, and the routes GetNextQuestion and SubmitAnswer; the place of a player is that of `Match` | requests, transactions and responses |
| `GameplayProofs` | theorems about `Gameplay` | |
| `QuestionBank` | the questions, the seeder, the cache, the streams battles draw | one database transaction, or one reading of the cache, per action |
| `QuestionBankProofs` | theorems about `QuestionBank` | |
| `Pool` | the connection pool under the calls of auth, rooms and battle and the worker | statements that wait for a connection or a row |
| `PoolProofs` | theorems about `Pool` | |
| `Ratings` | the Elo engine and the rows ApplyRatingUpdatesTx writes | one statement per action |
| `RatingsProofs` | theorems about `Ratings` | |
| `MCRoomsTx`, `MCBattle`, `MCGameplay`, `MCQuestionBank`, `MCPool`, `MCRatings`, `MCAuthSessions` | the small instances for TLC | |

How they fit: `RoomsTx` refines `Rooms`, which refines `Lobby`; `Battle` refines
`Match`, whose log and positions are the server of `Gameplay`; the streams that
are a constant of `Battle` and `Gameplay` are made in `QuestionBank`; `Pool` takes
the same calls apart once more, by what they wait for.

### Rooms

A room is `status`, `code`, `host`, `duration`, `overdue` (`expires_at` has
passed) and `players`, its rows of `room_players`; a battle is a row with its
room, players, length, status and whether its time is over. Each handler locks
the row of its room first and keeps the lock until it commits, and reads
everything else afterwards; two transactions on one room are therefore
serialised and each is one action. `RoomsTx` is the justification: CreateRoom has
no row to lock and its race is there. CompleteBattle does not lock the room before
its other reads, but it does not read the room either: what it does to the lobby
is the blind UPDATE. A refused request is a stuttering step, and so are the
idempotent early returns.

`players[r]` is a set of rows without surrogate keys and timestamps. A guest who
comes back gets a second row; rows that agree on user, seat and status are one
element. That loses nothing: every statement selects the active rows or updates
all rows of a user. `UpdateAccepted` is the one place where the old rows matter:
the UPDATE of ToggleReady has no filter on the status, so it would revive an old
row and the unique index on active (room, user) refuses it.

### Battle

`card[p]` is the row of `battle_players`, `subs[p]` the log of player p, `pc[t]`
the next statement of process t, `seen[t]` the rows as its transaction read
them. Row locks are explicit; writes become visible in the action that commits,
which is also where the locks go. `Abort` covers a failed statement, a cancelled
request and a crash of the server: the transaction is rolled back, and the
process is free to start again. The two places where SubmitAnswer and
GetNextQuestion start a completion on their own are `RefuseExpired` and
`FindExpired`.

The first, unlocked check of SubmitAnswer does not appear as a guard of
`Submit`: whatever it found may have changed when the lock is granted, and an
error of its query is ignored by the code, so a submission may reach the lock in
any state. Loading the battle, its checks, the question and the older
submissions are one action, `check`: the battle cannot finish while the row lock
is held (CompleteBattle needs it), the sequence never changes, and only the
holder of the lock inserts submissions of the player; only the clock can move in
between, and it may move before or after.

`at` and `index` in a submission are history variables; the columns do not
exist. The scoring rule is that of `MVPScoreCalculator`, one point for a right
answer. Battles always have two players (the rooms service insists on it), so
the branches for one player in CompleteBattle are unreachable and left out.
Answers are well formed; `Key` says which ones ValidateAnswer accepts.

### AuthSessions

`session[t]` is the row of `auth_sessions` whose hash is that of token t (tokens
are random, so a new one is unused), `request[h]` the request a handler serves
with its next statement, or the response on its way, and `jar[b]` the
`refresh_token` cookie of a browser. A request carries the cookie its browser
had when it was sent; responses arrive in any order or not at all. Refresh reads
the session and the account outside its transaction (`FindSession`), then
updates the old row under its lock (`RevokeOld`) and inserts the new one and
commits (`InsertNew`); the lock is the fact that a request stands between the
two. `Fail` is any statement that fails, with the rollback that follows; and a
statement that committed may still be reported as an error. Only Refresh clears
the cookies when it fails (`Refusal`).

`revoked` is the column `revoked_at` with what set it, and `signIn` names the
first session of a chain of rotations; neither distinction is in the table.
`Careful` browsers send one request at a time and lose no response. `Email`
stands for both unique columns of an account. `Disable` is an administrator's
statement: no code writes `users.status`. Wrong passwords change nothing; the
access token is stateless and is left out, as is `last_login_at`.

### RoomsTx

Its tables are those of `Rooms`; `lock[r]` is who holds the row of a room,
`calls[p]` the request p serves: its kind and user, the statement it stands at,
the room it has locked, and the status and active rows it has read. Decisions
(`MayJoin`, `MayToggle`, ...) are made from what was read, writes are those of
`Rooms` and become visible with the commit, so the last statement and the commit
are one action. `Find` waits for the lock; CreateRoom's look-up finds nothing to
lock (`FindNothing`), draws again when it finds a room (`Collide`) and, when the
unique index turns its insert down, gives up (`ReportDuplicate`): `InsertRoom`
waits while another insert of the same code is undecided, as PostgreSQL does.
`pass` is the worker's transaction: the rooms the query has found and those
locked so far; FOR UPDATE looks at a row again once it has its lock
(`StillExpired`). `Abort` and `SweepFails` are a failure anywhere. CompleteBattle
takes the row of the room only for its last UPDATE; it is one step (`Complete`)
that waits until the row is free.

### Gameplay

The server is one player's part of `Match`: his log, the time, and `Verdict`,
what SubmitAnswer decides under the row lock, in the order of its checks. The
transaction is two actions, checks and commit; other requests are served in
between, and the commit may report an error although it took place. A request or
response is in `net` or lost; the page gives up (`Timeout`), sends again, or is
reloaded and forgets everything. The page is no part of the repository: it is
written from the API documents and numbers its submissions 1, 2, 3, ...; told
"duplicate" it counts the answer, told "expected submission index n" it goes on
from there. `asked`, the question the player had before him, is a history
variable: the request does not carry it, which is the point of `JudgedAsAsked`.

### QuestionBank

A question is an id with a version of its contents; `Sound` are the versions the
seeder's checks accept, `File` the seed files. `SeedNext` writes one question, the
unit of its transactions; the run may end after any of them. `Found` is what
reading the active questions may return: when the connection breaks, those read
so far, because `rows.Err` is not looked at (questions/repository.go:63). `Show`
and `Judge` go through the cache and fall back to the table, as GetQuestionByID
does. `Shuffle` is any family of permutations (`ShuffleAssumption`), which is all
that is known of `rand.Shuffle`; `Drawn` is the k-th question of
GenerateSequence.

### Pool

`todo[p]` is the list of statements a call still has to run, reduced to those
that may wait: BEGIN and single queries for a connection, SELECT ... FOR UPDATE,
UPDATE and INSERT into a unique column for a row. JoinRoom and ToggleReady end
with a query outside their transaction (rooms/service.go:189, 273); CreateRoom is
up to three transactions, each of which locks the room that has the code it drew
or inserts its own. `Alone` is what the calls of auth and CreateRoom lock: a row
of `users` or `auth_sessions`, or a value of a unique column, here by number, as
Signup takes the index of emails before that of handles. A single UPDATE is a
transaction of its own, with its connection. A connection that comes back is
handed to the oldest request in the queue before anything else happens
(`Settled`), as the pool of pgx does.

Branches that depend on data are choices: the cache hits or misses, the battle is
over its time or not, the worker finds some rooms, which its queries list by id
(`Ordered`). A statement may fail anywhere (`Fail`), which also ends a call
early; `Returned` is what the deferred Rollback and the closing of rows give
back.

### Ratings

Scores are counted in `Unit`s of a match, so that a draw and the expected scores
are integers; `Round` is `math.Round` (half away from zero), `Floor` the floor at
zero, after which the deltas are computed. The table of expected scores is a
constant of which only its symmetry is assumed; the run uses values near the
logistic curve. The caller of ApplyRatingUpdatesTx does not
exist yet: it commits or rolls back.

## 3. Runs

| run | checks | bounds |
|---|---|---|
| `rooms` | type invariant; `HostSeated`, `StatusMatchesPlayers`, `BattleMatchesRoom`, `IndexesRedundant`; `ReadsHold`, `SweepHolds`; `StatusMatrix`; refinement of `Lobby` and of `Rooms` | 1 room, 3 users, 1 code, 1 battle, 2 requests and the worker |
| `rooms_tx_live` | `CallsReturn`, `OverdueLobbyEnds`, `RoomComesBack` | 1 request and the worker |
| `battle` | `CardMatchesLog`, `PointerMatchesLog`, `ResultsMatchScores`, `NoLockDeadlock`; `RoomReleasedOnce`; refinement of `Match`; `BattleEnds` | 2 handlers and the worker, 2 questions, 2 answers, indexes up to 4 and 1 |
| `gameplay` | `JudgedAsAsked`, `CountedOnce`, `NeverAhead`; `GetsThrough`, `BackInStep` | 2 requests under way, 2 answers, streams of 2 and 3 with and without a question that comes again |
| `questions` | `NoHalfQuestion`, `SeedingConverges`, `JudgedAsShown`, `EvenlyAsked` | 3 questions, one in two versions, 4 seed files, streams of 4 |
| `pool` | `NothingLeaks`, `NoDeadlock`; `CallsReturn` | 2 handlers and the worker, 4 connections, 1 room, 2 other rows |
| `ratings` | `RowsAccepted`, `PairedRows`, `ZeroSum` | 3 players, 3 matches |
| `sessions` | `OneSessionPerSignIn`, `RotationLosesNothing`, `CookieNotBehind`, `DisabledStaysOut`, `LogoutEndsSignIn` | 2 browsers, 2 concurrent requests, 3 tokens, 1 account |
| `rejoined_player_ready`, `pool_starvation`, `room_after_battle`, `retries_filtered` | one documented statement each, which the code contradicts (section 5) | smallest instance that shows it |

Bounds. In `rooms` three users are a host, a guest and one who replaces the
guest; two requests are every pair of handlers on one room, next to a pass and a
completion. The run checks both levels at once, the statements of `RoomsTx` and,
through the refinement, the transactions of `Rooms`. It has one room: only the
worker's pass and the room codes relate two, and passes over several rooms,
codes that several rooms use, rematches, and any number of requests are covered
by the proofs of `RoomsProofs` and `RoomsTxProofs`. In `battle` two handlers and
the worker make every pair of concurrent operations, and a pair next to a
completion; the stream has an end and a step from one question to the next. The
bound `MaxIndex` is on the index a request may carry, not on the log: player 1
may go to the end of the stream and past it, player 2 has one answer to give,
again and again and from two handlers at once, which is where double submission
and late completion bite. In `gameplay` two requests are an answer and its delayed
copy, at the same question, at the next one, and at the next occurrence of the
same question; `retries_filtered` has a pool of two questions gone through twice,
which takes three answers. In `questions` the stream is longer than the pool, by
one or by several cycles, and the four files add, change, repeat and are refused.
In `pool` four connections are what two calls can hold that take a second one,
so a third waits in the queue, but never for a call that itself waits in it;
`pool_starvation` has as many calls on a room as connections, with three instead
of the four or more of the default of pgx, which only shortens the trace. In
`ratings` three matches let a player fall to zero and play again. In `sessions`
three tokens are a login and two rotations, or a rotation next to a second
login; two requests are every pair of handlers, and the proofs cover any number;
sessions of different accounts share nothing, so one account is enough.
Interchangeable values are symmetric where no liveness is checked. Ids of rooms,
battles and tokens are used up, and requests or matches end, so most runs
may stop and do not check deadlock; `Battle`, `Pool` and the browsers of
`AuthSessions` never stop, and theirs do.

Every module states its type invariant. It is proved for all of them; the runs
spend their time on other properties, `rooms` excepted.

Every property has a mutant: a definition of the model, changed the way a
plausible bug would change the code, under which TLC finds the property
violated.

## 4. Fairness

- `Battle!FairSpec`: the worker ticks as long as the server runs; handlers and
  lobby transactions that have begun run to their end, one way or another;
  PostgreSQL queues the waiters of a row lock, so the lock requests of the worker
  are strongly fair (TLC finds, without it, a worker that is overtaken for ever);
  and the worker's transactions fail finitely often, which is all one can ask of
  a database. Nothing is assumed of players.
- `RoomsTx!TxFairSpec`: the same of the worker's pass and of the requests: what
  waits for nobody is answered, what waits for a row or for another insert gets
  its turn. The ids of rooms and battles, which do not run out in the code, may:
  such a request fails. From some time on passes that have work do not fail. The
  liveness of `Rooms` (`OverdueLobbyEnds`, `RoomComesBack`) is checked here, where
  the worker can be kept waiting.
- `Pool!FairSpec`: statements return, the queue is served, and a row that is
  free again and again is granted. `CallsReturn` is checked where the connections
  cannot all be held by calls that wait for one more; a host who waits for ever
  is what section 5 shows otherwise.
- `Gameplay!FairSpec`: of the requests sent again and again some arrive, are
  served without an error, and their responses arrive; the page is reloaded and
  gives up finitely often, which stands for a time-out that grows.

## 5. Where the documentation and the code disagree

Four disagreements are runs that end in a counterexample:

- **A guest who returns can never be ready** (`ReadyIsPossible`).
  `UpdatePlayerStatus` (rooms/repository.go:178) updates all his rows, and the
  unique index of active rows refuses it.
- **Concurrent requests on one room can starve the pool**
  (`StarvationResolved`). StartBattleTx holds the room and a connection and
  takes a second one for the questions (battle/service.go:107; SubmitAnswer does
  so at line 234); when the others hold the rest and wait for the room, nobody
  moves. `docs/database/transactions.md:275` calls this resolved.
- **After a battle the room is ready, not waiting** (`DocumentedMatrix`).
  CompleteBattle sets the room to ready (battle/service.go:388) and leaves its
  players as they are, still ready; `docs/deep-dives/room_state_machine.md:34` and
  `docs/flows/room_lifecycle.md:56-57, 130-131` have waiting, with the players reset
  to joined. `StatusMatrix` is the matrix of the code, and the invariants hold
  because the players are still marked ready.
- **An answer may be counted twice** (`RetriesFiltered`). Duplicates are looked up
  by question over the whole battle (battle/service.go:250, `AnsweredBefore`).
  GenerateSequence fills 200 places from a smaller pool, so questions come again,
  and the right index with an answer given the first time is then refused as a
  duplicate, against `docs/flows/submission_flow.md:95`. A page that takes the
  refusal for a recorded answer is one ahead; it sends its next answer under an
  index that comes up only later, is told the right one and sends it again, and
  both copies are accepted, as answers to two questions, against
  `docs/deep-dives/idempotency.md:25`. The run goes twice through a pool of two.
  Up to the first question that comes again the claim holds: that is what
  `JudgedAsAsked`, `CountedOnce` and `NeverAhead` say, place by place
  (`NewUpTo`, `NoneAgain`), of any stream. `BackInStep` is about what follows, too:
  the page finds the index again.

The others are read off the models, which have the behaviour; no run is spent
on them:

- The chosen length of a battle is ignored: server/routes.go:34 passes 300
  (`BattleDuration`), `docs/deep-dives/domain_invariants_vs_room_rules.md:20`
  has 120 or 300.
- CompleteBattle locks the rows of the players before the room, against
  `docs/deep-dives/room_transactions.md:86`. `NoLockDeadlock` holds all the same:
  no transaction that holds the room waits for rows of `battle_players`.
- Any failure to read the sequence is answered as the end of the questions
  (battle/service.go:235, `LookUpFails`), against `docs/api/battle.md:142`.
  `GetsThrough` holds for a page that asks GetNextQuestion before it believes it.
- A logout that a refresh overtakes, in a second tab or with its response lost,
  revokes nothing and answers 204 (auth/repository.go:207), against
  `docs/api/auth.md:121`. `LogoutEndsSignIn` holds for careful browsers.
- Two CreateRooms that draw one code both find it free; the unique violation of
  the slower one is not retried (rooms/service.go:110, `ReportDuplicate`),
  against `docs/database/transactions.md:52`.
- A question seeded while the server runs is played from the database
  (questions/service.go:56, `LookUp`), against
  `docs/reviews/phase5_architecture_review.md:9`; and a stream depends on the
  order the table returns its rows in (questions/repository.go:37, `StartBattle`),
  against `docs/interview-notes/project_stories.md:113`.

## 6. Proofs

`RoomsProofs` is about `Rooms` with any sets of rooms, users, codes and battles,
finite or not; the one assumption is that `Null` is none of the values of a
nullable column.

- `TypeCorrect`: `Spec => []TypeOK`, one step per action.
- `Invariance`: `Spec => []IInv`. No single property is inductive: that
  the host is seated (`HostSeated`) needs that a room in battle cannot be left,
  that a ready room has two ready players (`StatusMatchesPlayers`) needs the
  seats and users of active rows to be unique, and that a completion returns the
  room to a status its players justify needs the room to have been in battle
  (`BattleMatchesRoom`). `IInv` is their conjunction with the uniqueness of
  active rows and with what an unused room looks like. The hard steps are
  CompleteBattle, which reads nothing of the room it overwrites, and JoinRoom,
  where a free seat and fewer than two active rows must give a new pair.
- `HostAlwaysSeated`, `StatusAlwaysMatches`, `BattlesAlwaysMatch`,
  `IndexesAlwaysRedundant` follow.
- `RoomsImplementLobby`: `Spec => ImplementsLobby`. Each transaction is mapped to
  a step of `Lobby`; ExpireRooms and a host's departure both dissolve rooms, the
  clock is invisible. The invariant is needed where the code trusts a cache:
  StartBattle reads only the status, and `IInv` gives the two ready players of
  different accounts that `Lobby!Start` demands; CompleteBattle reads nothing,
  and `IInv` gives the room in battle that `Lobby!Finish` demands; a leave needs
  that only open rooms and rooms in battle seat anybody.
- `StatusAlwaysMoves`: `Spec => StatusMatrix`.

`AuthSessionsProofs` is about `AuthSessions` with any number of browsers,
concurrent requests, accounts and tokens. Its invariant adds to the two
properties what the statements of a request rely on: the row a refresh has
locked is still live when it inserts the new one, and no two requests hold the
same row (`OneHolder`). From that, inserting keeps exactly one current session
per sign-in (`RotatedRow`); a logout waits for the lock, and marks a row that
stays its sign-in's last (`MarkedRow`).

- `TypeCorrect`, `NeverTwoSessions` (`OneSessionPerSignIn`), `NeverNoSession`
  (`RotationLosesNothing`).

What is said of browsers takes a second invariant, `CookieInv`, on top of the
first: a token is in the hands of one browser only, in its cookie, its requests or
their responses (`OneBrowser`); a careful browser has one request under way
(`OneAtATime`); what each request stands for, statement by statement
(`CookieOK`); and when no response is on its way that replaces the cookie of a
careful browser, the cookie is that of the current session.

- `CookieIsCurrent` (`CookieNotBehind`), `DisabledIsOut` (`DisabledStaysOut`),
  `LogoutIsFinal` (`LogoutEndsSignIn`).

`RoomsTxProofs` is about `RoomsTx` with any numbers of requests, rooms, users and
attempts. The invariant says what a lock is good for: a request or pass that
holds a room holds it alone, what it has read is what the tables say, and the
rooms a pass has locked are still idle. With it each commit is the action of
`Rooms` whose guard the request has evaluated on what it read.

- `RequestsImplementRooms` (`ImplementsRooms`), by which every theorem about
  `Rooms` holds of the handlers statement by statement; `ReadsAlwaysHold`,
  `SweepsAlwaysHold`, `InsertsAlwaysAccepted`, `TxTypeCorrect`.

`RatingsProofs` is about any K-factor, scale, number of players and symmetric
curve of expected scores. Rounding half away from zero is odd, so the changes of
two players cancel (the lemmas on `Round`); what the floor adds is exactly what a
loser lacked.

- `AlwaysZeroSum`, `AlwaysPaired`, `AllRowsAccepted`, `TypeCorrect`.

`BattleProofs` is about `Battle` with any number of handlers, any stream and any
answers; it assumes that the stream consists of questions with a key and that
NULL is neither a process, a player nor a row. The invariant says of each player
that his card is what the answers of his log come to (`CountsOK`: numbers and
indexes; `PointerOK`: the questions before the pointer are settled, the one at it
has `attempts` wrong answers), and of each process what it has locked, that what
it read under a lock is still so, and which check its next statement relies on
(`ProcOK`). Two things carry the argument: a card changes only at `Write` and
`Finish`, under its lock, so the card a submission computed is one answer away
from the row it replaces; and `Finish` holds all cards, so no accepted submission
is still to be written when the result is computed.

- `CardsFollowLogs` (`CardMatchesLog`), `PointersFollowLogs` (`PointerMatchesLog`),
  `ResultsFollowScores` (`ResultsMatchScores`), `ReleasedOnce`
  (`RoomReleasedOnce`), `TypeCorrect`.
- `DeadlockFree` (`NoLockDeadlock`). Locks come in three ranks: the rows of the two
  players, then the room. A process that holds rows and waits is completing the
  battle; it waits for the second row, whose holder waits for no row of a player,
  or for the room, whose holder waits for nobody.
- `Implementation` (`ImplementsMatch`): `Write` is the answer `Match` accepts,
  `Finish` its closing, all else is invisible.

`GameplayProofs` is about `Gameplay` with any number of requests under way, any
answers and any streams over questions with a key. A submission whose index is
one more than the length of the log is the only one that can be recorded, and
the invariant says of it (`Timely`) that it was given at the place where the
player stands and not recorded yet; there is none with a higher index, and one
with a lower index is a duplicate. At most one request stands between the checks
and the commit (the row lock), so what was checked still holds. Reloads and lost
responses only make `page.count` smaller than the log, never greater. All this is
so until the player comes to a question he has had before (`NoneAgain`), whatever
the stream: in one that goes through its pool again and again it is the whole
first cycle, which has as many questions as the pool. There the unconditional
claim fails (section 5). What was recorded up to there stays: the two properties
about the log speak of those places of it even when the player is past them.

- `AnswersFindTheirQuestion` (`JudgedAsAsked`), `AnswersCountOnce` (`CountedOnce`),
  `PageIsNeverAhead` (`NeverAhead`), `TypeCorrect`.

`QuestionBankProofs` is about `QuestionBank` with any seed files, versions,
battles and stream lengths; there are finitely many questions, a shuffle returns
a permutation and NULL is not a row. The invariant adds to the properties that a
run of the seeder has passed its checks, that nothing cached, drawn or shown is
missing from the table, and that what was shown from the cache is still in it.

- `QuestionsAreWhole` (`NoHalfQuestion`), `SeedingIsIdempotent`
  (`SeedingConverges`; no file that passes the checks has an id twice),
  `CacheHoldsStill` (`JudgedAsShown`), `TypeCorrect`.
- `StreamsAreEven` (`EvenlyAsked`). Every cycle of GenerateSequence is a list of the
  pool with each question once. Two places of one question are in different
  cycles, so it has come up at most as often as cycles were begun; and every
  cycle that is complete has it, so at least as often as cycles were completed.
  Both are injections, of places into cycles and back.

`PoolProofs` is about `Pool` with any finite number of handlers, rooms and
connections. A call is correct by what it still has to run: the invariant
(`ProcOK`) says that some `Script` explains it, a sequence of places from where
the process is now to outside any transaction, on which no statement locks a row
of lower or equal rank than one locked before, and neither the worker nor the
check of a battle's time reads through the pool inside a transaction. The rank
(`Rank`) puts the players of a battle before rooms, rooms in the order of their
ids, and the rows and values of `Key` in theirs. That every call is such a script
is proved call by call, for lists of rooms of any length; that every step leaves
one, action by action, including the rest of the worker's pass after an error. `LineOK` and `ConnsOK` say that a
process waits once and holds each connection once.

- `ConnectionsComeBack` (`NothingLeaks`), `TypeCorrect`.
- `RowsNeverDeadlock`: for rows alone no calls wait for one another, with however
  few connections: in a set of calls that do, the one that waits at the highest
  rank waits for a call that waits at a higher one.
- `StarvationIsTheOnlyDeadlock` (`OnlyStarvation`): with any number of connections
  and requests, when calls do wait for one another, transactions hold every
  connection, all of them are among those calls, and one of them waits for a
  second connection. Single queries take no part: they hold a connection and
  wait for nothing. It follows from the ranks that a cycle goes through
  the pool, so that the pool is empty and everyone who holds a connection is in
  the cycle; and if none of them waited for a connection, the one that waits for
  the row of highest rank would wait for nobody. Section 5 has the case that
  remains, which nothing in the code excludes.

`Least`, that a non-empty set of numbers has a least element, is derived there
from the well-foundedness of the order, since induction over an operator is not
available.

Only model-checked is the liveness: `CallsReturn`, `OverdueLobbyEnds`,
`RoomComesBack`, `BattleEnds`, `GetsThrough`, `BackInStep`; the prover does not
handle liveness under fairness. Every safety invariant, action property and
refinement that a passing run checks is a theorem, but for `NoDeadlock`: it
depends on how many requests and connections there are, and `OnlyStarvation` is
what is proved of it for every number.

## 7. Not modelled, and the plan

Not modelled: HTTP and JSON apart from the two routes of `Gameplay`, hashing and
the access token, logging; comparing an answer with its key
(questions/validation.go), which is a pure function of two strings and enters as
the constant `Key`; filters by tag and difficulty, which no caller uses;
`users`, a stub; `platform/cache`, a client nobody uses; `configs` and `cmd`
beyond the call of the seeder; a player's rating, which no decision of rooms or
battle reads.

Next: theorems that join the modules, so that what is proved of one is not
assumed by the next: that a stream of `QuestionBank` is one `Battle` and
`Gameplay` may be given, and that the log of a player in `Battle` moves as the
server of `Gameplay`; and that the rows a call of `Pool` locks are those its
statements lock in `RoomsTx` and `Battle`.
