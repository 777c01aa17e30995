---------------------------- MODULE QuestionBank ----------------------------
(***************************************************************************)
(* The questions (src/backend/internal/questions): the table, the seeder   *)
(* that writes it as a process of its own, the cache a server fills when   *)
(* it starts, and the streams of questions battles are started with        *)
(* (battle.Service.StartBattleTx).  Cache and table drift apart while the  *)
(* server runs: a stream is drawn from the table, its questions are shown  *)
(* and judged from the cache.                                              *)
(***************************************************************************)
EXTENDS Integers, FiniteSets, SequencesExt

CONSTANTS
    Id,             \* ids of questions
    Text,           \* versions of a question: title, options, key ...
    Title,          \* Title[v]: the title of a version
    Sound,          \* the versions that pass the checks of the seeder
    File,           \* seed files: sequences of [id, text]
    Battle,         \* ids of battles
    Seed,           \* values of battle_seed
    Shuffle(_, _, _),   \* Shuffle(s, c, n): the c-th permutation of 1 .. n that
                        \* rand.New(rand.NewSource(s)) yields
    StreamSize,     \* MaxQuestionStreamSize
    Null

Entry == [id : Id, text : Text]

ASSUME BankAssumption ==
    /\ Sound \subseteq Text
    /\ File \subseteq Seq(Entry)
    /\ StreamSize \in Nat
    /\ Null \notin Id \cup Text

VARIABLES
    table,      \* table[q]: the row of questions, or Null
    stats,      \* the questions with a row in question_stats
    seeder,     \* the run of the seeder: its file and how much of it is written
    up,         \* whether the server is running
    cache,      \* cache[q]: the version in the map of the service, or Null
    battles,    \* the battles started, with their streams
    shown,      \* shown[b]: what a player of b was last shown
    judged      \* judged[b]: the version his answer to it was judged by

bank == <<table, stats, seeder>>
server == <<up, cache>>
play == <<shown, judged>>
vars == <<bank, server, battles, play>>

Row == [text : Text, active : BOOLEAN]

ASSUME RowAssumption == Null \notin Row

\* What rand.Shuffle makes of a list has every element of it once.
ASSUME ShuffleAssumption ==
    /\ IsFiniteSet(Id)
    /\ \A s \in Seed, c \in 1 .. StreamSize, n \in 1 .. Cardinality(Id) :
          Shuffle(s, c, n) \in SetToSeqs(1 .. n)

Stored == {q \in Id : table[q] # Null}

Active == {q \in Stored : table[q].active}

Init ==
    /\ table = [q \in Id |-> Null]
    /\ stats = {}
    /\ seeder = Null
    /\ up = FALSE
    /\ cache = [q \in Id |-> Null]
    /\ battles = [b \in Battle |-> Null]
    /\ shown = [b \in Battle |-> Null]
    /\ judged = [b \in Battle |-> Null]

-----------------------------------------------------------------------------
(* SeedQuestions.                                                          *)

\* The whole file is checked before the first question is written.
Accepts(f) ==
    /\ \A i \in DOMAIN f : f[i].text \in Sound
    /\ \A i, j \in DOMAIN f : i # j =>
          f[i].id # f[j].id /\ Title[f[i].text] # Title[f[j].text]

SeedQuestions(f) ==
    /\ seeder = Null
    /\ Accepts(f)
    /\ seeder' = [file |-> f, done |-> 0]
    /\ UNCHANGED <<table, stats, server, battles, play>>

\* Mutant: ON CONFLICT (id) DO NOTHING.
InsertOnly(old, v) == IF old = Null THEN [text |-> v, active |-> TRUE] ELSE old

\* INSERT ... ON CONFLICT (id) DO UPDATE, which leaves is_active alone.
Upsert(old, v) == [text |-> v, active |-> IF old = Null THEN TRUE ELSE old.active]

\* Mutant: the two statements of a question are not in one transaction.
StatsLater(q) == stats

\* INSERT INTO question_stats ... ON CONFLICT DO NOTHING, in the transaction of
\* the question.
WithStats(q) == stats \cup {q}

\* InsertOrUpdateQuestion commits the next question of the file.
SeedNext ==
    /\ seeder # Null
    /\ seeder.done < Len(seeder.file)
    /\ LET e == seeder.file[seeder.done + 1]
       IN  /\ table' = [table EXCEPT ![e.id] = Upsert(@, e.text)]
           /\ stats' = WithStats(e.id)
    /\ seeder' = [seeder EXCEPT !.done = @ + 1]
    /\ UNCHANGED <<server, battles, play>>

\* All questions are written and the process exits, or one fails and the rest of
\* the file is left out, or the process is killed.
SeederExits ==
    /\ seeder # Null
    /\ seeder' = Null
    /\ UNCHANGED <<table, stats, server, battles, play>>

\* An operator takes a question out of use.
Deactivate(q) ==
    /\ q \in Active
    /\ table' = [table EXCEPT ![q].active = FALSE]
    /\ UNCHANGED <<stats, seeder, server, battles, play>>

-----------------------------------------------------------------------------
(* The service.                                                            *)

\* FindActiveQuestionsByFilters returns the active questions; when the
\* connection breaks while it reads them it returns those read so far, because
\* rows.Err is not looked at.
Found == SUBSET Active

\* LoadCache, called when the server starts.
Start ==
    /\ ~up
    /\ up' = TRUE
    /\ \E qs \in Found : cache' = [q \in Id |-> IF q \in qs THEN table[q].text ELSE Null]
    /\ UNCHANGED <<bank, battles, play>>

\* The server stops; what players saw before is not compared with what is
\* judged after.
Stop ==
    /\ up
    /\ up' = FALSE
    /\ cache' = [q \in Id |-> Null]
    /\ shown' = [b \in Battle |-> Null]
    /\ judged' = [b \in Battle |-> Null]
    /\ UNCHANGED <<bank, battles>>

\* Mutant: the table is asked first.
LookUpFresh(q) == table[q].text

\* GetQuestionByID: the cache, and the table when it misses.
LookUp(q) == IF cache[q] # Null THEN cache[q] ELSE table[q].text

-----------------------------------------------------------------------------
(* The streams.                                                            *)

\* Mutant: every question is the first of a shuffle of its own.
DrawnAnew(s, list, k) == list[Shuffle(s, k, Len(list))[1]]

\* The k-th question of GenerateSequence: the pool is shuffled again and again,
\* each time from the order of the query.
Drawn(s, list, k) ==
    LET n == Len(list)
        c == ((k - 1) \div n) + 1
    IN  list[Shuffle(s, c, n)[((k - 1) % n) + 1]]

GenerateSequence(s, list) == [k \in 1 .. StreamSize |-> Drawn(s, list, k)]

\* The questions StartBattleTx draws from.
Pool == Found

\* StartBattleTx: PostgreSQL returns the pool in any order, the query asks for
\* none.  drawnFrom is kept for the properties.
StartBattle(b, s) ==
    /\ up
    /\ battles[b] = Null
    /\ \E pool \in Pool \ {{}} : \E list \in SetToSeqs(pool) :
          battles' = [battles EXCEPT ![b] =
              [stream |-> GenerateSequence(s, list), drawnFrom |-> pool]]
    /\ UNCHANGED <<bank, server, play>>

\* GetNextQuestion shows a question of the stream.
Show(b, k) ==
    /\ up
    /\ battles[b] # Null
    /\ LET q == battles[b].stream[k]
       IN  shown' = [shown EXCEPT ![b] = [id |-> q, text |-> LookUp(q), hit |-> cache[q] # Null]]
    /\ judged' = [judged EXCEPT ![b] = Null]
    /\ UNCHANGED <<bank, server, battles>>

\* SubmitAnswer judges the answer to it.
Judge(b) ==
    /\ up
    /\ shown[b] # Null
    /\ judged' = [judged EXCEPT ![b] = LookUp(shown[b].id)]
    /\ UNCHANGED <<bank, server, battles, shown>>

Next ==
    \/ \E f \in File : SeedQuestions(f)
    \/ SeedNext
    \/ SeederExits
    \/ \E q \in Id : Deactivate(q)
    \/ Start
    \/ Stop
    \/ \E b \in Battle, s \in Seed : StartBattle(b, s)
    \/ \E b \in Battle, k \in 1 .. StreamSize : Show(b, k)
    \/ \E b \in Battle : Judge(b)

Spec == Init /\ [][Next]_vars

-----------------------------------------------------------------------------
(* Properties.                                                             *)

BattleRow == [stream : [1 .. StreamSize -> Id], drawnFrom : SUBSET Id]

\* The rows, the cache and the streams are well formed.
TypeOK ==
    /\ table \in [Id -> Row \cup {Null}]
    /\ stats \subseteq Id
    /\ seeder # Null => seeder.file \in File /\ seeder.done \in 0 .. Len(seeder.file)
    /\ up \in BOOLEAN
    /\ cache \in [Id -> Text \cup {Null}]
    /\ battles \in [Battle -> BattleRow \cup {Null}]
    /\ shown \in [Battle -> [id : Id, text : Text, hit : BOOLEAN] \cup {Null}]
    /\ judged \in [Battle -> Text \cup {Null}]

\* Whatever the seeder leaves undone, and however often it is run again, every
\* question in the table has its statistics and has passed the checks.
NoHalfQuestion == stats = Stored /\ \A q \in Stored : table[q].text \in Sound

\* A run of the seeder that gets through its file leaves every question of the
\* file as the file has it, whatever earlier runs, complete or not, had written.
SeedingConverges ==
    seeder # Null =>
        \A i \in 1 .. seeder.done : table[seeder.file[i].id].text = seeder.file[i].text

\* While the server runs, seeding does not change a question of the cache under
\* a player: his answer is judged by the version he was shown.
JudgedAsShown ==
    \A b \in Battle : judged[b] # Null /\ shown[b].hit => judged[b] = shown[b].text

\* How often q is among the first n questions of a stream.
Times(stream, q, n) == Cardinality({k \in 1 .. n : stream[k] = q})

\* At any point of a battle no question has come up twice more than another:
\* nothing is repeated before everything has been asked.
EvenlyAsked ==
    \A b \in Battle : battles[b] # Null =>
        \A q, r \in battles[b].drawnFrom, n \in 1 .. StreamSize :
            Times(battles[b].stream, q, n) <= Times(battles[b].stream, r, n) + 1
=============================================================================
