------------------------------ MODULE Gameplay ------------------------------
(***************************************************************************)
(* A player's page and the two routes of a battle                          *)
(* (src/backend/internal/battle/routes.go): requests and responses are     *)
(* delayed and lost, the page sends an answer again when it hears nothing, *)
(* and is reloaded in the middle of it.  The server is what the player     *)
(* gets to see of Match, which Battle implements: the log of his answers,  *)
(* written by one transaction at a time.  The page itself is no part of    *)
(* the repository; it numbers its submissions as the API asks.             *)
(***************************************************************************)
EXTENDS Naturals, Sequences, FiniteSets

CONSTANTS
    Request,    \* requests under way at the same time
    Streams,    \* the streams of questions a battle may have
    Answer,
    Key,        \* Key[q]: the answers that are right for q
    Null

VARIABLES
    stream,     \* the questions of the battle
    log,        \* the submissions of the player, oldest first
    late,       \* whether ended_at has passed
    net,        \* net[s]: a request and then its response, or Null
    page        \* what the page knows

vars == <<stream, log, late, net, page>>

\* For the sake of Position, which depends on none of its parameters.
TheMatch == INSTANCE Match WITH
    Stream <- <<>>, open <- TRUE, log <- [p \in {1, 2} |-> <<>>], outcome <- Null

\* Where the player is: battle_players.current_question_index + 1.
Place == TheMatch!Position(log)

Status == {"question", "recorded", "duplicate", "invalid", "failed", "exhausted", "over"}

\* index and answer are what the player submits.  asked is not part of the
\* request: the place in the stream the answer was meant for.  value is what
\* the response tells: a place or an index.
Message ==
    [kind : {"get", "post"}, index : Nat, answer : Answer \cup {Null}, asked : Nat,
     at : {"sent", "checked"} \cup Status, value : Nat]

\* One row of submissions; asked as above.
Submission ==
    [at : Nat, asked : Nat, answer : Answer, right : BOOLEAN]

Draft == [index : Nat, answer : Answer, asked : Nat]

ASSUME StreamsAssumption == Streams \subseteq Seq(DOMAIN Key)

ASSUME NullAssumption == Null \notin Answer \cup Request \cup Draft \cup Message

\* count: the submissions the page knows of; shown: the place of the question on
\* the page, or 0; draft: the answer it is submitting; waits: the request whose
\* response it waits for; told: why it has stopped.
FreshPage == [count |-> 0, shown |-> 0, draft |-> Null, waits |-> Null, told |-> Null]

Init ==
    /\ stream \in Streams
    /\ log = <<>>
    /\ late = FALSE
    /\ net = [s \in Request |-> Null]
    /\ page = FreshPage

-----------------------------------------------------------------------------
(* The page.                                                               *)

Idle == page.told = Null /\ page.waits = Null

Send(s, m) ==
    /\ net[s] = Null
    /\ net' = [net EXCEPT ![s] = m]
    /\ page' = [page EXCEPT !.waits = s]
    /\ UNCHANGED <<stream, log, late>>

SendGet(s) ==
    /\ Idle /\ page.shown = 0
    /\ Send(s, [kind |-> "get", index |-> 0, answer |-> Null, asked |-> 0,
                at |-> "sent", value |-> 0])

\* The player answers the question on the page, and does not try again what he
\* has tried on it: as long as it is the question he is at.
Decide(a) ==
    /\ Idle /\ page.shown # 0 /\ page.draft = Null
    /\ page.shown = Place => \A k \in DOMAIN log : log[k].at = Place => log[k].answer # a
    /\ page' = [page EXCEPT !.draft =
                   [index |-> page.count + 1, answer |-> a, asked |-> page.shown]]
    /\ UNCHANGED <<stream, log, late, net>>

\* For the first time, or again because the last time told the page nothing.
SendPost(s) ==
    /\ Idle /\ page.draft # Null
    /\ Send(s, [kind |-> "post", index |-> page.draft.index, answer |-> page.draft.answer,
                asked |-> page.draft.asked, at |-> "sent", value |-> 0])

\* What the page makes of a response.  A duplicate has been made, so it counts;
\* told that the questions have come to an end, it asks for the next one.
After(m) ==
    LET next == [page EXCEPT !.waits = Null]
        counted(n) == [next EXCEPT !.count = n, !.shown = 0, !.draft = Null]
    IN  CASE m.at = "question"                   -> [next EXCEPT !.shown = m.value]
          [] m.at \in {"recorded", "duplicate"}  -> counted(m.index)
          [] m.at = "invalid"                    -> counted(m.value - 1)
          [] m.at = "failed"                     -> next
          [] m.at = "over"                       -> [next EXCEPT !.told = "over"]
          [] m.at = "exhausted" /\ m.kind = "get"  -> [next EXCEPT !.told = "exhausted"]
          [] m.at = "exhausted" /\ m.kind = "post" -> [next EXCEPT !.shown = 0, !.draft = Null]

Receive(s) ==
    /\ page.waits = s
    /\ net[s].at \in Status
    /\ page' = After(net[s])
    /\ net' = [net EXCEPT ![s] = Null]
    /\ UNCHANGED <<stream, log, late>>

\* The page stops listening to its request, which is served nevertheless.
Timeout ==
    /\ page.waits # Null
    /\ net[page.waits].at \notin Status
    /\ page' = [page EXCEPT !.waits = Null]
    /\ UNCHANGED <<stream, log, late, net>>

\* The page forgets what it knew.
Reload ==
    /\ page.told = Null
    /\ page.count # 0 \/ page.shown # 0
    /\ page' = FreshPage
    /\ net' = [s \in Request |->
                 IF s = page.waits /\ net[s].at \in Status THEN Null ELSE net[s]]
    /\ UNCHANGED <<stream, log, late>>

\* The connection breaks: the request does not arrive, its transaction is
\* cancelled, or its response is lost.  The page notices.
Lose(s) ==
    /\ net[s] # Null
    /\ net' = [net EXCEPT ![s] = Null]
    /\ page' = IF page.waits = s THEN [page EXCEPT !.waits = Null] ELSE page
    /\ UNCHANGED <<stream, log, late>>

-----------------------------------------------------------------------------
(* The handlers.                                                           *)

At(s, kind, stage) == net[s] # Null /\ net[s].kind = kind /\ net[s].at = stage

\* A response to a request nobody waits for any more is dropped.
Replied(s, status, value) ==
    [net EXCEPT ![s] = IF page.waits = s THEN [@ EXCEPT !.at = status, !.value = value]
                                         ELSE Null]

Reply(s, status, value) ==
    net' = Replied(s, status, value) /\ UNCHANGED <<stream, late, page>>

\* GetNextQuestion, which reads the player's place without a lock.
GetNextQuestion(s) ==
    /\ At(s, "get", "sent")
    /\ CASE late                              -> Reply(s, "over", 0)
         [] ~late /\ Place > Len(stream)      -> Reply(s, "exhausted", 0)
         [] ~late /\ Place \in DOMAIN stream  -> Reply(s, "question", Place)
    /\ UNCHANGED log

\* Mutant: an old index is taken for a mistake of the client.
VerdictNoDuplicates(m) ==
    IF late THEN "over"
    ELSE IF Place > Len(stream) THEN "exhausted"
    ELSE IF m.index < Len(log) + 1 THEN "failed"
    ELSE IF m.index > Len(log) + 1 THEN "invalid"
    ELSE "goes on"

\* Mutant: the index is not looked at.
VerdictAnyIndex(m) ==
    IF late THEN "over" ELSE IF Place > Len(stream) THEN "exhausted" ELSE "goes on"

\* Mutant: answers are compared with those to all questions.
AnsweredEver(a) == \E k \in DOMAIN log : log[k].answer = a

\* By question, not by place.
AnsweredBefore(a) ==
    \E k \in DOMAIN log : stream[log[k].at] = stream[Place] /\ log[k].answer = a

\* What SubmitAnswer decides once it has the lock of the player's row.
Verdict(m) ==
    IF late THEN "over"
    ELSE IF Place > Len(stream) THEN "exhausted"
    ELSE IF m.index < Len(log) + 1 THEN "duplicate"
    ELSE IF m.index > Len(log) + 1 THEN "invalid"
    ELSE IF AnsweredBefore(m.answer) THEN "duplicate"
    ELSE "goes on"

Locked == \E s \in Request : At(s, "post", "checked")

\* The text of "invalid" names the index that was expected.
CheckAnswer(s) ==
    /\ At(s, "post", "sent")
    /\ ~Locked
    /\ IF Verdict(net[s]) = "goes on"
       THEN net' = [net EXCEPT ![s].at = "checked"] /\ UNCHANGED <<stream, late, page>>
       ELSE Reply(s, Verdict(net[s]), Len(log) + 1)
    /\ UNCHANGED log

\* The sequence cannot be read.
LookUpFails(s) ==
    /\ At(s, "post", "sent")
    /\ ~Locked /\ ~late
    /\ Place <= Len(stream)
    /\ Reply(s, "exhausted", 0)
    /\ UNCHANGED log

Recorded(m) ==
    Append(log, [at |-> Place, asked |-> m.asked, answer |-> m.answer,
                 right |-> m.answer \in Key[stream[Place]]])

\* The commit, which may report an error although it took place.
CommitAnswer(s, status) ==
    /\ At(s, "post", "checked")
    /\ log' = Recorded(net[s])
    /\ Reply(s, status, 0)

\* Any other error: rolled back, and answered with 400 like a bad request.
Fail(s) ==
    /\ net[s] # Null
    /\ net[s].at \in {"sent", "checked"}
    /\ Reply(s, "failed", 0)
    /\ UNCHANGED log

TimeUp ==
    /\ ~late
    /\ late' = TRUE
    /\ UNCHANGED <<stream, log, net, page>>

Serve(s) ==
    GetNextQuestion(s) \/ CheckAnswer(s) \/ CommitAnswer(s, "recorded")

Next ==
    \/ \E s \in Request : SendGet(s) \/ SendPost(s) \/ Receive(s) \/ Lose(s)
    \/ \E a \in Answer : Decide(a)
    \/ Timeout
    \/ Reload
    \/ \E s \in Request : Serve(s) \/ CommitAnswer(s, "failed")
    \/ \E s \in Request : LookUpFails(s) \/ Fail(s)
    \/ TimeUp

Spec == Init /\ [][Next]_vars

Hear(kind, what) ==
    \E s \in Request :
        net[s] # Null /\ net[s].kind = kind /\ net[s].at \in what /\ Receive(s)

(***************************************************************************)
(* The player goes on playing, and the page waits longer each time: it is  *)
(* reloaded, and gives up a request, finitely often.  Of the requests sent *)
(* again and again some arrive, are served without an error, and their     *)
(* responses arrive.                                                       *)
(***************************************************************************)
FairSpec ==
    /\ Spec
    /\ WF_vars(\E s \in Request : SendGet(s) \/ SendPost(s))
    /\ WF_vars(\E a \in Answer : Decide(a))
    /\ SF_vars(\E s \in Request : GetNextQuestion(s))
    /\ SF_vars(\E s \in Request : CheckAnswer(s))
    /\ SF_vars(\E s \in Request : CommitAnswer(s, "recorded"))
    /\ WF_vars(\E s \in Request : Receive(s))
    /\ SF_vars(Hear("get", {"question", "exhausted", "over"}))
    /\ SF_vars(Hear("post", {"recorded", "duplicate", "invalid", "over"}))
    /\ SF_vars(Hear("post", {"exhausted"}))
    /\ <>[][~Reload /\ ~Timeout]_vars

-----------------------------------------------------------------------------
(* Properties.                                                             *)

\* The rows, the messages and the page are well formed.
TypeOK ==
    /\ log \in Seq(Submission)
    /\ late \in BOOLEAN
    /\ net \in [Request -> Message \cup {Null}]
    /\ page.count \in Nat /\ page.shown \in 0 .. Len(stream)
    /\ page.draft \in Draft \cup {Null}
    /\ page.waits \in {s \in Request : net[s] # Null} \cup {Null}
    /\ page.told \in {Null, "exhausted", "over"}

\* No question comes twice up to place n of the stream.  A stream goes through
\* all questions of its pool before one comes again.
NewUpTo(n) ==
    \A j, k \in 1 .. n \cap DOMAIN stream : j # k => stream[j] # stream[k]

\* The player has not come to a question he has had before.
NoneAgain == NewUpTo(Place)

\* However often an answer is sent again and whatever arrives late, none is
\* judged as the answer to another question than the one it was given to, at
\* every place before a question comes again.
JudgedAsAsked == \A k \in DOMAIN log : NewUpTo(log[k].at) => log[k].at = log[k].asked

\* No answer is counted twice, up to there: not when the response to it was
\* lost, and not when the page that sent it is gone.
CountedOnce ==
    \A j, k \in DOMAIN log : j # k /\ NewUpTo(log[j].at) /\ NewUpTo(log[k].at) =>
        log[j].asked # log[k].asked \/ log[j].answer # log[k].answer

\* What the page takes for recorded is recorded, until a question comes again:
\* then a right index may be refused as a duplicate.
NeverAhead == NoneAgain => page.count <= Len(log)

\* A player who goes on gets through all questions or to the end of the battle,
\* whatever is lost on the way and however often he starts over: not to an end of
\* the questions that SubmitAnswer reports because it cannot read them.  Or he
\* comes to a question again, and all his answers to it may have been given.
GetsThrough ==
    <>(\/ page.told = "over"
       \/ page.told = "exhausted" /\ Place > Len(stream)
       \/ ~NoneAgain)

\* A page that has lost count, by a reload or by a duplicate that was none, finds
\* it again.
BackInStep == []<>(page.told # Null \/ page.count = Len(log))

-----------------------------------------------------------------------------
(* What the documentation says and the code does not do.                   *)

\* No answer is counted twice, anywhere in the stream.  The code refuses a right
\* index as a duplicate when the question was answered the same way at an earlier
\* place; a page that takes this for recorded runs ahead, and of its next answer
\* two submissions, with two indexes, may both be the expected one.
RetriesFiltered ==
    \A j, k \in DOMAIN log :
        j # k => log[j].asked # log[k].asked \/ log[j].answer # log[k].answer
=============================================================================
