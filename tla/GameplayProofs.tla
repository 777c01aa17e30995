--------------------------- MODULE GameplayProofs ---------------------------
(***************************************************************************)
(* Theorems about Gameplay, for any stream of questions, any answers and   *)
(* any number of requests under way: whatever is lost, delayed or sent     *)
(* again, until a question comes again an answer is judged for the one it  *)
(* was given to, is counted once, and is not taken for recorded before it  *)
(* is.                                                                     *)
(***************************************************************************)
EXTENDS Gameplay, SequenceTheorems, TLAPS

-----------------------------------------------------------------------------
(***************************************************************************)
(* The inductive invariant.                                                *)
(***************************************************************************)

Page == [count : Nat, shown : Nat, draft : Draft \cup {Null},
         waits : Request \cup {Null}, told : {Null, "exhausted", "over"}]

\* A submission that can still be recorded is for the place where the player is,
\* and has not been tried there.
Timely(d) ==
    /\ d.index <= Len(log) + 1
    /\ d.index = Len(log) + 1 =>
          d.asked = Place /\ \A k \in DOMAIN log : log[k].at = Place => log[k].answer # d.answer

\* The request or response of s, whatever the stream.
MessageOK(s) ==
    net[s] # Null =>
        /\ net[s].kind = "post" => net[s].answer \in Answer
        /\ net[s].at \in Status => page.waits = s
        /\ net[s].at = "question" => net[s].value \in 1 .. Len(stream)
        /\ net[s].at = "invalid" => net[s].value >= 1
        /\ net[s].at = "checked" =>
              /\ net[s].kind = "post" /\ net[s].index = Len(log) + 1
              /\ Place <= Len(stream) /\ ~AnsweredBefore(net[s].answer)

\* The request or response of s, as long as no question has come again.
InStep(s) ==
    net[s] # Null =>
        /\ net[s].kind = "post" => Timely(net[s])
        /\ net[s].at \in {"recorded", "duplicate"} => net[s].index <= Len(log)
        /\ net[s].at = "invalid" => net[s].value <= Len(log) + 1
        /\ net[s].at = "question" /\ page.count = Len(log) => net[s].value = Place

\* The page, as long as no question has come again.
PageInStep ==
    /\ page.count <= Len(log)
    /\ page.count = Len(log) /\ page.shown # 0 => page.shown = Place
    /\ page.draft # Null => Timely(page.draft)

\* One transaction at a time has the player's row.
OneWriter ==
    \A s, t \in Request : At(s, "post", "checked") /\ At(t, "post", "checked") => s = t

\* The answers of the log: none is tried twice at one place.
LogOK ==
    /\ \A k \in DOMAIN log : log[k].at \in 1 .. Len(stream) /\ log[k].at <= Place
    /\ \A j, k \in DOMAIN log :
          j # k /\ log[j].at = log[k].at => log[j].answer # log[k].answer

IInv ==
    /\ TypeOK /\ page \in Page /\ stream \in Seq(DOMAIN Key)
    /\ OneWriter /\ LogOK /\ JudgedAsAsked
    /\ \A s \in Request : MessageOK(s)
    /\ NoneAgain => PageInStep /\ \A s \in Request : InStep(s)

-----------------------------------------------------------------------------
(***************************************************************************)
(* The player's place, and the log as it stands.                           *)
(***************************************************************************)

\* The player's place is a place.
LEMMA PlaceIsPlace ==
    ASSUME TypeOK, LogOK
    PROVE  Place \in Nat \ {0}
<1>1. CASE log = <<>>
  BY <1>1 DEF Place, TheMatch!Position
<1>2. CASE log # <<>>
  <2>1. log \in Seq(Submission) /\ Len(log) \in DOMAIN log
    BY <1>2, EmptySeq DEF TypeOK
  <2>2. PICK i, r : i = log[Len(log)].at /\ r = log[Len(log)].right
    OBVIOUS
  <2>3. i \in Nat \ {0}
    BY <2>1, <2>2 DEF LogOK, Submission
  <2>4. Place = IF r \/ TheMatch!Cardinality({k \in DOMAIN log : log[k].at = i}) = 2
                THEN i + 1 ELSE i
    BY <1>2, <2>2 DEF Place, TheMatch!Position
  <2>5. QED
    BY <2>3, <2>4
<1>3. QED
  BY <1>1, <1>2

\* What is said about the log stays true while nothing is recorded.
LEMMA SameLog ==
    ASSUME log' = log, stream' = stream
    PROVE  /\ Place' = Place /\ (LogOK => LogOK') /\ (JudgedAsAsked => JudgedAsAsked')
           /\ NoneAgain' = NoneAgain
           /\ \A a : AnsweredBefore(a)' = AnsweredBefore(a)
           /\ \A d : Timely(d)' = Timely(d)
<1>1. Place' = Place
  BY DEF Place, TheMatch!Position
<1>2. QED
  BY <1>1 DEF LogOK, JudgedAsAsked, NoneAgain, NewUpTo, AnsweredBefore, Timely

\* The conditions on what a step writes into the slot s of the net.
Fits(s) ==
    /\ net'[s].at = "checked" => ~Locked
    /\ MessageOK(s)'
    /\ NoneAgain => InStep(s)'

\* The invariant is kept by a step that records nothing, writes one message at
\* most and drops others, when the message and the page fit.
LEMMA QuietIInv ==
    ASSUME IInv, NEW s,
           log' = log, stream' = stream, late' \in BOOLEAN,
           net' \in [Request -> Message \cup {Null}],
           page' \in Page, page'.shown <= Len(stream),
           page'.waits # Null => page'.count = page.count /\ net'[page'.waits] # Null,
           NoneAgain => PageInStep',
           \A t \in Request : t # s => net'[t] \in {Null, net[t]},
           s \in Request /\ net'[s] \notin {Null, net[s]} => Fits(s),
           \A t \in Request :
               net'[t] = net[t] /\ net[t] # Null /\ net[t].at \in Status => page'.waits = t
    PROVE  IInv'
<1>1. /\ Place' = Place /\ LogOK' /\ NoneAgain' = NoneAgain
      /\ \A a : AnsweredBefore(a)' = AnsweredBefore(a)
      /\ \A d : Timely(d)' = Timely(d)
      /\ JudgedAsAsked'
  BY SameLog DEF IInv
<1>2. TypeOK' /\ (page \in Page)' /\ (stream \in Seq(DOMAIN Key))'
  <2>1. page'.waits \in {t \in Request : net'[t] # Null} \cup {Null}
    BY DEF Page
  <2>2. page'.shown \in 0 .. Len(stream') /\ Len(stream) \in Nat
    BY DEF Page, IInv
  <2>3. QED
    BY <2>1, <2>2 DEF TypeOK, Page, IInv
<1>3. ASSUME NEW t \in Request, net'[t] = net[t], net[t] # Null
      PROVE  MessageOK(t)' /\ (NoneAgain => InStep(t)')
  <2>1. MessageOK(t) /\ (NoneAgain => InStep(t))
    BY DEF IInv
  <2>2. net[t].at \in Status => page'.waits = t
    BY <1>3
  <2>3. MessageOK(t)'
    BY <1>1, <1>3, <2>1, <2>2 DEF MessageOK
  <2>4. net[t].at = "question" => page'.count = page.count
    <3>1. t # Null
      BY NullAssumption
    <3>2. QED
      BY <2>2, <3>1 DEF Status
  <2>5. NoneAgain => InStep(t)'
    BY <1>1, <1>3, <2>1, <2>4 DEF InStep
  <2>6. QED
    BY <2>3, <2>5
<1>4. \A t \in Request : MessageOK(t)' /\ (NoneAgain => InStep(t)')
  <2>1. ASSUME NEW t \in Request, net'[t] = Null
        PROVE  MessageOK(t)' /\ InStep(t)'
    BY <2>1 DEF MessageOK, InStep
  <2>2. \A t \in Request : net'[t] \notin {Null, net[t]} => t = s
    OBVIOUS
  <2>3. QED
    BY <1>3, <2>1, <2>2 DEF Fits
<1>5. OneWriter'
  <2>1. SUFFICES ASSUME NEW t \in Request, NEW u \in Request,
                        At(t, "post", "checked")', At(u, "post", "checked")'
                 PROVE  t = u
    BY DEF OneWriter
  <2>2. /\ net'[t] # Null /\ net'[t].kind = "post" /\ net'[t].at = "checked"
        /\ net'[u] # Null /\ net'[u].kind = "post" /\ net'[u].at = "checked"
    BY <2>1 DEF At
  <2>3. CASE net'[t] = net[t] /\ net'[u] = net[u]
    BY <2>2, <2>3 DEF IInv, OneWriter, At
  <2>4. CASE net'[t] # net[t]
    <3>1. t = s /\ ~Locked
      BY <2>2, <2>4 DEF Fits
    <3>2. u # s => net'[u] = net[u]
      BY <2>2
    <3>3. QED
      BY <2>2, <3>1, <3>2 DEF Locked, At
  <2>5. CASE net'[u] # net[u]
    <3>1. u = s /\ ~Locked
      BY <2>2, <2>5 DEF Fits
    <3>2. t # s => net'[t] = net[t]
      BY <2>2
    <3>3. QED
      BY <2>2, <3>1, <3>2 DEF Locked, At
  <2>6. QED
    BY <2>3, <2>4, <2>5
<1>6. QED
  BY <1>1, <1>2, <1>4, <1>5 DEF IInv

-----------------------------------------------------------------------------
(***************************************************************************)
(* The steps of the page.                                                  *)
(***************************************************************************)

\* A message that is sent fits.
LEMMA SendIInv ==
    ASSUME IInv, NEW s \in Request, NEW m \in Message, Send(s, m), Idle,
           m.at = "sent", m.kind = "post" => m.answer \in Answer,
           NoneAgain /\ m.kind = "post" => Timely(m)
    PROVE  IInv'
<1>1. /\ net' = [net EXCEPT ![s] = m] /\ page' = [page EXCEPT !.waits = s]
      /\ log' = log /\ stream' = stream /\ late' = late /\ net[s] = Null
  BY DEF Send
<1>2. net \in [Request -> Message \cup {Null}] /\ page \in Page /\ late \in BOOLEAN
  BY DEF IInv, TypeOK
<1>3. m # Null /\ s # Null
  BY NullAssumption
<1>4. page' \in Page /\ page'.shown = page.shown /\ page'.count = page.count
      /\ page'.waits = s /\ page'.draft = page.draft
  BY <1>1, <1>2 DEF Page
<1>5. /\ net' \in [Request -> Message \cup {Null}] /\ net'[s] = m
      /\ \A t \in Request : t # s => net'[t] = net[t]
  BY <1>1, <1>2
<1>6. Timely(m)' = Timely(m) /\ \A d : Timely(d)' = Timely(d)
  BY <1>1, SameLog
<1>7. Place' = Place
  BY <1>1, SameLog
<1>8. NoneAgain => PageInStep'
  BY <1>1, <1>4, <1>6, <1>7 DEF IInv, PageInStep
<1>9. Fits(s)
  <2>1. MessageOK(s)'
    BY <1>5 DEF MessageOK, Status
  <2>2. NoneAgain => InStep(s)'
    BY <1>5, <1>6 DEF InStep
  <2>3. QED
    BY <1>5, <2>1, <2>2 DEF Fits
<1>10. \A t \in Request : ~(net[t] # Null /\ net[t].at \in Status)
  BY NullAssumption DEF IInv, MessageOK, Idle
<1>11. page'.shown <= Len(stream)
  BY <1>4 DEF IInv, TypeOK
<1>12. QED
  BY <1>1, <1>2, <1>3, <1>4, <1>5, <1>8, <1>9, <1>10, <1>11, QuietIInv

\* A request for the question.
LEMMA SendGetIInv ==
    ASSUME IInv, NEW s \in Request, SendGet(s)
    PROVE  IInv'
<1>1. PICK m : m = [kind |-> "get", index |-> 0, answer |-> Null, asked |-> 0,
                    at |-> "sent", value |-> 0]
  OBVIOUS
<1>2. m \in Message /\ m.at = "sent" /\ m.kind = "get"
  BY <1>1 DEF Message
<1>3. Send(s, m) /\ Idle
  BY <1>1 DEF SendGet
<1>4. QED
  BY <1>2, <1>3, SendIInv

\* The submission of a draft.
LEMMA SendPostIInv ==
    ASSUME IInv, NEW s \in Request, SendPost(s)
    PROVE  IInv'
<1>1. PICK m : m = [kind |-> "post", index |-> page.draft.index, answer |-> page.draft.answer,
                    asked |-> page.draft.asked, at |-> "sent", value |-> 0]
  OBVIOUS
<1>2. page.draft \in Draft
  BY DEF SendPost, IInv, TypeOK
<1>3. /\ m \in Message /\ m.at = "sent" /\ m.index = page.draft.index
      /\ m.asked = page.draft.asked /\ m.answer = page.draft.answer /\ m.answer \in Answer
  BY <1>1, <1>2 DEF Message, Draft
<1>4. Send(s, m) /\ Idle /\ page.draft # Null
  BY <1>1 DEF SendPost
<1>5. NoneAgain => Timely(m)
  BY <1>3, <1>4 DEF IInv, PageInStep, Timely
<1>6. QED
  BY <1>3, <1>4, <1>5, SendIInv

\* An answer to the question on the page, which is the one the player is at
\* unless the page has lost count.
LEMMA DecideIInv ==
    ASSUME IInv, NEW a \in Answer, Decide(a)
    PROVE  IInv'
<1>1. PICK d : d = [index |-> page.count + 1, answer |-> a, asked |-> page.shown]
  OBVIOUS
<1>2. /\ page' = [page EXCEPT !.draft = d] /\ page.shown # 0
      /\ log' = log /\ stream' = stream /\ late' = late /\ net' = net
      /\ page.shown = Place => \A k \in DOMAIN log : log[k].at = Place => log[k].answer # a
  BY <1>1 DEF Decide
<1>3. page \in Page /\ late \in BOOLEAN /\ net \in [Request -> Message \cup {Null}]
  BY DEF IInv, TypeOK
<1>4. d \in Draft /\ d.index = page.count + 1 /\ d.answer = a /\ d.asked = page.shown
  BY <1>1, <1>3 DEF Draft, Page
<1>5. /\ page' \in Page /\ page'.draft = d /\ page'.count = page.count
      /\ page'.shown = page.shown /\ page'.waits = page.waits /\ page.waits = Null
  BY <1>2, <1>3, <1>4 DEF Page, Decide, Idle
<1>6. NoneAgain => Timely(d)
  <2>1. Len(log) \in Nat /\ page.count \in Nat
    BY <1>3 DEF IInv, TypeOK, Page
  <2>2. NoneAgain => /\ page.count <= Len(log)
                     /\ page.count = Len(log) => page.shown = Place
    BY <1>2 DEF IInv, PageInStep
  <2>3. QED
    BY <1>2, <1>4, <2>1, <2>2 DEF Timely
<1>7. Timely(d)' = Timely(d) /\ Place' = Place
  BY <1>2, SameLog
<1>8. NoneAgain => PageInStep'
  BY <1>2, <1>5, <1>6, <1>7 DEF IInv, PageInStep
<1>9. \A t \in Request : ~(net[t] # Null /\ net[t].at \in Status)
  BY <1>5, NullAssumption DEF IInv, MessageOK
<1>10. page'.shown <= Len(stream)
  BY <1>5 DEF IInv, TypeOK
<1>11. QED
  BY <1>2, <1>3, <1>5, <1>8, <1>9, <1>10, QuietIInv

\* What the page makes of a response fits: the counts it is told are no higher
\* than the log, and the question it is shown is the player's, unless the log has
\* gone on in the meantime.
LEMMA AfterFits ==
    ASSUME IInv, NEW s \in Request, Receive(s)
    PROVE  /\ page' \in Page /\ page'.waits = Null /\ page'.shown <= Len(stream)
           /\ NoneAgain => PageInStep'
<1>1. PICK m : m = net[s]
  OBVIOUS
<1>2. /\ page.waits = s /\ m.at \in Status /\ page' = After(m)
      /\ log' = log /\ stream' = stream
  BY <1>1 DEF Receive
<1>3. m \in Message /\ m # Null
  <2>1. m \in Message \cup {Null} /\ m # Null
    BY <1>1, <1>2, NullAssumption DEF IInv, TypeOK
  <2>2. QED
    BY <2>1
<1>4. page \in Page /\ page.shown <= Len(stream) /\ Len(stream) \in Nat /\ Len(log) \in Nat
  BY DEF IInv, TypeOK
<1>5. MessageOK(s) /\ (NoneAgain => InStep(s) /\ PageInStep)
  BY DEF IInv
<1>6. Place' = Place /\ \A d : Timely(d)' = Timely(d)
  BY <1>2, SameLog
<1>7. PICK next : next = [page EXCEPT !.waits = Null]
  OBVIOUS
<1>8. /\ next \in Page /\ next.waits = Null /\ next.shown = page.shown
      /\ next.count = page.count /\ next.draft = page.draft
  BY <1>4, <1>7 DEF Page
<1>9. ASSUME page' \in Page, page'.waits = Null, page'.draft = page.draft,
             page'.count = page.count, page'.shown \in {0, page.shown}
      PROVE  /\ page'.shown <= Len(stream)
             /\ NoneAgain => PageInStep'
  BY <1>2, <1>4, <1>5, <1>6, <1>9 DEF PageInStep
<1>10. ASSUME NEW n \in Nat, NoneAgain => n <= Len(log),
              page' = [next EXCEPT !.count = n, !.shown = 0, !.draft = Null]
       PROVE  /\ page' \in Page /\ page'.waits = Null /\ page'.shown <= Len(stream)
              /\ NoneAgain => PageInStep'
  <2>1. page' \in Page /\ page'.waits = Null /\ page'.shown = 0 /\ page'.count = n
        /\ page'.draft = Null
    BY <1>8, <1>10 DEF Page
  <2>2. QED
    BY <1>2, <1>4, <1>10, <2>1 DEF PageInStep
<1>11. CASE m.at = "question"
  <2>1. page' = [next EXCEPT !.shown = m.value]
    BY <1>2, <1>7, <1>11 DEF After
  <2>2. m.value \in 1 .. Len(stream)
    BY <1>1, <1>3, <1>5, <1>11 DEF MessageOK
  <2>3. /\ page' \in Page /\ page'.waits = Null /\ page'.shown = m.value
        /\ page'.count = page.count /\ page'.draft = page.draft
    BY <1>4, <1>8, <2>1, <2>2 DEF Page
  <2>4. NoneAgain => PageInStep'
    BY <1>1, <1>2, <1>3, <1>5, <1>6, <1>11, <2>3 DEF PageInStep, InStep
  <2>5. QED
    BY <1>4, <2>2, <2>3, <2>4
<1>12. CASE m.at \in {"recorded", "duplicate"}
  <2>1. page' = [next EXCEPT !.count = m.index, !.shown = 0, !.draft = Null]
    BY <1>2, <1>7, <1>12 DEF After
  <2>2. m.index \in Nat /\ (NoneAgain => m.index <= Len(log))
    BY <1>1, <1>3, <1>5, <1>12 DEF InStep, Message
  <2>3. QED
    BY <1>10, <2>1, <2>2
<1>13. CASE m.at = "invalid"
  <2>1. page' = [next EXCEPT !.count = m.value - 1, !.shown = 0, !.draft = Null]
    BY <1>2, <1>7, <1>13 DEF After
  <2>2. m.value - 1 \in Nat /\ (NoneAgain => m.value - 1 <= Len(log))
    BY <1>1, <1>3, <1>4, <1>5, <1>13 DEF InStep, MessageOK, Message
  <2>3. QED
    BY <1>10, <2>1, <2>2
<1>14. CASE m.at = "failed"
  <2>1. page' = next
    BY <1>2, <1>7, <1>14 DEF After
  <2>2. QED
    BY <1>8, <1>9, <2>1
<1>15. CASE m.at = "over"
  <2>1. page' = [next EXCEPT !.told = "over"]
    BY <1>2, <1>7, <1>15 DEF After
  <2>2. /\ page' \in Page /\ page'.waits = Null /\ page'.draft = page.draft
        /\ page'.count = page.count /\ page'.shown = page.shown
    BY <1>8, <2>1 DEF Page
  <2>3. QED
    BY <1>9, <2>2
<1>16. CASE m.at = "exhausted" /\ m.kind = "get"
  <2>1. page' = [next EXCEPT !.told = "exhausted"]
    BY <1>2, <1>7, <1>16 DEF After
  <2>2. /\ page' \in Page /\ page'.waits = Null /\ page'.draft = page.draft
        /\ page'.count = page.count /\ page'.shown = page.shown
    BY <1>8, <2>1 DEF Page
  <2>3. QED
    BY <1>9, <2>2
<1>17. CASE m.at = "exhausted" /\ m.kind = "post"
  <2>1. page' = [next EXCEPT !.shown = 0, !.draft = Null]
    BY <1>2, <1>7, <1>17 DEF After
  <2>2. /\ page' \in Page /\ page'.waits = Null /\ page'.draft = Null
        /\ page'.count = page.count /\ page'.shown = 0
    BY <1>8, <2>1 DEF Page
  <2>3. QED
    BY <1>2, <1>4, <1>5, <2>2 DEF PageInStep
<1>18. m.kind \in {"get", "post"}
  BY <1>3 DEF Message
<1>19. QED
  BY <1>2, <1>11, <1>12, <1>13, <1>14, <1>15, <1>16, <1>17, <1>18 DEF Status

\* A response that is read.
LEMMA ReceiveIInv ==
    ASSUME IInv, NEW s \in Request, Receive(s)
    PROVE  IInv'
<1>1. /\ log' = log /\ stream' = stream /\ late' = late /\ page.waits = s
      /\ net' = [net EXCEPT ![s] = Null]
  BY DEF Receive
<1>2. net \in [Request -> Message \cup {Null}] /\ late \in BOOLEAN
  BY DEF IInv, TypeOK
<1>3. /\ net' \in [Request -> Message \cup {Null}] /\ net'[s] = Null
      /\ \A t \in Request : t # s => net'[t] = net[t]
  BY <1>1, <1>2
<1>4. \A t \in Request : net[t] # Null /\ net[t].at \in Status => t = s
  BY <1>1 DEF IInv, MessageOK
<1>5. QED
  BY <1>1, <1>2, <1>3, <1>4, AfterFits, QuietIInv

\* A page that gives up a request, or is told that the connection is broken.
GivesUp == page' = page \/ page' = [page EXCEPT !.waits = Null]

LEMMA GivesUpFits ==
    ASSUME IInv, GivesUp, log' = log, stream' = stream
    PROVE  /\ page' \in Page /\ page'.shown <= Len(stream) /\ page'.count = page.count
           /\ NoneAgain => PageInStep'
<1>1. page \in Page /\ page.shown <= Len(stream)
  BY DEF IInv, TypeOK
<1>2. /\ page' \in Page /\ page'.shown = page.shown /\ page'.count = page.count
      /\ page'.draft = page.draft
  BY <1>1 DEF GivesUp, Page
<1>3. Place' = Place /\ \A d : Timely(d)' = Timely(d)
  BY SameLog
<1>4. NoneAgain => PageInStep'
  BY <1>2, <1>3 DEF IInv, PageInStep
<1>5. QED
  BY <1>1, <1>2, <1>4

LEMMA TimeoutIInv ==
    ASSUME IInv, Timeout
    PROVE  IInv'
<1>1. /\ log' = log /\ stream' = stream /\ late' = late /\ net' = net
      /\ GivesUp /\ page.waits # Null /\ net[page.waits].at \notin Status
      /\ page' = [page EXCEPT !.waits = Null]
  BY DEF Timeout, GivesUp
<1>2. net \in [Request -> Message \cup {Null}] /\ late \in BOOLEAN /\ page \in Page
  BY DEF IInv, TypeOK
<1>3. page'.waits = Null
  BY <1>1, <1>2 DEF Page
<1>4. \A t \in Request : ~(net[t] # Null /\ net[t].at \in Status)
  BY <1>1 DEF IInv, MessageOK
<1>5. QED
  BY <1>1, <1>2, <1>3, <1>4, GivesUpFits, QuietIInv

LEMMA LoseIInv ==
    ASSUME IInv, NEW s \in Request, Lose(s)
    PROVE  IInv'
<1>1. /\ log' = log /\ stream' = stream /\ late' = late /\ net' = [net EXCEPT ![s] = Null]
      /\ page' = IF page.waits = s THEN [page EXCEPT !.waits = Null] ELSE page
      /\ GivesUp
  BY DEF Lose, GivesUp
<1>2. net \in [Request -> Message \cup {Null}] /\ late \in BOOLEAN /\ page \in Page
  BY DEF IInv, TypeOK
<1>3. /\ net' \in [Request -> Message \cup {Null}] /\ net'[s] = Null
      /\ \A t \in Request : t # s => net'[t] = net[t]
  BY <1>1, <1>2
<1>4. page'.waits = IF page.waits = s THEN Null ELSE page.waits
  BY <1>1, <1>2 DEF Page
<1>5. page.waits # Null => page.waits \in Request /\ net[page.waits] # Null
  BY DEF IInv, TypeOK
<1>6. \A t \in Request : net'[t] = net[t] /\ net[t] # Null /\ net[t].at \in Status
                            => page'.waits = t
  <2>1. \A t \in Request : net[t] # Null /\ net[t].at \in Status => page.waits = t
    BY DEF IInv, MessageOK
  <2>2. QED
    BY <1>3, <1>4, <2>1
<1>7. QED
  BY <1>1, <1>2, <1>3, <1>4, <1>5, <1>6, GivesUpFits, QuietIInv

\* A reload.
LEMMA ReloadIInv ==
    ASSUME IInv, Reload
    PROVE  IInv'
<1>1. /\ log' = log /\ stream' = stream /\ late' = late /\ page' = FreshPage
      /\ net' = [s \in Request |->
                   IF s = page.waits /\ net[s].at \in Status THEN Null ELSE net[s]]
  BY DEF Reload
<1>2. net \in [Request -> Message \cup {Null}] /\ late \in BOOLEAN /\ Len(stream) \in Nat
      /\ Len(log) \in Nat
  BY DEF IInv, TypeOK
<1>3. /\ net' \in [Request -> Message \cup {Null}]
      /\ \A t \in Request : net'[t] \in {Null, net[t]}
  BY <1>1, <1>2
<1>4. /\ page' \in Page /\ page'.shown = 0 /\ page'.count = 0 /\ page'.waits = Null
      /\ page'.draft = Null
  BY <1>1 DEF FreshPage, Page
<1>5. \A t \in Request : ~(net'[t] = net[t] /\ net[t] # Null /\ net[t].at \in Status)
  BY <1>1 DEF IInv, MessageOK
<1>6. NoneAgain => PageInStep'
  BY <1>1, <1>2, <1>4 DEF PageInStep
<1>7. QED
  BY <1>1, <1>2, <1>3, <1>4, <1>5, <1>6, QuietIInv

-----------------------------------------------------------------------------
(***************************************************************************)
(* The steps of the handlers.                                              *)
(***************************************************************************)

\* What Replied does to the net: the response keeps what was submitted.
IsReply(s, status, value) ==
    /\ net' \in [Request -> Message \cup {Null}]
    /\ \A t \in Request : t # s => net'[t] = net[t]
    /\ net'[s] # Null =>
          /\ page.waits = s /\ net'[s].at = status /\ net'[s].value = value
          /\ net'[s].kind = net[s].kind /\ net'[s].index = net[s].index
          /\ net'[s].asked = net[s].asked /\ net'[s].answer = net[s].answer

LEMMA ReplyEffect ==
    ASSUME TypeOK, NEW s \in Request, net[s] # Null, NEW status \in Status, NEW value \in Nat,
           net' = Replied(s, status, value)
    PROVE  IsReply(s, status, value)
<1>1. net \in [Request -> Message \cup {Null}]
  BY DEF TypeOK
<1>2. PICK m \in Message : m = net[s]
  BY <1>1
<1>3. PICK n : n = [m EXCEPT !.at = status, !.value = value]
  OBVIOUS
<1>4. /\ n \in Message /\ n.at = status /\ n.value = value /\ n.kind = m.kind
      /\ n.index = m.index /\ n.asked = m.asked /\ n.answer = m.answer
  BY <1>3 DEF Message
<1>5. net' = [net EXCEPT ![s] = IF page.waits = s THEN n ELSE Null]
  BY <1>2, <1>3 DEF Replied
<1>6. /\ net' \in [Request -> Message \cup {Null}]
      /\ net'[s] = IF page.waits = s THEN n ELSE Null
      /\ \A t \in Request : t # s => net'[t] = net[t]
  BY <1>1, <1>4, <1>5
<1>7. QED
  BY <1>2, <1>4, <1>6 DEF IsReply

\* A page that waits for a request still has it after the reply.
LEMMA WaitsOn ==
    ASSUME TypeOK, NEW s \in Request, net[s] # Null, NEW status \in Status, NEW value \in Nat,
           net' = Replied(s, status, value), page.waits # Null
    PROVE  net'[page.waits] # Null
<1>1. net \in [Request -> Message \cup {Null}]
      /\ page.waits \in Request /\ net[page.waits] # Null
  BY DEF TypeOK
<1>2. CASE page.waits = s
  <2>1. PICK m \in Message : m = net[s]
    BY <1>1
  <2>2. PICK n : n = [m EXCEPT !.at = status, !.value = value]
    OBVIOUS
  <2>3. n \in Message
    BY <2>2 DEF Message
  <2>4. net'[s] = n
    BY <1>1, <1>2, <2>1, <2>2 DEF Replied
  <2>5. QED
    BY <1>2, <2>3, <2>4, NullAssumption
<1>3. CASE page.waits # s
  BY <1>1, <1>3 DEF Replied
<1>4. QED
  BY <1>2, <1>3

\* A response fits when what it tells is true.
LEMMA ReplyIInv ==
    ASSUME IInv, NEW s \in Request, net[s] # Null, net[s].at \notin Status,
           NEW status \in Status, NEW value \in Nat, Reply(s, status, value), log' = log,
           status = "question" => value = Place /\ value <= Len(stream),
           status = "invalid" => value = Len(log) + 1,
           NoneAgain /\ status \in {"recorded", "duplicate"} => net[s].index <= Len(log)
    PROVE  IInv'
<1>1. /\ stream' = stream /\ late' = late /\ page' = page /\ net' = Replied(s, status, value)
  BY DEF Reply
<1>2. IsReply(s, status, value) /\ (page.waits # Null => net'[page.waits] # Null)
  BY <1>1, ReplyEffect, WaitsOn DEF IInv
<1>3. GivesUp /\ late \in BOOLEAN /\ Place \in Nat \ {0} /\ Len(log) \in Nat /\ Len(stream) \in Nat
  BY <1>1, PlaceIsPlace DEF GivesUp, IInv, TypeOK
<1>4. Place' = Place /\ \A d : Timely(d)' = Timely(d)
  BY <1>1, SameLog
<1>5. ASSUME net'[s] # Null
      PROVE  Fits(s)
  <2>1. /\ page.waits = s /\ net'[s].at = status /\ net'[s].value = value
        /\ net'[s].kind = net[s].kind /\ net'[s].index = net[s].index
        /\ net'[s].asked = net[s].asked /\ net'[s].answer = net[s].answer
    BY <1>2, <1>5 DEF IsReply
  <2>2. MessageOK(s)'
    <3>1. net[s].kind = "post" => net[s].answer \in Answer
      BY DEF IInv, MessageOK
    <3>2. QED
      BY <1>1, <1>3, <2>1, <3>1 DEF MessageOK, Status
  <2>3. NoneAgain /\ net'[s].kind = "post" => Timely(net[s])'
    <3>1. NoneAgain /\ net[s].kind = "post" => Timely(net[s])
      BY DEF IInv, InStep
    <3>2. Timely(net[s]) => Timely(net[s])'
      BY <1>1, <1>4, <2>1 DEF Timely
    <3>3. QED
      BY <2>1, <3>1, <3>2
  <2>4. NoneAgain => InStep(s)'
    BY <1>1, <1>3, <1>4, <2>1, <2>3 DEF InStep
  <2>5. QED
    BY <2>1, <2>2, <2>4 DEF Fits, Status
<1>6. \A t \in Request : net[t] # Null /\ net[t].at \in Status => page.waits = t
  BY DEF IInv, MessageOK
<1>7. net' \in [Request -> Message \cup {Null}] /\ \A t \in Request : t # s => net'[t] = net[t]
  BY <1>2 DEF IsReply
<1>8. QED
  BY <1>1, <1>2, <1>3, <1>5, <1>6, <1>7, GivesUpFits, QuietIInv

LEMMA GetNextQuestionIInv ==
    ASSUME IInv, NEW s \in Request, GetNextQuestion(s)
    PROVE  IInv'
<1>1. net[s] # Null /\ net[s].at = "sent" /\ log' = log
  BY DEF GetNextQuestion, At
<1>2. net[s].at \notin Status
  BY <1>1 DEF Status
<1>3. Place \in Nat \ {0} /\ late \in BOOLEAN /\ Len(stream) \in Nat
      /\ DOMAIN stream = 1 .. Len(stream)
  BY PlaceIsPlace DEF IInv, TypeOK
<1>4. CASE late
  <2>1. Reply(s, "over", 0)
    BY <1>4 DEF GetNextQuestion
  <2>2. QED
    BY <1>1, <1>2, <2>1, ReplyIInv DEF Status
<1>5. CASE ~late /\ Place > Len(stream)
  <2>1. Place \notin DOMAIN stream
    BY <1>3, <1>5
  <2>2. Reply(s, "exhausted", 0)
    BY <1>5, <2>1 DEF GetNextQuestion
  <2>3. QED
    BY <1>1, <1>2, <2>2, ReplyIInv DEF Status
<1>6. CASE ~late /\ Place \in DOMAIN stream
  <2>1. Reply(s, "question", Place)
    BY <1>3, <1>6 DEF GetNextQuestion
  <2>2. Place <= Len(stream)
    BY <1>3, <1>6
  <2>3. QED
    BY <1>1, <1>2, <1>3, <2>1, <2>2, ReplyIInv DEF Status
<1>7. QED
  BY <1>3, <1>4, <1>5, <1>6

LEMMA LookUpFailsIInv ==
    ASSUME IInv, NEW s \in Request, LookUpFails(s)
    PROVE  IInv'
<1>1. net[s] # Null /\ net[s].at \notin Status /\ log' = log /\ Reply(s, "exhausted", 0)
  BY DEF LookUpFails, At, Status
<1>2. QED
  BY <1>1, ReplyIInv DEF Status

LEMMA FailIInv ==
    ASSUME IInv, NEW s \in Request, Fail(s)
    PROVE  IInv'
<1>1. net[s] # Null /\ net[s].at \notin Status /\ log' = log /\ Reply(s, "failed", 0)
  BY DEF Fail, Status
<1>2. QED
  BY <1>1, ReplyIInv DEF Status

\* An answer the player has not tried on his question has not been tried on any
\* question like it, as long as none has come again: the places answered are
\* before his.
LEMMA TimelyIsNew ==
    ASSUME IInv, NoneAgain, NEW d, Timely(d), d.index = Len(log) + 1, Place <= Len(stream)
    PROVE  ~AnsweredBefore(d.answer)
<1>1. Place \in DOMAIN stream
  BY PlaceIsPlace DEF IInv
<1>2. \A k \in DOMAIN log : log[k].at \in DOMAIN stream /\ log[k].at \in 1 .. Place
  BY DEF IInv, LogOK
<1>3. \A k \in DOMAIN log : stream[log[k].at] = stream[Place] => log[k].at = Place
  BY <1>1, <1>2 DEF NoneAgain, NewUpTo
<1>4. QED
  BY <1>3 DEF AnsweredBefore, Timely

\* The verdict on a submission, with or without the lock for more.
LEMMA CheckAnswerIInv ==
    ASSUME IInv, NEW s \in Request, CheckAnswer(s)
    PROVE  IInv'
<1>1. /\ net[s] # Null /\ net[s].at = "sent" /\ net[s].kind = "post" /\ log' = log /\ ~Locked
  BY DEF CheckAnswer, At
<1>2. net[s].at \notin Status
  BY <1>1 DEF Status
<1>3. net \in [Request -> Message \cup {Null}] /\ late \in BOOLEAN
      /\ Place \in Nat \ {0} /\ Len(log) \in Nat /\ Len(stream) \in Nat
  BY PlaceIsPlace DEF IInv, TypeOK
<1>4. PICK m \in Message : m = net[s]
  BY <1>1, <1>3
<1>5. m.index \in Nat /\ m.kind = "post" /\ m.at = "sent"
  BY <1>1, <1>4 DEF Message
<1>6. NoneAgain => Timely(m)
  BY <1>1, <1>4 DEF IInv, InStep
<1>7. CASE Verdict(m) = "goes on"
  <2>1. net' = [net EXCEPT ![s].at = "checked"] /\ stream' = stream /\ late' = late /\ page' = page
    BY <1>4, <1>7 DEF CheckAnswer
  <2>2. /\ Place <= Len(stream) /\ m.index = Len(log) + 1 /\ ~AnsweredBefore(m.answer)
    BY <1>3, <1>5, <1>7 DEF Verdict
  <2>3. PICK n : n = [m EXCEPT !.at = "checked"]
    OBVIOUS
  <2>4. /\ n \in Message /\ n.at = "checked" /\ n.kind = "post" /\ n.index = m.index
        /\ n.asked = m.asked /\ n.answer = m.answer
    BY <1>5, <2>3 DEF Message
  <2>5. /\ net' \in [Request -> Message \cup {Null}] /\ net'[s] = n
        /\ \A t \in Request : t # s => net'[t] = net[t]
    BY <1>3, <1>4, <2>1, <2>3, <2>4
  <2>6. /\ Place' = Place /\ \A d : Timely(d)' = Timely(d)
        /\ \A a : AnsweredBefore(a)' = AnsweredBefore(a)
    BY <1>1, <2>1, SameLog
  <2>7. MessageOK(s)'
    <3>1. m.answer \in Answer
      BY <1>1, <1>4, <1>5 DEF IInv, MessageOK
    <3>2. QED
      BY <1>1, <2>1, <2>2, <2>4, <2>5, <2>6, <3>1 DEF MessageOK, Status
  <2>8. Timely(m) => Timely(net[s])'
    <3>1. log' = log /\ Place' = Place /\ net'[s] = n
      BY <1>1, <2>5, <2>6
    <3>2. n.index = m.index /\ n.asked = m.asked /\ n.answer = m.answer
      BY <2>4
    <3>3. QED
      BY <3>1, <3>2 DEF Timely
  <2>9. NoneAgain => InStep(s)'
    BY <1>6, <2>4, <2>5, <2>8 DEF InStep
  <2>10. Fits(s)
    BY <1>1, <2>7, <2>9 DEF Fits
  <2>11. page'.waits # Null => net'[page'.waits] # Null
    <3>1. n # Null
      BY <2>4, NullAssumption
    <3>2. page.waits # Null => page.waits \in Request /\ net[page.waits] # Null
      BY DEF IInv, TypeOK
    <3>3. QED
      BY <2>1, <2>5, <3>1, <3>2
  <2>12. \A t \in Request : net[t] # Null /\ net[t].at \in Status => page.waits = t
    BY DEF IInv, MessageOK
  <2>13. GivesUp
    BY <2>1 DEF GivesUp
  <2>14. QED
    BY <1>1, <1>3, <2>1, <2>5, <2>10, <2>11, <2>12, <2>13, GivesUpFits, QuietIInv
<1>8. CASE Verdict(m) # "goes on"
  <2>1. Reply(s, Verdict(m), Len(log) + 1)
    BY <1>4, <1>8 DEF CheckAnswer
  <2>2. Verdict(m) \in {"over", "exhausted", "duplicate", "invalid"}
    BY <1>8 DEF Verdict
  <2>3. NoneAgain /\ Verdict(m) = "duplicate" => m.index <= Len(log)
    <3>1. Verdict(m) = "duplicate" =>
             Place <= Len(stream) /\ (m.index < Len(log) + 1 \/
                                       (m.index = Len(log) + 1 /\ AnsweredBefore(m.answer)))
      BY <1>3, <1>5 DEF Verdict
    <3>2. NoneAgain /\ Place <= Len(stream) /\ m.index = Len(log) + 1 =>
             ~AnsweredBefore(m.answer)
      BY <1>6, TimelyIsNew
    <3>3. QED
      BY <1>3, <1>5, <3>1, <3>2
  <2>4. Verdict(m) \in Status /\ Len(log) + 1 \in Nat
    BY <1>3, <2>2 DEF Status
  <2>5. QED
    BY <1>1, <1>2, <1>4, <2>1, <2>2, <2>3, <2>4, ReplyIInv
<1>9. QED
  BY <1>7, <1>8

\* The submission that is recorded, behind those that were.
LEMMA RecordedIsNext ==
    ASSUME IInv, NEW s \in Request, At(s, "post", "checked"), log' = Recorded(net[s])
    PROVE  /\ log' \in Seq(Submission) /\ Len(log') = Len(log) + 1 /\ Len(log) \in Nat
           /\ DOMAIN log' = 1 .. Len(log) + 1 /\ DOMAIN log = 1 .. Len(log)
           /\ \A k \in DOMAIN log : log'[k] = log[k]
           /\ log'[Len(log) + 1].at = Place /\ log'[Len(log) + 1].asked = net[s].asked
           /\ log'[Len(log) + 1].answer = net[s].answer
<1>1. net[s] # Null /\ net[s].kind = "post" /\ net[s].at = "checked"
  BY DEF At
<1>2. PICK m \in Message : m = net[s]
  BY <1>1 DEF IInv, TypeOK
<1>3. PICK x : x = [at |-> Place, asked |-> m.asked, answer |-> m.answer,
                    right |-> m.answer \in Key[stream[Place]]]
  OBVIOUS
<1>4. m.answer \in Answer
  BY <1>1, <1>2 DEF IInv, MessageOK
<1>5. x \in Submission
  <2>1. Place \in Nat
    BY PlaceIsPlace DEF IInv
  <2>2. m.asked \in Nat
    BY DEF Message
  <2>3. QED
    BY <1>3, <1>4, <2>1, <2>2 DEF Submission
<1>6. log' = Append(log, x) /\ log \in Seq(Submission)
  BY <1>2, <1>3 DEF Recorded, IInv, TypeOK
<1>7. QED
  BY <1>2, <1>3, <1>5, <1>6

\* A recorded answer leaves the player where he is or moves him on by one.
LEMMA PlaceMovesOn ==
    ASSUME IInv, NEW s \in Request, At(s, "post", "checked"), log' = Recorded(net[s])
    PROVE  Place \in Nat \ {0} /\ Place' \in {Place, Place + 1}
<1>1. /\ log' \in Seq(Submission) /\ Len(log') = Len(log) + 1 /\ Len(log) \in Nat
      /\ log'[Len(log) + 1].at = Place
  BY RecordedIsNext
<1>2. Place \in Nat \ {0}
  BY PlaceIsPlace DEF IInv
<1>3. log' # <<>> /\ log'[Len(log')].at = Place
  BY <1>1
<1>4. PICK r : r = log'[Len(log')].right
  OBVIOUS
<1>5. Place' = IF r \/ TheMatch!Cardinality({k \in DOMAIN log' : log'[k].at = Place}) = 2
               THEN Place + 1 ELSE Place
  BY <1>3, <1>4 DEF Place, TheMatch!Position
<1>6. QED
  BY <1>2, <1>5

\* A question that has not come again had not before.
LEMMA NoneAgainBefore ==
    ASSUME IInv, NEW s \in Request, At(s, "post", "checked"), log' = Recorded(net[s]),
           stream' = stream, NoneAgain'
    PROVE  NoneAgain
<1>1. 1 .. Place \subseteq 1 .. Place'
  BY PlaceMovesOn
<1>2. \A j, k \in 1 .. Place' \cap DOMAIN stream : j # k => stream[j] # stream[k]
  BY DEF NoneAgain, NewUpTo
<1>3. QED
  BY <1>1, <1>2 DEF NoneAgain, NewUpTo

\* The commit: from then on whatever else bears this index is late.
LEMMA CommitAnswerIInv ==
    ASSUME IInv, NEW s \in Request, NEW status \in {"recorded", "failed"},
           CommitAnswer(s, status)
    PROVE  IInv'
<1>1. /\ At(s, "post", "checked") /\ log' = Recorded(net[s]) /\ stream' = stream
      /\ late' = late /\ page' = page /\ net' = Replied(s, status, 0)
  BY DEF CommitAnswer, Reply
<1>2. net[s] # Null /\ net[s].kind = "post" /\ net[s].at = "checked"
  BY <1>1 DEF At
<1>3. PICK n \in Nat : n = Len(log)
  BY DEF IInv, TypeOK
<1>4. /\ log' \in Seq(Submission) /\ Len(log') = n + 1
      /\ DOMAIN log' = 1 .. n + 1 /\ DOMAIN log = 1 .. n
      /\ \A k \in 1 .. n : log'[k] = log[k]
      /\ log'[n + 1].at = Place /\ log'[n + 1].asked = net[s].asked
      /\ log'[n + 1].answer = net[s].answer
  BY <1>1, <1>3, RecordedIsNext
<1>5. IsReply(s, status, 0) /\ (page.waits # Null => net'[page.waits] # Null)
  BY <1>1, <1>2, ReplyEffect, WaitsOn DEF IInv, Status
<1>6. /\ net[s].index = n + 1 /\ Place <= Len(stream) /\ ~AnsweredBefore(net[s].answer)
      /\ Place \in Nat \ {0} /\ Len(stream) \in Nat
  BY <1>2, <1>3, PlaceIsPlace DEF IInv, MessageOK
<1>7. TypeOK' /\ (page \in Page)' /\ (stream \in Seq(DOMAIN Key))'
  <2>1. net' \in [Request -> Message \cup {Null}]
    BY <1>5 DEF IsReply
  <2>2. page.waits \in {t \in Request : net'[t] # Null} \cup {Null}
    BY <1>5 DEF IInv, TypeOK
  <2>3. QED
    BY <1>1, <1>4, <2>1, <2>2 DEF IInv, TypeOK
<1>8. OneWriter'
  <2>1. \A t \in Request : ~(net'[t] # Null /\ net'[t].kind = "post" /\ net'[t].at = "checked")
    BY <1>1, <1>5 DEF IsReply, IInv, OneWriter, At
  <2>2. QED
    BY <2>1 DEF OneWriter, At
<1>9. LogOK'
  <2>1. ASSUME NEW k \in 1 .. n + 1
        PROVE  log'[k].at \in 1 .. Len(stream) /\ log'[k].at <= Place'
    <3>1. Place \in Nat \ {0} /\ Place' \in {Place, Place + 1}
      BY <1>1, PlaceMovesOn
    <3>2. CASE k = n + 1
      BY <1>4, <1>6, <3>1, <3>2
    <3>3. CASE k \in 1 .. n
      <4>1. log'[k] = log[k] /\ log[k].at \in 1 .. Len(stream) /\ log[k].at <= Place
        BY <1>4, <3>3 DEF IInv, LogOK
      <4>2. QED
        BY <1>6, <3>1, <4>1
    <3>4. QED
      BY <3>2, <3>3
  <2>2. \A k \in 1 .. n : log[k].at = Place => log[k].answer # net[s].answer
    BY <1>4, <1>6 DEF AnsweredBefore
  <2>3. ASSUME NEW j \in 1 .. n + 1, NEW k \in 1 .. n + 1, j # k, log'[j].at = log'[k].at
        PROVE  log'[j].answer # log'[k].answer
    <3>1. CASE j = n + 1
      BY <1>4, <2>2, <2>3, <3>1
    <3>2. CASE k = n + 1
      BY <1>4, <2>2, <2>3, <3>2
    <3>3. CASE j \in 1 .. n /\ k \in 1 .. n
      BY <1>4, <2>3, <3>3 DEF IInv, LogOK
    <3>4. QED
      BY <3>1, <3>2, <3>3
  <2>4. QED
    BY <1>1, <1>4, <2>1, <2>3 DEF LogOK
<1>10. ASSUME NEW t \in Request
       PROVE  MessageOK(t)'
  <2>1. CASE t = s
    <3>1. net[s].answer \in Answer
      BY <1>2 DEF IInv, MessageOK
    <3>2. QED
      BY <1>1, <1>2, <1>5, <2>1, <3>1 DEF MessageOK, IsReply, Status
  <2>2. CASE t # s
    <3>1. net'[t] = net[t]
      BY <1>5, <2>2 DEF IsReply
    <3>2. net[t] # Null => net[t].at # "checked"
      BY <1>1, <2>2 DEF IInv, OneWriter, MessageOK, At
    <3>3. QED
      BY <1>1, <3>1, <3>2 DEF MessageOK, IInv
  <2>3. QED
    BY <2>1, <2>2
<1>11. ASSUME NoneAgain
       PROVE  PageInStep' /\ \A t \in Request : InStep(t)'
  <2>3. page.count \in Nat /\ page.count <= n
    BY <1>3, <1>11 DEF IInv, PageInStep, Page
  <2>4. ASSUME NEW d, d.index \in Nat, Timely(d)
        PROVE  d.index <= n + 1
    BY <1>3, <2>4 DEF Timely
  <2>5. PageInStep'
    <3>1. page.draft # Null => page.draft.index \in Nat /\ Timely(page.draft)
      BY <1>11 DEF IInv, PageInStep, TypeOK, Draft
    <3>2. page.draft # Null => page.draft.index <= n + 1
      BY <2>4, <3>1
    <3>3. QED
      BY <1>1, <1>4, <2>3, <3>1, <3>2 DEF PageInStep, Timely
  <2>6. ASSUME NEW t \in Request, net[t] # Null
        PROVE  /\ net[t].index \in Nat /\ net[t].value \in Nat
               /\ net[t].kind = "post" => net[t].index <= n + 1
               /\ net[t].at \in {"recorded", "duplicate"} => net[t].index <= n
               /\ net[t].at = "invalid" => net[t].value <= n + 1
    <3>1. net[t] \in Message
      BY <2>6 DEF IInv, TypeOK
    <3>2. net[t].index \in Nat /\ net[t].value \in Nat
      BY <3>1 DEF Message
    <3>3. InStep(t)
      BY <1>11 DEF IInv
    <3>4. net[t].kind = "post" => net[t].index <= n + 1
      BY <2>4, <2>6, <3>2, <3>3 DEF InStep
    <3>5. QED
      BY <1>3, <2>6, <3>2, <3>3, <3>4 DEF InStep
  <2>7. ASSUME NEW t \in Request
        PROVE  InStep(t)'
    <3>1. CASE t = s
      BY <1>1, <1>2, <1>4, <1>5, <1>6, <2>3, <3>1 DEF InStep, IsReply, Timely
    <3>2. CASE t # s
      <4>1. net'[t] = net[t]
        BY <1>5, <3>2 DEF IsReply
      <4>2. QED
        BY <1>1, <1>4, <2>3, <2>6, <4>1 DEF InStep, Timely
    <3>3. QED
      BY <3>1, <3>2
  <2>8. QED
    BY <2>5, <2>7
<1>12. JudgedAsAsked'
  <2>1. NoneAgain => net[s].asked = Place
    BY <1>2, <1>3, <1>6 DEF IInv, InStep, Timely
  <2>2. \A i : NewUpTo(i)' = NewUpTo(i)
    BY <1>1 DEF NewUpTo
  <2>3. SUFFICES ASSUME NEW k \in 1 .. n + 1, NewUpTo(log'[k].at)
                 PROVE  log'[k].at = log'[k].asked
    BY <1>4, <2>2 DEF JudgedAsAsked
  <2>4. CASE k = n + 1
    BY <1>4, <2>1, <2>3, <2>4 DEF NoneAgain
  <2>5. CASE k \in 1 .. n
    BY <1>4, <2>3, <2>5 DEF IInv, JudgedAsAsked
  <2>6. QED
    BY <2>4, <2>5
<1>13. NoneAgain' => NoneAgain
  BY <1>1, NoneAgainBefore
<1>14. QED
  BY <1>7, <1>8, <1>9, <1>10, <1>11, <1>12, <1>13 DEF IInv

\* The end of the battle changes what is answered, not what was.
LEMMA TimeUpIInv ==
    ASSUME IInv, TimeUp
    PROVE  IInv'
<1>1. /\ log' = log /\ stream' = stream /\ late' \in BOOLEAN /\ net' = net /\ page' = page
  BY DEF TimeUp
<1>2. GivesUp /\ net \in [Request -> Message \cup {Null}]
  BY <1>1 DEF GivesUp, IInv, TypeOK
<1>3. page.waits # Null => net[page.waits] # Null
  BY DEF IInv, TypeOK
<1>4. \A t \in Request : net[t] # Null /\ net[t].at \in Status => page.waits = t
  BY DEF IInv, MessageOK
<1>5. QED
  BY <1>1, <1>2, <1>3, <1>4, GivesUpFits, QuietIInv

-----------------------------------------------------------------------------
(***************************************************************************)
(* The theorems.                                                           *)
(***************************************************************************)

LEMMA InitIInv == Init => IInv
<1>1. SUFFICES ASSUME Init PROVE IInv
  OBVIOUS
<1>2. /\ log = <<>> /\ late = FALSE /\ \A s \in Request : net[s] = Null
      /\ net \in [Request -> Message \cup {Null}] /\ page = FreshPage
      /\ stream \in Seq(DOMAIN Key)
  BY <1>1, StreamsAssumption DEF Init
<1>3. Len(stream) \in Nat /\ log \in Seq(Submission) /\ Len(log) = 0 /\ DOMAIN log = {}
  BY <1>2
<1>4. /\ page \in Page /\ page.count = 0 /\ page.shown = 0 /\ page.draft = Null
      /\ page.waits = Null /\ page.told = Null
  BY <1>2 DEF FreshPage, Page
<1>5. TypeOK
  <2>1. page.count \in Nat /\ page.shown \in 0 .. Len(stream)
    BY <1>3, <1>4
  <2>2. /\ page.draft \in Draft \cup {Null} /\ page.told \in {Null, "exhausted", "over"}
        /\ page.waits \in {s \in Request : net[s] # Null} \cup {Null}
    BY <1>4
  <2>3. QED
    BY <1>2, <1>3, <2>1, <2>2, Zenon DEF TypeOK
<1>6. OneWriter /\ LogOK /\ JudgedAsAsked /\ PageInStep
  BY <1>2, <1>3, <1>4 DEF OneWriter, At, LogOK, JudgedAsAsked, PageInStep
<1>7. \A s \in Request : MessageOK(s) /\ InStep(s)
  BY <1>2 DEF MessageOK, InStep
<1>8. QED
  BY <1>2, <1>4, <1>5, <1>6, <1>7 DEF IInv

LEMMA NextIInv == IInv /\ [Next]_vars => IInv'
<1>1. SUFFICES ASSUME IInv, [Next]_vars PROVE IInv'
  OBVIOUS
<1>2. CASE \E s \in Request : SendGet(s) \/ SendPost(s) \/ Receive(s) \/ Lose(s)
  BY <1>1, <1>2, SendGetIInv, SendPostIInv, ReceiveIInv, LoseIInv
<1>3. CASE \E a \in Answer : Decide(a)
  BY <1>1, <1>3, DecideIInv
<1>4. CASE Timeout \/ Reload \/ TimeUp
  BY <1>1, <1>4, TimeoutIInv, ReloadIInv, TimeUpIInv
<1>5. CASE \E s \in Request : Serve(s) \/ CommitAnswer(s, "failed")
  BY <1>1, <1>5, GetNextQuestionIInv, CheckAnswerIInv, CommitAnswerIInv DEF Serve
<1>6. CASE \E s \in Request : LookUpFails(s) \/ Fail(s)
  BY <1>1, <1>6, LookUpFailsIInv, FailIInv
<1>7. CASE UNCHANGED vars
  <2>1. /\ log' = log /\ stream' = stream /\ late' = late /\ net' = net /\ page' = page
    BY <1>7 DEF vars
  <2>2. GivesUp /\ late \in BOOLEAN /\ net \in [Request -> Message \cup {Null}]
    BY <1>1, <2>1 DEF GivesUp, IInv, TypeOK
  <2>3. page.waits # Null => net[page.waits] # Null
    BY <1>1 DEF IInv, TypeOK
  <2>4. \A t \in Request : net[t] # Null /\ net[t].at \in Status => page.waits = t
    BY <1>1 DEF IInv, MessageOK
  <2>5. QED
    BY <1>1, <2>1, <2>2, <2>3, <2>4, GivesUpFits, QuietIInv
<1>8. QED
  BY <1>1, <1>2, <1>3, <1>4, <1>5, <1>6, <1>7 DEF Next

\* The invariant of all that follows.
THEOREM Invariance == Spec => []IInv
<1>1. QED
  BY InitIInv, NextIInv, PTL DEF Spec

\* The rows, the messages and the page are well formed in every state.
THEOREM TypeCorrect == Spec => []TypeOK
<1>1. IInv => TypeOK
  BY DEF IInv
<1>2. QED
  BY <1>1, Invariance, PTL

\* SubmitAnswer's check of the index keeps every answer with its question:
\* however late it arrives and however often it was sent, it is judged at the
\* place in the stream it was given at, if that is before a question comes again
\* (with the shipped questions: among the first 55 or so of 200).
THEOREM AnswersFindTheirQuestion == Spec => []JudgedAsAsked
<1>1. IInv => JudgedAsAsked
  BY DEF IInv, JudgedAsAsked
<1>2. QED
  BY <1>1, Invariance, PTL

\* Nor is any counted a second time up to there, whatever the player did not
\* hear.  (Beyond, RetriesFiltered fails.)
THEOREM AnswersCountOnce == Spec => []CountedOnce
<1>1. IInv => CountedOnce
  BY DEF IInv, LogOK, JudgedAsAsked, CountedOnce
<1>2. QED
  BY <1>1, Invariance, PTL

\* And the page never takes for recorded what is not, as long as no question has
\* come again: the index it sends is not higher than the one SubmitAnswer expects.
THEOREM PageIsNeverAhead == Spec => []NeverAhead
<1>1. IInv => NeverAhead
  BY DEF IInv, PageInStep, NeverAhead
<1>2. QED
  BY <1>1, Invariance, PTL
=============================================================================
