---------------------------- MODULE BattleProofs ----------------------------
(***************************************************************************)
(* Theorems about Battle, for any number of handlers, any stream of        *)
(* questions and any answers: the score cards and the result always follow *)
(* from the answers, no transactions wait for each other, and a battle     *)
(* implements Match.                                                       *)
(***************************************************************************)
EXTENDS Battle, FiniteSetTheorems, SequenceTheorems, TLAPS

-----------------------------------------------------------------------------
(***************************************************************************)
(* The inductive invariant.                                                *)
(***************************************************************************)

\* The answers of the log l to question i of the stream.
TriesIn(l, i) == {k \in DOMAIN l : l[k].at = i}

RightIn(l) == {k \in DOMAIN l : l[k].right}

\* A question is done with after two answers, or a right one.
Settled(l, i) == Cardinality(TriesIn(l, i)) = 2 \/ \E k \in TriesIn(l, i) : l[k].right

\* The card c is what the answers of the log l come to.
CountsOK(c, l) ==
    /\ c.correct + c.incorrect = Len(l)
    /\ c.correct = Cardinality(RightIn(l))
    /\ c.score = c.correct
    /\ \A k \in DOMAIN l : l[k].index = k

\* The pointer of c stands behind the questions that are settled in l, and what
\* was answered last is the question it points to or the one before.
PointerOK(c, l) ==
    /\ c.index <= Len(Stream)
    /\ c.attempts \in {0, 1}
    /\ \A k \in DOMAIN l : l[k].at \in 1 .. c.index + 1
    /\ \A i \in 1 .. c.index : Settled(l, i)
    /\ Cardinality(TriesIn(l, c.index + 1)) = c.attempts
    /\ \A k \in TriesIn(l, c.index + 1) : ~l[k].right
    /\ Len(l) # 0 =>
          LET last == l[Len(l)]
          IN  IF c.attempts = 1 THEN last.at = c.index + 1
              ELSE last.at = c.index /\ (last.right \/ Cardinality(TriesIn(l, last.at)) = 2)

\* The statements at which t holds the row of its player, or all rows.
InSubmission == {"check", "write"}
InCompletion == {"begin", "lockAll", "recheck", "lockRoom", "finish"}

\* What process t has locked and read, and what its next statement relies on.
ProcOK(t) ==
    /\ \A p \in Player : rowLock[p] = t <=> seen[t][p] # Null
    /\ \A p \in Player : seen[t][p] # Null => seen[t][p] = card[p]
    /\ roomLock = t <=> pc[t] = "finish"
    /\ pc[t] \in {"idle", "lock", "begin"} => \A p \in Player : seen[t][p] = Null
    /\ pc[t] \in {"lock"} \cup InSubmission => req[t].player \in Player /\ req[t].answer \in Answer
    /\ pc[t] \in InSubmission => seen[t][req[t].player] # Null
    /\ pc[t] = "write" => bstatus = "active" /\ Accepted(t)
    /\ pc[t] = "lockAll" => seen[t][2] = Null
    /\ pc[t] \in {"recheck", "lockRoom", "finish"} => \A p \in Player : seen[t][p] # Null
    /\ pc[t] \in {"lockRoom", "finish"} => bstatus = "active"
    /\ pc[t] \in InCompletion => late

IInv ==
    /\ TypeOK
    /\ \A p \in Player : CountsOK(card[p], subs[p]) /\ PointerOK(card[p], subs[p])
    /\ \A t \in Process : ProcOK(t)
    /\ ResultsMatchScores
    /\ bstatus = "active" => room = "in_battle"

-----------------------------------------------------------------------------
(***************************************************************************)
(* The log and the card of a player.                                       *)
(***************************************************************************)

\* The sets of answers that are counted are finite.
LEMMA CountedSets ==
    ASSUME NEW l \in Seq(Submission)
    PROVE  /\ IsFiniteSet(RightIn(l)) /\ Cardinality(RightIn(l)) \in Nat
           /\ \A i : IsFiniteSet(TriesIn(l, i)) /\ Cardinality(TriesIn(l, i)) \in Nat
<1>1. DOMAIN l = 1 .. Len(l) /\ Len(l) \in Nat
  OBVIOUS
<1>2. IsFiniteSet(DOMAIN l)
  BY <1>1, FS_Interval
<1>3. RightIn(l) \subseteq DOMAIN l /\ \A i : TriesIn(l, i) \subseteq DOMAIN l
  BY DEF RightIn, TriesIn
<1>4. IsFiniteSet(RightIn(l)) /\ \A i : IsFiniteSet(TriesIn(l, i))
  BY <1>2, <1>3, FS_Subset
<1>5. QED
  BY <1>4, FS_CardinalityType

\* One more answer is one more of those to its question, and one more right one
\* if it is right.
OneMore(l, a, m, n) ==
    /\ m \in Seq(Submission) /\ Len(m) = n /\ DOMAIN m = 1 .. n
    /\ m[n] = a /\ \A k \in DOMAIN l : k \in 1 .. n - 1 /\ m[k] = l[k]
    /\ DOMAIN l = 1 .. n - 1
    /\ Cardinality(RightIn(m)) = Cardinality(RightIn(l)) + IF a.right THEN 1 ELSE 0
    /\ TriesIn(m, a.at) = TriesIn(l, a.at) \cup {n}
    /\ Cardinality(TriesIn(m, a.at)) = Cardinality(TriesIn(l, a.at)) + 1
    /\ \A i : i # a.at => TriesIn(m, i) = TriesIn(l, i)

\* Append does so.
LEMMA OneMoreAnswer ==
    ASSUME NEW l \in Seq(Submission), NEW a \in Submission
    PROVE  OneMore(l, a, Append(l, a), Len(l) + 1)
<1>0. PICK m, n : m = Append(l, a) /\ n = Len(l) + 1
  OBVIOUS
<1>1. /\ m \in Seq(Submission) /\ Len(m) = n /\ DOMAIN m = 1 .. n
      /\ m[n] = a /\ \A k \in 1 .. n - 1 : m[k] = l[k]
      /\ DOMAIN l = 1 .. n - 1 /\ n \in Nat /\ Len(l) \in Nat
  BY <1>0
<1>2. RightIn(m) = IF a.right THEN RightIn(l) \cup {n} ELSE RightIn(l)
  BY <1>0, <1>1 DEF RightIn
<1>3. TriesIn(m, a.at) = TriesIn(l, a.at) \cup {n}
  BY <1>0, <1>1 DEF TriesIn
<1>4. \A i : i # a.at => TriesIn(m, i) = TriesIn(l, i)
  BY <1>0, <1>1 DEF TriesIn
<1>5. n \notin RightIn(l) /\ n \notin TriesIn(l, a.at)
  BY <1>0, <1>1 DEF RightIn, TriesIn
<1>6. Cardinality(RightIn(m)) = Cardinality(RightIn(l)) + IF a.right THEN 1 ELSE 0
  <2>1. Cardinality(RightIn(l) \cup {n}) = Cardinality(RightIn(l)) + 1
    BY <1>5, CountedSets, FS_AddElement
  <2>2. Cardinality(RightIn(l)) \in Nat
    BY CountedSets
  <2>3. QED
    BY <1>2, <2>1, <2>2
<1>7. Cardinality(TriesIn(m, a.at)) = Cardinality(TriesIn(l, a.at)) + 1
  BY <1>3, <1>5, CountedSets, FS_AddElement
<1>8. QED
  BY <1>0, <1>1, <1>2, <1>3, <1>4, <1>6, <1>7 DEF OneMore

\* What Write makes of the card c when the answer a is appended to the log.
Marked(c, a, r) == [(IF a.right THEN AfterRight(c) ELSE AfterWrong(c)) EXCEPT !.result = r]

\* The fields of the new card.
IsMarked(c, a, d) ==
    /\ d \in Card
    /\ d.score = c.score + IF a.right THEN 1 ELSE 0
    /\ d.correct = c.correct + IF a.right THEN 1 ELSE 0
    /\ d.incorrect = c.incorrect + IF a.right THEN 0 ELSE 1
    /\ d.index = c.index + IF a.right \/ c.attempts >= 1 THEN 1 ELSE 0
    /\ d.attempts = IF a.right \/ c.attempts >= 1 THEN 0 ELSE c.attempts + 1

\* AfterRight and AfterWrong make it so.
LEMMA MarkedCard ==
    ASSUME NEW c \in Card, NEW a \in Submission, NEW r \in {Null, "win", "loss", "draw"}
    PROVE  IsMarked(c, a, Marked(c, a, r)) /\ Marked(c, a, r).result = r
<1>1. PICK d : d = Marked(c, a, r)
  OBVIOUS
<1>2. /\ c.attempts \in Nat /\ c.index \in Nat /\ c.score \in Nat
      /\ c.correct \in Nat /\ c.incorrect \in Nat
      /\ c.score + 1 \in Nat /\ c.correct + 1 \in Nat /\ c.incorrect + 1 \in Nat
      /\ c.index + 1 \in Nat /\ 0 \in Nat
  BY DEF Card
<1>3. ASSUME NEW e \in Card, NEW n \in Nat
      PROVE  /\ [e EXCEPT !.score = n] \in Card /\ [e EXCEPT !.correct = n] \in Card
             /\ [e EXCEPT !.incorrect = n] \in Card /\ [e EXCEPT !.index = n] \in Card
             /\ [e EXCEPT !.attempts = n] \in Card
  BY DEF Card
<1>4. ASSUME NEW e \in Card
      PROVE  LET f == [e EXCEPT !.result = r]
             IN  /\ f \in Card /\ f.result = r
                 /\ f.score = e.score /\ f.correct = e.correct /\ f.incorrect = e.incorrect
                 /\ f.index = e.index /\ f.attempts = e.attempts
  BY DEF Card
<1>5. CASE a.right
  <2>1. PICK e : e = AfterRight(c)
    OBVIOUS
  <2>2. e \in Card
    <3>1. PICK e1 \in Card : e1 = [c EXCEPT !.score = c.score + 1]
      BY <1>2, <1>3, Zenon
    <3>2. PICK e2 \in Card : e2 = [e1 EXCEPT !.correct = c.correct + 1]
      BY <1>2, <1>3, <3>1, Zenon
    <3>3. PICK e3 \in Card : e3 = [e2 EXCEPT !.index = c.index + 1]
      BY <1>2, <1>3, <3>2, Zenon
    <3>4. [e3 EXCEPT !.attempts = 0] \in Card
      BY <1>2, <1>3, <3>3, Zenon
    <3>5. QED
      BY <2>1, <3>1, <3>2, <3>3, <3>4 DEF AfterRight
  <2>3. e.score = c.score + 1 /\ e.correct = c.correct + 1 /\ e.incorrect = c.incorrect
    BY <2>1 DEF AfterRight, Card
  <2>4. e.index = c.index + 1 /\ e.attempts = 0
    BY <2>1 DEF AfterRight, Card
  <2>5. d = [e EXCEPT !.result = r]
    BY <1>1, <1>5, <2>1 DEF Marked
  <2>6. QED
    BY <1>1, <1>2, <1>4, <1>5, <2>2, <2>3, <2>4, <2>5 DEF IsMarked
<1>6. CASE ~a.right
  <2>1. PICK e : e = AfterWrong(c)
    OBVIOUS
  <2>2. (c.attempts + 1 >= 2) <=> (c.attempts >= 1)
    BY <1>2
  <2>3. PICK x, y : x = (IF c.attempts >= 1 THEN 0 ELSE c.attempts + 1)
                  /\ y = (IF c.attempts >= 1 THEN c.index + 1 ELSE c.index)
    OBVIOUS
  <2>4. e = [[[c EXCEPT !.incorrect = c.incorrect + 1] EXCEPT !.attempts = x] EXCEPT !.index = y]
    BY <2>1, <2>2, <2>3 DEF AfterWrong
  <2>5. e \in Card
    <3>1. x \in Nat /\ y \in Nat
      BY <1>2, <2>3
    <3>2. PICK e1 \in Card : e1 = [c EXCEPT !.incorrect = c.incorrect + 1]
      BY <1>2, <1>3, Zenon
    <3>3. PICK e2 \in Card : e2 = [e1 EXCEPT !.attempts = x]
      BY <1>3, <3>1, <3>2, Zenon
    <3>4. [e2 EXCEPT !.index = y] \in Card
      BY <1>3, <3>1, <3>3, Zenon
    <3>5. QED
      BY <2>4, <3>2, <3>3, <3>4
  <2>6. /\ e.score = c.score /\ e.correct = c.correct /\ e.incorrect = c.incorrect + 1
        /\ e.attempts = x /\ e.index = y
    BY <2>4 DEF Card
  <2>7. d = [e EXCEPT !.result = r]
    BY <1>1, <1>6, <2>1 DEF Marked
  <2>8. QED
    BY <1>1, <1>2, <1>4, <1>6, <2>3, <2>5, <2>6, <2>7 DEF IsMarked
<1>7. QED
  BY <1>5, <1>6

\* An answer to the current question keeps card and log in agreement.
LEMMA AnswerCounted ==
    ASSUME NEW c \in Card, NEW l \in Seq(Submission), CountsOK(c, l), PointerOK(c, l),
           c.index < Len(Stream),
           NEW a \in Submission, a.at = c.index + 1, a.index = Len(l) + 1,
           NEW r \in {Null, "win", "loss", "draw"},
           NEW d, d = Marked(c, a, r), NEW m, m = Append(l, a)
    PROVE  CountsOK(d, m) /\ PointerOK(d, m)
<1>1. PICK n \in Nat : n = Len(l) + 1
  OBVIOUS
<1>2. /\ d \in Card
      /\ d.score = c.score + IF a.right THEN 1 ELSE 0
      /\ d.correct = c.correct + IF a.right THEN 1 ELSE 0
      /\ d.incorrect = c.incorrect + IF a.right THEN 0 ELSE 1
      /\ d.index = c.index + IF a.right \/ c.attempts >= 1 THEN 1 ELSE 0
      /\ d.attempts = IF a.right \/ c.attempts >= 1 THEN 0 ELSE c.attempts + 1
  BY MarkedCard DEF IsMarked
<1>3. /\ Len(m) = n /\ DOMAIN m = 1 .. n
      /\ m[n] = a /\ \A k \in DOMAIN l : k \in 1 .. n - 1 /\ m[k] = l[k]
      /\ DOMAIN l = 1 .. n - 1
      /\ Cardinality(RightIn(m)) = Cardinality(RightIn(l)) + IF a.right THEN 1 ELSE 0
      /\ TriesIn(m, a.at) = TriesIn(l, a.at) \cup {n}
      /\ Cardinality(TriesIn(m, a.at)) = Cardinality(TriesIn(l, a.at)) + 1
      /\ \A i : i # a.at => TriesIn(m, i) = TriesIn(l, i)
  <2>1. OneMore(l, a, m, n)
    BY <1>1, OneMoreAnswer
  <2>2. QED
    BY <2>1, Zenon DEF OneMore
<1>4. /\ c.score \in Nat /\ c.correct \in Nat /\ c.incorrect \in Nat /\ c.index \in Nat
      /\ c.attempts \in {0, 1} /\ Len(l) \in Nat /\ a.right \in BOOLEAN
      /\ Len(Stream) \in Nat
  BY StreamAssumption DEF Card, Submission, PointerOK
<1>5. CountsOK(d, m)
  <2>1. d.correct + d.incorrect = Len(m)
    BY <1>1, <1>2, <1>3, <1>4 DEF CountsOK
  <2>2. d.correct = Cardinality(RightIn(m)) /\ d.score = d.correct
    BY <1>2, <1>3, <1>4 DEF CountsOK
  <2>3. \A k \in DOMAIN m : m[k].index = k
    BY <1>1, <1>3, <1>4 DEF CountsOK
  <2>4. QED
    BY <2>1, <2>2, <2>3 DEF CountsOK
<1>6. PointerOK(d, m)
  <2> USE <1>1, <1>4
  <2>1. d.index <= Len(Stream) /\ d.attempts \in {0, 1}
    BY <1>2
  <2>2. d.index \in {c.index, c.index + 1}
    BY <1>2
  <2>3. \A k \in DOMAIN m : m[k].at \in 1 .. d.index + 1
    <3>1. \A k \in DOMAIN l : l[k].at \in 1 .. c.index + 1
      BY DEF PointerOK
    <3>2. QED
      BY <3>1, <2>2, <1>3
  <2>4. \A i \in 1 .. c.index : Settled(m, i)
    <3>1. SUFFICES ASSUME NEW i \in 1 .. c.index
                   PROVE  Settled(m, i)
      OBVIOUS
    <3>2. TriesIn(m, i) = TriesIn(l, i) /\ Settled(l, i)
      BY <1>3 DEF PointerOK
    <3>3. \A k \in TriesIn(l, i) : m[k] = l[k]
      BY <1>3 DEF TriesIn
    <3>4. QED
      BY <3>2, <3>3 DEF Settled
  <2>5. Cardinality(TriesIn(m, a.at)) = c.attempts + 1
    BY <1>3 DEF PointerOK
  <2>6. n \in TriesIn(m, a.at)
    BY <1>3
  <2>7. CASE a.right \/ c.attempts >= 1
    <3>1. d.index = c.index + 1 /\ d.attempts = 0
      BY <1>2, <2>7
    <3>2. Settled(m, a.at)
      BY <2>5, <2>6, <2>7, <1>3 DEF Settled
    <3>3. \A i \in 1 .. d.index : Settled(m, i)
      BY <2>4, <3>1, <3>2
    <3>4. TriesIn(m, d.index + 1) = {}
      <4>1. TriesIn(l, d.index + 1) = {}
        BY <3>1 DEF PointerOK, TriesIn
      <4>2. d.index + 1 # a.at
        BY <3>1
      <4>3. QED
        BY <4>1, <4>2, <1>3
    <3>5. Cardinality(TriesIn(m, d.index + 1)) = d.attempts
      BY <3>4, <3>1, FS_EmptySet
    <3>6. m[Len(m)] = a /\ a.at = d.index
      BY <1>3, <3>1
    <3>7. a.right \/ Cardinality(TriesIn(m, a.at)) = 2
      BY <2>5, <2>7
    <3>8. QED
      BY <2>1, <2>3, <3>1, <3>3, <3>4, <3>5, <3>6, <3>7 DEF PointerOK
  <2>8. CASE ~a.right /\ c.attempts = 0
    <3>1. d.index = c.index /\ d.attempts = 1
      BY <1>2, <2>8
    <3>2. Cardinality(TriesIn(m, d.index + 1)) = d.attempts
      BY <2>5, <3>1, <2>8
    <3>3. \A k \in TriesIn(m, d.index + 1) : ~m[k].right
      <4>1. \A k \in TriesIn(l, a.at) : m[k] = l[k] /\ ~l[k].right
        BY <1>3 DEF PointerOK, TriesIn
      <4>2. d.index + 1 = a.at /\ TriesIn(m, d.index + 1) = TriesIn(l, a.at) \cup {n}
        BY <3>1, <1>3
      <4>3. ~m[n].right
        BY <1>3, <2>8
      <4>4. QED
        BY <4>1, <4>2, <4>3
    <3>4. m[Len(m)].at = d.index + 1
      BY <1>3, <3>1
    <3>5. QED
      BY <2>1, <2>3, <2>4, <3>1, <3>2, <3>3, <3>4 DEF PointerOK
  <2>9. QED
    BY <2>7, <2>8
<1>7. QED
  BY <1>5, <1>6

-----------------------------------------------------------------------------
(***************************************************************************)
(* The steps of one process, seen by the others.                           *)
(***************************************************************************)

\* u neither moves, nor gains or loses a lock.
Rests(u) ==
    /\ pc'[u] = pc[u] /\ req'[u] = req[u] /\ seen'[u] = seen[u]
    /\ \A p \in Player : rowLock'[p] = u <=> rowLock[p] = u
    /\ roomLock' = u <=> roomLock = u

\* A process that rests keeps what it relies on, as long as nobody changes a
\* row it has locked, or closes the battle while it is about to write.
LEMMA Undisturbed ==
    ASSUME NEW u \in Process, ProcOK(u), Rests(u), late => late',
           \A p \in Player : rowLock[p] = u => card'[p] = card[p] /\ subs'[p] = subs[p],
           bstatus' = bstatus \/ pc[u] \notin {"write", "lockRoom", "finish"}
    PROVE  ProcOK(u)'
<1> USE DEF Rests
<1>1. PICK s, q, l : s = seen[u] /\ q = req[u] /\ l = pc[u]
  OBVIOUS
<1>2. s = seen'[u] /\ q = req'[u] /\ l = pc'[u]
  BY <1>1
<1>3. l = "write" => (Accepted(u) => Accepted(u)')
  <2>1. SUFFICES ASSUME l = "write", Accepted(u)
                 PROVE  Accepted(u)'
    OBVIOUS
  <2>2. q.player \in Player /\ s[q.player] # Null
    BY <1>1, <2>1 DEF ProcOK, InSubmission
  <2>3. rowLock[q.player] = u
    BY <1>1, <2>2 DEF ProcOK
  <2>4. subs'[q.player] = subs[q.player]
    BY <2>2, <2>3
  <2>5. QED
    BY <1>1, <1>2, <2>1, <2>4 DEF Accepted, AnsweredBefore
<1>4. \A p \in Player : rowLock'[p] = u <=> s[p] # Null
  BY <1>1 DEF ProcOK
<1>5. \A p \in Player : s[p] # Null => s[p] = card'[p]
  BY <1>1 DEF ProcOK
<1>6. l = "write" => bstatus' = "active" /\ Accepted(u)'
  BY <1>1, <1>3 DEF ProcOK
<1>7. l \in {"lockRoom", "finish"} => bstatus' = "active"
  BY <1>1 DEF ProcOK
<1>8. l \in InCompletion => late'
  BY <1>1 DEF ProcOK
<1>9. QED
  BY <1>1, <1>2, <1>4, <1>5, <1>6, <1>7, <1>8 DEF ProcOK, InSubmission, InCompletion

\* Commit and rollback release the locks of one process and nothing else.
LEMMA TxEnded ==
    ASSUME TypeOK, NEW t \in Process, NEW l \in {"idle", "begin"}, EndTx(t, l),
           l = "begin" => late'
    PROVE  /\ rowLock' \in [Player -> Process \cup {Null}]
           /\ roomLock' \in Process \cup {LobbyTx, Null}
           /\ pc' \in [Process -> Label]
           /\ req' \in [Process -> [player : Player \cup {Null}, index : Nat,
                                    answer : Answer \cup {Null}]]
           /\ seen' \in [Process -> [Player -> Card \cup {Null}]]
           /\ ProcOK(t)'
           /\ \A u \in Process \ {t} : Rests(u)
<1>1. /\ pc' \in [Process -> Label] /\ pc'[t] = l
      /\ \A u \in Process \ {t} : pc'[u] = pc[u]
  BY DEF EndTx, Goto, TypeOK, Label
<1>2. NoRequest \in [player : Player \cup {Null}, index : Nat, answer : Answer \cup {Null}]
  BY DEF NoRequest
<1>3. NothingSeen \in [Player -> Card \cup {Null}]
  BY DEF NothingSeen
<1>4. /\ req' \in [Process -> [player : Player \cup {Null}, index : Nat,
                               answer : Answer \cup {Null}]]
      /\ \A u \in Process \ {t} : req'[u] = req[u]
  BY <1>2 DEF EndTx, TypeOK
<1>5. /\ seen' \in [Process -> [Player -> Card \cup {Null}]]
      /\ seen'[t] = NothingSeen
      /\ \A u \in Process \ {t} : seen'[u] = seen[u]
  BY <1>3 DEF EndTx, TypeOK
<1>6. /\ rowLock' \in [Player -> Process \cup {Null}]
      /\ \A p \in Player : rowLock'[p] = IF rowLock[p] = t THEN Null ELSE rowLock[p]
  BY DEF EndTx, TypeOK
<1>7. roomLock' \in Process \cup {LobbyTx, Null}
  BY DEF EndTx, TypeOK
<1>8. ProcOK(t)'
  <2>1. \A p \in Player : seen'[t][p] = Null
    BY <1>5 DEF NothingSeen
  <2>2. \A p \in Player : rowLock'[p] # t
    BY <1>6, ProcessAssumption
  <2>3. roomLock' # t
    BY ProcessAssumption DEF EndTx
  <2>4. QED
    BY <1>1, <2>1, <2>2, <2>3 DEF ProcOK, InSubmission, InCompletion
<1>9. ASSUME NEW u \in Process \ {t}
      PROVE  Rests(u)
  <2>1. \A p \in Player : rowLock'[p] = u <=> rowLock[p] = u
    BY <1>6, ProcessAssumption
  <2>2. roomLock' = u <=> roomLock = u
    BY ProcessAssumption DEF EndTx
  <2>3. QED
    BY <1>1, <1>4, <1>5, <2>1, <2>2 DEF Rests
<1>10. QED
  BY <1>1, <1>4, <1>5, <1>6, <1>7, <1>8, <1>9

\* A step that changes no table keeps the invariant if the process that takes it
\* is as it should be and the others rest.
LEMMA TablesUnchanged ==
    ASSUME IInv, UNCHANGED data, TypeOK', NEW t \in Process, ProcOK(t)',
           \A u \in Process \ {t} : Rests(u)
    PROVE  IInv'
<1>1. \A u \in Process \ {t} : ProcOK(u)'
  BY Undisturbed DEF IInv, data
<1>2. \A p \in Player : (CountsOK(card[p], subs[p]) /\ PointerOK(card[p], subs[p]))'
  BY DEF IInv, data
<1>3. ResultsMatchScores' /\ (bstatus = "active" => room = "in_battle")'
  BY DEF IInv, data, ResultsMatchScores
<1>4. QED
  BY <1>1, <1>2, <1>3 DEF IInv

\* So does the end of a transaction that wrote nothing.
LEMMA RolledBack ==
    ASSUME IInv, UNCHANGED data, NEW t \in Process, NEW l \in {"idle", "begin"},
           EndTx(t, l), l = "begin" => late
    PROVE  IInv'
<1>1. TypeOK /\ late' = late
  BY DEF IInv, data
<1>2. TypeOK' /\ ProcOK(t)' /\ \A u \in Process \ {t} : Rests(u)
  <2>1. (l = "begin" => late')
    BY <1>1
  <2>2. /\ rowLock' \in [Player -> Process \cup {Null}]
        /\ roomLock' \in Process \cup {LobbyTx, Null}
        /\ pc' \in [Process -> Label]
        /\ req' \in [Process -> [player : Player \cup {Null}, index : Nat,
                                 answer : Answer \cup {Null}]]
        /\ seen' \in [Process -> [Player -> Card \cup {Null}]]
        /\ ProcOK(t)'
        /\ \A u \in Process \ {t} : Rests(u)
    BY <1>1, <2>1, TxEnded
  <2>3. QED
    BY <1>1, <2>2 DEF TypeOK, data
<1>3. QED
  BY <1>2, TablesUnchanged

\* So does a step to the next statement.
LEMMA Proceeds ==
    ASSUME IInv, UNCHANGED <<data, locks, req, seen>>, NEW t \in Process, NEW l \in Label,
           Goto(t, l), ProcOK(t)'
    PROVE  IInv'
<1>1. TypeOK'
  BY DEF IInv, TypeOK, data, locks, Goto
<1>2. \A u \in Process \ {t} : Rests(u)
  BY DEF IInv, TypeOK, Rests, Goto, locks
<1>3. UNCHANGED data
  OBVIOUS
<1>4. QED
  BY <1>1, <1>2, <1>3, TablesUnchanged

-----------------------------------------------------------------------------
(***************************************************************************)
(* The invariant holds.                                                    *)
(***************************************************************************)

LEMMA InitIInv == Init => IInv
<1> SUFFICES ASSUME Init
             PROVE  IInv
  OBVIOUS
<1> USE DEF Init
<1>1. TypeOK
  <2>1. NewCard \in Card /\ <<>> \in Seq(Submission)
    BY DEF NewCard, Card
  <2>2. NoRequest \in [player : Player \cup {Null}, index : Nat, answer : Answer \cup {Null}]
    BY DEF NoRequest
  <2>3. NothingSeen \in [Player -> Card \cup {Null}]
    BY DEF NothingSeen
  <2>4. QED
    BY <2>1, <2>2, <2>3 DEF TypeOK, Label
<1>2. ASSUME NEW p \in Player
      PROVE  CountsOK(card[p], subs[p]) /\ PointerOK(card[p], subs[p])
  <2>1. card[p] = NewCard /\ subs[p] = <<>>
    OBVIOUS
  <2>2. RightIn(<<>>) = {} /\ \A i : TriesIn(<<>>, i) = {}
    BY DEF RightIn, TriesIn
  <2>3. Cardinality({}) = 0
    BY FS_EmptySet
  <2>4. Len(Stream) \in Nat
    BY StreamAssumption
  <2>5. Len(<<>>) = 0 /\ DOMAIN <<>> = {}
    OBVIOUS
  <2>6. PICK c, l : c = NewCard /\ l = <<>>
    OBVIOUS
  <2>7. /\ c.score = 0 /\ c.correct = 0 /\ c.incorrect = 0 /\ c.index = 0 /\ c.attempts = 0
    BY <2>6 DEF NewCard
  <2>8. /\ Len(l) = 0 /\ DOMAIN l = {}
        /\ RightIn(l) = {} /\ \A i : TriesIn(l, i) = {}
    BY <2>2, <2>5, <2>6
  <2>9. CountsOK(c, l)
    BY <2>3, <2>7, <2>8 DEF CountsOK
  <2>10. PointerOK(c, l)
    <3>1. c.index <= Len(Stream) /\ 1 .. c.index = {}
      BY <2>4, <2>7
    <3>2. TriesIn(l, c.index + 1) = {}
      BY <2>8
    <3>3. Cardinality(TriesIn(l, c.index + 1)) = c.attempts
      BY <2>3, <2>7, <3>2
    <3>4. QED
      BY <2>7, <2>8, <3>1, <3>2, <3>3 DEF PointerOK
  <2>11. QED
    BY <2>1, <2>6, <2>9, <2>10
<1>3. ASSUME NEW t \in Process
      PROVE  ProcOK(t)
  BY ProcessAssumption DEF ProcOK, NothingSeen, InSubmission, InCompletion
<1>4. ResultsMatchScores
  BY DEF ResultsMatchScores, NewCard
<1>5. QED
  BY <1>1, <1>2, <1>3, <1>4 DEF IInv

\* A request arrives.
LEMMA SubmitIInv ==
    ASSUME IInv, NEW t \in Request, NEW p \in Player, NEW n \in Nat, NEW a \in Answer,
           Submit(t, p, n, a)
    PROVE  IInv'
<1>0. t \in Process /\ n \in Nat
  BY DEF Process
<1>1. PICK q : q = [player |-> p, index |-> n, answer |-> a]
  OBVIOUS
<1>2. q \in [player : Player \cup {Null}, index : Nat, answer : Answer \cup {Null}]
  BY <1>0, <1>1
<1>3. TypeOK /\ UNCHANGED <<data, locks, seen>> /\ Goto(t, "lock") /\ req' = [req EXCEPT ![t] = q]
  BY <1>1 DEF IInv, Submit
<1>4. TypeOK'
  BY <1>0, <1>2, <1>3 DEF TypeOK, data, locks, Goto, Label
<1>5. /\ pc'[t] = "lock" /\ req'[t] = q
      /\ \A u \in Process \ {t} : Rests(u)
  BY <1>0, <1>3 DEF TypeOK, Goto, Rests, locks
<1>6. ProcOK(t)'
  <2>1. ProcOK(t) /\ pc[t] = "idle"
    BY <1>0 DEF IInv, Submit
  <2>2. seen'[t] = seen[t] /\ rowLock' = rowLock /\ roomLock' = roomLock
    BY <1>3 DEF locks
  <2>3. \A r \in Player : seen'[t][r] = Null
    BY <2>1, <2>2 DEF ProcOK
  <2>4. \A r \in Player : rowLock'[r] = t <=> seen'[t][r] # Null
    BY <2>1, <2>2 DEF ProcOK
  <2>5. q.player \in Player /\ q.answer \in Answer
    BY <1>1
  <2>6. roomLock' # t
    BY <2>1, <2>2 DEF ProcOK
  <2>7. QED
    BY <1>5, <2>3, <2>4, <2>5, <2>6 DEF ProcOK, InSubmission, InCompletion
<1>7. UNCHANGED data
  BY <1>3
<1>8. QED
  BY <1>0, <1>4, <1>5, <1>6, <1>7, TablesUnchanged

\* A check finds the time up.
LEMMA FindExpiredIInv ==
    ASSUME IInv, NEW t \in Process, FindExpired(t)
    PROVE  IInv'
<1>1. pc'[t] = "begin" /\ late'
  BY DEF IInv, TypeOK, FindExpired, Goto, Overdue, data
<1>2. ProcOK(t)'
  BY <1>1 DEF IInv, FindExpired, ProcOK, InSubmission, InCompletion, locks
<1>3. QED
  BY <1>2, Proceeds DEF FindExpired, Label

\* A process locks the row of one player and reads it.
LEMMA RowLocked ==
    ASSUME IInv, NEW t \in Process, NEW p \in Player, LockRow(t, p), NEW l \in Label,
           Goto(t, l), UNCHANGED <<data, req>>
    PROVE  /\ TypeOK'
           /\ \A u \in Process \ {t} : Rests(u)
           /\ pc'[t] = l /\ seen[t][p] = Null
           /\ seen'[t][p] = card'[p] /\ card'[p] # Null
           /\ \A q \in Player \ {p} : seen'[t][q] = seen[t][q]
           /\ \A q \in Player : rowLock'[q] = t <=> seen'[t][q] # Null
           /\ \A q \in Player : seen'[t][q] # Null => seen'[t][q] = card'[q]
<1>1. TypeOK /\ card[p] \in Card /\ card' = card /\ roomLock' = roomLock /\ req' = req
  BY DEF IInv, TypeOK, data, LockRow
<1>2. /\ rowLock[p] = Null /\ rowLock' = [rowLock EXCEPT ![p] = t]
      /\ seen' = [seen EXCEPT ![t][p] = card[p]]
  BY DEF LockRow
<1>3. /\ seen' \in [Process -> [Player -> Card \cup {Null}]]
      /\ seen'[t] = [seen[t] EXCEPT ![p] = card[p]]
      /\ \A u \in Process \ {t} : seen'[u] = seen[u]
  <2>1. [seen[t] EXCEPT ![p] = card[p]] \in [Player -> Card \cup {Null}]
    BY <1>1 DEF TypeOK
  <2>2. seen' = [seen EXCEPT ![t] = [seen[t] EXCEPT ![p] = card[p]]]
    BY <1>2
  <2>3. QED
    BY <2>1, <2>2, <1>1 DEF TypeOK
<1>4. seen'[t][p] = card[p] /\ \A q \in Player \ {p} : seen'[t][q] = seen[t][q]
  BY <1>1, <1>3 DEF TypeOK
<1>5. card[p] # Null
  BY <1>1, CardAssumption
<1>6. TypeOK'
  BY <1>1, <1>2, <1>3 DEF TypeOK, data, Goto
<1>7. /\ rowLock' \in [Player -> Process \cup {Null}] /\ rowLock'[p] = t
      /\ \A q \in Player \ {p} : rowLock'[q] = rowLock[q]
  BY <1>1, <1>2 DEF TypeOK
<1>8. pc'[t] = l /\ \A u \in Process \ {t} : pc'[u] = pc[u]
  BY <1>1 DEF Goto, TypeOK
<1>9. ASSUME NEW u \in Process \ {t}
      PROVE  Rests(u)
  BY <1>1, <1>2, <1>3, <1>7, <1>8, ProcessAssumption DEF Rests
<1>10. ProcOK(t)
  BY DEF IInv
<1>11. seen[t][p] = Null
  BY <1>2, <1>10, ProcessAssumption DEF ProcOK
<1>12. \A q \in Player : rowLock'[q] = t <=> seen'[t][q] # Null
  BY <1>4, <1>5, <1>7, <1>10 DEF ProcOK
<1>13. \A q \in Player : seen'[t][q] # Null => seen'[t][q] = card[q]
  BY <1>4, <1>10 DEF ProcOK
<1>14. QED
  BY <1>1, <1>4, <1>5, <1>6, <1>8, <1>9, <1>11, <1>12, <1>13

\* SubmitAnswer locks the row of its player.
LEMMA LockPlayerIInv ==
    ASSUME IInv, NEW t \in Process, LockPlayer(t)
    PROVE  IInv'
<1>1. PICK p : p = req[t].player
  OBVIOUS
<1>2. ProcOK(t) /\ pc[t] = "lock" /\ req' = req /\ UNCHANGED data
  BY DEF IInv, LockPlayer
<1>3. p \in Player /\ req[t].answer \in Answer
  BY <1>1, <1>2 DEF ProcOK
<1>4. LockRow(t, p) /\ Goto(t, "check") /\ UNCHANGED <<data, req>>
  BY <1>1 DEF LockPlayer
<1>5. "check" \in Label
  BY DEF Label
<1>6. /\ TypeOK'
      /\ \A u \in Process \ {t} : Rests(u)
      /\ pc'[t] = "check"
      /\ seen'[t][p] = card'[p] /\ card'[p] # Null
      /\ \A q \in Player : rowLock'[q] = t <=> seen'[t][q] # Null
      /\ \A q \in Player : seen'[t][q] # Null => seen'[t][q] = card'[q]
  BY <1>3, <1>4, <1>5, RowLocked
<1>7. roomLock' # t
  BY <1>2, <1>4 DEF LockRow, ProcOK
<1>8. ProcOK(t)'
  BY <1>1, <1>2, <1>3, <1>6, <1>7 DEF ProcOK, InSubmission, InCompletion
<1>9. QED
  BY <1>2, <1>6, <1>8, TablesUnchanged

\* CompleteBattle locks the next row: with the second one it has both.
LEMMA LockNextRowIInv ==
    ASSUME IInv, NEW t \in Process, LockNextRow(t)
    PROVE  IInv'
<1>1. PICK p \in NextRow(t) : LockRow(t, p)
  BY DEF LockNextRow
<1>2. PICK l : l = IF \A q \in Player : seen'[t][q] # Null THEN "recheck" ELSE "lockAll"
  OBVIOUS
<1>3. p \in Player /\ l \in Label
  BY <1>1, <1>2 DEF NextRow, Label
<1>4. Goto(t, l) /\ UNCHANGED <<data, req>> /\ pc[t] = "lockAll"
  BY <1>2 DEF LockNextRow
<1>5. /\ TypeOK'
      /\ \A u \in Process \ {t} : Rests(u)
      /\ pc'[t] = l
      /\ seen'[t][p] # Null
      /\ \A q \in Player \ {p} : seen'[t][q] = seen[t][q]
      /\ \A q \in Player : rowLock'[q] = t <=> seen'[t][q] # Null
      /\ \A q \in Player : seen'[t][q] # Null => seen'[t][q] = card'[q]
  BY <1>1, <1>3, <1>4, RowLocked
<1>6. ProcOK(t)
  BY DEF IInv
<1>7. roomLock' # t /\ late'
  BY <1>1, <1>4, <1>6 DEF LockRow, ProcOK, InCompletion, data
<1>8. l = "lockAll" => seen'[t][2] = Null
  <2>1. CASE p = 1
    BY <1>2, <1>5, <2>1 DEF Player
  <2>2. CASE p = 2
    <3>1. seen[t][1] # Null
      BY <1>1, <2>2 DEF NextRow, Player
    <3>2. seen'[t][1] # Null
      BY <1>5, <2>2, <3>1 DEF Player
    <3>3. QED
      BY <1>2, <1>5, <2>2, <3>2 DEF Player
  <2>3. QED
    BY <1>3, <2>1, <2>2 DEF Player
<1>9. ProcOK(t)'
  BY <1>2, <1>5, <1>7, <1>8 DEF ProcOK, InSubmission, InCompletion
<1>10. UNCHANGED data
  BY <1>4
<1>11. QED
  BY <1>5, <1>9, <1>10, TablesUnchanged

\* The other steps that only read.
LEMMA ReadStepsIInv ==
    ASSUME IInv, NEW t \in Process,
           Refuse(t) \/ RefuseExpired(t) \/ Accept(t) \/ BeginCompletion(t) \/ Recheck(t) \/ Abort(t)
    PROVE  IInv'
<1>0. ProcOK(t)
  BY DEF IInv
<1>1. CASE Refuse(t) \/ Abort(t)
  BY <1>1, RolledBack DEF Refuse, Abort
<1>2. CASE RefuseExpired(t)
  <2>1. late
    BY <1>2 DEF RefuseExpired, BattleCheck, Overdue
  <2>2. QED
    BY <1>2, <2>1, RolledBack DEF RefuseExpired
<1>3. CASE Accept(t)
  <2>1. pc'[t] = "write" /\ bstatus = "active" /\ Accepted(t) /\ pc[t] = "check"
    BY <1>3 DEF Accept, Goto, IInv, TypeOK, BattleCheck
  <2>2. UNCHANGED <<data, locks, req, seen>> /\ Goto(t, "write")
    BY <1>3 DEF Accept
  <2>3. Accepted(t)'
    BY <2>1, <2>2 DEF Accepted, AnsweredBefore, data
  <2>4. ProcOK(t)'
    BY <1>0, <2>1, <2>2, <2>3 DEF ProcOK, InSubmission, InCompletion, data, locks
  <2>5. QED
    BY <2>2, <2>4, Proceeds DEF Label
<1>4. CASE BeginCompletion(t)
  <2>1. PICK l \in {"idle", "lockAll"} : Goto(t, l)
    BY <1>4 DEF BeginCompletion
  <2>2. UNCHANGED <<data, locks, req, seen>> /\ pc[t] = "begin" /\ pc'[t] = l
    BY <1>4, <2>1 DEF BeginCompletion, Goto, IInv, TypeOK
  <2>3. ProcOK(t)'
    BY <1>0, <2>1, <2>2 DEF ProcOK, InSubmission, InCompletion, data, locks, Player
  <2>4. QED
    BY <2>1, <2>2, <2>3, Proceeds DEF Label
<1>5. CASE Recheck(t)
  <2>1. CASE AfterSecondLook = "idle"
    BY <1>5, <2>1, RolledBack DEF Recheck
  <2>2. CASE AfterSecondLook # "idle"
    <3>1. bstatus = "active" /\ AfterSecondLook = "lockRoom"
      BY <2>2 DEF AfterSecondLook, IInv, TypeOK
    <3>2. UNCHANGED <<data, locks, req, seen>> /\ pc[t] = "recheck" /\ Goto(t, "lockRoom")
      BY <1>5, <2>2, <3>1 DEF Recheck
    <3>3. pc'[t] = "lockRoom"
      BY <3>2 DEF Goto, IInv, TypeOK
    <3>4. ProcOK(t)'
      BY <1>0, <3>1, <3>2, <3>3 DEF ProcOK, InSubmission, InCompletion, data, locks
    <3>5. QED
      BY <3>2, <3>4, Proceeds DEF Label
  <2>3. QED
    BY <2>1, <2>2
<1>6. QED
  BY <1>1, <1>2, <1>3, <1>4, <1>5

\* CompleteBattle locks the room.
LEMMA LockRoomIInv ==
    ASSUME IInv, NEW t \in Process, LockRoom(t)
    PROVE  IInv'
<1>1. ProcOK(t) /\ TypeOK
  BY DEF IInv
<1>2. UNCHANGED <<data, rowLock, req, seen>> /\ roomLock = Null /\ roomLock' = t /\ pc[t] = "lockRoom"
  BY DEF LockRoom
<1>3. pc'[t] = "finish" /\ \A u \in Process \ {t} : pc'[u] = pc[u]
  BY <1>1 DEF LockRoom, Goto, TypeOK
<1>4. TypeOK'
  BY <1>1, <1>2 DEF LockRoom, Goto, TypeOK, data, Label
<1>5. \A u \in Process \ {t} : Rests(u)
  BY <1>2, <1>3, ProcessAssumption DEF Rests
<1>6. ProcOK(t)'
  BY <1>1, <1>2, <1>3 DEF ProcOK, InSubmission, InCompletion, data
<1>7. QED
  BY <1>2, <1>4, <1>5, <1>6, TablesUnchanged

\* What a submission writes: the next answer of its player, marked on his card
\* as it stands.
LEMMA WriteEffect ==
    ASSUME IInv, NEW t \in Process, Write(t)
    PROVE  \E p \in Player, a \in Submission :
             /\ rowLock[p] = t /\ bstatus = "active"
             /\ a.answer \in Answer
             /\ card[p].index < Len(Stream)
             /\ a.at = card[p].index + 1 /\ a.index = Len(subs[p]) + 1
             /\ a.right = (a.answer \in Key[Stream[a.at]])
             /\ subs' = [subs EXCEPT ![p] = Append(@, a)]
             /\ card' = [card EXCEPT ![p] = Marked(card[p], a, card[p].result)]
<1>1. ProcOK(t) /\ TypeOK /\ pc[t] = "write"
  BY DEF IInv, Write
<1>2. PICK p, c : p = req[t].player /\ c = seen[t][p]
  OBVIOUS
<1>3. p \in Player /\ req[t].answer \in Answer /\ c # Null /\ c = card[p] /\ rowLock[p] = t
  BY <1>1, <1>2 DEF ProcOK, InSubmission
<1>4. bstatus = "active" /\ QuestionLeft(c) /\ IndexExpected(req[t].index, c)
  BY <1>1, <1>2 DEF ProcOK, Accepted
<1>5. c \in Card /\ req[t].index \in Nat
  BY <1>1, <1>3 DEF TypeOK
<1>6. c.index \in Nat /\ c.index < Len(Stream)
  BY <1>4, <1>5 DEF Card, QuestionLeft
<1>7. req[t].index = Len(subs[p]) + 1
  BY <1>3, <1>4 DEF IInv, CountsOK, IndexExpected, Expected
<1>8. PICK a : a = [at |-> c.index + 1, index |-> req[t].index, answer |-> req[t].answer,
                    right |-> req[t].answer \in Key[CurrentQuestion(c)]]
  OBVIOUS
<1>9. /\ a.at = c.index + 1 /\ a.index = req[t].index /\ a.answer = req[t].answer
      /\ a.right = (req[t].answer \in Key[CurrentQuestion(c)])
  BY <1>8
<1>10. a \in Submission
  BY <1>3, <1>5, <1>6, <1>8 DEF Submission
<1>11. a.right = (a.answer \in Key[Stream[a.at]])
  BY <1>9 DEF CurrentQuestion
<1>12. subs' = [subs EXCEPT ![p] = Append(@, a)]
  BY <1>2, <1>8 DEF Write
<1>13. card' = [card EXCEPT ![p] = Marked(card[p], a, card[p].result)]
  <2>1. card' = [card EXCEPT ![p] =
                   [(IF req[t].answer \in Key[CurrentQuestion(c)] THEN AfterRight(c) ELSE AfterWrong(c))
                      EXCEPT !.result = card[p].result]]
    BY <1>2 DEF Write
  <2>2. QED
    BY <2>1, <1>3, <1>9 DEF Marked
<1>14. QED
  BY <1>3, <1>4, <1>6, <1>7, <1>9, <1>10, <1>11, <1>12, <1>13

\* A submission commits.
LEMMA WriteIInv ==
    ASSUME IInv, NEW t \in Process, Write(t)
    PROVE  IInv'
<1>1. PICK p \in Player, a \in Submission :
        /\ rowLock[p] = t /\ bstatus = "active"
        /\ card[p].index < Len(Stream)
        /\ a.at = card[p].index + 1 /\ a.index = Len(subs[p]) + 1
        /\ subs' = [subs EXCEPT ![p] = Append(@, a)]
        /\ card' = [card EXCEPT ![p] = Marked(card[p], a, card[p].result)]
  BY WriteEffect
<1>2. TypeOK /\ EndTx(t, "idle") /\ UNCHANGED <<bstatus, winner, late, room>>
  BY DEF IInv, Write
<1>3. PICK c, l, r, d, m : /\ c = card[p] /\ l = subs[p] /\ r = card[p].result
                           /\ d = Marked(c, a, r) /\ m = Append(l, a)
  OBVIOUS
<1>4. c \in Card /\ l \in Seq(Submission) /\ r \in {Null, "win", "loss", "draw"}
  BY <1>2, <1>3 DEF TypeOK, Card
<1>5. CountsOK(c, l) /\ PointerOK(c, l)
  BY <1>3 DEF IInv
<1>6. d \in Card /\ d.result = r
  BY <1>3, <1>4, MarkedCard DEF IsMarked
<1>7. CountsOK(d, m) /\ PointerOK(d, m)
  BY <1>1, <1>3, <1>4, <1>5, AnswerCounted
<1>8. m \in Seq(Submission)
  BY <1>3, <1>4
<1>9. /\ card' \in [Player -> Card] /\ card'[p] = d
      /\ \A q \in Player \ {p} : card'[q] = card[q]
  BY <1>1, <1>2, <1>3, <1>6 DEF TypeOK
<1>10. /\ subs' \in [Player -> Seq(Submission)] /\ subs'[p] = m
       /\ \A q \in Player \ {p} : subs'[q] = subs[q]
  BY <1>1, <1>2, <1>3, <1>8 DEF TypeOK
<1>11. /\ rowLock' \in [Player -> Process \cup {Null}]
       /\ roomLock' \in Process \cup {LobbyTx, Null}
       /\ pc' \in [Process -> Label]
       /\ req' \in [Process -> [player : Player \cup {Null}, index : Nat,
                                answer : Answer \cup {Null}]]
       /\ seen' \in [Process -> [Player -> Card \cup {Null}]]
       /\ ProcOK(t)'
       /\ \A u \in Process \ {t} : Rests(u)
  BY <1>2, TxEnded
<1>12. TypeOK'
  BY <1>2, <1>9, <1>10, <1>11 DEF TypeOK
<1>13. ASSUME NEW q \in Player
       PROVE  (CountsOK(card[q], subs[q]) /\ PointerOK(card[q], subs[q]))'
  <2>1. CASE q = p
    BY <2>1, <1>7, <1>9, <1>10
  <2>2. CASE q # p
    <3>1. card'[q] = card[q] /\ subs'[q] = subs[q]
      BY <2>2, <1>9, <1>10
    <3>2. CountsOK(card[q], subs[q]) /\ PointerOK(card[q], subs[q])
      BY DEF IInv
    <3>3. QED
      BY <3>1, <3>2
  <2>3. QED
    BY <2>1, <2>2
<1>14. ASSUME NEW u \in Process
       PROVE  ProcOK(u)'
  <2>1. CASE u = t
    BY <2>1, <1>11
  <2>2. CASE u # t
    <3>1. ProcOK(u) /\ Rests(u)
      BY <2>2, <1>11 DEF IInv
    <3>2. \A q \in Player : rowLock[q] = u => q # p
      BY <2>2, <1>1
    <3>3. \A q \in Player : rowLock[q] = u => card'[q] = card[q] /\ subs'[q] = subs[q]
      BY <3>2, <1>9, <1>10
    <3>4. QED
      BY <1>2, <3>1, <3>3, Undisturbed
  <2>3. QED
    BY <2>1, <2>2
<1>15. ResultsMatchScores'
  BY <1>1, <1>2, <1>3, <1>6, <1>9 DEF IInv, ResultsMatchScores
<1>16. (bstatus = "active" => room = "in_battle")'
  BY <1>2 DEF IInv
<1>17. QED
  BY <1>12, <1>13, <1>14, <1>15, <1>16 DEF IInv

\* Completion compares the cards it has locked, which are those in the table,
\* and changes only their results.
LEMMA FinishEffect ==
    ASSUME IInv, NEW t \in Process, Finish(t)
    PROVE  /\ bstatus = "active" /\ late /\ room' = "ready" /\ bstatus' = "finished"
           /\ \A p \in Player : rowLock[p] = t
           /\ winner' = WinnerOf(card) /\ WinnerOf(card) \in Player \cup {Null}
           /\ card' \in [Player -> Card]
           /\ \A p \in Player : /\ card'[p].result = ResultOf(p, winner')
                                /\ card'[p].score = card[p].score
                                /\ card'[p].correct = card[p].correct
                                /\ card'[p].incorrect = card[p].incorrect
                                /\ card'[p].index = card[p].index
                                /\ card'[p].attempts = card[p].attempts
<1>1. ProcOK(t) /\ TypeOK /\ pc[t] = "finish"
  BY DEF IInv, Finish
<1>2. \A p \in Player : rowLock[p] = t /\ seen[t][p] = card[p]
  BY <1>1 DEF ProcOK
<1>3. bstatus = "active" /\ late
  BY <1>1 DEF ProcOK, InCompletion
<1>4. PICK w : w = WinnerOf(seen[t])
  OBVIOUS
<1>5. w = WinnerOf(card) /\ w \in Player \cup {Null}
  BY <1>2, <1>4 DEF WinnerOf, Player
<1>6. \A p \in Player : ResultOf(p, w) \in {Null, "win", "loss", "draw"}
  BY DEF ResultOf
<1>7. card' = [p \in Player |-> [card[p] EXCEPT !.result = ResultOf(p, w)]]
  BY <1>4 DEF Finish
<1>8. ASSUME NEW p \in Player
      PROVE  /\ card'[p] \in Card
             /\ card'[p].result = ResultOf(p, w)
             /\ card'[p].score = card[p].score
             /\ card'[p].correct = card[p].correct
             /\ card'[p].incorrect = card[p].incorrect
             /\ card'[p].index = card[p].index
             /\ card'[p].attempts = card[p].attempts
  <2>1. PICK c \in Card : c = card[p]
    BY <1>1 DEF TypeOK
  <2>2. PICK r \in {Null, "win", "loss", "draw"} : r = ResultOf(p, w)
    BY <1>6
  <2>3. card'[p] = [c EXCEPT !.result = r]
    BY <1>7, <2>1, <2>2
  <2>4. QED
    BY <2>1, <2>2, <2>3 DEF Card
<1>9. card' \in [Player -> Card]
  BY <1>7, <1>8
<1>10. winner' = w /\ room' = "ready" /\ bstatus' = "finished"
  BY <1>4 DEF Finish
<1>11. QED
  BY <1>2, <1>3, <1>5, <1>8, <1>9, <1>10

\* A battle is completed.
LEMMA FinishIInv ==
    ASSUME IInv, NEW t \in Process, Finish(t)
    PROVE  IInv'
<1>1. /\ bstatus = "active" /\ late /\ room' = "ready" /\ bstatus' = "finished"
      /\ \A p \in Player : rowLock[p] = t
      /\ winner' = WinnerOf(card) /\ WinnerOf(card) \in Player \cup {Null}
      /\ card' \in [Player -> Card]
      /\ \A p \in Player : /\ card'[p].result = ResultOf(p, winner')
                           /\ card'[p].score = card[p].score
                           /\ card'[p].correct = card[p].correct
                           /\ card'[p].incorrect = card[p].incorrect
                           /\ card'[p].index = card[p].index
                           /\ card'[p].attempts = card[p].attempts
  BY FinishEffect
<1>2. TypeOK /\ EndTx(t, "idle") /\ UNCHANGED <<late, subs>>
  BY DEF IInv, Finish
<1>3. /\ rowLock' \in [Player -> Process \cup {Null}]
      /\ roomLock' \in Process \cup {LobbyTx, Null}
      /\ pc' \in [Process -> Label]
      /\ req' \in [Process -> [player : Player \cup {Null}, index : Nat,
                               answer : Answer \cup {Null}]]
      /\ seen' \in [Process -> [Player -> Card \cup {Null}]]
      /\ ProcOK(t)'
      /\ \A u \in Process \ {t} : Rests(u)
  BY <1>2, TxEnded
<1>4. TypeOK'
  BY <1>1, <1>2, <1>3 DEF TypeOK
<1>5. ASSUME NEW q \in Player
      PROVE  (CountsOK(card[q], subs[q]) /\ PointerOK(card[q], subs[q]))'
  <2>1. PICK c, d, l : c = card[q] /\ d = card'[q] /\ l = subs[q]
    OBVIOUS
  <2>2. CountsOK(c, l) /\ PointerOK(c, l)
    BY <2>1 DEF IInv
  <2>3. /\ d.score = c.score /\ d.correct = c.correct /\ d.incorrect = c.incorrect
        /\ d.index = c.index /\ d.attempts = c.attempts
    BY <1>1, <2>1
  <2>4. CountsOK(d, l) /\ PointerOK(d, l)
    BY <2>2, <2>3 DEF CountsOK, PointerOK
  <2>5. QED
    BY <1>2, <2>1, <2>4
<1>6. ASSUME NEW u \in Process
      PROVE  ProcOK(u)'
  <2>1. CASE u = t
    BY <2>1, <1>3
  <2>2. CASE u # t
    <3>1. ProcOK(u) /\ Rests(u)
      BY <2>2, <1>3 DEF IInv
    <3>2. \A q \in Player : rowLock[q] # u
      BY <2>2, <1>1
    <3>3. 1 \in Player /\ 2 \in Player
      BY DEF Player
    <3>4. pc[u] \notin {"recheck", "lockRoom", "finish"}
      BY <3>1, <3>2, <3>3 DEF ProcOK
    <3>5. pc[u] # "write"
      BY <3>1, <3>2 DEF ProcOK, InSubmission
    <3>6. QED
      BY <1>2, <3>1, <3>2, <3>4, <3>5, Undisturbed
  <2>3. QED
    BY <2>1, <2>2
<1>7. ResultsMatchScores'
  <2>1. WinnerOf(card)' = WinnerOf(card)
    BY <1>1 DEF WinnerOf, Player
  <2>2. QED
    BY <1>1, <2>1 DEF ResultsMatchScores
<1>8. QED
  BY <1>1, <1>4, <1>5, <1>6, <1>7 DEF IInv

\* The lobby and the clock.
LEMMA OutsideIInv ==
    ASSUME IInv, LobbyLocks \/ LobbyCommits \/ TimeUp
    PROVE  IInv'
<1>1. TypeOK'
  BY DEF IInv, TypeOK, LobbyLocks, LobbyCommits, TimeUp, data, locks
<1>2. UNCHANGED <<bstatus, winner, card, subs, rowLock, pc, req, seen>> /\ (late => late')
  BY DEF LobbyLocks, LobbyCommits, TimeUp, data, locks
<1>3. \A u \in Process : roomLock' = u <=> roomLock = u
  BY ProcessAssumption DEF LobbyLocks, LobbyCommits, TimeUp, locks
<1>4. \A u \in Process : Rests(u)
  BY <1>2, <1>3 DEF Rests
<1>5. \A u \in Process : ProcOK(u)'
  BY <1>2, <1>4, Undisturbed DEF IInv
<1>6. \A p \in Player : (CountsOK(card[p], subs[p]) /\ PointerOK(card[p], subs[p]))'
  BY <1>2 DEF IInv
<1>7. ResultsMatchScores'
  BY <1>2 DEF IInv, ResultsMatchScores
<1>8. (bstatus = "active" => room = "in_battle")'
  BY <1>2 DEF IInv, LobbyLocks, LobbyCommits, TimeUp, data
<1>9. QED
  BY <1>1, <1>5, <1>6, <1>7, <1>8 DEF IInv

LEMMA NextIInv == IInv /\ [Next]_vars => IInv'
<1> SUFFICES ASSUME IInv, [Next]_vars
             PROVE  IInv'
  OBVIOUS
<1>0. Request \subseteq Process /\ Worker \in Process
  BY DEF Process
<1>1. ASSUME NEW t \in Request, NEW p \in Player, NEW n \in Nat, NEW a \in Answer,
             Submit(t, p, n, a)
      PROVE  IInv'
  BY <1>1, SubmitIInv
<1>2. ASSUME NEW t \in Request, FindExpired(t)
      PROVE  IInv'
  BY <1>0, <1>2, FindExpiredIInv
<1>3. ASSUME NEW t \in Request, SubmitStep(t)
      PROVE  IInv'
  <2>1. t \in Process
    BY <1>0
  <2>2. CASE LockPlayer(t)
    BY <2>1, <2>2, LockPlayerIInv
  <2>3. CASE Refuse(t) \/ RefuseExpired(t) \/ Accept(t)
    BY <2>1, <2>3, ReadStepsIInv
  <2>4. CASE Write(t)
    BY <2>1, <2>4, WriteIInv
  <2>5. QED
    BY <1>3, <2>2, <2>3, <2>4 DEF SubmitStep
<1>4. ASSUME NEW t \in Process, CompleteStep(t)
      PROVE  IInv'
  <2>1. CASE BeginCompletion(t) \/ Recheck(t)
    BY <2>1, ReadStepsIInv
  <2>2. CASE LockNextRow(t)
    BY <2>2, LockNextRowIInv
  <2>3. CASE LockRoom(t)
    BY <2>3, LockRoomIInv
  <2>4. CASE Finish(t)
    BY <2>4, FinishIInv
  <2>5. QED
    BY <1>4, <2>1, <2>2, <2>3, <2>4 DEF CompleteStep
<1>5. ASSUME NEW t \in Process, Abort(t)
      PROVE  IInv'
  BY <1>5, ReadStepsIInv
<1>6. CASE Sweep
  BY <1>0, <1>6, FindExpiredIInv DEF Sweep
<1>7. CASE LobbyLocks \/ LobbyCommits \/ TimeUp
  BY <1>7, OutsideIInv
<1>8. CASE UNCHANGED vars
  <2>1. \A u \in Process : Rests(u)
    BY <1>8 DEF vars, locks, Rests
  <2>2. UNCHANGED data
    BY <1>8 DEF vars
  <2>3. TypeOK'
    BY <1>8 DEF IInv, TypeOK, vars, data, locks
  <2>4. ProcOK(Worker)'
    BY <1>0, <2>1, <2>2, Undisturbed DEF IInv, data
  <2>5. QED
    BY <1>0, <2>1, <2>2, <2>3, <2>4, TablesUnchanged
<1>9. QED
  BY <1>1, <1>2, <1>3, <1>4, <1>5, <1>6, <1>7, <1>8 DEF Next

\* The inductive invariant holds in every reachable state.
THEOREM Invariance == Spec => []IInv
<1>1. Init => IInv
  BY InitIInv
<1>2. IInv /\ [Next]_vars => IInv'
  BY NextIInv
<1>3. QED
  BY <1>1, <1>2, PTL DEF Spec

-----------------------------------------------------------------------------
(***************************************************************************)
(* The properties of Battle.                                               *)
(***************************************************************************)

\* Rows and process variables keep their shape.
THEOREM TypeCorrect == Spec => []TypeOK
<1>1. IInv => TypeOK
  BY DEF IInv
<1>2. QED
  BY <1>1, Invariance, PTL

\* However the requests of a player interleave and are retried, his card counts
\* each of his logged answers once.
THEOREM CardsFollowLogs == Spec => []CardMatchesLog
<1>1. IInv => CardMatchesLog
  <2> SUFFICES ASSUME IInv, NEW p \in Player
               PROVE  /\ card[p].correct + card[p].incorrect = Len(subs[p])
                      /\ card[p].correct = Cardinality({k \in DOMAIN subs[p] : subs[p][k].right})
                      /\ card[p].score = card[p].correct
                      /\ \A k \in DOMAIN subs[p] : subs[p][k].index = k
    BY DEF CardMatchesLog
  <2>1. CountsOK(card[p], subs[p])
    BY DEF IInv
  <2>2. QED
    BY <2>1 DEF CountsOK, RightIn
<1>2. QED
  BY <1>1, Invariance, PTL

\* The question pointer stands behind exactly the questions the logged answers
\* settle, and counts the attempts at the one it points to.
THEOREM PointersFollowLogs == Spec => []PointerMatchesLog
<1>1. IInv => PointerMatchesLog
  <2> SUFFICES ASSUME IInv
               PROVE  PointerMatchesLog
    OBVIOUS
  <2>1. ASSUME NEW p \in Player
        PROVE  /\ \A i \in DOMAIN Stream :
                     i <= card[p].index <=>
                        Cardinality(Tries(p, i)) = 2 \/ \E k \in Tries(p, i) : subs[p][k].right
               /\ card[p].attempts = Cardinality(Tries(p, card[p].index + 1))
               /\ card[p].index <= Len(Stream)
    <3>1. PICK c, l : c = card[p] /\ l = subs[p]
      OBVIOUS
    <3>2. PointerOK(c, l) /\ c \in Card
      BY <3>1 DEF IInv, TypeOK
    <3>3. c.index \in Nat
      BY <3>2 DEF Card
    <3>4. \A i : Tries(p, i) = TriesIn(l, i)
      BY <3>1 DEF Tries, TriesIn
    <3>5. ASSUME NEW i \in DOMAIN Stream
          PROVE  i <= c.index <=> Settled(l, i)
      <4>1. i \in Nat \ {0}
        BY StreamAssumption
      <4>2. CASE i <= c.index
        BY <3>2, <3>3, <4>1, <4>2 DEF PointerOK
      <4>3. CASE i = c.index + 1
        BY <3>2, <3>3, <4>1, <4>3 DEF PointerOK, Settled
      <4>4. CASE i > c.index + 1
        <5>1. TriesIn(l, i) = {}
          BY <3>2, <3>3, <4>1, <4>4 DEF PointerOK, TriesIn
        <5>2. ~Settled(l, i)
          BY <5>1, FS_EmptySet DEF Settled
        <5>3. QED
          BY <3>3, <4>1, <4>4, <5>2
      <4>5. QED
        BY <3>3, <4>1, <4>2, <4>3, <4>4
    <3>6. QED
      BY <3>1, <3>2, <3>4, <3>5 DEF PointerOK, Settled
  <2>2. QED
    BY <2>1 DEF PointerMatchesLog
<1>2. QED
  BY <1>1, Invariance, PTL

\* The winner and the results are those of the final scores.
THEOREM ResultsFollowScores == Spec => []ResultsMatchScores
<1>1. IInv => ResultsMatchScores
  BY DEF IInv
<1>2. QED
  BY <1>1, Invariance, PTL

\* Nobody waits for a process that has the lock of the room; who holds rows and
\* waits is completing the battle and has the first row only; and whoever has
\* the second row waits for no row.  So no transactions wait for each other.
THEOREM DeadlockFree == Spec => []NoLockDeadlock
<1>1. IInv => NoLockDeadlock
  <2> SUFFICES ASSUME IInv, NEW S \in (SUBSET Process) \ {{}},
                      \A t \in S : \E u \in S : Waits(t, u)
               PROVE  FALSE
    BY DEF NoLockDeadlock
  <2>1. \A t \in S : ProcOK(t) /\ pc[t] \in {"lock", "lockAll", "lockRoom"}
    BY DEF IInv, Waits
  <2>2. \A t \in S : pc[t] # "lockRoom"
    <3> SUFFICES ASSUME NEW t \in S, pc[t] = "lockRoom"
                 PROVE  FALSE
      OBVIOUS
    <3>1. PICK u \in S : roomLock = u
      BY DEF Waits
    <3>2. pc[u] = "finish"
      BY <2>1, <3>1 DEF ProcOK
    <3>3. QED
      BY <2>1, <3>2
  <2>3. ASSUME NEW u \in S, NEW p \in Player, rowLock[p] = u
        PROVE  pc[u] = "lockAll" /\ p = 1
    <3>1. seen[u][p] # Null
      BY <2>1, <2>3 DEF ProcOK
    <3>2. pc[u] = "lockAll"
      BY <2>1, <2>2, <3>1 DEF ProcOK
    <3>3. seen[u][2] = Null
      BY <2>1, <3>2 DEF ProcOK
    <3>4. QED
      BY <3>1, <3>2, <3>3 DEF Player
  <2>4. \A t \in S : pc[t] # "lockAll"
    <3> SUFFICES ASSUME NEW t \in S, pc[t] = "lockAll"
                 PROVE  FALSE
      OBVIOUS
    <3>1. PICK u \in S, p \in NextRow(t) : rowLock[p] = u
      BY DEF Waits
    <3>2. pc[u] = "lockAll" /\ p = 1 /\ seen[u][1] # Null
      BY <2>1, <2>3, <3>1 DEF NextRow, ProcOK
    <3>3. PICK v \in S, q \in NextRow(u) : rowLock[q] = v
      BY <3>2 DEF Waits
    <3>4. q = 1
      BY <2>3, <3>3 DEF NextRow
    <3>5. QED
      BY <3>2, <3>3, <3>4 DEF NextRow
  <2>5. ASSUME NEW t \in S
        PROVE  FALSE
    <3>1. pc[t] = "lock"
      BY <2>1, <2>2, <2>4
    <3>2. PICK u \in S : rowLock[req[t].player] = u
      BY <3>1 DEF Waits
    <3>3. req[t].player \in Player
      BY <2>1, <3>1 DEF ProcOK
    <3>4. pc[u] = "lockAll"
      BY <2>3, <3>2, <3>3
    <3>5. QED
      BY <2>4, <3>4
  <2>6. QED
    BY <2>5
<1>2. QED
  BY <1>1, Invariance, PTL

\* The tables are changed by two statements, and the room also by the lobby.
LEMMA Writers ==
    ASSUME IInv, [Next]_vars
    PROVE  \/ \E t \in Process : Write(t)
           \/ \E t \in Process : Finish(t)
           \/ /\ UNCHANGED <<bstatus, winner, card, subs>>
              /\ room' # room => roomLock = LobbyTx
<1>0. Request \subseteq Process /\ Worker \in Process
  BY DEF Process
<1>1. ASSUME NEW t \in Request, NEW p \in Player, NEW n \in Nat, NEW a \in Answer,
             Submit(t, p, n, a)
      PROVE  UNCHANGED data
  BY <1>1 DEF Submit
<1>2. ASSUME NEW t \in Process, FindExpired(t)
      PROVE  UNCHANGED data
  BY <1>2 DEF FindExpired
<1>3. ASSUME NEW t \in Process, SubmitStep(t), ~Write(t)
      PROVE  UNCHANGED data
  BY <1>3 DEF SubmitStep, LockPlayer, Refuse, RefuseExpired, Accept
<1>4. ASSUME NEW t \in Process, CompleteStep(t), ~Finish(t)
      PROVE  UNCHANGED data
  BY <1>4 DEF CompleteStep, BeginCompletion, LockNextRow, Recheck, LockRoom
<1>5. ASSUME NEW t \in Process, Abort(t)
      PROVE  UNCHANGED data
  BY <1>5 DEF Abort
<1>6. CASE LobbyLocks \/ LobbyCommits \/ TimeUp
  BY <1>6 DEF LobbyLocks, LobbyCommits, TimeUp, data
<1>7. CASE UNCHANGED data
  BY <1>7 DEF data
<1>8. UNCHANGED vars => UNCHANGED data
  BY DEF vars
<1>9. QED
  BY <1>0, <1>1, <1>2, <1>3, <1>4, <1>5, <1>6, <1>7, <1>8 DEF Next, Sweep

\* Only an expired battle is closed, closing it releases the room in the same
\* step, and no completion touches the room again.
THEOREM ReleasedOnce == Spec => RoomReleasedOnce
<1>1. IInv /\ IInv' /\ [Next]_vars =>
        [LET closing == bstatus = "active" /\ bstatus' = "finished"
         IN  /\ closing => late /\ room' = "ready"
             /\ room' # room => closing \/ roomLock = LobbyTx
             /\ bstatus' = "active" => room' = "in_battle"]_vars
  <2> SUFFICES ASSUME IInv, IInv', [Next]_vars
               PROVE  LET closing == bstatus = "active" /\ bstatus' = "finished"
                      IN  /\ closing => late /\ room' = "ready"
                          /\ room' # room => closing \/ roomLock = LobbyTx
                          /\ bstatus' = "active" => room' = "in_battle"
    OBVIOUS
  <2>1. bstatus' = "active" => room' = "in_battle"
    BY DEF IInv
  <2>2. CASE \E t \in Process : Write(t)
    BY <2>1, <2>2 DEF Write
  <2>3. CASE \E t \in Process : Finish(t)
    BY <2>1, <2>3, FinishEffect
  <2>4. CASE UNCHANGED <<bstatus, winner, card, subs>> /\ (room' # room => roomLock = LobbyTx)
    BY <2>1, <2>4
  <2>5. \/ \E t \in Process : Write(t)
        \/ \E t \in Process : Finish(t)
        \/ UNCHANGED <<bstatus, winner, card, subs>> /\ (room' # room => roomLock = LobbyTx)
    BY Writers
  <2>6. QED
    BY <2>2, <2>3, <2>4, <2>5
<1>2. QED
  BY <1>1, Invariance, PTL DEF Spec, RoomReleasedOnce

-----------------------------------------------------------------------------
(***************************************************************************)
(* A battle implements Match.                                              *)
(***************************************************************************)

\* The part of an answer that Match knows, and the part of a log.
Given(a) == [at |-> a.at, answer |-> a.answer, right |-> a.right]

MatchLog(l) == [k \in DOMAIN l |-> [at |-> l[k].at, answer |-> l[k].answer, right |-> l[k].right]]

GivenAnswer == [at : Nat, answer : Answer, right : BOOLEAN]

\* The log of Match has as many answers, and the same ones.
LEMMA MatchLogIsLog ==
    ASSUME NEW l \in Seq(Submission)
    PROVE  /\ MatchLog(l) \in Seq(GivenAnswer) /\ Len(MatchLog(l)) = Len(l)
           /\ DOMAIN MatchLog(l) = DOMAIN l
           /\ \A k \in DOMAIN l : /\ MatchLog(l)[k].at = l[k].at
                                  /\ MatchLog(l)[k].answer = l[k].answer
                                  /\ MatchLog(l)[k].right = l[k].right
                                  /\ MatchLog(l)[k] = Given(l[k])
<1>1. PICK m, n : m = MatchLog(l) /\ n = Len(l)
  OBVIOUS
<1>2. n \in Nat /\ DOMAIN l = 1 .. n /\ \A k \in 1 .. n : l[k] \in Submission
  BY <1>1
<1>3. DOMAIN m = 1 .. n /\ \A k \in 1 .. n : m[k] = Given(l[k])
  BY <1>1, <1>2 DEF MatchLog, Given
<1>4. \A k \in 1 .. n : Given(l[k]) \in GivenAnswer
  BY <1>2 DEF Given, GivenAnswer, Submission
<1>5. m \in [1 .. n -> GivenAnswer]
  BY <1>1, <1>2, <1>3, <1>4 DEF MatchLog, Given
<1>6. m \in Seq(GivenAnswer)
  BY <1>2, <1>5, SeqDef
<1>7. Len(m) = n
  BY <1>2, <1>3, <1>6, LenProperties
<1>8. \A k \in 1 .. n : m[k].at = l[k].at /\ m[k].answer = l[k].answer /\ m[k].right = l[k].right
  BY <1>3 DEF Given
<1>9. QED
  BY <1>1, <1>2, <1>3, <1>6, <1>7, <1>8

\* One more answer in the log is one more in the log of Match.
LEMMA MatchLogAppend ==
    ASSUME NEW l \in Seq(Submission), NEW a \in Submission
    PROVE  MatchLog(Append(l, a)) = Append(MatchLog(l), Given(a))
<1>1. PICK m : m = Append(l, a)
  OBVIOUS
<1>2. PICK n \in Nat : n = Len(l)
  OBVIOUS
<1>3. /\ m \in Seq(Submission) /\ Len(m) = n + 1 /\ m[n + 1] = a
      /\ \A k \in 1 .. n : m[k] = l[k]
      /\ DOMAIN m = 1 .. n + 1 /\ DOMAIN l = 1 .. n
  BY <1>1, <1>2
<1>4. PICK f, g : f = MatchLog(m) /\ g = MatchLog(l)
  OBVIOUS
<1>5. /\ f \in Seq(GivenAnswer) /\ Len(f) = n + 1
      /\ \A k \in 1 .. n + 1 : f[k] = Given(m[k])
  BY <1>3, <1>4, MatchLogIsLog
<1>6. /\ g \in Seq(GivenAnswer) /\ Len(g) = n
      /\ \A k \in 1 .. n : g[k] = Given(l[k])
  BY <1>2, <1>3, <1>4, MatchLogIsLog
<1>7. f[n + 1] = Given(a) /\ Given(a) \in GivenAnswer
  <2>1. f[n + 1] = Given(m[n + 1])
    BY <1>5
  <2>2. Given(a) \in GivenAnswer
    BY DEF Given, GivenAnswer, Submission
  <2>3. QED
    BY <1>3, <2>1, <2>2
<1>8. PICK h : h = Append(g, Given(a))
  OBVIOUS
<1>9. PICK b \in GivenAnswer : b = Given(a)
  BY <1>7
<1>10. /\ h \in Seq(GivenAnswer) /\ Len(h) = n + 1 /\ h[n + 1] = b
       /\ \A k \in 1 .. n : h[k] = g[k]
  BY <1>6, <1>8, <1>9
<1>11. \A k \in 1 .. n : f[k] = g[k]
  BY <1>3, <1>5, <1>6
<1>12. \A k \in 1 .. n + 1 : f[k] = h[k]
  BY <1>7, <1>9, <1>10, <1>11
<1>13. f = h
  BY <1>5, <1>10, <1>12, SeqEqual
<1>14. QED
  BY <1>1, <1>4, <1>8, <1>13

\* Match counts as Battle does: its Cardinality has the same definition.
LEMMA SameCardinality == \A S : TheMatch!Cardinality(S) = Cardinality(S)
  BY DEF TheMatch!Cardinality, Cardinality, TheMatch!IsFiniteSet, IsFiniteSet

\* A player stands, in Match, at the question his pointer points to.
LEMMA PositionIsPointer ==
    ASSUME NEW c \in Card, NEW l \in Seq(Submission), PointerOK(c, l)
    PROVE  TheMatch!Position(MatchLog(l)) = c.index + 1
<1>1. PICK m : m = MatchLog(l)
  OBVIOUS
<1>2. /\ m \in Seq(GivenAnswer) /\ Len(m) = Len(l) /\ DOMAIN m = DOMAIN l
      /\ \A k \in DOMAIN l : m[k].at = l[k].at /\ m[k].right = l[k].right
  BY <1>1, MatchLogIsLog
<1>3. \A i : {k \in DOMAIN m : m[k].at = i} = TriesIn(l, i)
  BY <1>2 DEF TriesIn
<1>4. c.index \in Nat /\ Len(l) \in Nat /\ DOMAIN l = 1 .. Len(l)
  BY DEF Card
<1>5. CASE Len(l) = 0
  <2>1. m = <<>>
    BY <1>2, <1>5, EmptySeq
  <2>2. \A i : TriesIn(l, i) = {}
    BY <1>4, <1>5 DEF TriesIn
  <2>3. ASSUME NEW i
        PROVE  ~Settled(l, i)
    <3>1. TriesIn(l, i) = {} /\ Cardinality({}) = 0
      BY <2>2, FS_EmptySet
    <3>2. QED
      BY <3>1 DEF Settled
  <2>4. c.index = 0
    BY <1>4, <2>3 DEF PointerOK
  <2>5. QED
    BY <1>1, <2>1, <2>4 DEF TheMatch!Position
<1>6. CASE Len(l) # 0
  <2>1. m # <<>>
    BY <1>2, <1>6
  <2>2. Len(l) \in DOMAIN l
    BY <1>4, <1>6
  <2>3. PICK i, r : i = l[Len(l)].at /\ r = l[Len(l)].right
    OBVIOUS
  <2>4. m[Len(m)].at = i /\ m[Len(m)].right = r
    BY <1>2, <2>2, <2>3
  <2>5. TheMatch!Position(m) = IF r \/ Cardinality(TriesIn(l, i)) = 2 THEN i + 1 ELSE i
    <3>1. {k \in DOMAIN m : m[k].at = m[Len(m)].at} = TriesIn(l, i)
      BY <1>3, <2>4
    <3>2. TheMatch!Position(m) =
            IF m[Len(m)].right \/ Cardinality({k \in DOMAIN m : m[k].at = m[Len(m)].at}) = 2
            THEN m[Len(m)].at + 1 ELSE m[Len(m)].at
      BY <2>1, SameCardinality DEF TheMatch!Position
    <3>3. QED
      BY <2>4, <3>1, <3>2
  <2>6. CASE c.attempts = 1
    <3>1. i = c.index + 1
      BY <1>6, <2>3, <2>6 DEF PointerOK
    <3>2. Cardinality(TriesIn(l, i)) = 1
      BY <2>6, <3>1 DEF PointerOK
    <3>3. Len(l) \in TriesIn(l, i)
      BY <2>2, <2>3 DEF TriesIn
    <3>4. ~r
      BY <2>3, <3>1, <3>3 DEF PointerOK
    <3>5. QED
      BY <1>1, <2>5, <3>1, <3>2, <3>4
  <2>7. CASE c.attempts # 1
    <3>1. i = c.index /\ (r \/ Cardinality(TriesIn(l, i)) = 2)
      BY <1>6, <2>3, <2>7 DEF PointerOK
    <3>2. QED
      BY <1>1, <2>5, <3>1
  <2>8. QED
    BY <2>6, <2>7
<1>7. QED
  BY <1>5, <1>6

\* His score in Match is that of his card.
LEMMA ScoreIsScore ==
    ASSUME NEW c \in Card, NEW l \in Seq(Submission), CountsOK(c, l)
    PROVE  TheMatch!Score(MatchLog(l)) = c.score
<1>1. PICK m : m = MatchLog(l)
  OBVIOUS
<1>2. /\ DOMAIN m = DOMAIN l
      /\ \A k \in DOMAIN l : m[k].right = l[k].right
  BY <1>1, MatchLogIsLog
<1>3. {k \in DOMAIN m : m[k].right} = RightIn(l)
  BY <1>2 DEF RightIn
<1>4. TheMatch!Score(m) = Cardinality({k \in DOMAIN m : m[k].right})
  BY SameCardinality DEF TheMatch!Score
<1>5. TheMatch!Score(m) = Cardinality(RightIn(l))
  BY <1>3, <1>4
<1>6. QED
  BY <1>1, <1>5 DEF CountsOK

\* The logs of Match, as TheMatch maps them.
Logs == [p \in Player |-> MatchLog(subs[p])]

\* At first nobody has answered.
LEMMA MatchInit == Init => TheMatch!Init
<1> SUFFICES ASSUME Init
             PROVE  TheMatch!Init
  OBVIOUS
<1>1. PICK l : l = <<>>
  OBVIOUS
<1>2. l \in Seq(Submission) /\ Len(l) = 0
  BY <1>1
<1>3. MatchLog(l) \in Seq(GivenAnswer) /\ Len(MatchLog(l)) = 0
  BY <1>2, MatchLogIsLog
<1>4. MatchLog(l) = <<>>
  BY <1>3, EmptySeq
<1>5. \A p \in Player : subs[p] = l
  BY <1>1 DEF Init
<1>6. Logs = [p \in TheMatch!Player |-> <<>>]
  BY <1>4, <1>5 DEF Logs, Player, TheMatch!Player
<1>7. bstatus = "active" /\ winner = Null
  BY DEF Init
<1>8. QED
  BY <1>6, <1>7 DEF TheMatch!Init, Logs, MatchLog

\* An answer that commits is given in Match, at the player's position.
LEMMA WriteIsGive ==
    ASSUME IInv, NEW t \in Process, Write(t)
    PROVE  \E p \in TheMatch!Player, x \in Answer : TheMatch!Give(p, x)
<1>1. PICK p \in Player, a \in Submission :
        /\ bstatus = "active"
        /\ a.answer \in Answer
        /\ card[p].index < Len(Stream)
        /\ a.at = card[p].index + 1
        /\ a.right = (a.answer \in Key[Stream[a.at]])
        /\ subs' = [subs EXCEPT ![p] = Append(@, a)]
  BY WriteEffect
<1>2. TypeOK /\ bstatus' = bstatus /\ winner' = winner
  BY DEF IInv, Write
<1>3. PICK c, l : c = card[p] /\ l = subs[p]
  OBVIOUS
<1>4. c \in Card /\ l \in Seq(Submission) /\ PointerOK(c, l)
  BY <1>2, <1>3 DEF IInv, TypeOK
<1>5. TheMatch!Position(MatchLog(l)) = a.at
  BY <1>1, <1>3, <1>4, PositionIsPointer
<1>6. a.at <= Len(Stream)
  BY <1>1, <1>3, <1>4, StreamAssumption DEF Card
<1>7. MatchLog(Append(l, a)) = Append(MatchLog(l), Given(a))
  BY <1>4, MatchLogAppend
<1>8. Given(a) = [at |-> a.at, answer |-> a.answer, right |-> a.answer \in Key[Stream[a.at]]]
  BY <1>1 DEF Given
<1>9. Logs' = [Logs EXCEPT ![p] = Append(@, Given(a))]
  <2>1. subs'[p] = Append(l, a) /\ \A q \in Player \ {p} : subs'[q] = subs[q]
    BY <1>1, <1>2, <1>3 DEF TypeOK
  <2>2. \A q \in Player : Logs[q] = MatchLog(subs[q])
    BY DEF Logs
  <2>3. Logs' = [q \in Player |-> MatchLog(subs'[q])]
    BY DEF Logs, MatchLog
  <2>4. Logs'[p] = Append(Logs[p], Given(a)) /\ \A q \in Player \ {p} : Logs'[q] = Logs[q]
    BY <1>3, <1>7, <2>1, <2>2, <2>3
  <2>5. DOMAIN Logs = Player /\ DOMAIN Logs' = Player
    BY DEF Logs
  <2>6. Logs = [q \in Player |-> Logs[q]]
    BY DEF Logs
  <2>7. QED
    BY <2>3, <2>4, <2>6
<1>10. Logs[p] = MatchLog(l)
  BY <1>3 DEF Logs
<1>11. TheMatch!Give(p, a.answer)
  <2>1. /\ bstatus = "active"
        /\ TheMatch!Position(Logs[p]) <= Len(Stream)
        /\ Logs' = [Logs EXCEPT ![p] =
                      Append(@, [at |-> TheMatch!Position(Logs[p]), answer |-> a.answer,
                                 right |-> a.answer \in Key[Stream[TheMatch!Position(Logs[p])]]])]
        /\ (bstatus = "active")' = (bstatus = "active") /\ winner' = winner
    BY <1>1, <1>2, <1>5, <1>6, <1>8, <1>9, <1>10
  <2>2. QED
    BY <2>1 DEF TheMatch!Give, Logs, MatchLog
<1>12. QED
  BY <1>1, <1>11 DEF TheMatch!Player, Player

\* A completion closes the match, with the outcome of its logs.
LEMMA FinishIsClose ==
    ASSUME IInv, NEW t \in Process, Finish(t)
    PROVE  TheMatch!Close
<1>1. bstatus = "active" /\ bstatus' = "finished" /\ winner' = WinnerOf(card) /\ subs' = subs
  BY FinishEffect DEF Finish
<1>2. ASSUME NEW p \in Player
      PROVE  TheMatch!Score(Logs[p]) = card[p].score
  <2>1. PICK c, l : c = card[p] /\ l = subs[p]
    OBVIOUS
  <2>2. c \in Card /\ l \in Seq(Submission) /\ CountsOK(c, l)
    BY <2>1 DEF IInv, TypeOK
  <2>3. TheMatch!Score(MatchLog(l)) = c.score
    BY <2>2, ScoreIsScore
  <2>4. QED
    BY <2>1, <2>3 DEF Logs
<1>3. TheMatch!Score(Logs[1]) = card[1].score /\ TheMatch!Score(Logs[2]) = card[2].score
  BY <1>2 DEF Player
<1>4. winner' = TheMatch!Outcome(Logs[1], Logs[2])
  BY <1>1, <1>3 DEF TheMatch!Outcome, WinnerOf
<1>5. Logs' = Logs
  BY <1>1 DEF Logs, MatchLog
<1>6. QED
  BY <1>1, <1>4, <1>5 DEF TheMatch!Close, Logs, MatchLog

\* To its players the battle is a Match: every step gives an answer, closes the
\* match, or leaves it as it is.
THEOREM Implementation == Spec => ImplementsMatch
<1>1. Init => TheMatch!Init
  BY MatchInit
<1>2. IInv /\ [Next]_vars => [TheMatch!Next]_(TheMatch!vars)
  <2> SUFFICES ASSUME IInv, [Next]_vars
               PROVE  [TheMatch!Next]_(TheMatch!vars)
    OBVIOUS
  <2>1. CASE \E t \in Process : Write(t)
    BY <2>1, WriteIsGive DEF TheMatch!Next
  <2>2. CASE \E t \in Process : Finish(t)
    BY <2>2, FinishIsClose DEF TheMatch!Next
  <2>3. CASE UNCHANGED <<bstatus, winner, card, subs>>
    BY <2>3 DEF TheMatch!vars
  <2>4. QED
    BY <2>1, <2>2, <2>3, Writers
<1>3. QED
  BY <1>1, <1>2, Invariance, PTL DEF Spec, ImplementsMatch, TheMatch!Spec
=============================================================================
