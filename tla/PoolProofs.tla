----------------------------- MODULE PoolProofs -----------------------------
(***************************************************************************)
(* Connections and rows, for any number of handlers, connections and       *)
(* rooms: nothing leaks, and calls wait for one another only when their    *)
(* transactions have taken every connection.                               *)
(***************************************************************************)
EXTENDS Pool, FiniteSetTheorems, WellFoundedInduction, TLAPS

\* The least of some numbers.
LEMMA Less ==
    \E R : IsWellFoundedOn(R, Nat) /\ \A i, j \in Nat : i < j => <<i, j>> \in R
  <1>1. IsWellFoundedOn(OpToRel(<, Nat), Nat)
    BY NatLessThanWellFounded
  <1>2. \A i, j \in Nat : i < j => <<i, j>> \in OpToRel(<, Nat)
    BY DEF OpToRel
  <1>3. QED
    BY <1>1, <1>2

LEMMA Least ==
    ASSUME NEW T, T \subseteq Nat, T # {}
    PROVE  \E n \in T : \A m \in T : n <= m
  <1>1. PICK R : IsWellFoundedOn(R, Nat) /\ \A i, j \in Nat : i < j => <<i, j>> \in R
    BY Less
  <1>2. PICK n \in T : \A m \in T : ~ (<<m, n>> \in R)
    <2>1. IsWellFoundedOn(R, Nat)
      BY <1>1
    <2>2. QED
      BY <2>1, WFMin, Zenon
  <1>3. ASSUME NEW m \in T PROVE n <= m
    <2>1. n \in Nat /\ m \in Nat
      OBVIOUS
    <2>2. ~(m < n)
      BY <1>1, <1>2, <2>1
    <2>3. QED
      BY <2>1, <2>2
  <1>4. QED
    BY <1>2, <1>3

(***************************************************************************)
(* The order in which rows are locked: the players of a battle, then the   *)
(* rooms by number; an email before a handle.                              *)
(***************************************************************************)
Rank(row) == IF row[2] = 0 THEN 2 + row[1] ELSE row[2]

(***************************************************************************)
(* The discipline of a call.  It is outside a transaction (-1), or inside  *)
(* one where it has locked rows up to a rank.  A statement takes it from a *)
(* to b: locks only grow, and neither a battle nor the worker reads        *)
(* through the pool inside a transaction.                                  *)
(***************************************************************************)
Passes(p, s, a, b) ==
    /\ s[1] = "begin" => a = -1 /\ b = 0
    /\ s[1] = "commit" => a >= 0 /\ b = -1
    /\ s[1] = "lock" => a >= 0 /\ a < Rank(s[2]) /\ b = Rank(s[2])
    /\ s[1] = "query" => b = a /\ (p = Worker \/ s[2] # 0 => a = -1)

\* g is how far p has got before each statement of t, and after the last.
Follows(p, t, g) == \A i \in 1 .. Len(t) : Passes(p, t[i], g[i], g[i + 1])

\* From h on, t keeps the discipline and ends outside a transaction.
Script(p, t, h) ==
    /\ t \in Seq(Statement)
    /\ \E g \in [1 .. Len(t) + 1 -> Int] :
          g[1] = h /\ g[Len(t) + 1] = -1 /\ Follows(p, t, g)

-----------------------------------------------------------------------------
(* Statements and rows.                                                    *)

LEMMA RankType == \A row \in Row : Rank(row) \in Nat /\ Rank(row) >= 1
  <1>1. TAKE row \in Row
  <1>2. CASE row \in Room \X (0 .. 2)
    <2>1. PICK r \in Room, k \in 0 .. 2 : row = <<r, k>>
      BY <1>2
    <2>2. row[1] = r /\ row[2] = k /\ r \in Nat \ {0}
      BY <2>1, PoolAssumption
    <2>3. QED
      BY <2>2 DEF Rank
  <1>3. CASE row \in {0} \X Key
    <2>1. row[2] \in Nat \ {0}
      BY <1>3, PoolAssumption
    <2>2. QED
      BY <2>1 DEF Rank
  <1>4. QED
    BY <1>2, <1>3 DEF Row

LEMMA RowRank ==
    ASSUME NEW r \in Room
    PROVE  /\ RoomRow(r) \in Row
           /\ Rank(RoomRow(r)) = 2 + r
           /\ \A k \in 1 .. 2 : Card(r, k) \in Row /\ Rank(Card(r, k)) = k
  BY PoolAssumption DEF Row, Rank, RoomRow, Card

LEMMA AloneRank ==
    ASSUME NEW k \in Key
    PROVE  Alone(k) \in Row /\ Rank(Alone(k)) = k /\ k \in Nat \ {0}
  BY PoolAssumption DEF Row, Rank, Alone

LEMMA Statements ==
    /\ Query \in Statement /\ Begin \in Statement /\ Commit \in Statement
    /\ \A r \in Room : BattleQuery(r) \in Statement
    /\ \A row \in Row : Lock(row) \in Statement
  BY DEF Statement

LEMMA Kinds ==
    /\ Query[1] = "query" /\ Query[2] = 0
    /\ Begin[1] = "begin"
    /\ Commit[1] = "commit"
    /\ \A r : BattleQuery(r)[1] = "query" /\ BattleQuery(r)[2] = r
    /\ \A row : Lock(row)[1] = "lock" /\ Lock(row)[2] = row
  BY DEF Query, Begin, Commit, BattleQuery, Lock

LEMMA KindOf ==
    ASSUME NEW s \in Statement
    PROVE  /\ s[1] \in {"query", "begin", "lock", "commit"}
           /\ s[1] = "lock" => s[2] \in Row
           /\ s[1] = "commit" => s = Commit
  BY Kinds DEF Statement

\* What each statement does to the place of the call.
LEMMA Places ==
    ASSUME NEW p
    PROVE  /\ Passes(p, Begin, -1, 0)
           /\ \A a \in Int : a >= 0 => Passes(p, Commit, a, -1)
           /\ \A a \in Int : p # Worker => Passes(p, Query, a, a)
           /\ Passes(p, Query, -1, -1)
           /\ \A r : Passes(p, BattleQuery(r), -1, -1)
           /\ \A a \in Int, row \in Row :
                a >= 0 /\ a < Rank(row) => Passes(p, Lock(row), a, Rank(row))
  BY Kinds DEF Passes

-----------------------------------------------------------------------------
(* Scripts.                                                                *)

LEMMA NoScript ==
    ASSUME NEW p
    PROVE  /\ Script(p, <<>>, -1)
           /\ \A h : Script(p, <<>>, h) => h = -1
  <1>1. Script(p, <<>>, -1)
    <2>1. [i \in 1 .. 1 |-> -1] \in [1 .. Len(<<>>) + 1 -> Int]
      OBVIOUS
    <2>2. Follows(p, <<>>, [i \in 1 .. 1 |-> -1])
      BY DEF Follows
    <2>3. QED
      BY <2>1, <2>2 DEF Script
  <1>2. QED
    BY <1>1 DEF Script

\* A statement in front.
LEMMA Before ==
    ASSUME NEW p, NEW s \in Statement, NEW t, NEW a \in Int, NEW b \in Int,
           Passes(p, s, a, b), Script(p, t, b)
    PROVE  Script(p, <<s>> \o t, a)
  <1>1. PICK g \in [1 .. Len(t) + 1 -> Int] :
            g[1] = b /\ g[Len(t) + 1] = -1 /\ Follows(p, t, g)
    BY DEF Script
  <1>2. t \in Seq(Statement) /\ Len(t) \in Nat
    BY DEF Script
  <1> DEFINE u == <<s>> \o t
             f == [i \in 1 .. Len(t) + 2 |-> IF i = 1 THEN a ELSE g[i - 1]]
  <1>3. /\ u \in Seq(Statement) /\ Len(u) = Len(t) + 1
        /\ u[1] = s /\ \A i \in 1 .. Len(t) : u[i + 1] = t[i]
    BY <1>2
  <1>4. f \in [1 .. Len(u) + 1 -> Int] /\ f[1] = a /\ f[Len(u) + 1] = -1
    BY <1>1, <1>2, <1>3
  <1>5. ASSUME NEW i \in 1 .. Len(u) PROVE Passes(p, u[i], f[i], f[i + 1])
    <2>1. CASE i = 1
      <3>1. f[1] = a /\ f[2] = b
        BY <1>1, <1>2
      <3>2. QED
        BY <2>1, <3>1, <1>3
    <2>2. CASE i # 1
      <3>1. PICK j \in 1 .. Len(t) : i = j + 1
        BY <2>2, <1>2, <1>3
      <3>2. f[i] = g[j] /\ f[i + 1] = g[j + 1] /\ u[i] = t[j]
        BY <3>1, <1>2, <1>3
      <3>3. QED
        BY <3>2, <1>1 DEF Follows
    <2>3. QED
      BY <2>1, <2>2
  <1>6. QED
    BY <1>3, <1>4, <1>5 DEF Script, Follows

\* One after the other.
LEMMA After ==
    ASSUME NEW p, NEW t, NEW h \in Int, h >= -1, Script(p, t, h), t # <<>>
    PROVE  /\ Head(t) \in Statement
           /\ \E b \in Int : b >= -1 /\ Passes(p, Head(t), h, b) /\ Script(p, Tail(t), b)
  <1>1. PICK g \in [1 .. Len(t) + 1 -> Int] :
            g[1] = h /\ g[Len(t) + 1] = -1 /\ Follows(p, t, g)
    BY DEF Script
  <1>2. t \in Seq(Statement) /\ Len(t) \in Nat \ {0} /\ Head(t) = t[1] /\ Head(t) \in Statement
    BY DEF Script
  <1>3. /\ Tail(t) \in Seq(Statement) /\ Len(Tail(t)) = Len(t) - 1
        /\ \A i \in 1 .. Len(Tail(t)) : Tail(t)[i] = t[i + 1]
    BY <1>2
  <1> DEFINE f == [i \in 1 .. Len(t) |-> g[i + 1]]
  <1>4. f \in [1 .. Len(Tail(t)) + 1 -> Int] /\ f[1] = g[2] /\ f[Len(Tail(t)) + 1] = -1
    BY <1>1, <1>2, <1>3
  <1>5. ASSUME NEW i \in 1 .. Len(Tail(t)) PROVE Passes(p, Tail(t)[i], f[i], f[i + 1])
    <2>1. i + 1 \in 1 .. Len(t) /\ f[i] = g[i + 1] /\ f[i + 1] = g[(i + 1) + 1]
      BY <1>2, <1>3
    <2>2. QED
      BY <2>1, <1>1, <1>3 DEF Follows
  <1>6. Script(p, Tail(t), g[2])
    BY <1>3, <1>4, <1>5 DEF Script, Follows
  <1>7. Passes(p, Head(t), h, g[2]) /\ g[2] \in Int
    BY <1>1, <1>2 DEF Follows
  <1>8. g[2] >= -1
    BY <1>7, <1>2, KindOf, RankType DEF Passes
  <1>9. QED
    BY <1>2, <1>6, <1>7, <1>8

\* What comes after the first commit is a call of its own.
LEMMA AfterCommit ==
    ASSUME NEW p, NEW t, NEW h, Script(p, t, h), NEW i \in DOMAIN t, t[i] = Commit
    PROVE  Script(p, SubSeq(t, i + 1, Len(t)), -1)
  <1>1. PICK g \in [1 .. Len(t) + 1 -> Int] :
            g[1] = h /\ g[Len(t) + 1] = -1 /\ Follows(p, t, g)
    BY DEF Script
  <1>2. t \in Seq(Statement) /\ Len(t) \in Nat /\ i \in 1 .. Len(t)
    BY DEF Script
  <1>3. PICK u : u = SubSeq(t, i + 1, Len(t))
    OBVIOUS
  <1>4. PICK f : f = [j \in 1 .. Len(t) - i + 1 |-> g[i + j]]
    OBVIOUS
  <1>5. /\ u \in Seq(Statement) /\ Len(u) = Len(t) - i
        /\ \A j \in 1 .. Len(u) : u[j] = t[i + j]
    BY <1>2, <1>3
  <1>6. Passes(p, Commit, g[i], g[i + 1])
    BY <1>1, <1>2 DEF Follows
  <1>7. g[i + 1] = -1
    BY <1>6, Kinds DEF Passes
  <1>8. f \in [1 .. Len(u) + 1 -> Int] /\ f[1] = -1 /\ f[Len(u) + 1] = -1
    BY <1>1, <1>2, <1>5, <1>7, <1>4
  <1>9. ASSUME NEW j \in 1 .. Len(u) PROVE Passes(p, u[j], f[j], f[j + 1])
    <2>1. i + j \in 1 .. Len(t) /\ u[j] = t[i + j]
      BY <1>2, <1>5
    <2>2. f[j] = g[i + j] /\ f[j + 1] = g[i + (j + 1)] /\ i + (j + 1) = (i + j) + 1
      BY <1>2, <1>5, <1>4
    <2>3. QED
      BY <2>1, <2>2, <1>1 DEF Follows
  <1>10. QED
    BY <1>5, <1>8, <1>9, <1>3 DEF Script, Follows

-----------------------------------------------------------------------------
(* Every call keeps the discipline.                                        *)

\* The statements of a room and of the players of its battle.
LEMMA Locks ==
    ASSUME NEW p, NEW r \in Room
    PROVE  /\ 2 + r \in Int
           /\ Lock(RoomRow(r)) \in Statement
           /\ Passes(p, Lock(RoomRow(r)), 0, 2 + r)
           /\ Passes(p, Lock(RoomRow(r)), 2, 2 + r)
           /\ Passes(p, Commit, 2 + r, -1)
           /\ p # Worker => Passes(p, Query, 2 + r, 2 + r)
           /\ \A k \in 1 .. 2 : /\ Lock(Card(r, k)) \in Statement
                                /\ Passes(p, Lock(Card(r, k)), 0, k)
                                /\ k \in Int
                                /\ Passes(p, Commit, k, -1)
                                /\ p # Worker => Passes(p, Query, k, k)
           /\ Passes(p, Lock(Card(r, 2)), 1, 2)
  <1>1. r \in Nat \ {0}
    BY PoolAssumption
  <1>2. QED
    BY <1>1, RowRank, Kinds, Statements DEF Passes

LEMMA Short ==
    ASSUME NEW p, NEW r \in Room
    PROVE  /\ p # Worker => Script(p, StartBattle(r), -1)
           /\ \A k : Script(p, CompleteBattle(r, k), -1)
  <1>1. -1 \in Int /\ 0 \in Int /\ 1 \in Int /\ 2 \in Int /\ 1 \in 1 .. 2 /\ 2 \in 1 .. 2
    OBVIOUS
  <1> DEFINE room == Lock(RoomRow(r))
             card(k) == Lock(Card(r, k))
  <1>2. Passes(p, Begin, -1, 0) /\ Passes(p, Commit, 0, -1)
    BY Kinds DEF Passes
  <1>3. ASSUME NEW a \in Int, Passes(p, Commit, a, -1)
        PROVE  Script(p, <<Commit>>, a)
    <2>1. <<Commit>> = <<Commit>> \o <<>>
      OBVIOUS
    <2>2. QED
      BY <1>1, <1>3, <2>1, NoScript, Before, Statements, Zenon
  <1>4. ASSUME p # Worker PROVE Script(p, <<Begin, room, Query, Commit>>, -1)
    <2>1. <<Query, Commit>> = <<Query>> \o <<Commit>>
      OBVIOUS
    <2>2. <<room, Query, Commit>> = <<room>> \o <<Query, Commit>>
      OBVIOUS
    <2>3. <<Begin, room, Query, Commit>> = <<Begin>> \o <<room, Query, Commit>>
      OBVIOUS
    <2>4. Script(p, <<Query, Commit>>, 2 + r)
      BY <1>1, <1>3, <1>4, <2>1, Before, Locks, Statements, Zenon
    <2>5. Script(p, <<room, Query, Commit>>, 0)
      BY <1>1, <2>2, <2>4, Before, Locks, Zenon
    <2>6. QED
      BY <1>1, <1>2, <2>3, <2>5, Before, Statements, Zenon
  <1>5. Script(p, <<Begin, card(1), card(2), room, Commit>>, -1)
    <2>1. /\ <<room, Commit>> = <<room>> \o <<Commit>>
          /\ <<card(2), room, Commit>> = <<card(2)>> \o <<room, Commit>>
          /\ <<card(1), card(2), room, Commit>> = <<card(1)>> \o <<card(2), room, Commit>>
          /\ <<Begin, card(1), card(2), room, Commit>>
                = <<Begin>> \o <<card(1), card(2), room, Commit>>
      OBVIOUS
    <2>2. Script(p, <<room, Commit>>, 2)
      BY <1>1, <1>3, <2>1, Before, Locks, Zenon
    <2>3. Script(p, <<card(2), room, Commit>>, 1)
      BY <1>1, <2>1, <2>2, Before, Locks, Zenon
    <2>4. Script(p, <<card(1), card(2), room, Commit>>, 0)
      BY <1>1, <2>1, <2>3, Before, Locks, Zenon
    <2>5. QED
      BY <1>1, <1>2, <2>1, <2>4, Before, Statements, Zenon
  <1>6. QED
    BY <1>4, <1>5 DEF StartBattle, CompleteBattle

LEMMA Fronts ==
    ASSUME NEW a \in Statement, NEW b \in Statement, NEW c \in Statement,
           NEW t \in Seq(Statement)
    PROVE  <<a>> \o (<<b>> \o (<<c>> \o t)) = <<a, b, c>> \o t
  <1>1. PICK u : u = <<b>> \o (<<c>> \o t)
    OBVIOUS
  <1>2. u \in Seq(Statement) /\ Len(u) = Len(t) + 2 /\ u[1] = b /\ u[2] = c /\ Len(t) \in Nat
    BY <1>1
  <1>3. \A i \in 1 .. Len(t) : u[i + 2] = t[i]
    BY <1>1
  <1>4. PICK v : v = <<a>> \o u
    OBVIOUS
  <1>5. PICK w : w = <<a, b, c>> \o t
    OBVIOUS
  <1>6. v \in Seq(Statement) /\ Len(v) = Len(t) + 3 /\ w \in Seq(Statement) /\ Len(w) = Len(t) + 3
    BY <1>2, <1>4, <1>5
  <1>7. ASSUME NEW i \in 1 .. Len(t) + 3 PROVE v[i] = w[i]
    <2>1. CASE i = 1
      BY <2>1, <1>2, <1>4, <1>5
    <2>2. CASE i = 2
      BY <2>2, <1>2, <1>4, <1>5
    <2>3. CASE i = 3
      BY <2>3, <1>2, <1>4, <1>5
    <2>4. CASE i > 3
      <3>1. PICK j \in 1 .. Len(t) : i = j + 3
        BY <2>4, <1>2
      <3>2. v[i] = u[j + 2] /\ w[i] = t[j]
        BY <3>1, <1>2, <1>4, <1>5
      <3>3. QED
        BY <3>2, <1>3
    <2>5. QED
      BY <2>1, <2>2, <2>3, <2>4
  <1>8. v = w
    BY <1>6, <1>7
  <1>9. QED
    BY <1>1, <1>4, <1>5, <1>8

\* A transaction that locks one row, before anything else.
LEMMA TransactionThen ==
    ASSUME NEW p, NEW row \in Row, NEW t, Script(p, t, -1)
    PROVE  Script(p, Transaction(row) \o t, -1)
  <1>1. -1 \in Int /\ 0 \in Int /\ Rank(row) \in Int /\ Rank(row) >= 1 /\ Rank(row) >= 0
    BY RankType
  <1>2. PICK lock : lock = Lock(row) /\ lock \in Statement
    BY Statements
  <1>3. Passes(p, Begin, -1, 0) /\ Passes(p, lock, 0, Rank(row)) /\ Passes(p, Commit, Rank(row), -1)
    BY <1>1, <1>2, Places
  <1>4. Script(p, <<Commit>> \o t, Rank(row))
    BY <1>1, <1>3, Before, Statements, Zenon
  <1>5. Script(p, <<lock>> \o (<<Commit>> \o t), 0)
    BY <1>1, <1>2, <1>3, <1>4, Before, Zenon
  <1>6. Script(p, <<Begin>> \o (<<lock>> \o (<<Commit>> \o t)), -1)
    BY <1>1, <1>3, <1>5, Before, Statements, Zenon
  <1>7. t \in Seq(Statement)
    BY DEF Script
  <1>8. <<Begin>> \o (<<lock>> \o (<<Commit>> \o t)) = <<Begin, lock, Commit>> \o t
    <2>1. PICK begin, commit \in Statement : begin = Begin /\ commit = Commit
      BY Statements
    <2>2. lock \in Statement
      BY <1>2
    <2>3. <<begin>> \o (<<lock>> \o (<<commit>> \o t)) = <<begin, lock, commit>> \o t
      BY <1>7, <2>2, Fronts, Zenon
    <2>4. QED
      BY <2>1, <2>3, Zenon
  <1>9. QED
    BY <1>2, <1>6, <1>8, Zenon DEF Transaction

LEMMA OneTransaction ==
    ASSUME NEW p, NEW row \in Row
    PROVE  Script(p, Transaction(row), -1)
  <1>1. Transaction(row) \o <<>> = Transaction(row)
    BY DEF Transaction
  <1>2. QED
    BY <1>1, NoScript, TransactionThen, Zenon

LEMMA OneQuery ==
    ASSUME NEW p
    PROVE  /\ Script(p, <<Query>>, -1)
           /\ \A t : Script(p, t, -1) => Script(p, <<Query>> \o t, -1)
  <1>1. ASSUME NEW t, Script(p, t, -1) PROVE Script(p, <<Query>> \o t, -1)
    <2>1. -1 \in Int
      OBVIOUS
    <2>2. QED
      BY <1>1, <2>1, Before, Places, Statements, Zenon
  <1>2. <<Query>> = <<Query>> \o <<>>
    OBVIOUS
  <1>3. QED
    BY <1>1, <1>2, NoScript, Zenon

\* The calls of the lobby.
LEMMA Lobbies ==
    ASSUME NEW p, NEW r \in Room
    PROVE  Script(p, Leave(r), -1) /\ Script(p, Lobby(r), -1)
  <1>1. RoomRow(r) \in Row
    BY RowRank
  <1>2. QED
    BY <1>1, OneQuery, OneTransaction, TransactionThen, Zenon DEF Leave, Lobby

\* However often CreateRoom draws a code.
LEMMA Again ==
    ASSUME NEW p, NEW attempts, \A t \in attempts : Script(p, t, -1)
    PROVE  \A t \in OrAgain(attempts) : Script(p, t, -1)
  <1>1. ASSUME NEW t \in Inserts PROVE Script(p, t, -1)
    BY <1>1, AloneRank, OneTransaction DEF Inserts
  <1>2. ASSUME NEW first \in Collisions, NEW next \in attempts PROVE Script(p, first \o next, -1)
    <2>1. PICK r \in Room : first = Transaction(RoomRow(r))
      BY DEF Collisions
    <2>2. RoomRow(r) \in Row /\ Script(p, next, -1)
      BY RowRank
    <2>3. QED
      BY <2>1, <2>2, TransactionThen, Zenon
  <1>3. ASSUME NEW t \in OrAgain(attempts) PROVE Script(p, t, -1)
    <2>1. t \in Inserts \/ \E first \in Collisions, next \in attempts : t = first \o next
      BY <1>3 DEF OrAgain
    <2>2. CASE t \in Inserts
      BY <1>1, <2>2
    <2>3. CASE t \notin Inserts
      <3>1. PICK first \in Collisions, next \in attempts : t = first \o next
        BY <2>1, <2>3
      <3>2. QED
        BY <1>2, <3>1, Zenon
    <2>4. QED
      BY <2>2, <2>3
  <1>4. QED
    BY <1>3

LEMMA CreatesOK ==
    ASSUME NEW p, NEW t \in Creates
    PROVE  Script(p, t, -1)
  <1>1. \A s \in Inserts \cup Collisions : Script(p, s, -1)
    BY AloneRank, RowRank, OneTransaction DEF Inserts, Collisions
  <1>2. \A s \in OrAgain(Inserts \cup Collisions) : Script(p, s, -1)
    BY <1>1, Again, Zenon
  <1>3. \A s \in OrAgain(OrAgain(Inserts \cup Collisions)) : Script(p, s, -1)
    BY <1>2, Again, Zenon
  <1>4. QED
    BY <1>3 DEF Creates

LEMMA Joined ==
    /\ <<Commit>> \o <<Query>> = <<Commit, Query>>
    /\ \A a, b : <<Begin, a, b>> \o <<Commit, Query>> = <<Begin, a, b, Commit, Query>>
  <1>1. <<Commit, Query>> = <<Commit>> \o <<Query>>
    OBVIOUS
  <1>2. ASSUME NEW a, NEW b
        PROVE  <<Begin, a, b, Commit, Query>> = <<Begin, a, b>> \o <<Commit, Query>>
    OBVIOUS
  <1>3. QED
    BY <1>1, <1>2

\* The calls of auth.
LEMMA Accounts ==
    ASSUME NEW p, NEW k \in Key
    PROVE  /\ Script(p, Login(k), -1) /\ Script(p, Refresh(k), -1) /\ Script(p, Logout(k), -1)
           /\ Script(p, Me, -1)
           /\ \A handle \in Key : k < handle => Script(p, Signup(k, handle), -1)
  <1>1. Alone(k) \in Row /\ -1 \in Int /\ 0 \in Int
    BY AloneRank
  <1>2. Script(p, Transaction(Alone(k)), -1)
    BY <1>1, OneTransaction
  <1>3. Script(p, Refresh(k), -1)
    <2>1. Script(p, <<Query>> \o (<<Query>> \o Transaction(Alone(k))), -1)
      BY <1>2, OneQuery
    <2>2. <<Query>> \o (<<Query>> \o Transaction(Alone(k))) = <<Query, Query>> \o Transaction(Alone(k))
      BY DEF Transaction
    <2>3. QED
      BY <2>1, <2>2 DEF Refresh
  <1>4. Script(p, Login(k), -1)
    <2>1. Script(p, Transaction(Alone(k)) \o <<Query>>, -1)
      BY <1>1, OneQuery, TransactionThen, Zenon
    <2>2. QED
      BY <2>1, OneQuery, Zenon DEF Login
  <1>5. ASSUME NEW handle \in Key, k < handle PROVE Script(p, Signup(k, handle), -1)
    <2>1. PICK a, b : a = Lock(Alone(k)) /\ b = Lock(Alone(handle))
      OBVIOUS
    <2>2. Alone(handle) \in Row /\ Rank(Alone(handle)) = handle /\ Rank(Alone(k)) = k
      BY AloneRank
    <2>3. k \in Int /\ handle \in Int /\ 0 < k /\ 0 <= k /\ 0 <= handle
      BY AloneRank, <2>2
    <2>4. a \in Statement /\ b \in Statement
      BY <1>1, <2>1, <2>2, Statements
    <2>5. Passes(p, a, 0, k) /\ Passes(p, b, k, handle) /\ Passes(p, Commit, handle, -1)
      BY <1>1, <1>5, <2>1, <2>2, <2>3, Kinds DEF Passes
    <2>6. Script(p, <<Commit>> \o <<Query>>, handle)
      BY <1>1, <2>3, <2>5, OneQuery, Before, Statements, Zenon
    <2>7. Script(p, <<b>> \o (<<Commit>> \o <<Query>>), k)
      BY <2>3, <2>4, <2>5, <2>6, Before, Zenon
    <2>8. Script(p, <<a>> \o (<<b>> \o (<<Commit>> \o <<Query>>)), 0)
      BY <1>1, <2>3, <2>4, <2>5, <2>7, Before, Zenon
    <2>9. Script(p, <<Begin>> \o (<<a>> \o (<<b>> \o (<<Commit>> \o <<Query>>))), -1)
      BY <1>1, <2>8, Before, Places, Statements, Zenon
    <2>10. <<Begin>> \o (<<a>> \o (<<b>> \o (<<Commit>> \o <<Query>>)))
              = <<Begin, a, b, Commit, Query>>
      <3>1. PICK t : t = <<Commit, Query>>
        OBVIOUS
      <3>2. Begin \in Statement /\ t \in Seq(Statement)
        BY <3>1, Statements
      <3>3. <<Begin>> \o (<<a>> \o (<<b>> \o t)) = <<Begin, a, b>> \o t
        BY <2>4, <3>2, Fronts, Zenon
      <3>4. QED
        BY <3>1, <3>3, Joined, Zenon
    <2>11. QED
      BY <2>1, <2>9, <2>10 DEF Signup
  <1>6. QED
    BY <1>2, <1>3, <1>4, <1>5, OneQuery DEF Logout, Me

LEMMA Questions ==
    ASSUME NEW p, NEW r \in Room, NEW look \in LookUp
    PROVE  Script(p, NextQuestion(r, look), -1)
  <1>1. -1 \in Int
    OBVIOUS
  <1>2. Script(p, look, -1)
    <2>1. <<Query>> = <<Query>> \o <<>>
      OBVIOUS
    <2>2. Script(p, <<Query>>, -1)
      BY <1>1, <2>1, NoScript, Before, Places, Statements, Zenon
    <2>3. QED
      BY <2>2, NoScript DEF LookUp
  <1>3. QED
    BY <1>1, <1>2, Before, Places, Statements, Zenon DEF NextQuestion

LEMMA Answers ==
    ASSUME NEW p, p # Worker, NEW r \in Room, NEW k \in 1 .. 2,
           NEW look1 \in LookUp, NEW look2 \in LookUp
    PROVE  Script(p, SubmitAnswer(r, k, look1, look2), -1)
  <1>1. -1 \in Int /\ 0 \in Int
    OBVIOUS
  <1>2. PICK battle, card : battle = BattleQuery(r) /\ card = Lock(Card(r, k))
    OBVIOUS
  <1>3. Script(p, <<Commit>>, k)
    <2>1. <<Commit>> = <<Commit>> \o <<>>
      OBVIOUS
    <2>2. QED
      BY <1>1, <2>1, NoScript, Before, Locks, Statements, Zenon
  <1>4. ASSUME NEW t, Script(p, t, k) PROVE Script(p, <<Query>> \o t, k)
    BY <1>4, Before, Locks, Statements, Zenon
  <1>5. ASSUME NEW t, Script(p, t, k) PROVE Script(p, <<battle, Begin, card>> \o t, -1)
    <2>1. Script(p, <<card>> \o t, 0)
      BY <1>1, <1>2, <1>5, Before, Locks, Zenon
    <2>2. Script(p, <<Begin>> \o (<<card>> \o t), -1)
      BY <1>1, <2>1, Before, Places, Statements, Zenon
    <2>3. Script(p, <<battle>> \o (<<Begin>> \o (<<card>> \o t)), -1)
      BY <1>1, <1>2, <2>2, Before, Places, Statements, Zenon
    <2>4. t \in Seq(Statement) /\ card \in Statement /\ battle \in Statement /\ Begin \in Statement
      BY <1>2, <1>5, Locks, Statements DEF Script
    <2>5. <<battle>> \o (<<Begin>> \o (<<card>> \o t)) = <<battle, Begin, card>> \o t
      BY <2>4, Fronts, Zenon
    <2>6. QED
      BY <2>3, <2>5, Zenon
  <1>6. Script(p, <<Query, Commit>>, k)
    <2>1. <<Query, Commit>> = <<Query>> \o <<Commit>>
      OBVIOUS
    <2>2. QED
      BY <1>3, <1>4, <2>1, Zenon
  <1>7. Script(p, <<Query, Query, Commit>>, k)
    <2>1. <<Query, Query, Commit>> = <<Query>> \o <<Query, Commit>>
      OBVIOUS
    <2>2. QED
      BY <1>4, <1>6, <2>1, Zenon
  <1>8. Script(p, <<Query, Query, Query, Commit>>, k)
    <2>1. <<Query, Query, Query, Commit>> = <<Query>> \o <<Query, Query, Commit>>
      OBVIOUS
    <2>2. QED
      BY <1>4, <1>7, <2>1, Zenon
  <1>9. /\ Script(p, <<battle, Begin, card, Query, Commit>>, -1)
        /\ Script(p, <<battle, Begin, card, Query, Query, Commit>>, -1)
        /\ Script(p, <<battle, Begin, card, Query, Query, Query, Commit>>, -1)
    <2>1. <<battle, Begin, card, Query, Commit>>
             = <<battle, Begin, card>> \o <<Query, Commit>>
      OBVIOUS
    <2>2. <<battle, Begin, card, Query, Query, Commit>>
             = <<battle, Begin, card>> \o <<Query, Query, Commit>>
      OBVIOUS
    <2>3. <<battle, Begin, card, Query, Query, Query, Commit>>
             = <<battle, Begin, card>> \o <<Query, Query, Query, Commit>>
      OBVIOUS
    <2>4. QED
      BY <1>5, <1>6, <1>7, <1>8, <2>1, <2>2, <2>3, Zenon
  <1>10. SubmitAnswer(r, k, look1, look2)
           = <<battle, Begin, card, Query>> \o look1 \o look2 \o <<Commit>>
    BY <1>2 DEF SubmitAnswer
  <1>11. SubmitAnswer(r, k, look1, look2) \in
            {<<battle, Begin, card, Query, Commit>>,
             <<battle, Begin, card, Query, Query, Commit>>,
             <<battle, Begin, card, Query, Query, Query, Commit>>}
    <2>1. CASE look1 = <<>> /\ look2 = <<>>
      BY <2>1, <1>10
    <2>2. CASE look1 = <<>> /\ look2 = <<Query>>
      BY <2>2, <1>10
    <2>3. CASE look1 = <<Query>> /\ look2 = <<>>
      BY <2>3, <1>10
    <2>4. CASE look1 = <<Query>> /\ look2 = <<Query>>
      BY <2>4, <1>10
    <2>5. QED
      BY <2>1, <2>2, <2>3, <2>4 DEF LookUp
  <1>12. QED
    BY <1>9, <1>11, Zenon

\* The lists of rooms the worker goes through.
LEMMA OrderedLists ==
    ASSUME NEW rs \in SUBSET Room, NEW list \in Ordered(rs)
    PROVE  /\ list \in Seq(Room) /\ Len(list) \in Nat
           /\ \A i \in 1 .. Len(list) : list[i] \in Room
           /\ \A i, j \in 1 .. Len(list) : i < j => list[i] < list[j]
  <1>1. PICK n \in Nat : list \in [1 .. n -> rs]
    <2>1. Cardinality(rs) \in Nat
      BY PoolAssumption, FS_Subset, FS_CardinalityType
    <2>2. QED
      BY <2>1 DEF Ordered, SetToSeqs
  <1>2. list \in Seq(Room) /\ Len(list) = n
    BY <1>1
  <1>3. QED
    BY <1>1, <1>2 DEF Ordered

LEMMA Cleanups ==
    ASSUME NEW p, NEW rs \in SUBSET Room, NEW list \in Ordered(rs)
    PROVE  Script(p, Cleanup(list), -1)
  <1>1. PICK n \in Nat : n = Len(list)
    BY OrderedLists
  <1>2. PICK locks : locks = [i \in DOMAIN list |-> Lock(RoomRow(list[i]))]
    OBVIOUS
  <1>3. locks \in Seq(Statement) /\ Len(locks) = n
    <2>1. \A i \in 1 .. n : RoomRow(list[i]) \in Row
      BY <1>1, OrderedLists, RowRank
    <2>2. locks \in [1 .. n -> Statement]
      BY <1>1, <1>2, <2>1, OrderedLists, Statements
    <2>3. QED
      BY <2>2
  <1>4. \A i \in 1 .. n : locks[i] = Lock(RoomRow(list[i]))
    BY <1>1, <1>2, OrderedLists
  <1>5. PICK t : t = Cleanup(list)
    OBVIOUS
  <1>6. t = (<<Begin>> \o locks) \o <<Commit, Query>>
    BY <1>2, <1>5 DEF Cleanup
  <1>7. /\ t \in Seq(Statement) /\ Len(t) = n + 3
        /\ t[1] = Begin /\ t[n + 2] = Commit /\ t[n + 3] = Query
        /\ \A i \in 1 .. n : t[i + 1] = locks[i]
    BY <1>3, <1>6, Statements
  <1>8. PICK g : g = [i \in 1 .. n + 4 |->
                        IF i = 2 THEN 0 ELSE IF i \in 3 .. n + 2 THEN 2 + list[i - 2] ELSE -1]
    OBVIOUS
  <1>9. \A i \in 1 .. n : list[i] \in Nat /\ list[i] > 0 /\ Rank(RoomRow(list[i])) = 2 + list[i]
    <2>1. \A i \in 1 .. n : list[i] \in Room
      BY <1>1, OrderedLists
    <2>2. ASSUME NEW r \in Room PROVE r \in Nat /\ r > 0 /\ Rank(RoomRow(r)) = 2 + r
      BY RowRank, PoolAssumption
    <2>3. QED
      BY <2>1, <2>2
  <1>10. /\ g \in [1 .. n + 4 -> Int]
         /\ g[1] = -1 /\ g[2] = 0 /\ g[n + 3] = -1 /\ g[n + 4] = -1
         /\ \A i \in 1 .. n : g[i + 2] = 2 + list[i]
    <2>1. \A i \in 3 .. n + 2 : i - 2 \in 1 .. n /\ list[i - 2] \in Nat
      BY <1>9
    <2>2. QED
      BY <1>7, <1>8, <2>1
  <1>11. ASSUME NEW i \in 1 .. Len(t) PROVE Passes(p, t[i], g[i], g[i + 1])
    <2>1. CASE i = 1
      BY <2>1, <1>7, <1>10, Places
    <2>2. CASE i = n + 2
      <3>1. g[i] >= 0 /\ g[i] \in Int
        <4>1. CASE n = 0
          BY <4>1, <2>2, <1>10
        <4>2. CASE n # 0
          <5>1. n \in 1 .. n
            BY <4>2
          <5>2. g[n + 2] = 2 + list[n] /\ list[n] \in Nat
            BY <5>1, <1>9, <1>10
          <5>3. QED
            BY <5>2, <2>2
        <4>3. QED
          BY <4>1, <4>2
      <3>2. g[i + 1] = -1
        BY <2>2, <1>10
      <3>3. QED
        BY <2>2, <3>1, <3>2, <1>7, Places
    <2>3. CASE i = n + 3
      <3>1. g[i] = -1 /\ g[i + 1] = -1
        BY <2>3, <1>10
      <3>2. QED
        BY <2>3, <3>1, <1>7, Places
    <2>4. CASE i \in 2 .. n + 1
      <3>1. PICK j \in 1 .. n : i = j + 1
        BY <2>4
      <3>2. t[i] = Lock(RoomRow(list[j])) /\ g[i + 1] = 2 + list[j]
        BY <3>1, <1>4, <1>7, <1>10
      <3>3. g[i] \in Int /\ g[i] >= 0 /\ g[i] < 2 + list[j]
        <4>1. CASE j = 1
          BY <4>1, <3>1, <1>9, <1>10
        <4>2. CASE j # 1
          <5>1. PICK k \in 1 .. n : j = k + 1
            BY <4>2
          <5>2. list[k] < list[j]
            BY <5>1, <1>1, OrderedLists
          <5>3. g[i] = 2 + list[k] /\ i = k + 2
            BY <5>1, <3>1, <1>10
          <5>4. QED
            BY <5>1, <5>2, <5>3, <1>9
        <4>3. QED
          BY <4>1, <4>2
      <3>4. RoomRow(list[j]) \in Row /\ Rank(RoomRow(list[j])) = 2 + list[j]
        BY <1>1, OrderedLists, RowRank
      <3>5. QED
        BY <3>2, <3>3, <3>4, Places
    <2>5. QED
      BY <2>1, <2>2, <2>3, <2>4, <1>7
  <1>12. /\ t \in Seq(Statement) /\ g \in [1 .. Len(t) + 1 -> Int]
         /\ g[1] = -1 /\ g[Len(t) + 1] = -1
    BY <1>7, <1>10
  <1>13. QED
    BY <1>5, <1>11, <1>12 DEF Script, Follows

\* The statement of the list of completions, five to a battle.
LEMMA FiveEach ==
    ASSUME NEW i \in Nat \ {0}
    PROVE  \E q \in Nat, m \in 0 .. 4 :
              /\ i = 5 * q + m + 1
              /\ (i - 1) \div 5 = q /\ (i - 1) % 5 = m
              /\ (m < 4 => ((i + 1) - 1) \div 5 = q /\ ((i + 1) - 1) % 5 = m + 1)
              /\ (m = 4 => ((i + 1) - 1) % 5 = 0)
  <1>1. PICK q \in Nat, m \in 0 .. 4 : i - 1 = 5 * q + m /\ (i - 1) \div 5 = q /\ (i - 1) % 5 = m
    OBVIOUS
  <1>2. (i + 1) - 1 = 5 * q + m + 1
    BY <1>1
  <1>3. m < 4 => ((i + 1) - 1) \div 5 = q /\ ((i + 1) - 1) % 5 = m + 1
    BY <1>2
  <1>4. m = 4 => ((i + 1) - 1) % 5 = 0
    BY <1>2
  <1>5. QED
    BY <1>1, <1>3, <1>4

LEMMA CompleteEach ==
    ASSUME NEW p, NEW rs \in SUBSET Room, NEW list \in Ordered(rs)
    PROVE  Script(p, Completions(list), -1)
  <1>1. PICK n \in Nat : n = Len(list)
    BY OrderedLists
  <1>2. PICK t : t = Completions(list)
    OBVIOUS
  <1>3. PICK g : g = [i \in 1 .. 5 * n + 1 |->
                        IF (i - 1) % 5 = 4 THEN 2 + list[((i - 1) \div 5) + 1] ELSE ((i - 1) % 5) - 1]
    OBVIOUS
  <1>4. \A i \in 1 .. n : list[i] \in Room /\ list[i] \in Nat
    <2>1. \A i \in 1 .. n : list[i] \in Room
      BY <1>1, OrderedLists
    <2>2. QED
      BY <2>1, PoolAssumption
  <1>5. ASSUME NEW i \in 1 .. 5 * n
        PROVE  /\ t[i] \in Statement /\ g[i] \in Int
               /\ Passes(p, t[i], g[i], g[i + 1])
    <2>1. PICK q \in Nat, m \in 0 .. 4 :
              /\ i = 5 * q + m + 1
              /\ (i - 1) \div 5 = q /\ (i - 1) % 5 = m
              /\ (m < 4 => ((i + 1) - 1) \div 5 = q /\ ((i + 1) - 1) % 5 = m + 1)
              /\ (m = 4 => ((i + 1) - 1) % 5 = 0)
      BY FiveEach
    <2>2. q + 1 \in 1 .. n
      BY <2>1
    <2>3. PICK r \in Room : r = list[q + 1] /\ r \in Nat
      BY <2>2, <1>4
    <2>4. g[i] = IF m = 4 THEN 2 + r ELSE m - 1
      BY <2>1, <2>3, <1>3
    <2>5. g[i + 1] = IF m = 4 THEN -1 ELSE IF m = 3 THEN 2 + r ELSE m
      <3>1. i + 1 \in 1 .. 5 * n + 1
        OBVIOUS
      <3>2. CASE m = 4
        BY <3>1, <3>2, <2>1, <1>3
      <3>3. CASE m # 4
        <4>1. ((i + 1) - 1) \div 5 = q /\ ((i + 1) - 1) % 5 = m + 1
          BY <3>3, <2>1
        <4>2. QED
          BY <3>1, <3>3, <4>1, <2>3, <1>3
      <3>4. QED
        BY <3>2, <3>3
    <2>6. t[i] = CompleteBattle(r, 1)[m + 1]
      BY <2>1, <2>3, <1>1, <1>2 DEF Completions
    <2>7. t[i] = <<Begin, Lock(Card(r, 1)), Lock(Card(r, 2)), Lock(RoomRow(r)), Commit>>[m + 1]
      BY <2>6 DEF CompleteBattle
    <2>8. CASE m = 0
      <3>1. t[i] = Begin /\ g[i] = -1 /\ g[i + 1] = 0
        BY <2>8, <2>4, <2>5, <2>7
      <3>2. QED
        BY <3>1, Statements, Places
    <2>9. CASE m = 1
      <3>1. t[i] = Lock(Card(r, 1)) /\ g[i] = 0 /\ g[i + 1] = 1
        BY <2>9, <2>4, <2>5, <2>7
      <3>2. QED
        BY <3>1, Locks
    <2>10. CASE m = 2
      <3>1. t[i] = Lock(Card(r, 2)) /\ g[i] = 1 /\ g[i + 1] = 2
        BY <2>10, <2>4, <2>5, <2>7
      <3>2. QED
        BY <3>1, Locks
    <2>11. CASE m = 3
      <3>1. t[i] = Lock(RoomRow(r)) /\ g[i] = 2 /\ g[i + 1] = 2 + r
        BY <2>11, <2>4, <2>5, <2>7
      <3>2. QED
        BY <3>1, Locks
    <2>12. CASE m = 4
      <3>1. t[i] = Commit /\ g[i] = 2 + r /\ g[i + 1] = -1
        BY <2>12, <2>4, <2>5, <2>7
      <3>2. QED
        BY <3>1, Locks, Statements
    <2>13. QED
      BY <2>8, <2>9, <2>10, <2>11, <2>12
  <1>6. t \in Seq(Statement) /\ Len(t) = 5 * n
    <2>1. t = [i \in 1 .. 5 * n |-> t[i]]
      BY <1>1, <1>2 DEF Completions
    <2>2. t \in [1 .. 5 * n -> Statement]
      BY <2>1, <1>5
    <2>3. 5 * n \in Nat
      OBVIOUS
    <2>4. QED
      BY <2>2, <2>3
  <1>7. g \in [1 .. Len(t) + 1 -> Int] /\ g[1] = -1 /\ g[Len(t) + 1] = -1
    <2>1. g[1] = -1 /\ g[5 * n + 1] = -1
      BY <1>3
    <2>2. \A i \in 1 .. 5 * n + 1 : g[i] \in Int
      BY <1>5, <2>1
    <2>3. QED
      BY <1>3, <1>6, <2>1, <2>2
  <1>8. QED
    BY <1>2, <1>5, <1>6, <1>7 DEF Script, Follows

-----------------------------------------------------------------------------
(***************************************************************************)
(* The inductive invariant.                                                *)
(***************************************************************************)

\* What p still has to run keeps the discipline from where p is: in a
\* transaction when it holds the connection of one, with its rows below.
ProcOK(p) ==
    \E h \in Int :
        /\ h >= -1 /\ Script(p, todo[p], h)
        /\ p \in inTx <=> h >= 0
        /\ \A row \in Row : lockedBy[row] = p => Rank(row) <= h

\* A process waits once, for the statement it is at.
LineOK ==
    /\ \A i, j \in DOMAIN queue : queue[i] = queue[j] => i = j
    /\ \A p \in Proc : Waiting(p) => p \notin reading /\ (At(p, "begin") \/ At(p, "query"))
    /\ \A p \in reading : At(p, "query")

\* Every connection is somewhere, and none is in two places.
ConnsOK ==
    /\ inTx \subseteq Proc /\ reading \subseteq Proc
    /\ free \in Nat
    /\ free = MaxConns - Cardinality(inTx) - Cardinality(reading)

IInv ==
    /\ todo \in [Proc -> Seq(Statement)]
    /\ queue \in Seq(Proc)
    /\ lockedBy \in [Row -> Proc \cup {Null}]
    /\ \A p \in Proc : ProcOK(p)
    /\ LineOK
    /\ ConnsOK

-----------------------------------------------------------------------------
(* What steps have in common.                                              *)

\* One process moves: its own script, transaction and rows.
LEMMA OneMoves ==
    ASSUME IInv, NEW p \in Proc, NEW t, NEW h \in Int, h >= -1, Script(p, t, h),
           todo' = [todo EXCEPT ![p] = t],
           p \in inTx' <=> h >= 0,
           \A q \in Proc \ {p} : q \in inTx' <=> q \in inTx,
           \A row \in Row : lockedBy'[row] = p => Rank(row) <= h,
           \A row \in Row, q \in Proc \ {p} : lockedBy'[row] = q => lockedBy[row] = q
    PROVE  todo' \in [Proc -> Seq(Statement)] /\ \A q \in Proc : ProcOK(q)'
  <1>1. todo' \in [Proc -> Seq(Statement)]
    BY DEF IInv, Script
  <1>2. todo'[p] = t /\ \A q \in Proc \ {p} : todo'[q] = todo[q]
    BY DEF IInv
  <1>3. ProcOK(p)'
    BY <1>2 DEF ProcOK
  <1>4. ASSUME NEW q \in Proc \ {p} PROVE ProcOK(q)'
    <2>1. PICK k \in Int : /\ k >= -1 /\ Script(q, todo[q], k)
                           /\ q \in inTx <=> k >= 0
                           /\ \A row \in Row : lockedBy[row] = q => Rank(row) <= k
      BY DEF IInv, ProcOK
    <2>2. QED
      BY <1>2, <2>1 DEF ProcOK
  <1>5. QED
    BY <1>1, <1>3, <1>4

LEMMA OneOutside ==
    ASSUME IInv, NEW p \in Proc, NEW t, Script(p, t, -1),
           todo' = [todo EXCEPT ![p] = t],
           p \notin inTx',
           \A q \in Proc \ {p} : q \in inTx' <=> q \in inTx,
           \A row \in Row : lockedBy'[row] # p,
           \A row \in Row, q \in Proc \ {p} : lockedBy'[row] = q => lockedBy[row] = q
    PROVE  todo' \in [Proc -> Seq(Statement)] /\ \A q \in Proc : ProcOK(q)'
  <1>1. PICK h \in Int : h = -1
    OBVIOUS
  <1>2. h >= -1 /\ Script(p, t, h) /\ (p \in inTx' <=> h >= 0)
    BY <1>1
  <1>3. \A row \in Row : lockedBy'[row] = p => Rank(row) <= h
    OBVIOUS
  <1>4. QED
    BY <1>2, <1>3, OneMoves

\* Processes that stand still keep their place in the queue.
LEMMA LineStays ==
    ASSUME IInv, NEW p \in Proc, NEW t, ~Waiting(p), queue' = queue,
           todo' = [todo EXCEPT ![p] = t],
           reading' \subseteq reading, p \notin reading'
    PROVE  LineOK'
  <1>1. \A q \in Proc \ {p} : todo'[q] = todo[q]
    BY DEF IInv
  <1>2. \A q \in Proc \ {p} : \A what : At(q, what)' <=> At(q, what)
    BY <1>1 DEF At, Busy
  <1>3. \A q : Waiting(q)' <=> Waiting(q)
    BY DEF Waiting
  <1>4. reading \subseteq Proc
    BY DEF IInv, ConnsOK
  <1>5. QED
    BY <1>2, <1>3, <1>4 DEF LineOK, IInv

\* Sets of processes are finite.
LEMMA Few ==
    ASSUME NEW X, X \subseteq Proc
    PROVE  IsFiniteSet(X) /\ Cardinality(X) \in Nat /\ Cardinality(X) <= Cardinality(Proc)
  BY PoolAssumption, FS_Subset, FS_CardinalityType

LEMMA OneMore ==
    ASSUME NEW X, X \subseteq Proc, NEW p \in Proc, p \notin X
    PROVE  Cardinality(X \cup {p}) = Cardinality(X) + 1
  BY Few, FS_AddElement

LEMMA OneLess ==
    ASSUME NEW X, X \subseteq Proc, NEW p
    PROVE  /\ Cardinality({p} \cap X) \in 0 .. 1
           /\ Cardinality(X \ {p}) = Cardinality(X) - Cardinality({p} \cap X)
  <1>1. CASE p \in X
    <2>1. {p} \cap X = {p}
      BY <1>1
    <2>2. Cardinality({p}) = 1
      BY FS_Singleton
    <2>3. Cardinality(X \ {p}) = Cardinality(X) - 1
      BY <1>1, Few, FS_RemoveElement
    <2>4. Cardinality({p} \cap X) = 1
      BY <2>1, <2>2
    <2>5. QED
      BY <2>3, <2>4, Few
  <1>2. CASE p \notin X
    <2>1. {p} \cap X = {} /\ X \ {p} = X
      BY <1>2
    <2>2. Cardinality({}) = 0
      BY FS_EmptySet
    <2>3. Cardinality({p} \cap X) = 0 /\ Cardinality(X \ {p}) = Cardinality(X)
      BY <2>1, <2>2
    <2>4. QED
      BY <2>3, Few
  <1>3. QED
    BY <1>1, <1>2

\* Where a process is, by the statement it is at.
LEMMA AtPlace ==
    ASSUME IInv, NEW p \in Proc
    PROVE  /\ ~Busy(p) => /\ p \notin inTx /\ p \notin reading /\ ~Waiting(p)
                          /\ \A row \in Row : lockedBy[row] # p
           /\ At(p, "begin") => p \notin inTx
           /\ At(p, "commit") \/ At(p, "lock") => p \in inTx /\ p \notin reading /\ ~Waiting(p)
           /\ At(p, "query") /\ p = Worker => p \notin inTx
           /\ \A r \in Room : At(p, "query") /\ Head(todo[p]) = BattleQuery(r) => p \notin inTx
           /\ p \notin inTx => \A row \in Row : lockedBy[row] # p
           /\ At(p, "lock") => /\ Head(todo[p])[2] \in Row
                               /\ \A row \in Row : lockedBy[row] = p =>
                                     Rank(row) < Rank(Head(todo[p])[2])
  <1>1. PICK h \in Int : /\ h >= -1 /\ Script(p, todo[p], h)
                         /\ p \in inTx <=> h >= 0
                         /\ \A row \in Row : lockedBy[row] = p => Rank(row) <= h
    BY DEF IInv, ProcOK
  <1>2. \A row \in Row : Rank(row) \in Nat /\ Rank(row) >= 1
    BY RankType
  <1>3. p \notin inTx => \A row \in Row : lockedBy[row] # p
    BY <1>1, <1>2
  <1>4. CASE ~Busy(p)
    <2>1. todo[p] = <<>> /\ \A what : ~At(p, what)
      BY <1>4 DEF Busy, At
    <2>2. h = -1
      BY <1>1, <2>1, NoScript
    <2>3. p \notin reading /\ ~Waiting(p)
      BY <2>1 DEF IInv, LineOK
    <2>4. QED
      BY <1>1, <1>3, <2>1, <2>2, <2>3, <1>4
  <1>5. CASE Busy(p)
    <2>1. PICK s \in Statement : s = Head(todo[p]) /\ \E b \in Int : Passes(p, s, h, b)
      BY <1>1, <1>5, After DEF Busy
    <2>2. \A what : At(p, what) <=> s[1] = what
      BY <1>5, <2>1 DEF At
    <2>3. At(p, "begin") => p \notin inTx
      BY <1>1, <2>1, <2>2 DEF Passes
    <2>4. At(p, "commit") \/ At(p, "lock") => p \in inTx
      BY <1>1, <2>1, <2>2 DEF Passes
    <2>5. At(p, "commit") \/ At(p, "lock") => p \notin reading /\ ~Waiting(p)
      BY <2>2 DEF IInv, LineOK
    <2>6. At(p, "query") /\ (p = Worker \/ s[2] # 0) => p \notin inTx
      BY <1>1, <2>1, <2>2 DEF Passes
    <2>7. \A r \in Room : s = BattleQuery(r) => s[2] # 0
      BY Kinds, PoolAssumption
    <2>8. At(p, "lock") => s[2] \in Row /\ h < Rank(s[2])
      BY <2>1, <2>2, KindOf DEF Passes
    <2>9. At(p, "lock") => \A row \in Row : lockedBy[row] = p => Rank(row) < Rank(s[2])
      BY <1>1, <1>2, <2>8
    <2>10. QED
      BY <1>3, <1>5, <2>1, <2>3, <2>4, <2>5, <2>6, <2>7, <2>8, <2>9
  <1>6. QED
    BY <1>4, <1>5

\* Past the statement at hand.
LEMMA Next1 ==
    ASSUME IInv, NEW p \in Proc, Busy(p)
    PROVE  /\ At(p, "begin") => Script(p, Tail(todo[p]), 0)
           /\ At(p, "commit") => Script(p, Tail(todo[p]), -1)
           /\ At(p, "lock") => Script(p, Tail(todo[p]), Rank(Head(todo[p])[2]))
           /\ At(p, "query") => \E h \in Int :
                 /\ h >= -1 /\ Script(p, Tail(todo[p]), h)
                 /\ p \in inTx <=> h >= 0
                 /\ \A row \in Row : lockedBy[row] = p => Rank(row) <= h
  <1>1. PICK h \in Int : /\ h >= -1 /\ Script(p, todo[p], h)
                         /\ p \in inTx <=> h >= 0
                         /\ \A row \in Row : lockedBy[row] = p => Rank(row) <= h
    BY DEF IInv, ProcOK
  <1>2. PICK b \in Int : Passes(p, Head(todo[p]), h, b) /\ Script(p, Tail(todo[p]), b)
    BY <1>1, After DEF Busy
  <1>3. QED
    BY <1>1, <1>2 DEF At, Passes

\* p stops where it is, and goes on outside a transaction with what is left.
LEMMA Ended ==
    ASSUME IInv, NEW p \in Proc, NEW next, Script(p, next, -1), End(p, next)
    PROVE  /\ todo' \in [Proc -> Seq(Statement)]
           /\ lockedBy' \in [Row -> Proc \cup {Null}]
           /\ \A q \in Proc : ProcOK(q)'
           /\ ConnsOK'
  <1>1. \A row \in Row : lockedBy'[row] = IF lockedBy[row] = p THEN Null ELSE lockedBy[row]
    BY DEF End
  <1>2. p # Null /\ -1 \in Int
    BY PoolAssumption
  <1>3. lockedBy' \in [Row -> Proc \cup {Null}]
    BY DEF End, IInv
  <1>4. \A row \in Row : lockedBy'[row] # p
    BY <1>1, <1>2
  <1>5. \A row \in Row, q \in Proc \ {p} : lockedBy'[row] = q => lockedBy[row] = q
    BY <1>1, PoolAssumption
  <1>6. todo' \in [Proc -> Seq(Statement)] /\ \A q \in Proc : ProcOK(q)'
    BY <1>4, <1>5, OneOutside DEF End
  <1>7. ConnsOK'
    <2>1. inTx \subseteq Proc /\ reading \subseteq Proc /\ free \in Nat
      BY DEF IInv, ConnsOK
    <2>2. PICK a \in 0 .. 1 : /\ a = Cardinality({p} \cap inTx)
                             /\ Cardinality(inTx \ {p}) = Cardinality(inTx) - a
      BY <2>1, OneLess
    <2>3. PICK b \in 0 .. 1 : /\ b = Cardinality({p} \cap reading)
                             /\ Cardinality(reading \ {p}) = Cardinality(reading) - b
      BY <2>1, OneLess
    <2>4. free' = free + (a + b)
      BY <2>2, <2>3 DEF End, Returned
    <2>5. Cardinality(inTx) \in Nat /\ Cardinality(reading) \in Nat /\ MaxConns \in Nat
      BY <2>1, Few, PoolAssumption
    <2>6. inTx' = inTx \ {p} /\ reading' = reading \ {p}
      BY DEF End
    <2>7. free' = MaxConns - Cardinality(inTx') - Cardinality(reading')
      <3>1. free = MaxConns - Cardinality(inTx) - Cardinality(reading)
        BY DEF IInv, ConnsOK
      <3>2. Cardinality(inTx') = Cardinality(inTx) - a
        BY <2>2, <2>6
      <3>3. Cardinality(reading') = Cardinality(reading) - b
        BY <2>3, <2>6
      <3>4. QED
        BY <2>4, <2>5, <3>1, <3>2, <3>3
    <2>8. QED
      BY <2>1, <2>4, <2>6, <2>7 DEF ConnsOK
  <1>8. QED
    BY <1>3, <1>6, <1>7

-----------------------------------------------------------------------------
(* Initially, and from step to step.                                       *)

LEMMA Initially == Init => IInv
  <1> SUFFICES ASSUME Init PROVE IInv
    OBVIOUS
  <1>1. todo \in [Proc -> Seq(Statement)] /\ queue \in Seq(Proc)
    BY DEF Init
  <1>2. lockedBy \in [Row -> Proc \cup {Null}] /\ \A row \in Row : lockedBy[row] \notin Proc
    BY PoolAssumption DEF Init
  <1>3. ASSUME NEW p \in Proc PROVE ProcOK(p)
    <2>1. Script(p, todo[p], -1)
      BY NoScript DEF Init
    <2>2. QED
      BY <2>1, <1>2 DEF ProcOK, Init
  <1>4. LineOK
    BY DEF Init, LineOK, Waiting
  <1>5. ConnsOK
    BY FS_EmptySet, PoolAssumption DEF Init, ConnsOK
  <1>6. QED
    BY <1>1, <1>2, <1>3, <1>4, <1>5 DEF IInv

LEMMA CallStep ==
    ASSUME IInv, NEW p \in Proc, NEW script, Script(p, script, -1), Call(p, script)
    PROVE  IInv'
  <1>1. /\ p \notin inTx /\ p \notin reading /\ ~Waiting(p)
        /\ \A row \in Row : lockedBy[row] # p
    BY AtPlace DEF Call
  <1>2. -1 \in Int
    OBVIOUS
  <1>3. todo' \in [Proc -> Seq(Statement)] /\ \A q \in Proc : ProcOK(q)'
    BY <1>1, OneOutside DEF Call
  <1>4. LineOK'
    BY <1>1, LineStays DEF Call, pool
  <1>5. QED
    BY <1>3, <1>4 DEF Call, pool, IInv, ConnsOK

LEMMA ArriveStep ==
    ASSUME IInv, NEW p \in Handler, Arrive(p)
    PROVE  IInv'
  <1>1. p \in Proc /\ p # Worker
    BY PoolAssumption DEF Proc
  <1>2. PICK r \in Room, k \in 1 .. 2 :
           \/ \E script \in Creates : Call(p, script)
           \/ Call(p, Leave(r))
           \/ Call(p, Lobby(r))
           \/ Call(p, StartBattle(r))
           \/ \E look1, look2 \in LookUp : Call(p, SubmitAnswer(r, k, look1, look2))
           \/ \E look \in LookUp : Call(p, NextQuestion(r, look))
    BY DEF Arrive
  <1>3. CASE Call(p, Leave(r)) \/ Call(p, Lobby(r)) \/ Call(p, StartBattle(r))
    BY <1>1, <1>3, Short, Lobbies, CallStep
  <1>4. CASE \E look1, look2 \in LookUp : Call(p, SubmitAnswer(r, k, look1, look2))
    BY <1>1, <1>4, Answers, CallStep
  <1>5. CASE \E look \in LookUp : Call(p, NextQuestion(r, look))
    BY <1>1, <1>5, Questions, CallStep
  <1>6. CASE \E script \in Creates : Call(p, script)
    BY <1>1, <1>6, CreatesOK, CallStep
  <1>7. QED
    BY <1>2, <1>3, <1>4, <1>5, <1>6

LEMMA ArriveAuthStep ==
    ASSUME IInv, NEW p \in Handler, ArriveAuth(p)
    PROVE  IInv'
  <1>1. p \in Proc
    BY DEF Proc
  <1>2. PICK k \in Key :
           \/ \E handle \in Key : k < handle /\ Call(p, Signup(k, handle))
           \/ Call(p, Login(k))
           \/ Call(p, Refresh(k))
           \/ Call(p, Logout(k))
           \/ Call(p, Me)
    BY DEF ArriveAuth
  <1>3. QED
    BY <1>1, <1>2, Accounts, CallStep

LEMMA TickStep == IInv /\ Tick => IInv'
  BY Cleanups, CallStep DEF Tick, Proc

\* p joins the queue.
LEMMA JoinStep ==
    ASSUME IInv, NEW p \in Proc, ~Waiting(p), p \notin reading,
           At(p, "begin") \/ At(p, "query"), queue' = Append(queue, p),
           UNCHANGED <<todo, inTx, reading, free, lockedBy>>
    PROVE  IInv'
  <1>1. queue \in Seq(Proc) /\ queue' = Append(queue, p) /\ queue' \in Seq(Proc) /\ Len(queue) \in Nat
    BY DEF IInv
  <1>2. Len(queue') = Len(queue) + 1 /\ queue'[Len(queue) + 1] = p
    BY <1>1
  <1>3. \A i \in 1 .. Len(queue) : queue'[i] = queue[i] /\ queue[i] # p
    BY <1>1 DEF Waiting
  <1>4. \A q \in Proc : Waiting(q)' => Waiting(q) \/ q = p
    BY <1>1, <1>2, <1>3 DEF Waiting
  <1>5. ASSUME NEW i \in DOMAIN queue', NEW j \in DOMAIN queue', queue'[i] = queue'[j]
        PROVE  i = j
    <2>1. i \in 1 .. Len(queue) \/ i = Len(queue) + 1
      BY <1>1, <1>2
    <2>2. j \in 1 .. Len(queue) \/ j = Len(queue) + 1
      BY <1>1, <1>2
    <2>3. \A a, b \in 1 .. Len(queue) : queue[a] = queue[b] => a = b
      BY <1>1 DEF IInv, LineOK
    <2>4. QED
      BY <1>2, <1>3, <1>5, <2>1, <2>2, <2>3
  <1>6. \A q, what : At(q, what)' <=> At(q, what)
    BY DEF At, Busy
  <1>7. LineOK'
    BY <1>4, <1>5, <1>6 DEF LineOK, IInv
  <1>8. \A q \in Proc : ProcOK(q)'
    BY DEF IInv, ProcOK
  <1>9. QED
    BY <1>1, <1>7, <1>8 DEF IInv, ConnsOK

\* p has a connection, and is not in the queue any more.
LEMMA ConnectStep ==
    ASSUME IInv, NEW p \in Proc, Connect(p), p \notin reading, queue' \in Seq(Proc),
           \A i, j \in DOMAIN queue' : queue'[i] = queue'[j] => i = j,
           ~Waiting(p)', \A q \in Proc : Waiting(q)' => Waiting(q)
    PROVE  IInv'
  <1>1. free' = free - 1 /\ free \in Nat /\ free > 0 /\ lockedBy' = lockedBy
    BY DEF Connect, IInv, ConnsOK
  <1>2. inTx \subseteq Proc /\ reading \subseteq Proc
    BY DEF IInv, ConnsOK
  <1>3. MaxConns \in Nat /\ Cardinality(inTx) \in Nat /\ Cardinality(reading) \in Nat
    BY <1>2, Few, PoolAssumption
  <1>4. CASE /\ At(p, "begin")
              /\ inTx' = inTx \cup {p}
              /\ todo' = [todo EXCEPT ![p] = Tail(@)]
              /\ UNCHANGED reading
    <2>1. p \notin inTx /\ \A row \in Row : lockedBy[row] # p
      BY <1>4, AtPlace
    <2>2. Script(p, Tail(todo[p]), 0)
      BY <1>4, Next1 DEF At
    <2>3. todo' \in [Proc -> Seq(Statement)] /\ \A q \in Proc : ProcOK(q)'
      <3>1. todo' = [todo EXCEPT ![p] = Tail(todo[p])]
        BY <1>4
      <3>2. 0 \in Int /\ 0 >= -1 /\ 0 >= 0
        OBVIOUS
      <3>3. \A row \in Row : lockedBy'[row] # p
        BY <2>1, <1>1
      <3>4. p \in inTx' /\ \A q \in Proc \ {p} : q \in inTx' <=> q \in inTx
        BY <1>4
      <3>5. QED
        BY <1>1, <2>2, <3>1, <3>2, <3>3, <3>4, OneMoves
    <2>4. Cardinality(inTx') = Cardinality(inTx) + 1
      BY <1>2, <1>4, <2>1, OneMore
    <2>5. ConnsOK'
      <3>1. inTx' \subseteq Proc /\ reading' \subseteq Proc /\ reading' = reading
        BY <1>2, <1>4
      <3>2. free' = MaxConns - Cardinality(inTx') - Cardinality(reading')
        BY <1>1, <1>3, <2>4, <3>1 DEF IInv, ConnsOK
      <3>3. QED
        BY <1>1, <3>1, <3>2 DEF ConnsOK
    <2>6. \A q \in Proc \ {p} : \A what : At(q, what)' <=> At(q, what)
      BY <1>4 DEF At, Busy, IInv
    <2>7. LineOK'
      BY <1>2, <1>4, <2>6 DEF IInv, LineOK
    <2>8. QED
      BY <1>1, <2>3, <2>5, <2>7 DEF IInv
  <1>5. CASE /\ At(p, "query")
              /\ reading' = reading \cup {p}
              /\ UNCHANGED <<inTx, todo>>
    <2>1. todo' = todo /\ inTx' = inTx
      BY <1>5
    <2>2. \A q \in Proc : ProcOK(q)'
      BY <1>1, <2>1 DEF IInv, ProcOK
    <2>3. Cardinality(reading') = Cardinality(reading) + 1
      BY <1>2, <1>5, OneMore
    <2>4. ConnsOK'
      <3>1. inTx' \subseteq Proc /\ reading' \subseteq Proc
        BY <1>2, <1>5
      <3>2. free' = MaxConns - Cardinality(inTx') - Cardinality(reading')
        BY <1>1, <1>3, <2>1, <2>3 DEF IInv, ConnsOK
      <3>3. QED
        BY <1>1, <3>1, <3>2 DEF ConnsOK
    <2>5. \A q, what : At(q, what)' <=> At(q, what)
      BY <2>1 DEF At, Busy
    <2>6. LineOK'
      BY <1>2, <1>5, <2>5 DEF IInv, LineOK
    <2>7. QED
      BY <1>1, <2>1, <2>2, <2>4, <2>6 DEF IInv
  <1>6. QED
    BY <1>4, <1>5 DEF Connect

LEMMA AskStep ==
    ASSUME IInv, NEW p \in Proc, Ask(p)
    PROVE  IInv'
  <1>1. CASE Connect(p) /\ queue' = queue
    <2>1. /\ queue' \in Seq(Proc) /\ p \notin reading
          /\ \A i, j \in DOMAIN queue' : queue'[i] = queue'[j] => i = j
      BY <1>1 DEF Ask, IInv, LineOK
    <2>2. ~Waiting(p)' /\ \A q \in Proc : Waiting(q)' => Waiting(q)
      BY <1>1 DEF Ask, Waiting
    <2>3. QED
      BY <1>1, <2>1, <2>2, ConnectStep
  <1>2. CASE queue' = Append(queue, p) /\ UNCHANGED <<todo, inTx, reading, free, lockedBy>>
    BY <1>2, JoinStep DEF Ask
  <1>3. QED
    BY <1>1, <1>2 DEF Ask

LEMMA GrantStep == IInv /\ Grant => IInv'
  <1> SUFFICES ASSUME IInv, Grant PROVE IInv'
    OBVIOUS
  <1>1. PICK p : p = Head(queue)
    OBVIOUS
  <1>2. /\ queue \in Seq(Proc) /\ queue # <<>> /\ Len(queue) \in Nat \ {0}
        /\ p \in Proc /\ p = queue[1] /\ Waiting(p)
    BY <1>1 DEF IInv, Grant, Waiting
  <1>3. /\ queue' \in Seq(Proc) /\ Len(queue') = Len(queue) - 1
        /\ \A i \in 1 .. Len(queue') : queue'[i] = queue[i + 1]
    BY <1>2 DEF Grant
  <1>4. \A i, j \in 1 .. Len(queue) : queue[i] = queue[j] => i = j
    BY <1>2 DEF IInv, LineOK
  <1>5. \A i, j \in DOMAIN queue' : queue'[i] = queue'[j] => i = j
    <2>1. DOMAIN queue' = 1 .. Len(queue) - 1
      BY <1>2, <1>3
    <2>2. ASSUME NEW i \in 1 .. Len(queue) - 1, NEW j \in 1 .. Len(queue) - 1,
                 queue'[i] = queue'[j]
          PROVE  i = j
      <3>1. queue[i + 1] = queue[j + 1] /\ i + 1 \in 1 .. Len(queue) /\ j + 1 \in 1 .. Len(queue)
        BY <1>2, <1>3, <2>2
      <3>2. i + 1 = j + 1
        BY <3>1, <1>4
      <3>3. QED
        BY <3>2
    <2>3. QED
      BY <2>1, <2>2
  <1>6. ~Waiting(p)' /\ \A q \in Proc : Waiting(q)' => Waiting(q)
    <2>1. DOMAIN queue' = 1 .. Len(queue) - 1 /\ DOMAIN queue = 1 .. Len(queue)
      BY <1>2, <1>3
    <2>2. \A i \in DOMAIN queue' : i + 1 \in DOMAIN queue /\ queue'[i] = queue[i + 1] /\ queue[i + 1] # p
      BY <1>2, <1>3, <1>4, <2>1
    <2>3. QED
      BY <2>2 DEF Waiting
  <1>7. p \notin reading
    BY <1>2 DEF IInv, LineOK
  <1>8. Connect(p)
    BY <1>1 DEF Grant
  <1>9. QED
    BY <1>2, <1>3, <1>5, <1>6, <1>7, <1>8, ConnectStep

LEMMA QueryDoneStep ==
    ASSUME IInv, NEW p \in Proc, QueryDone(p)
    PROVE  IInv'
  <1>1. p \in reading /\ At(p, "query") /\ ~Waiting(p) /\ Busy(p)
    BY DEF QueryDone, IInv, LineOK, At
  <1>2. PICK t : /\ todo' = [todo EXCEPT ![p] = t]
                 /\ \/ t = Tail(todo[p])
                    \/ \E r \in Room, k \in 1 .. 2 :
                          Head(todo[p]) = BattleQuery(r) /\ t = CompleteBattle(r, k)
                    \/ /\ p = Worker
                       /\ \E rs \in SUBSET Room : \E list \in Ordered(rs) : t = Completions(list)
    BY DEF QueryDone
  <1>3. inTx' = inTx /\ queue' = queue /\ lockedBy' = lockedBy /\ reading' = reading \ {p}
    BY DEF QueryDone
  <1>4. todo' \in [Proc -> Seq(Statement)] /\ \A q \in Proc : ProcOK(q)'
    <2>1. CASE t = Tail(todo[p])
      <3>1. PICK h \in Int : /\ h >= -1 /\ Script(p, t, h)
                             /\ p \in inTx <=> h >= 0
                             /\ \A row \in Row : lockedBy[row] = p => Rank(row) <= h
        BY <1>1, <2>1, Next1
      <3>2. QED
        BY <1>2, <1>3, <3>1, OneMoves
    <2>2. CASE t # Tail(todo[p])
      <3>1. p \notin inTx /\ \A row \in Row : lockedBy[row] # p
        BY <1>1, <1>2, <2>2, AtPlace
      <3>2. Script(p, t, -1)
        BY <1>2, <2>2, Short, CompleteEach
      <3>3. QED
        BY <1>2, <1>3, <3>1, <3>2, OneOutside
    <2>3. QED
      BY <2>1, <2>2
  <1>5. LineOK'
    BY <1>1, <1>2, <1>3, LineStays
  <1>6. ConnsOK'
    <2>1. inTx \subseteq Proc /\ reading \subseteq Proc /\ free \in Nat /\ free' = free + 1
      BY DEF IInv, ConnsOK, QueryDone
    <2>2. {p} \cap reading = {p} /\ Cardinality({p}) = 1
      BY <1>1, FS_Singleton
    <2>3. Cardinality(reading \ {p}) = Cardinality(reading) - Cardinality({p} \cap reading)
      BY <2>1, OneLess
    <2>4. /\ MaxConns \in Nat /\ Cardinality(inTx) \in Nat /\ Cardinality(reading) \in Nat
          /\ Cardinality(reading') = Cardinality(reading) - 1
      BY <1>3, <2>1, <2>2, <2>3, Few, PoolAssumption
    <2>5. QED
      BY <1>3, <2>1, <2>4 DEF IInv, ConnsOK
  <1>7. QED
    BY <1>3, <1>4, <1>5, <1>6 DEF IInv

LEMMA LockRowStep ==
    ASSUME IInv, NEW p \in Proc, LockRow(p)
    PROVE  IInv'
  <1>1. PICK row : row = Head(todo[p])[2]
    OBVIOUS
  <1>2. /\ row \in Row /\ p \in inTx /\ p \notin reading /\ ~Waiting(p)
        /\ \A x \in Row : lockedBy[x] = p => Rank(x) < Rank(row)
        /\ Script(p, Tail(todo[p]), Rank(row))
    BY <1>1, AtPlace, Next1 DEF LockRow, At
  <1>3. /\ lockedBy[row] \in {Null, p} /\ lockedBy' = [lockedBy EXCEPT ![row] = p]
        /\ todo' = [todo EXCEPT ![p] = Tail(todo[p])]
        /\ inTx' = inTx /\ reading' = reading /\ queue' = queue /\ free' = free
    BY <1>1 DEF LockRow, pool
  <1>4. lockedBy' \in [Row -> Proc \cup {Null}]
    BY <1>3 DEF IInv
  <1>5. \A x \in Row : lockedBy'[x] = IF x = row THEN p ELSE lockedBy[x]
    BY <1>2, <1>3 DEF IInv
  <1>6. Rank(row) \in Int /\ Rank(row) >= -1 /\ Rank(row) >= 0 /\ \A x \in Row : Rank(x) \in Int
    BY <1>2, RankType
  <1>7. \A x \in Row : lockedBy'[x] = p => Rank(x) <= Rank(row)
    BY <1>2, <1>5, <1>6
  <1>8. \A x \in Row, q \in Proc \ {p} : lockedBy'[x] = q => lockedBy[x] = q
    BY <1>5
  <1>9. todo' \in [Proc -> Seq(Statement)] /\ \A q \in Proc : ProcOK(q)'
    BY <1>2, <1>3, <1>6, <1>7, <1>8, OneMoves
  <1>10. LineOK'
    BY <1>2, <1>3, LineStays
  <1>11. QED
    BY <1>3, <1>4, <1>9, <1>10 DEF IInv, ConnsOK

LEMMA CommitStep ==
    ASSUME IInv, NEW p \in Proc, CommitTx(p)
    PROVE  IInv'
  <1>1. p \notin reading /\ ~Waiting(p) /\ Script(p, Tail(todo[p]), -1)
    BY AtPlace, Next1 DEF CommitTx, At
  <1>2. queue' = queue /\ End(p, Tail(todo[p]))
    BY DEF CommitTx
  <1>3. LineOK'
    BY <1>1, <1>2, LineStays DEF End
  <1>4. QED
    BY <1>1, <1>2, <1>3, Ended DEF IInv

LEMMA FindExpiredStep ==
    ASSUME IInv, NEW p \in Proc, NEW r \in Room, NEW k \in 1 .. 2, FindExpired(p, r, k)
    PROVE  IInv'
  <1>1. p \notin reading /\ ~Waiting(p) /\ Script(p, CompleteBattle(r, k), -1)
    BY Short DEF FindExpired
  <1>2. queue' = queue /\ End(p, CompleteBattle(r, k))
    BY DEF FindExpired
  <1>3. LineOK'
    BY <1>1, <1>2, LineStays DEF End
  <1>4. QED
    BY <1>1, <1>2, <1>3, Ended DEF IInv

\* After an error only the worker goes on, with its next transaction.
LEMMA ErrorScript ==
    ASSUME IInv, NEW p \in Proc
    PROVE  Script(p, AfterError(p), -1)
  <1>1. CASE p = Worker /\ \E i \in DOMAIN todo[p] : todo[p][i] = Commit
    <2>1. PICK t, h : t = todo[p] /\ Script(p, t, h)
      BY DEF IInv, ProcOK
    <2>2. PICK n \in Nat : n = Len(t) /\ DOMAIN t = 1 .. n
      BY <2>1 DEF Script
    <2>3. PICK T : T = {i \in 1 .. n : t[i] = Commit}
      OBVIOUS
    <2>4. T # {} /\ T \subseteq Nat
      BY <1>1, <2>1, <2>2, <2>3
    <2>5. PICK m \in T : \A i \in T : m <= i
      BY <2>4, Least
    <2>6. \E i \in DOMAIN t : t[i] = Commit /\ \A j \in 1 .. i - 1 : t[j] # Commit
      <3>1. m \in 1 .. n /\ t[m] = Commit
        BY <2>3
      <3>2. ASSUME NEW j \in 1 .. m - 1 PROVE t[j] # Commit
        <4>1. j \in 1 .. n /\ ~(m <= j)
          BY <2>2, <3>1
        <4>2. QED
          BY <2>3, <2>5, <4>1
      <3>3. QED
        BY <2>2, <3>1, <3>2
    <2>7. PICK c : c = CHOOSE i \in DOMAIN t : t[i] = Commit /\ \A j \in 1 .. i - 1 : t[j] # Commit
      OBVIOUS
    <2>8. c \in DOMAIN t /\ t[c] = Commit
      BY <2>6, <2>7
    <2>9. AfterError(p) = SubSeq(t, c + 1, Len(t))
      BY <1>1, <2>1, <2>7 DEF AfterError
    <2>10. QED
      BY <2>1, <2>8, <2>9, AfterCommit
  <1>2. CASE ~(p = Worker /\ \E i \in DOMAIN todo[p] : todo[p][i] = Commit)
    BY <1>2, NoScript DEF AfterError
  <1>3. QED
    BY <1>1, <1>2

\* The queue without p is in the same order.
LEMMA Left ==
    ASSUME IInv, NEW p \in Proc, NEW left, left = LeftBy(p)
    PROVE  /\ left \in Seq(Proc)
           /\ \A i, j \in DOMAIN left : left[i] = left[j] => i = j
           /\ \A i \in DOMAIN left : left[i] # p /\ Waiting(left[i])
  <1>1. queue \in Seq(Proc) /\ Len(queue) \in Nat /\ DOMAIN queue = 1 .. Len(queue)
    BY DEF IInv
  <1>2. \A i, j \in 1 .. Len(queue) : queue[i] = queue[j] => i = j
    BY <1>1 DEF IInv, LineOK
  <1>3. CASE ~Waiting(p)
    <2>1. left = queue
      BY <1>3 DEF LeftBy
    <2>2. QED
      BY <1>1, <1>2, <1>3, <2>1 DEF Waiting
  <1>4. CASE Waiting(p)
    <2>1. PICK k : k = CHOOSE i \in DOMAIN queue : queue[i] = p
      OBVIOUS
    <2>2. k \in 1 .. Len(queue) /\ queue[k] = p
      BY <1>1, <1>4, <2>1 DEF Waiting
    <2>3. left = RemoveAt(queue, k)
      BY <1>4, <2>1 DEF LeftBy
    <2>4. left = SubSeq(queue, 1, k - 1) \o SubSeq(queue, k + 1, Len(queue))
      BY <2>3 DEF RemoveAt
    <2>5. /\ left \in Seq(Proc) /\ DOMAIN left = 1 .. Len(queue) - 1
          /\ \A i \in 1 .. Len(queue) - 1 : left[i] = IF i < k THEN queue[i] ELSE queue[i + 1]
      <3>1. PICK a : a = SubSeq(queue, 1, k - 1)
        OBVIOUS
      <3>2. PICK b : b = SubSeq(queue, k + 1, Len(queue))
        OBVIOUS
      <3>3. /\ a \in Seq(Proc) /\ Len(a) = k - 1
            /\ \A i \in 1 .. k - 1 : a[i] = queue[i]
        BY <1>1, <2>2, <3>1
      <3>4. /\ b \in Seq(Proc) /\ Len(b) = Len(queue) - k
            /\ \A i \in 1 .. Len(queue) - k : b[i] = queue[k + i]
        <4>1. PICK d \in Nat : d = Len(queue)
          BY <1>1
        <4>2. queue \in Seq(Proc) /\ k \in 1 .. d /\ b = SubSeq(queue, k + 1, d)
          BY <1>1, <2>2, <3>2, <4>1
        <4>3. b \in Seq(Proc) /\ Len(b) = d - k
          BY <4>1, <4>2
        <4>4. \A i \in 1 .. d - k : b[i] = queue[k + i]
          BY <4>1, <4>2
        <4>5. QED
          BY <4>1, <4>3, <4>4
      <3>5. /\ left \in Seq(Proc) /\ Len(left) = Len(queue) - 1
            /\ \A i \in 1 .. Len(queue) - 1 : left[i] = IF i < k THEN a[i] ELSE b[i - (k - 1)]
        <4>1. left = a \o b
          BY <2>4, <3>1, <3>2
        <4>2. left \in Seq(Proc) /\ Len(left) = Len(a) + Len(b)
          <5>1. a \in Seq(Proc) /\ b \in Seq(Proc)
            BY <3>3, <3>4
          <5>2. QED
            BY <4>1, <5>1
        <4>3. \A i \in 1 .. Len(a) + Len(b) : left[i] = IF i <= Len(a) THEN a[i] ELSE b[i - Len(a)]
          BY <3>3, <3>4, <4>1
        <4>4. PICK d \in Nat : d = Len(queue) /\ k \in 1 .. d
          BY <1>1, <2>2
        <4>5. Len(a) = k - 1 /\ Len(b) = d - k
          BY <3>3, <3>4, <4>4
        <4>6. Len(left) = d - 1
          BY <4>2, <4>4, <4>5
        <4>7. \A i \in 1 .. d - 1 : left[i] = IF i <= k - 1 THEN a[i] ELSE b[i - (k - 1)]
          BY <4>3, <4>4, <4>5
        <4>8. \A i \in 1 .. d - 1 : i < k <=> i <= k - 1
          BY <4>4
        <4>9. QED
          BY <4>2, <4>4, <4>6, <4>7, <4>8
      <3>6. ASSUME NEW i \in 1 .. Len(queue) - 1
            PROVE  left[i] = IF i < k THEN queue[i] ELSE queue[i + 1]
        <4>1. CASE i < k
          BY <4>1, <1>1, <2>2, <3>3, <3>5
        <4>2. CASE i >= k
          <5>1. i - (k - 1) \in 1 .. Len(queue) - k /\ k + (i - (k - 1)) = i + 1
            BY <4>2, <1>1, <2>2
          <5>2. b[i - (k - 1)] = queue[i + 1]
            BY <3>4, <5>1
          <5>3. QED
            BY <4>2, <5>2, <1>1, <2>2, <3>5
        <4>3. QED
          BY <4>1, <4>2, <1>1, <2>2
      <3>7. QED
        BY <1>1, <3>5, <3>6
    <2>6. PICK at : at = [i \in 1 .. Len(queue) - 1 |-> IF i < k THEN i ELSE i + 1]
      OBVIOUS
    <2>7. \A i \in 1 .. Len(queue) - 1 : at[i] \in 1 .. Len(queue) /\ at[i] # k /\ left[i] = queue[at[i]]
      BY <1>1, <2>2, <2>5, <2>6
    <2>8. \A i, j \in 1 .. Len(queue) - 1 : at[i] = at[j] => i = j
      BY <1>1, <2>2, <2>6
    <2>9. \A i, j \in DOMAIN left : left[i] = left[j] => i = j
      BY <1>2, <2>5, <2>7, <2>8
    <2>10. \A i \in DOMAIN left : left[i] # p /\ Waiting(left[i])
      BY <1>1, <1>2, <2>2, <2>5, <2>7 DEF Waiting
    <2>11. QED
      BY <2>5, <2>9, <2>10
  <1>5. QED
    BY <1>3, <1>4

LEMMA FailStep ==
    ASSUME IInv, NEW p \in Proc, Fail(p)
    PROVE  IInv'
  <1>1. Script(p, AfterError(p), -1)
    BY ErrorScript
  <1>2. End(p, AfterError(p)) /\ queue' = LeftBy(p)
    BY DEF Fail
  <1>3. todo' = [todo EXCEPT ![p] = AfterError(p)] /\ reading' = reading \ {p}
    BY <1>2 DEF End
  <1>4. /\ queue' \in Seq(Proc)
        /\ \A i, j \in DOMAIN queue' : queue'[i] = queue'[j] => i = j
        /\ \A i \in DOMAIN queue' : queue'[i] # p /\ Waiting(queue'[i])
    BY <1>2, Left
  <1>5. \A q : Waiting(q)' => q # p /\ Waiting(q)
    BY <1>4 DEF Waiting
  <1>6. \A q \in Proc \ {p} : \A what : At(q, what)' <=> At(q, what)
    BY <1>3 DEF At, Busy, IInv
  <1>7. reading \subseteq Proc
    BY DEF IInv, ConnsOK
  <1>8. LineOK'
    BY <1>3, <1>4, <1>5, <1>6, <1>7 DEF IInv, LineOK
  <1>9. QED
    BY <1>1, <1>2, <1>4, <1>8, Ended DEF IInv

LEMMA NextStep == IInv /\ [Next]_vars => IInv'
  <1> SUFFICES ASSUME IInv, [Next]_vars PROVE IInv'
    OBVIOUS
  <1>1. CASE UNCHANGED vars
    <2>1. /\ todo' = todo /\ inTx' = inTx /\ reading' = reading /\ free' = free
          /\ queue' = queue /\ lockedBy' = lockedBy
      BY <1>1 DEF vars
    <2>2. \A p \in Proc : ProcOK(p)'
      BY <2>1 DEF IInv, ProcOK
    <2>3. LineOK'
      BY <2>1 DEF IInv, LineOK, At, Busy, Waiting
    <2>4. QED
      BY <2>1, <2>2, <2>3 DEF IInv, ConnsOK
  <1>2. CASE Tick \/ Grant
    BY <1>2, TickStep, GrantStep
  <1>3. ASSUME NEW p \in Handler, Arrive(p) \/ ArriveAuth(p) PROVE IInv'
    BY <1>3, ArriveStep, ArriveAuthStep
  <1>4. ASSUME NEW p \in Proc, Step(p) PROVE IInv'
    BY <1>4, AskStep, QueryDoneStep, LockRowStep, CommitStep, FindExpiredStep DEF Step
  <1>5. ASSUME NEW p \in Proc, Fail(p) PROVE IInv'
    BY <1>5, FailStep
  <1>6. QED
    BY <1>1, <1>2, <1>3, <1>4, <1>5 DEF Next

\* The discipline of the calls is kept by every interleaving of their
\* statements, whatever fails where.
THEOREM Invariance == Spec => []IInv
  <1>1. QED
    BY Initially, NextStep, PTL DEF Spec

-----------------------------------------------------------------------------
(* The properties.                                                         *)

\* TypeOK: the shape of the state, and no more connections in the pool than
\* it was made with.
THEOREM TypeCorrect == Spec => []TypeOK
  <1>1. IInv => TypeOK
    <2> SUFFICES ASSUME IInv PROVE TypeOK
      OBVIOUS
    <2>1. inTx \subseteq Proc /\ reading \subseteq Proc /\ free \in Nat
      BY DEF IInv, ConnsOK
    <2>2. MaxConns \in Nat /\ Cardinality(inTx) \in Nat /\ Cardinality(reading) \in Nat
      BY <2>1, Few, PoolAssumption
    <2>3. free \in 0 .. MaxConns
      BY <2>1, <2>2 DEF IInv, ConnsOK
    <2>4. QED
      BY <2>1, <2>3 DEF IInv, TypeOK
  <1>2. QED
    BY <1>1, Invariance, PTL

\* NothingLeaks: db.Begin's connection and that of db.QueryRow come back by
\* Commit, Close or the deferred Rollback, with the rows, whatever fails where.
THEOREM ConnectionsComeBack == Spec => []NothingLeaks
  <1>1. IInv => NothingLeaks
    <2> SUFFICES ASSUME IInv PROVE NothingLeaks
      OBVIOUS
    <2>1. inTx \subseteq Proc /\ \A p \in reading : Busy(p)
      BY DEF IInv, ConnsOK, LineOK, At
    <2>2. \A p \in inTx : Busy(p)
      BY <2>1, AtPlace
    <2>3. \A row \in Row : lockedBy[row] # Null => lockedBy[row] \in inTx
      BY AtPlace DEF IInv
    <2>4. QED
      BY <2>1, <2>2, <2>3 DEF NothingLeaks, IInv, ConnsOK
  <1>2. QED
    BY <1>1, Invariance, PTL

\* p waits for a row that another process of S has locked.
WaitsForRow(p, S) == At(p, "lock") /\ lockedBy[Head(todo[p])[2]] \in S \ {p}

NoRowDeadlock == \A S \in SUBSET Proc : S # {} => \E p \in S : ~WaitsForRow(p, S)

\* Of the processes of S, each at a lock some other of S holds, one would wait
\* for a row no later than those it has: take the fewest that are not below.
LEMMA NoCycle ==
    ASSUME IInv, NEW S \in SUBSET Proc, S # {}
    PROVE  \E p \in S : ~WaitsForRow(p, S)
  <1> SUFFICES ASSUME \A p \in S : At(p, "lock") /\ lockedBy[Head(todo[p])[2]] \in S \ {p}
               PROVE  FALSE
    BY DEF WaitsForRow
  <1>1. PICK rank : rank = [p \in S |-> Rank(Head(todo[p])[2])]
    OBVIOUS
  <1>2. PICK holder : holder = [p \in S |-> lockedBy[Head(todo[p])[2]]]
    OBVIOUS
  <1>3. ASSUME NEW p \in S
        PROVE  rank[p] \in Nat /\ holder[p] \in S /\ rank[p] < rank[holder[p]]
    <2>1. Head(todo[p])[2] \in Row
      BY AtPlace
    <2>2. holder[p] \in S /\ lockedBy[Head(todo[p])[2]] = holder[p]
      BY <1>2
    <2>3. Rank(Head(todo[p])[2]) < Rank(Head(todo[holder[p]])[2])
      BY <2>1, <2>2, AtPlace
    <2>4. QED
      BY <1>1, <2>1, <2>2, <2>3, RankType
  <1>4. PICK above : above = [p \in S |-> {q \in S : rank[q] >= rank[p]}]
    OBVIOUS
  <1>5. PICK T : T = {Cardinality(above[p]) : p \in S}
    OBVIOUS
  <1>6. \A p \in S : above[p] \subseteq Proc /\ IsFiniteSet(above[p]) /\ Cardinality(above[p]) \in Nat
    <2>1. \A p \in S : above[p] \subseteq Proc
      BY <1>4
    <2>2. QED
      BY <2>1, Few
  <1>7. T \subseteq Nat /\ T # {}
    BY <1>5, <1>6
  <1>8. PICK n \in T : \A m \in T : n <= m
    BY <1>7, Least
  <1>9. PICK p \in S : n = Cardinality(above[p])
    BY <1>5
  <1>10. PICK q : q = holder[p] /\ q \in S /\ rank[p] < rank[q] /\ rank[p] \in Nat /\ rank[q] \in Nat
    BY <1>3
  <1>11. above[q] \subseteq above[p] \ {p}
    <2>1. ASSUME NEW x \in above[q] PROVE x \in above[p] /\ x # p
      <3>1. x \in S /\ rank[x] >= rank[q] /\ rank[x] \in Nat
        BY <1>3, <1>4, <1>10
      <3>2. rank[x] >= rank[p] /\ rank[x] # rank[p]
        BY <1>10, <3>1
      <3>3. QED
        BY <1>4, <3>1, <3>2
    <2>2. QED
      BY <2>1
  <1>12. p \in above[p]
    BY <1>3, <1>4
  <1>13. Cardinality(above[p] \ {p}) = Cardinality(above[p]) - 1 /\ IsFiniteSet(above[p] \ {p})
    BY <1>6, <1>12, FS_RemoveElement
  <1>14. Cardinality(above[q]) <= Cardinality(above[p] \ {p})
    BY <1>11, <1>13, FS_Subset
  <1>15. Cardinality(above[q]) \in T /\ Cardinality(above[p]) \in Nat /\ Cardinality(above[q]) \in Nat
    BY <1>5, <1>6, <1>10
  <1>16. QED
    BY <1>8, <1>9, <1>13, <1>14, <1>15

\* NoRowDeadlock: for rows alone no calls wait for one another, with however few
\* connections: submissions, completions, the lobby and the worker lock the
\* players of a battle before rooms, and rooms in the order of their ids.
THEOREM RowsNeverDeadlock == Spec => []NoRowDeadlock
  <1>1. IInv => NoRowDeadlock
    BY NoCycle DEF NoRowDeadlock
  <1>2. QED
    BY <1>1, Invariance, PTL

\* OnlyStarvation: with however few connections, calls wait for one another only
\* when transactions have taken every connection and one of them (StartBattle or
\* SubmitAnswer, which read through the pool inside theirs) waits for a connection
\* more; rows, locked in one order, add no deadlock of their own.
THEOREM StarvationIsTheOnlyDeadlock == Spec => []OnlyStarvation
  <1>1. IInv => OnlyStarvation
    <2> SUFFICES ASSUME IInv, NEW S \in SUBSET Proc, S # {}, \A p \in S : WaitsWithin(p, S)
                 PROVE  /\ Cardinality(inTx) = MaxConns /\ inTx \subseteq S
                        /\ \E p \in inTx : Waiting(p)
      BY DEF OnlyStarvation
    <2>1. \E p \in S : Waiting(p) /\ free = 0 /\ inTx \cup reading \subseteq S
      BY NoCycle DEF WaitsWithin, WaitsForRow
    <2>2. ASSUME NEW q \in reading PROVE FALSE
      <3>1. q \in S /\ At(q, "query")
        BY <2>1, <2>2 DEF IInv, LineOK
      <3>2. ~Waiting(q) /\ ~At(q, "lock")
        BY <2>2, <3>1 DEF IInv, LineOK, At
      <3>3. QED
        BY <3>1, <3>2 DEF WaitsWithin
    <2>3. reading = {} /\ Cardinality(reading) = 0
      BY <2>2, FS_EmptySet
    <2>4. inTx \subseteq Proc /\ inTx \subseteq S
      BY <2>1 DEF IInv, ConnsOK
    <2>5. Cardinality(inTx) = MaxConns /\ MaxConns > 0
      <3>1. Cardinality(inTx) \in Nat /\ MaxConns \in Nat \ {0}
        BY <2>4, Few, PoolAssumption
      <3>2. free = MaxConns - Cardinality(inTx) - Cardinality(reading) /\ free = 0
        BY <2>1 DEF IInv, ConnsOK
      <3>3. QED
        BY <2>3, <3>1, <3>2
    <2>6. inTx # {}
      BY <2>5, FS_EmptySet
    <2>7. ASSUME \A p \in inTx : ~Waiting(p) PROVE FALSE
      <3>1. ASSUME NEW p \in inTx PROVE WaitsForRow(p, inTx)
        <4>1. At(p, "lock") /\ lockedBy[Head(todo[p])[2]] \in S \ {p}
          BY <2>4, <2>7, <3>1 DEF WaitsWithin
        <4>2. Head(todo[p])[2] \in Row
          BY <2>4, <3>1, <4>1, AtPlace
        <4>3. lockedBy[Head(todo[p])[2]] \in inTx
          BY <4>1, <4>2, AtPlace
        <4>4. QED
          BY <4>1, <4>3 DEF WaitsForRow
      <3>2. QED
        BY <2>4, <2>6, <3>1, NoCycle
    <2>8. QED
      BY <2>4, <2>5, <2>7
  <1>2. QED
    BY <1>1, Invariance, PTL
=============================================================================
