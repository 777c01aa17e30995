------------------------- MODULE QuestionBankProofs -------------------------
(***************************************************************************)
(* Theorems about QuestionBank, for any seed files and any number of       *)
(* questions and battles: what the seeder leaves in the table, whatever    *)
(* runs of it break off; what the cache keeps from a player; and how       *)
(* evenly GenerateSequence asks.                                           *)
(***************************************************************************)
EXTENDS QuestionBank, FiniteSetTheorems, TLAPS

-----------------------------------------------------------------------------
(***************************************************************************)
(* The inductive invariant.                                                *)
(***************************************************************************)

\* A run of the seeder writes a file that has passed its checks.
SeederOK ==
    seeder # Null => seeder \in [file : File, done : Nat] /\ Accepts(seeder.file)

\* What was drawn or cached is in the table, from which nothing is deleted.
StoredOK ==
    /\ \A q \in Id : cache[q] # Null => q \in Stored
    /\ \A b \in Battle : battles[b] # Null =>
          \A k \in 1 .. StreamSize : battles[b].stream[k] \in Stored

\* What a player of b was shown from the cache is still there.
PlayOK(b) ==
    /\ shown[b] # Null =>
          /\ up /\ shown[b].id \in Stored
          /\ shown[b].hit => cache[shown[b].id] # Null /\ cache[shown[b].id] = shown[b].text
    /\ judged[b] # Null => shown[b] # Null

IInv ==
    /\ TypeOK
    /\ SeederOK /\ NoHalfQuestion /\ SeedingConverges
    /\ StoredOK
    /\ (\A b \in Battle : PlayOK(b)) /\ JudgedAsShown
    /\ EvenlyAsked

-----------------------------------------------------------------------------
(***************************************************************************)
(* GenerateSequence.                                                       *)
(***************************************************************************)

\* The list f of length n has every element of S once.
HasOnce(S, f, n) ==
    /\ n \in Nat /\ f \in [1 .. n -> S] /\ Len(f) = n
    /\ \A i, j \in 1 .. n : f[i] = f[j] => i = j
    /\ \A x \in S : \E i \in 1 .. n : f[i] = x

\* The lists of a finite set do.
LEMMA ListedOnce ==
    ASSUME NEW S, IsFiniteSet(S), NEW f \in SetToSeqs(S), NEW n, n = Cardinality(S)
    PROVE  HasOnce(S, f, n)
<1>1. n \in Nat
  BY FS_CardinalityType
<1>2. f \in [1 .. n -> S] /\ \A i, j \in 1 .. n : i # j => f[i] # f[j]
  BY DEF SetToSeqs
<1>3. f \in Injection(1 .. n, S)
  BY <1>2 DEF Injection, IsInjective
<1>4. Cardinality(1 .. n) = n
  BY <1>1, FS_Interval
<1>5. f \in Surjection(1 .. n, S)
  BY <1>3, <1>4, FS_Injection
<1>6. Len(f) = n
  BY <1>1, <1>2
<1>7. \A x \in S : \E i \in 1 .. n : f[i] = x
  BY <1>5 DEF Surjection
<1>8. QED
  BY <1>1, <1>2, <1>6, <1>7 DEF HasOnce

\* What the pool can be, and a listing of it.
Listing(pool, list) ==
    /\ pool \subseteq Id /\ pool # {} /\ list \in SetToSeqs(pool)

\* The i-th question of the c-th shuffle.
Item(s, list, c, i) == list[Shuffle(s, c, Len(list))[i]]

\* Every shuffle has every question of the pool once.
LEMMA ShuffledOnce ==
    ASSUME NEW pool, NEW list, Listing(pool, list), NEW s \in Seed, NEW c \in 1 .. StreamSize,
           NEW n, n = Cardinality(pool)
    PROVE  /\ n \in Nat \ {0} /\ Len(list) = n
           /\ \A i \in 1 .. n : Item(s, list, c, i) \in pool
           /\ \A i, j \in 1 .. n : Item(s, list, c, i) = Item(s, list, c, j) => i = j
           /\ \A q \in pool : \E i \in 1 .. n : Item(s, list, c, i) = q
<1>1. IsFiniteSet(pool) /\ n <= Cardinality(Id) /\ Cardinality(Id) \in Nat
  BY ShuffleAssumption, FS_Subset, FS_CardinalityType DEF Listing
<1>2. n \in Nat \ {0}
  BY <1>1, FS_CardinalityType, FS_EmptySet DEF Listing
<1>3. /\ list \in [1 .. n -> pool] /\ Len(list) = n
      /\ \A i, j \in 1 .. n : list[i] = list[j] => i = j
      /\ \A q \in pool : \E i \in 1 .. n : list[i] = q
  BY <1>1, ListedOnce DEF Listing, HasOnce
<1>4. PICK f : f = Shuffle(s, c, n)
  OBVIOUS
<1>5. f \in SetToSeqs(1 .. n)
  BY <1>1, <1>2, <1>4, ShuffleAssumption
<1>6. IsFiniteSet(1 .. n) /\ Cardinality(1 .. n) = n
  BY <1>2, FS_Interval
<1>7. /\ f \in [1 .. n -> 1 .. n]
      /\ \A i, j \in 1 .. n : f[i] = f[j] => i = j
      /\ \A x \in 1 .. n : \E i \in 1 .. n : f[i] = x
  <2>1. HasOnce(1 .. n, f, n)
    BY <1>5, <1>6, ListedOnce
  <2>2. QED
    BY <2>1 DEF HasOnce
<1>8. \A i \in 1 .. n : Item(s, list, c, i) = list[f[i]]
  BY <1>3, <1>4 DEF Item
<1>9. \A i \in 1 .. n : f[i] \in 1 .. n
  BY <1>7
<1>10. \A i \in 1 .. n : Item(s, list, c, i) \in pool
  BY <1>3, <1>8, <1>9
<1>11. \A i, j \in 1 .. n : Item(s, list, c, i) = Item(s, list, c, j) => i = j
  BY <1>3, <1>7, <1>8, <1>9
<1>12. ASSUME NEW q \in pool
       PROVE  \E i \in 1 .. n : Item(s, list, c, i) = q
  <2>1. PICK x \in 1 .. n : list[x] = q
    BY <1>3
  <2>2. PICK i \in 1 .. n : f[i] = x
    BY <1>7, <2>1
  <2>3. QED
    BY <1>8, <2>1, <2>2
<1>13. QED
  BY <1>2, <1>3, <1>10, <1>11, <1>12

\* Which shuffle the k-th question is from, and where it stands in it.
LEMMA Turn ==
    ASSUME NEW n \in Nat \ {0}, NEW k \in Nat \ {0}
    PROVE  /\ (k - 1) \div n \in Nat /\ (k - 1) % n \in 0 .. n - 1
           /\ k = ((k - 1) \div n) * n + ((k - 1) % n) + 1
           /\ (k - 1) \div n <= k - 1
           /\ \A m \in Nat : k <= m => (k - 1) \div n <= m \div n
  OBVIOUS

\* k is the i-th question of the shuffle after the first c.
IsTurn(n, c, i, k) ==
    /\ k \in Nat \ {0} /\ (k - 1) \div n = c /\ (k - 1) % n = i - 1
    /\ \A m \in Nat : c < m \div n => k <= m

LEMMA TurnOf ==
    ASSUME NEW n, n \in Nat \ {0}, NEW c, c \in Nat, NEW i, i \in 1 .. n
    PROVE  IsTurn(n, c, i, c * n + i)
<1>1. PICK k : k = c * n + i
  OBVIOUS
<1>2. k \in Nat \ {0} /\ (k - 1) \div n = c /\ (k - 1) % n = i - 1
  BY <1>1
<1>3. \A m \in Nat : c < m \div n => k <= m
  BY <1>1
<1>4. QED
  BY <1>1, <1>2, <1>3 DEF IsTurn

\* The questions of a stream, by shuffle and place.
LEMMA StreamIsShuffles ==
    ASSUME NEW pool, NEW list, Listing(pool, list), NEW s \in Seed, NEW k \in 1 .. StreamSize,
           NEW n, n = Cardinality(pool)
    PROVE  /\ GenerateSequence(s, list)[k]
                = Item(s, list, ((k - 1) \div n) + 1, ((k - 1) % n) + 1)
           /\ ((k - 1) \div n) + 1 \in 1 .. StreamSize
           /\ ((k - 1) % n) + 1 \in 1 .. n
           /\ GenerateSequence(s, list)[k] \in pool
<1>1. StreamSize \in Nat /\ k \in Nat \ {0} /\ 1 \in 1 .. StreamSize
  BY BankAssumption
<1>2. n \in Nat \ {0} /\ Len(list) = n
  BY <1>1, ShuffledOnce
<1>3. /\ (k - 1) \div n \in Nat /\ (k - 1) % n \in 0 .. n - 1
      /\ (k - 1) \div n <= k - 1
  BY <1>1, <1>2, Turn
<1>4. PICK c, i : c = ((k - 1) \div n) + 1 /\ i = ((k - 1) % n) + 1
  OBVIOUS
<1>5. c \in 1 .. StreamSize /\ i \in 1 .. n
  BY <1>1, <1>2, <1>3, <1>4
<1>6. GenerateSequence(s, list)[k] = Item(s, list, c, i)
  BY <1>2, <1>4 DEF GenerateSequence, Drawn, Item
<1>7. Item(s, list, c, i) \in pool
  BY <1>5, ShuffledOnce
<1>8. QED
  BY <1>4, <1>5, <1>6, <1>7

\* The places at which q is among the first n questions of a stream.
Places(stream, q, n) == {k \in 1 .. n : stream[k] = q}

LEMMA PlacesFinite ==
    ASSUME NEW stream, NEW q, NEW n \in Nat
    PROVE  /\ IsFiniteSet(Places(stream, q, n)) /\ Times(stream, q, n) \in Nat
           /\ Times(stream, q, n) = Cardinality(Places(stream, q, n))
<1>1. IsFiniteSet(1 .. n) /\ Places(stream, q, n) \subseteq 1 .. n
  BY FS_Interval DEF Places
<1>2. QED
  BY <1>1, FS_Subset, FS_CardinalityType DEF Times, Places

\* No question comes up twice in one shuffle: the places are mapped to their
\* shuffles, of which the last may be unfinished.
LEMMA AtMostOnce ==
    ASSUME NEW pool, NEW list, Listing(pool, list), NEW s \in Seed, NEW m \in 1 .. StreamSize,
           NEW n, n = Cardinality(pool), NEW q
    PROVE  Times(GenerateSequence(s, list), q, m) <= (m \div n) + 1
<1>1. StreamSize \in Nat /\ m \in Nat \ {0} /\ 1 \in 1 .. StreamSize
  BY BankAssumption
<1>2. n \in Nat \ {0}
  BY <1>1, ShuffledOnce
<1>3. PICK stream : stream = GenerateSequence(s, list)
  OBVIOUS
<1>4. PICK d \in Nat : d = m \div n
  BY <1>1, <1>2
<1>5. PICK K : K = Places(stream, q, m)
  OBVIOUS
<1>6. PICK f : f = [k \in K |-> ((k - 1) \div n) + 1]
  OBVIOUS
<1>7. ASSUME NEW k \in K
      PROVE  /\ k \in 1 .. StreamSize /\ k \in Nat \ {0}
             /\ f[k] = ((k - 1) \div n) + 1 /\ f[k] \in 1 .. d + 1 /\ f[k] \in 1 .. StreamSize
             /\ ((k - 1) % n) + 1 \in 1 .. n
             /\ k = (f[k] - 1) * n + ((k - 1) % n) + 1
             /\ Item(s, list, f[k], ((k - 1) % n) + 1) = q
  <2>1. k \in 1 .. m /\ stream[k] = q
    BY <1>5 DEF Places
  <2>2. k \in 1 .. StreamSize /\ k \in Nat \ {0} /\ k <= m
    BY <1>1, <2>1
  <2>3. /\ (k - 1) \div n \in Nat /\ (k - 1) % n \in 0 .. n - 1
        /\ k = ((k - 1) \div n) * n + ((k - 1) % n) + 1
        /\ (k - 1) \div n <= d
    BY <1>1, <1>2, <1>4, <2>2, Turn
  <2>4. f[k] = ((k - 1) \div n) + 1
    BY <1>6
  <2>5. /\ stream[k] = Item(s, list, f[k], ((k - 1) % n) + 1) /\ f[k] \in 1 .. StreamSize
        /\ ((k - 1) % n) + 1 \in 1 .. n
    BY <1>3, <2>2, <2>4, StreamIsShuffles
  <2>6. f[k] - 1 = (k - 1) \div n /\ f[k] \in 1 .. d + 1
    BY <2>3, <2>4
  <2>7. QED
    BY <2>1, <2>2, <2>3, <2>4, <2>5, <2>6
<1>8. f \in [K -> 1 .. d + 1]
  BY <1>6, <1>7
<1>9. ASSUME NEW a \in K, NEW b \in K, f[a] = f[b]
      PROVE  a = b
  <2>1. PICK c, i, j : c = f[a] /\ i = ((a - 1) % n) + 1 /\ j = ((b - 1) % n) + 1
    OBVIOUS
  <2>2. Item(s, list, c, i) = q /\ Item(s, list, c, j) = q /\ i \in 1 .. n /\ j \in 1 .. n
        /\ c \in 1 .. StreamSize
    BY <1>7, <1>9, <2>1
  <2>3. i = j
    BY <2>2, ShuffledOnce
  <2>4. a = (f[a] - 1) * n + ((a - 1) % n) + 1 /\ b = (f[a] - 1) * n + ((b - 1) % n) + 1
    BY <1>7, <1>9
  <2>5. (a - 1) % n = (b - 1) % n
    <3>1. (a - 1) % n \in Int /\ (b - 1) % n \in Int
      BY <1>2, <1>7
    <3>2. QED
      BY <2>1, <2>3, <3>1
  <2>6. QED
    BY <2>4, <2>5
<1>10. f \in Injection(K, 1 .. d + 1)
  BY <1>8, <1>9 DEF Injection, IsInjective
<1>11. IsFiniteSet(1 .. d + 1) /\ Cardinality(1 .. d + 1) = d + 1
  <2>1. PICK e \in Nat \ {0} : e = d + 1
    BY <1>4
  <2>2. IsFiniteSet(1 .. e) /\ Cardinality(1 .. e) = e
    BY <2>1, FS_Interval
  <2>3. QED
    BY <2>1, <2>2
<1>12. Cardinality(K) <= d + 1
  BY <1>10, <1>11, FS_Injection
<1>13. QED
  BY <1>1, <1>3, <1>4, <1>5, <1>12, PlacesFinite

\* Every question of the pool comes up in every finished shuffle: the shuffles
\* are mapped to its places.
LEMMA AtLeastOnce ==
    ASSUME NEW pool, NEW list, Listing(pool, list), NEW s \in Seed, NEW m \in 1 .. StreamSize,
           NEW n, n = Cardinality(pool), NEW q \in pool
    PROVE  m \div n <= Times(GenerateSequence(s, list), q, m)
<1>1. StreamSize \in Nat /\ m \in Nat \ {0} /\ 1 \in 1 .. StreamSize
  BY BankAssumption
<1>2. n \in Nat \ {0}
  BY <1>1, ShuffledOnce
<1>3. PICK stream : stream = GenerateSequence(s, list)
  OBVIOUS
<1>4. PICK d \in Nat : d = m \div n /\ d <= m
  BY <1>1, <1>2
<1>5. PICK K : K = Places(stream, q, m)
  OBVIOUS
<1>6. PICK place : place = [c \in 1 .. d |-> CHOOSE i \in 1 .. n : Item(s, list, c, i) = q]
  OBVIOUS
<1>7. ASSUME NEW c \in 1 .. d
      PROVE  place[c] \in 1 .. n /\ Item(s, list, c, place[c]) = q /\ c \in 1 .. StreamSize
  <2>1. c \in 1 .. StreamSize
    BY <1>1, <1>4
  <2>2. \E i \in 1 .. n : Item(s, list, c, i) = q
    BY <2>1, ShuffledOnce
  <2>3. place[c] = CHOOSE i \in 1 .. n : Item(s, list, c, i) = q
    BY <1>6
  <2>4. place[c] \in 1 .. n /\ Item(s, list, c, place[c]) = q
    BY <2>2, <2>3
  <2>5. QED
    BY <2>1, <2>4
<1>8. PICK g : g = [c \in 1 .. d |-> (c - 1) * n + place[c]]
  OBVIOUS
<1>9. ASSUME NEW c \in 1 .. d
      PROVE  g[c] \in K /\ ((g[c] - 1) \div n) + 1 = c
  <2>1. PICK b, i : b = c - 1 /\ i = place[c] /\ b \in Nat /\ i \in 1 .. n
    <3>1. c - 1 \in Nat
      BY <1>4
    <3>2. place[c] \in 1 .. n
      BY <1>7
    <3>3. QED
      BY <3>1, <3>2
  <2>2. g[c] = b * n + i /\ b < m \div n
    BY <1>4, <1>8, <2>1
  <2>3. /\ g[c] \in Nat \ {0} /\ (g[c] - 1) \div n = b /\ (g[c] - 1) % n = i - 1
        /\ g[c] <= m
    <3>1. IsTurn(n, b, i, g[c])
      BY <1>2, <2>1, <2>2, TurnOf
    <3>2. QED
      BY <1>1, <2>2, <3>1 DEF IsTurn
  <2>4. g[c] \in 1 .. StreamSize /\ g[c] \in 1 .. m
    BY <1>1, <2>3
  <2>5. ((g[c] - 1) \div n) + 1 = c /\ ((g[c] - 1) % n) + 1 = i
    BY <2>1, <2>3
  <2>6. stream[g[c]] = Item(s, list, ((g[c] - 1) \div n) + 1, ((g[c] - 1) % n) + 1)
    BY <1>3, <2>4, StreamIsShuffles
  <2>7. stream[g[c]] = q
    BY <1>7, <2>1, <2>5, <2>6
  <2>8. QED
    BY <1>5, <2>4, <2>5, <2>7 DEF Places
<1>10. g \in [1 .. d -> K]
  BY <1>8, <1>9
<1>11. \A a, b \in 1 .. d : g[a] = g[b] => a = b
  BY <1>9
<1>12. g \in Injection(1 .. d, K)
  BY <1>10, <1>11 DEF Injection, IsInjective
<1>13. IsFiniteSet(K) /\ Cardinality(1 .. d) = d
  BY <1>1, <1>5, PlacesFinite, FS_Interval
<1>14. d <= Cardinality(K)
  BY <1>12, <1>13, FS_Injection
<1>15. QED
  BY <1>1, <1>3, <1>4, <1>5, <1>14, PlacesFinite

\* So every prefix of a stream asks evenly.
LEMMA SequenceIsEven ==
    ASSUME NEW pool, NEW list, Listing(pool, list), NEW s \in Seed, NEW m \in 1 .. StreamSize,
           NEW q, NEW r \in pool
    PROVE  Times(GenerateSequence(s, list), q, m) <= Times(GenerateSequence(s, list), r, m) + 1
<1>1. PICK n : n = Cardinality(pool)
  OBVIOUS
<1>2. StreamSize \in Nat /\ m \in Nat /\ 1 \in 1 .. StreamSize
  BY BankAssumption
<1>3. n \in Nat \ {0}
  BY <1>1, <1>2, ShuffledOnce
<1>4. PICK d \in Nat : d = m \div n
  BY <1>2, <1>3
<1>5. PICK x, y : x = Times(GenerateSequence(s, list), q, m)
                  /\ y = Times(GenerateSequence(s, list), r, m)
  OBVIOUS
<1>6. x \in Nat /\ y \in Nat
  BY <1>2, <1>5, PlacesFinite
<1>7. x <= d + 1 /\ d <= y
  BY <1>1, <1>4, <1>5, AtMostOnce, AtLeastOnce
<1>8. x <= y + 1
  BY <1>6, <1>7
<1>9. QED
  BY <1>5, <1>8

-----------------------------------------------------------------------------
(***************************************************************************)
(* The invariant is inductive: the seeder and the operator.                *)
(***************************************************************************)

\* A step that only adds to the table leaves streams, cache and players alone.
LEMMA ServerUndisturbed ==
    ASSUME IInv, Stored \subseteq Stored', UNCHANGED <<server, battles, play>>
    PROVE  StoredOK' /\ (\A b \in Battle : PlayOK(b)') /\ JudgedAsShown' /\ EvenlyAsked'
<1>1. /\ up' = up /\ cache' = cache /\ battles' = battles /\ shown' = shown /\ judged' = judged
  BY DEF server, play
<1>2. StoredOK'
  BY <1>1 DEF IInv, StoredOK
<1>3. \A b \in Battle : PlayOK(b)'
  BY <1>1 DEF IInv, PlayOK
<1>4. JudgedAsShown' /\ EvenlyAsked'
  BY <1>1 DEF IInv, JudgedAsShown, EvenlyAsked, Times
<1>5. QED
  BY <1>2, <1>3, <1>4

\* The entries of a file.
LEMMA FileEntry ==
    ASSUME NEW f \in File, NEW i \in 1 .. Len(f)
    PROVE  i \in DOMAIN f /\ f[i].id \in Id /\ f[i].text \in Text
<1>1. f \in Seq(Entry)
  BY BankAssumption
<1>2. i \in DOMAIN f /\ f[i] \in Entry
  BY <1>1
<1>3. QED
  BY <1>2 DEF Entry

LEMMA SeedQuestionsIInv ==
    ASSUME IInv, NEW f \in File, SeedQuestions(f)
    PROVE  IInv'
<1>1. /\ Accepts(f) /\ seeder' = [file |-> f, done |-> 0] /\ table' = table /\ stats' = stats
      /\ UNCHANGED <<server, battles, play>>
  BY DEF SeedQuestions
<1>2. Stored' = Stored
  BY <1>1 DEF Stored
<1>3. StoredOK' /\ (\A b \in Battle : PlayOK(b)') /\ JudgedAsShown' /\ EvenlyAsked'
  BY <1>1, <1>2, ServerUndisturbed
<1>4. Len(f) \in Nat
  BY BankAssumption
<1>5. TypeOK' /\ SeederOK' /\ SeedingConverges'
  BY <1>1, <1>4 DEF IInv, TypeOK, SeederOK, SeedingConverges, Accepts, server, play
<1>6. NoHalfQuestion'
  BY <1>1, <1>2 DEF IInv, NoHalfQuestion
<1>7. QED
  BY <1>3, <1>5, <1>6 DEF IInv

\* The entry that is written is sound, and is not one written before.
LEMMA SeedNextIInv ==
    ASSUME IInv, SeedNext
    PROVE  IInv'
<1>1. PICK f, n : f = seeder.file /\ n = seeder.done
  OBVIOUS
<1>2. PICK e : e = f[n + 1]
  OBVIOUS
<1>3. /\ seeder # Null /\ n < Len(f) /\ UNCHANGED <<server, battles, play>>
      /\ table' = [table EXCEPT ![e.id] = Upsert(@, e.text)]
      /\ stats' = stats \cup {e.id} /\ seeder' = [seeder EXCEPT !.done = @ + 1]
  BY <1>1, <1>2 DEF SeedNext, WithStats
<1>4. /\ f \in File /\ f \in Seq(Entry) /\ n \in Nat /\ Len(f) \in Nat /\ Accepts(f)
      /\ seeder \in [file : File, done : Nat] /\ n + 1 \in DOMAIN f /\ 1 .. n \subseteq DOMAIN f
  BY <1>1, <1>3, BankAssumption DEF IInv, SeederOK
<1>5. e.id \in Id /\ e.text \in Text /\ e.text \in Sound
  BY <1>2, <1>4, FileEntry DEF Accepts
<1>6. table \in [Id -> Row \cup {Null}]
  BY DEF IInv, TypeOK
<1>7. PICK row : row = Upsert(table[e.id], e.text)
  OBVIOUS
<1>8. row \in Row /\ row.text = e.text /\ row # Null
  <2>1. table[e.id] \in Row \cup {Null}
    BY <1>5, <1>6
  <2>2. (IF table[e.id] = Null THEN TRUE ELSE table[e.id].active) \in BOOLEAN
    BY <2>1 DEF Row
  <2>3. row \in Row /\ row.text = e.text
    BY <1>5, <1>7, <2>2 DEF Upsert, Row
  <2>4. QED
    BY <2>3, RowAssumption
<1>9. /\ table' \in [Id -> Row \cup {Null}] /\ table'[e.id] = row
      /\ \A q \in Id : q # e.id => table'[q] = table[q]
  BY <1>3, <1>5, <1>6, <1>7, <1>8
<1>10. Stored' = Stored \cup {e.id}
  BY <1>5, <1>8, <1>9 DEF Stored
<1>11. StoredOK' /\ (\A b \in Battle : PlayOK(b)') /\ JudgedAsShown' /\ EvenlyAsked'
  BY <1>3, <1>10, ServerUndisturbed
<1>12. seeder' \in [file : File, done : Nat] /\ seeder'.file = f /\ seeder'.done = n + 1
  BY <1>1, <1>3, <1>4
<1>13. TypeOK' /\ SeederOK'
  BY <1>3, <1>4, <1>5, <1>9, <1>12 DEF IInv, TypeOK, SeederOK, Accepts, server, play
<1>14. NoHalfQuestion'
  BY <1>3, <1>5, <1>8, <1>9, <1>10 DEF IInv, NoHalfQuestion
<1>15. SeedingConverges'
  <2>1. ASSUME NEW i \in 1 .. n + 1
        PROVE  table'[f[i].id].text = f[i].text
    <3>1. CASE i = n + 1
      BY <1>2, <1>8, <1>9, <3>1
    <3>2. CASE i # n + 1
      <4>1. i \in 1 .. n
        BY <1>4, <3>2
      <4>2. f[i].id \in Id /\ f[i].id # e.id
        BY <1>2, <1>4, <3>2, <4>1, FileEntry DEF Accepts
      <4>3. table[f[i].id].text = f[i].text
        BY <1>1, <1>3, <4>1 DEF IInv, SeedingConverges
      <4>4. QED
        BY <1>9, <4>2, <4>3
    <3>3. QED
      BY <3>1, <3>2
  <2>2. QED
    BY <1>12, <2>1 DEF SeedingConverges
<1>16. QED
  BY <1>11, <1>13, <1>14, <1>15 DEF IInv

LEMMA SeederExitsIInv ==
    ASSUME IInv, SeederExits
    PROVE  IInv'
<1>1. /\ seeder' = Null /\ table' = table /\ stats' = stats
      /\ UNCHANGED <<server, battles, play>>
  BY DEF SeederExits
<1>2. Stored' = Stored
  BY <1>1 DEF Stored
<1>3. StoredOK' /\ (\A b \in Battle : PlayOK(b)') /\ JudgedAsShown' /\ EvenlyAsked'
  BY <1>1, <1>2, ServerUndisturbed
<1>4. TypeOK' /\ SeederOK' /\ SeedingConverges'
  BY <1>1 DEF IInv, TypeOK, SeederOK, SeedingConverges, server, play
<1>5. NoHalfQuestion'
  BY <1>1, <1>2 DEF IInv, NoHalfQuestion
<1>6. QED
  BY <1>3, <1>4, <1>5 DEF IInv

\* Taking a question out of use leaves its text.
LEMMA DeactivateIInv ==
    ASSUME IInv, NEW q \in Id, Deactivate(q)
    PROVE  IInv'
<1>1. /\ table' = [table EXCEPT ![q].active = FALSE] /\ table[q] # Null
      /\ stats' = stats /\ seeder' = seeder /\ UNCHANGED <<server, battles, play>>
  BY DEF Deactivate, Active, Stored
<1>2. table \in [Id -> Row \cup {Null}]
  BY DEF IInv, TypeOK
<1>3. PICK old \in Row : old = table[q]
  BY <1>1, <1>2
<1>4. PICK row : row = [old EXCEPT !.active = FALSE]
  OBVIOUS
<1>5. row \in Row /\ row.text = old.text
  BY <1>4 DEF Row
<1>6. row # Null
  BY <1>5, RowAssumption
<1>7. /\ table' \in [Id -> Row \cup {Null}] /\ table'[q] = row
      /\ \A r \in Id : r # q => table'[r] = table[r]
  BY <1>1, <1>2, <1>3, <1>4, <1>5
<1>8. Stored' = Stored /\ \A r \in Id : table'[r].text = table[r].text
  BY <1>1, <1>3, <1>5, <1>6, <1>7 DEF Stored
<1>9. StoredOK' /\ (\A b \in Battle : PlayOK(b)') /\ JudgedAsShown' /\ EvenlyAsked'
  BY <1>1, <1>8, ServerUndisturbed
<1>10. TypeOK' /\ SeederOK'
  BY <1>1, <1>7 DEF IInv, TypeOK, SeederOK, Accepts, server, play
<1>11. NoHalfQuestion'
  BY <1>1, <1>8 DEF IInv, NoHalfQuestion, Stored
<1>12. SeedingConverges'
  <2>1. ASSUME seeder # Null, NEW i \in 1 .. seeder.done
        PROVE  table'[seeder.file[i].id].text = seeder.file[i].text
    <3>1. seeder.file \in File /\ i \in 1 .. Len(seeder.file)
      BY <2>1, BankAssumption DEF IInv, TypeOK
    <3>2. seeder.file[i].id \in Id
      BY <3>1, FileEntry
    <3>3. QED
      BY <1>8, <2>1, <3>2 DEF IInv, SeedingConverges
  <2>2. QED
    BY <1>1, <2>1 DEF SeedingConverges
<1>13. QED
  BY <1>9, <1>10, <1>11, <1>12 DEF IInv

-----------------------------------------------------------------------------
(***************************************************************************)
(* The invariant is inductive: the server and its players.                 *)
(***************************************************************************)

\* The server writes nothing of the bank.
LEMMA BankUndisturbed ==
    ASSUME IInv, UNCHANGED bank
    PROVE  /\ table' = table /\ Stored' = Stored /\ SeederOK' /\ NoHalfQuestion'
           /\ SeedingConverges' /\ stats' = stats /\ seeder' = seeder
<1>1. table' = table /\ stats' = stats /\ seeder' = seeder
  BY DEF bank
<1>2. Stored' = Stored
  BY <1>1 DEF Stored
<1>3. SeederOK' /\ SeedingConverges'
  BY <1>1 DEF IInv, SeederOK, SeedingConverges, Accepts
<1>4. NoHalfQuestion'
  BY <1>1, <1>2 DEF IInv, NoHalfQuestion
<1>5. QED
  BY <1>1, <1>2, <1>3, <1>4

\* Whatever LoadCache found is in the table.
LEMMA StartIInv ==
    ASSUME IInv, Start
    PROVE  IInv'
<1>1. PICK qs \in Found : cache' = [q \in Id |-> IF q \in qs THEN table[q].text ELSE Null]
  BY DEF Start
<1>2. /\ ~up /\ up' = TRUE /\ battles' = battles /\ shown' = shown /\ judged' = judged
      /\ UNCHANGED bank
  BY DEF Start, play
<1>3. /\ table' = table /\ Stored' = Stored /\ SeederOK' /\ NoHalfQuestion'
      /\ SeedingConverges' /\ stats' = stats /\ seeder' = seeder
  BY <1>2, BankUndisturbed
<1>4. qs \subseteq Stored
  BY <1>1 DEF Found, Active
<1>5. \A q \in Stored : table[q].text \in Text
  BY DEF IInv, TypeOK, Stored, Row
<1>6. /\ cache' \in [Id -> Text \cup {Null}]
      /\ \A q \in Id : cache'[q] # Null => q \in Stored
  BY <1>1, <1>4, <1>5
<1>7. \A b \in Battle : shown[b] = Null /\ judged[b] = Null
  BY <1>2 DEF IInv, PlayOK
<1>8. (\A b \in Battle : PlayOK(b)') /\ JudgedAsShown'
  BY <1>2, <1>7 DEF PlayOK, JudgedAsShown
<1>9. StoredOK'
  BY <1>2, <1>3, <1>6 DEF IInv, StoredOK
<1>10. EvenlyAsked'
  BY <1>2 DEF IInv, EvenlyAsked, Times
<1>11. TypeOK'
  BY <1>2, <1>3, <1>6 DEF IInv, TypeOK
<1>12. QED
  BY <1>3, <1>8, <1>9, <1>10, <1>11 DEF IInv

LEMMA StopIInv ==
    ASSUME IInv, Stop
    PROVE  IInv'
<1>1. /\ up' = FALSE /\ battles' = battles /\ UNCHANGED bank
      /\ cache' = [q \in Id |-> Null] /\ shown' = [b \in Battle |-> Null]
      /\ judged' = [b \in Battle |-> Null]
  BY DEF Stop
<1>2. /\ table' = table /\ Stored' = Stored /\ SeederOK' /\ NoHalfQuestion'
      /\ SeedingConverges' /\ stats' = stats /\ seeder' = seeder
  BY <1>1, BankUndisturbed
<1>3. (\A b \in Battle : PlayOK(b)') /\ JudgedAsShown' /\ StoredOK'
  BY <1>1, <1>2 DEF IInv, PlayOK, JudgedAsShown, StoredOK
<1>4. EvenlyAsked'
  BY <1>1 DEF IInv, EvenlyAsked, Times
<1>5. TypeOK'
  BY <1>1, <1>2 DEF IInv, TypeOK
<1>6. QED
  BY <1>2, <1>3, <1>4, <1>5 DEF IInv

\* A battle is started with an even stream of stored questions.
LEMMA StartBattleIInv ==
    ASSUME IInv, NEW b \in Battle, NEW s \in Seed, StartBattle(b, s)
    PROVE  IInv'
<1>1. PICK pool \in Pool \ {{}} : \E list \in SetToSeqs(pool) :
          battles' = [battles EXCEPT ![b] =
              [stream |-> GenerateSequence(s, list), drawnFrom |-> pool]]
  BY DEF StartBattle
<1>2. PICK list \in SetToSeqs(pool) :
          battles' = [battles EXCEPT ![b] =
              [stream |-> GenerateSequence(s, list), drawnFrom |-> pool]]
  BY <1>1
<1>3. /\ up' = up /\ cache' = cache /\ shown' = shown /\ judged' = judged /\ UNCHANGED bank
  BY DEF StartBattle, server, play
<1>4. /\ table' = table /\ Stored' = Stored /\ SeederOK' /\ NoHalfQuestion'
      /\ SeedingConverges' /\ stats' = stats /\ seeder' = seeder
  BY <1>3, BankUndisturbed
<1>5. pool \subseteq Stored /\ pool \subseteq Id /\ Listing(pool, list)
  BY <1>1, <1>2 DEF Pool, Found, Active, Stored, Listing
<1>6. PICK stream : stream = GenerateSequence(s, list)
  OBVIOUS
<1>7. PICK row : row = [stream |-> stream, drawnFrom |-> pool]
  OBVIOUS
<1>8. \A k \in 1 .. StreamSize : stream[k] \in pool
  BY <1>5, <1>6, StreamIsShuffles
<1>9. row \in BattleRow /\ row.stream = stream /\ row.drawnFrom = pool
  <2>1. stream \in [1 .. StreamSize -> Id]
    BY <1>5, <1>6, <1>8 DEF GenerateSequence
  <2>2. QED
    BY <1>5, <1>7, <2>1 DEF BattleRow
<1>10. battles \in [Battle -> BattleRow \cup {Null}]
  BY DEF IInv, TypeOK
<1>11. /\ battles' \in [Battle -> BattleRow \cup {Null}] /\ battles'[b] = row
       /\ \A c \in Battle : c # b => battles'[c] = battles[c]
  BY <1>2, <1>6, <1>7, <1>9, <1>10
<1>12. TypeOK'
  BY <1>3, <1>4, <1>11 DEF IInv, TypeOK
<1>13. StoredOK'
  BY <1>3, <1>4, <1>5, <1>8, <1>9, <1>11 DEF IInv, StoredOK
<1>14. (\A c \in Battle : PlayOK(c)') /\ JudgedAsShown'
  BY <1>3, <1>4 DEF IInv, PlayOK, JudgedAsShown
<1>15. EvenlyAsked'
  <2>1. ASSUME NEW q \in pool, NEW r \in pool, NEW m \in 1 .. StreamSize
        PROVE  Times(stream, q, m) <= Times(stream, r, m) + 1
    BY <1>5, <1>6, SequenceIsEven
  <2>2. ASSUME NEW c \in Battle, battles'[c] # Null,
               NEW q \in battles'[c].drawnFrom, NEW r \in battles'[c].drawnFrom,
               NEW m \in 1 .. StreamSize
        PROVE  Times(battles'[c].stream, q, m) <= Times(battles'[c].stream, r, m) + 1
    <3>1. CASE c = b
      BY <1>9, <1>11, <2>1, <2>2, <3>1
    <3>2. CASE c # b
      BY <1>11, <2>2, <3>2 DEF IInv, EvenlyAsked
    <3>3. QED
      BY <3>1, <3>2
  <2>3. QED
    BY <2>2 DEF EvenlyAsked, Times
<1>16. QED
  BY <1>4, <1>12, <1>13, <1>14, <1>15 DEF IInv

\* A stored question is found, with a text.
LEMMA LookUpFinds ==
    ASSUME IInv, NEW q \in Stored
    PROVE  LookUp(q) \in Text /\ (cache[q] # Null => LookUp(q) = cache[q])
  BY DEF IInv, TypeOK, Stored, Row, LookUp

LEMMA ShowIInv ==
    ASSUME IInv, NEW b \in Battle, NEW k \in 1 .. StreamSize, Show(b, k)
    PROVE  IInv'
<1>1. PICK q : q = battles[b].stream[k]
  OBVIOUS
<1>2. PICK x : x = [id |-> q, text |-> LookUp(q), hit |-> cache[q] # Null]
  OBVIOUS
<1>3. /\ up /\ up' = up /\ cache' = cache /\ battles' = battles /\ UNCHANGED bank
      /\ battles[b] # Null /\ shown' = [shown EXCEPT ![b] = x]
      /\ judged' = [judged EXCEPT ![b] = Null]
  BY <1>1, <1>2 DEF Show, server
<1>4. /\ table' = table /\ Stored' = Stored /\ SeederOK' /\ NoHalfQuestion'
      /\ SeedingConverges' /\ stats' = stats /\ seeder' = seeder
  BY <1>3, BankUndisturbed
<1>5. q \in Stored /\ q \in Id
  BY <1>1, <1>3 DEF IInv, StoredOK, Stored
<1>6. /\ x \in [id : Id, text : Text, hit : BOOLEAN] /\ x.id = q
      /\ x.hit => cache[q] # Null /\ cache[q] = x.text
  BY <1>2, <1>5, LookUpFinds
<1>7. /\ shown \in [Battle -> [id : Id, text : Text, hit : BOOLEAN] \cup {Null}]
      /\ judged \in [Battle -> Text \cup {Null}]
  BY DEF IInv, TypeOK
<1>8. /\ shown' \in [Battle -> [id : Id, text : Text, hit : BOOLEAN] \cup {Null}]
      /\ judged' \in [Battle -> Text \cup {Null}]
      /\ shown'[b] = x /\ judged'[b] = Null
      /\ \A c \in Battle : c # b => shown'[c] = shown[c] /\ judged'[c] = judged[c]
  BY <1>3, <1>6, <1>7
<1>9. TypeOK'
  BY <1>3, <1>4, <1>8 DEF IInv, TypeOK
<1>10. StoredOK'
  BY <1>3, <1>4 DEF IInv, StoredOK
<1>11. ASSUME NEW c \in Battle
       PROVE  PlayOK(c)'
  <2>1. CASE c = b
    BY <1>3, <1>4, <1>5, <1>6, <1>8, <2>1 DEF PlayOK
  <2>2. CASE c # b
    BY <1>3, <1>4, <1>8, <2>2 DEF IInv, PlayOK
  <2>3. QED
    BY <2>1, <2>2
<1>12. JudgedAsShown'
  BY <1>8 DEF IInv, JudgedAsShown
<1>13. EvenlyAsked'
  BY <1>3 DEF IInv, EvenlyAsked, Times
<1>14. QED
  BY <1>4, <1>9, <1>10, <1>11, <1>12, <1>13 DEF IInv

\* The cache still has what was shown from it.
LEMMA JudgeIInv ==
    ASSUME IInv, NEW b \in Battle, Judge(b)
    PROVE  IInv'
<1>1. PICK v : v = LookUp(shown[b].id)
  OBVIOUS
<1>2. /\ up' = up /\ cache' = cache /\ battles' = battles /\ UNCHANGED bank
      /\ shown' = shown /\ shown[b] # Null /\ judged' = [judged EXCEPT ![b] = v]
  BY <1>1 DEF Judge, server
<1>3. /\ table' = table /\ Stored' = Stored /\ SeederOK' /\ NoHalfQuestion'
      /\ SeedingConverges' /\ stats' = stats /\ seeder' = seeder
  BY <1>2, BankUndisturbed
<1>4. shown[b].id \in Stored
  BY <1>2 DEF IInv, PlayOK
<1>5. v \in Text /\ (cache[shown[b].id] # Null => v = cache[shown[b].id])
  BY <1>1, <1>4, LookUpFinds
<1>6. judged \in [Battle -> Text \cup {Null}]
  BY DEF IInv, TypeOK
<1>7. /\ judged' \in [Battle -> Text \cup {Null}] /\ judged'[b] = v
      /\ \A c \in Battle : c # b => judged'[c] = judged[c]
  BY <1>2, <1>5, <1>6
<1>8. TypeOK'
  BY <1>2, <1>3, <1>7 DEF IInv, TypeOK
<1>9. StoredOK' /\ EvenlyAsked'
  BY <1>2, <1>3 DEF IInv, StoredOK, EvenlyAsked, Times
<1>10. \A c \in Battle : PlayOK(c)'
  BY <1>2, <1>3, <1>7 DEF IInv, PlayOK
<1>11. JudgedAsShown'
  BY <1>2, <1>5, <1>7 DEF IInv, PlayOK, JudgedAsShown
<1>12. QED
  BY <1>3, <1>8, <1>9, <1>10, <1>11 DEF IInv

-----------------------------------------------------------------------------
(***************************************************************************)
(* The theorems.                                                           *)
(***************************************************************************)

LEMMA InitIInv == Init => IInv
<1>1. SUFFICES ASSUME Init PROVE IInv
  OBVIOUS
<1>2. TypeOK /\ SeederOK /\ SeedingConverges
  BY <1>1 DEF Init, TypeOK, SeederOK, SeedingConverges
<1>3. Stored = {}
  BY <1>1 DEF Init, Stored
<1>4. NoHalfQuestion /\ StoredOK /\ JudgedAsShown /\ EvenlyAsked
  BY <1>1, <1>3 DEF Init, NoHalfQuestion, StoredOK, JudgedAsShown, EvenlyAsked
<1>5. \A b \in Battle : PlayOK(b)
  BY <1>1 DEF Init, PlayOK
<1>6. QED
  BY <1>2, <1>4, <1>5 DEF IInv

LEMMA NextIInv == IInv /\ [Next]_vars => IInv'
<1>1. SUFFICES ASSUME IInv, [Next]_vars PROVE IInv'
  OBVIOUS
<1>2. CASE \E f \in File : SeedQuestions(f)
  BY <1>1, <1>2, SeedQuestionsIInv
<1>3. CASE SeedNext \/ SeederExits \/ Start \/ Stop
  BY <1>1, <1>3, SeedNextIInv, SeederExitsIInv, StartIInv, StopIInv
<1>4. CASE \E q \in Id : Deactivate(q)
  BY <1>1, <1>4, DeactivateIInv
<1>5. CASE \E b \in Battle, s \in Seed : StartBattle(b, s)
  BY <1>1, <1>5, StartBattleIInv
<1>6. CASE \E b \in Battle, k \in 1 .. StreamSize : Show(b, k)
  BY <1>1, <1>6, ShowIInv
<1>7. CASE \E b \in Battle : Judge(b)
  BY <1>1, <1>7, JudgeIInv
<1>8. CASE UNCHANGED vars
  <2>1. UNCHANGED <<server, battles, play>> /\ UNCHANGED bank
    BY <1>8 DEF vars
  <2>2. /\ table' = table /\ Stored' = Stored /\ SeederOK' /\ NoHalfQuestion'
        /\ SeedingConverges' /\ stats' = stats /\ seeder' = seeder
    BY <1>1, <2>1, BankUndisturbed
  <2>3. StoredOK' /\ (\A b \in Battle : PlayOK(b)') /\ JudgedAsShown' /\ EvenlyAsked'
    BY <1>1, <2>1, <2>2, ServerUndisturbed
  <2>4. TypeOK'
    BY <1>1, <2>1, <2>2 DEF IInv, TypeOK, server, play
  <2>5. QED
    BY <2>2, <2>3, <2>4 DEF IInv
<1>9. QED
  BY <1>1, <1>2, <1>3, <1>4, <1>5, <1>6, <1>7, <1>8 DEF Next

\* The invariant of all that follows.
THEOREM Invariance == Spec => []IInv
<1>1. QED
  BY InitIInv, NextIInv, PTL DEF Spec

\* The rows, the cache and the streams are well formed in every state.
THEOREM TypeCorrect == Spec => []TypeOK
<1>1. IInv => TypeOK
  BY DEF IInv
<1>2. QED
  BY <1>1, Invariance, PTL

\* The transaction of InsertOrUpdateQuestion leaves no question without its
\* statistics, wherever a run of the seeder stops; SeedQuestions lets none in that
\* is not sound.
THEOREM QuestionsAreWhole == Spec => []NoHalfQuestion
<1>1. IInv => NoHalfQuestion
  BY DEF IInv
<1>2. QED
  BY <1>1, Invariance, PTL

\* What a run of the seeder has written is what its file says, over whatever
\* earlier runs left.
THEOREM SeedingIsIdempotent == Spec => []SeedingConverges
<1>1. IInv => SeedingConverges
  BY DEF IInv
<1>2. QED
  BY <1>1, Invariance, PTL

\* LoadCache fills the cache before the first question is shown and nothing
\* changes it afterwards: seeding does not change a question under a player.
THEOREM CacheHoldsStill == Spec => []JudgedAsShown
<1>1. IInv => JudgedAsShown
  BY DEF IInv
<1>2. QED
  BY <1>1, Invariance, PTL

\* GenerateSequence asks every question of the pool before it asks any again, at
\* every point of the stream, for every seed, pool and order of the query.
THEOREM StreamsAreEven == Spec => []EvenlyAsked
<1>1. IInv => EvenlyAsked
  BY DEF IInv
<1>2. QED
  BY <1>1, Invariance, PTL
=============================================================================
