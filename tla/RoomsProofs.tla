---------------------------- MODULE RoomsProofs ----------------------------
(***************************************************************************)
(* Theorems about Rooms, for any sets of rooms, users, codes and battles:  *)
(* its invariants; then that it implements Lobby and moves through the     *)
(* status matrix.                                                          *)
(***************************************************************************)
EXTENDS Rooms, TLAPS

-----------------------------------------------------------------------------
(* What the statements on room_players return.                             *)

\* Marking everybody left yields well-formed rows of which none is active.
LEMMA AllLeftRows ==
    ASSUME NEW rows \in SUBSET PlayerRow
    PROVE  /\ AllLeft(rows) \in SUBSET PlayerRow
           /\ \A p \in AllLeft(rows) : ~IsActiveRow(p)
  BY DEF AllLeft, PlayerRow, IsActiveRow

\* Setting the status of one user's rows yields well-formed rows.
LEMMA WithStatusType ==
    ASSUME NEW rows \in SUBSET PlayerRow, NEW u \in User,
           NEW s \in {"joined", "ready", "left"}
    PROVE  WithStatus(rows, u, s) \in SUBSET PlayerRow
  BY DEF WithStatus, PlayerRow

-----------------------------------------------------------------------------
(* Type correctness.                                                       *)

\* Every transaction leaves the tables well formed.
LEMMA TypeStep == TypeOK /\ [Next]_vars => TypeOK'
<1> SUFFICES ASSUME TypeOK, [Next]_vars PROVE TypeOK'
  OBVIOUS
<1> USE DEF RoomStatus, Open
<1>1. ASSUME NEW r \in Room, NEW u \in User, NEW c \in Code, NEW d \in Duration,
             CreateRoom(r, u, c, d)
      PROVE  TypeOK'
  <2>1. {[user |-> u, seat |-> 1, status |-> "joined"]} \in SUBSET PlayerRow
    BY DEF PlayerRow
  <2>2. QED
    BY <1>1, <2>1 DEF CreateRoom, TypeOK
<1>2. ASSUME NEW r \in Room, NEW u \in User, JoinRoom(r, u)
      PROVE  TypeOK'
  <2>1. Newcomer(r, u) \in PlayerRow
    BY DEF Newcomer, SeatFor, PlayerRow
  <2>2. QED
    BY <1>2, <2>1 DEF JoinRoom, lobbyVars, TypeOK
<1>3. ASSUME NEW r \in Room, NEW u \in User, NEW s \in {"joined", "ready"},
             ToggleReady(r, u, s)
      PROVE  TypeOK'
  <2>1. WithStatus(players[r], u, s) \in SUBSET PlayerRow
    BY WithStatusType DEF TypeOK
  <2>2. QED
    BY <1>3, <2>1 DEF ToggleReady, LobbyStatus, lobbyVars, TypeOK
<1>4. ASSUME NEW r \in Room, NEW u \in User, HostLeaves(r, u)
      PROVE  TypeOK'
  <2>1. AllLeft(players[r]) \in SUBSET PlayerRow
    BY AllLeftRows DEF TypeOK
  <2>2. QED
    BY <1>4, <2>1 DEF HostLeaves, lobbyVars, TypeOK
<1>5. ASSUME NEW r \in Room, NEW u \in User, GuestLeaves(r, u)
      PROVE  TypeOK'
  <2>1. WithStatus(players[r], u, "left") \in SUBSET PlayerRow
    BY WithStatusType DEF TypeOK
  <2>2. QED
    BY <1>5, <2>1 DEF GuestLeaves, StatusWithoutGuest, lobbyVars, TypeOK
<1>6. ASSUME NEW r \in Room, NEW u \in User, NEW b \in Battle, StartBattle(r, u, b)
      PROVE  TypeOK'
  <2>1. [room |-> r, players |-> Members(r),
         duration |-> BattleDuration(r), status |-> "active", over |-> FALSE]
           \in BattleRow
    BY DEF BattleRow, BattleDuration, Duration, Members, Active, TypeOK, PlayerRow
  <2>2. QED
    BY <1>6, <2>1 DEF StartBattle, lobbyVars, TypeOK
<1>7. ASSUME NEW b \in Battle, CompleteBattle(b)
      PROVE  TypeOK'
  <2>1. battles[b] \in BattleRow
    BY <1>7 DEF CompleteBattle, Completable, TypeOK
  <2>2. [battles[b] EXCEPT !.status = "finished"] \in BattleRow
    BY <2>1 DEF BattleRow
  <2>3. battles[b].room \in Room
    BY <2>1 DEF BattleRow
  <2>4. QED
    BY <1>7, <2>2, <2>3 DEF CompleteBattle, lobbyVars, TypeOK
<1>8. ASSUME NEW rs \in SUBSET Room, ExpireRooms(rs)
      PROVE  TypeOK'
  <2>1. \A r \in Room : AllLeft(players[r]) \in SUBSET PlayerRow
    BY AllLeftRows DEF TypeOK
  <2>2. QED
    BY <1>8, <2>1 DEF ExpireRooms, lobbyVars, TypeOK
<1>9. ASSUME NEW r \in Room, LobbyTimeUp(r)
      PROVE  TypeOK'
  BY <1>9 DEF LobbyTimeUp, lobbyVars, TypeOK
<1>10. ASSUME NEW b \in Battle, BattleTimeUp(b)
       PROVE  TypeOK'
  <2>1. [battles[b] EXCEPT !.over = TRUE] \in BattleRow
    BY <1>10 DEF BattleTimeUp, TypeOK, BattleRow
  <2>2. QED
    BY <1>10, <2>1 DEF BattleTimeUp, lobbyVars, TypeOK
<1>11. CASE UNCHANGED vars
  BY <1>11 DEF vars, TypeOK
<1>12. QED
  BY <1>1, <1>2, <1>3, <1>4, <1>5, <1>6, <1>7, <1>8, <1>9, <1>10, <1>11 DEF Next

\* The statuses, the rows and the battles are always well formed.
THEOREM TypeCorrect == Spec => []TypeOK
<1>1. Init => TypeOK
  BY DEF Init, TypeOK, RoomStatus, Open
<1>2. QED
  BY <1>1, TypeStep, PTL DEF Spec

-----------------------------------------------------------------------------
(***************************************************************************)
(* The inductive invariant.  StatusMatchesPlayers alone is not inductive:  *)
(* that a guest's departure leaves the room without a ready pair needs the *)
(* seats to be distinct, and that CompleteBattle may overwrite the status  *)
(* without reading it needs the battles to agree with the rooms.           *)
(***************************************************************************)
ActiveRows(rows) == {p \in rows : IsActiveRow(p)}

\* What holds of one room with status s, host h and the given rows.
RoomOK(s, h, rows) ==
    /\ UniqueActive(rows)
    /\ s \in Open \cup {"in_battle"} =>
          \E p \in ActiveRows(rows) : p.user = h /\ p.seat = 1
    /\ s \in {"ready", "in_battle"} => BothReady(ActiveRows(rows))
    /\ s = "waiting" => ~BothReady(ActiveRows(rows))
    /\ s \in {"none", "closed", "expired"} => ActiveRows(rows) = {}

IInv ==
    /\ TypeOK
    /\ \A r \in Room : RoomOK(status[r], host[r], players[r])
    /\ BattleMatchesRoom

\* A newcomer to a waiting room that is not full takes seat 2, which is free.
LEMMA JoinRows ==
    ASSUME NEW rows \in SUBSET PlayerRow, NEW h, NEW u \in User,
           RoomOK("waiting", h, rows),
           \A p \in ActiveRows(rows) : p.user # u,
           \A p, q \in ActiveRows(rows) : p = q
    PROVE  LET row == [user |-> u, seat |-> 2, status |-> "joined"] IN
           /\ UniqueActive(rows \cup {row})
           /\ RoomOK("waiting", h, rows \cup {row})
  <1> DEFINE row == [user |-> u, seat |-> 2, status |-> "joined"]
  <1> USE DEF IsActiveRow, ActiveRows, PlayerRow
  <1>1. PICK m \in ActiveRows(rows) : m.user = h /\ m.seat = 1
    BY DEF RoomOK, Open
  <1>2. \A p \in ActiveRows(rows) : p = m
    BY <1>1
  <1>3. UniqueActive(rows \cup {row})
    BY <1>1, <1>2 DEF UniqueActive, RoomOK
  <1>4. ActiveRows(rows \cup {row}) = ActiveRows(rows) \cup {row}
    OBVIOUS
  <1>5. ~BothReady(ActiveRows(rows \cup {row}))
    BY <1>4 DEF BothReady
  <1>6. QED
    BY <1>1, <1>3, <1>4, <1>5 DEF RoomOK, Open

\* After the UPDATE of ToggleReady the recomputed status matches the rows.
LEMMA ToggleRows ==
    ASSUME NEW rows \in SUBSET PlayerRow, NEW h, NEW u \in User,
           NEW s \in {"joined", "ready"}, NEW st \in Open,
           RoomOK(st, h, rows),
           \E p \in ActiveRows(rows) : p.user = u,
           \A p, q \in rows : p.user = u /\ q.user = u => p = q
    PROVE  RoomOK(LobbyStatus(WithStatus(ActiveRows(rows), u, s)), h,
                  WithStatus(rows, u, s))
  <1> DEFINE new == WithStatus(rows, u, s)
             change(p) == IF p.user = u THEN [p EXCEPT !.status = s] ELSE p
  <1>1. \A p \in rows : /\ change(p) \in PlayerRow
                        /\ change(p).user = p.user /\ change(p).seat = p.seat
                        /\ IsActiveRow(change(p)) <=> IsActiveRow(p)
    BY DEF PlayerRow, IsActiveRow, ActiveRows
  <1>2. new = {change(p) : p \in rows}
    BY DEF WithStatus
  <1>3. ActiveRows(new) = WithStatus(ActiveRows(rows), u, s)
    <2>1. ActiveRows(new) = {change(p) : p \in ActiveRows(rows)}
      BY <1>1, <1>2 DEF ActiveRows
    <2>2. QED
      BY <2>1 DEF WithStatus
  <1>4. UniqueActive(new)
    <2> SUFFICES ASSUME NEW x \in new, NEW y \in new,
                        IsActiveRow(x), IsActiveRow(y),
                        x.user = y.user \/ x.seat = y.seat
                 PROVE  x = y
      BY DEF UniqueActive
    <2>1. PICK p \in rows : x = change(p)
      BY <1>2
    <2>2. PICK q \in rows : y = change(q)
      BY <1>2
    <2>3. /\ IsActiveRow(p) /\ IsActiveRow(q)
          /\ p.user = q.user \/ p.seat = q.seat
      BY <1>1, <2>1, <2>2
    <2>4. p = q
      BY <2>3 DEF UniqueActive, RoomOK
    <2>5. QED
      BY <2>1, <2>2, <2>4
  <1>5. PICK m \in ActiveRows(rows) : m.user = h /\ m.seat = 1
    BY DEF RoomOK
  <1>6. change(m) \in ActiveRows(new) /\ change(m).user = h /\ change(m).seat = 1
    BY <1>1, <1>2, <1>5 DEF ActiveRows
  <1>7. QED
    BY <1>3, <1>4, <1>6 DEF RoomOK, LobbyStatus, Open

\* When an active guest goes, whatever is left is not a ready pair.
LEMMA GuestRows ==
    ASSUME NEW rows \in SUBSET PlayerRow, NEW h, NEW u \in User, u # h,
           NEW st \in Open,
           RoomOK(st, h, rows),
           \E p \in ActiveRows(rows) : p.user = u
    PROVE  RoomOK(StatusWithoutGuest(st), h, WithStatus(rows, u, "left"))
  <1> DEFINE new == WithStatus(rows, u, "left")
             change(p) == IF p.user = u THEN [p EXCEPT !.status = "left"] ELSE p
  <1>1. new = {change(p) : p \in rows}
    BY DEF WithStatus
  <1>2. \A p \in rows : IF p.user = u THEN ~IsActiveRow(change(p)) ELSE change(p) = p
    BY DEF IsActiveRow, PlayerRow
  <1>3. ActiveRows(new) = {p \in ActiveRows(rows) : p.user # u}
    BY <1>1, <1>2 DEF ActiveRows
  <1>4. UniqueActive(new)
    BY <1>3 DEF UniqueActive, RoomOK, ActiveRows
  <1>5. \E p \in ActiveRows(new) : p.user = h /\ p.seat = 1
    BY <1>3 DEF RoomOK
  <1>6. ~BothReady(ActiveRows(new))
    <2> SUFFICES ASSUME NEW p \in ActiveRows(new), NEW q \in ActiveRows(new), p # q
                 PROVE  FALSE
      BY DEF BothReady, IsPair
    <2>1. PICK g \in ActiveRows(rows) : g.user = u
      OBVIOUS
    <2>2. /\ g \in rows /\ p \in rows /\ q \in rows
          /\ IsActiveRow(g) /\ IsActiveRow(p) /\ IsActiveRow(q)
          /\ g # p /\ g # q
      BY <1>3, <2>1 DEF ActiveRows
    <2>3. g.seat # p.seat /\ g.seat # q.seat /\ p.seat # q.seat
      BY <2>2 DEF RoomOK, UniqueActive
    <2>4. g.seat \in {1, 2} /\ p.seat \in {1, 2} /\ q.seat \in {1, 2}
      BY <2>2 DEF PlayerRow
    <2>5. QED
      BY <2>3, <2>4
  <1>7. StatusWithoutGuest(st) = "waiting"
    BY DEF StatusWithoutGuest, Open
  <1>8. QED
    BY <1>4, <1>5, <1>6, <1>7 DEF RoomOK

\* A step that leaves the battles, the rooms in battle and their players alone
\* keeps battles and rooms in agreement.
LEMMA BattlesUndisturbed ==
    ASSUME BattleMatchesRoom, battles' = battles,
           \A r \in Room : status'[r] = "in_battle" <=> status[r] = "in_battle",
           \A r \in Room : status[r] = "in_battle" => players'[r] = players[r]
    PROVE  BattleMatchesRoom'
  <1>1. \A r \in Room : status[r] = "in_battle" => Members(r)' = Members(r)
    BY DEF Active, Members
  <1>2. \A r, b : ActiveBattle(r, b)' <=> ActiveBattle(r, b)
    BY DEF ActiveBattle
  <1>3. QED
    BY <1>1, <1>2 DEF BattleMatchesRoom

-----------------------------------------------------------------------------
LEMMA InitIInv == Init => IInv
  BY DEF Init, IInv, TypeOK, RoomOK, UniqueActive, ActiveRows, BattleMatchesRoom,
         ActiveBattle, RoomStatus, Open

\* Every transaction preserves the invariant.
LEMMA NextIInv == IInv /\ TypeOK' /\ [Next]_vars => IInv'
<1> SUFFICES ASSUME IInv, TypeOK', [Next]_vars PROVE IInv'
  OBVIOUS
<1> USE DEF lobbyVars
<1>a. TypeOK /\ BattleMatchesRoom /\ \A r \in Room : RoomOK(status[r], host[r], players[r])
  BY DEF IInv
<1>b. \A r : Active(r) = ActiveRows(players[r])
  BY DEF Active, ActiveRows
<1>1. ASSUME NEW r \in Room, NEW u \in User, NEW c \in Code, NEW d \in Duration,
             CreateRoom(r, u, c, d)
      PROVE  IInv'
  <2> DEFINE row == [user |-> u, seat |-> 1, status |-> "joined"]
  <2>1. RoomOK("waiting", u, {row})
    <3>1. ActiveRows({row}) = {row} /\ UniqueActive({row})
      BY DEF ActiveRows, IsActiveRow, UniqueActive
    <3>2. ~BothReady({row})
      BY DEF BothReady, IsPair
    <3>3. row.user = u /\ row.seat = 1
      OBVIOUS
    <3>4. QED
      BY <3>1, <3>2, <3>3 DEF RoomOK, Open
  <2>2. \A x \in Room : RoomOK(status'[x], host'[x], players'[x])
    BY <1>1, <1>a, <2>1 DEF CreateRoom, TypeOK
  <2>3. BattleMatchesRoom'
    BY <1>1, <1>a, BattlesUndisturbed DEF CreateRoom, TypeOK, Exists
  <2>4. QED
    BY <2>2, <2>3 DEF IInv
<1>2. ASSUME NEW r \in Room, NEW u \in User, JoinRoom(r, u)
      PROVE  IInv'
  <2>1. status[r] = "waiting" /\ ~Full(r) /\ ~IsActive(r, u)
    BY <1>2 DEF JoinRoom, JoinAllowed
  <2>2. SeatFor(r) = 2
    BY <1>a, <1>b, <2>1 DEF SeatFor, RoomOK, Open
  <2>3. RoomOK("waiting", host[r], players[r] \cup {Newcomer(r, u)})
    BY <1>a, <1>b, <2>1, <2>2, JoinRows DEF Newcomer, Full, IsActive, TypeOK
  <2>4. \A x \in Room : RoomOK(status'[x], host'[x], players'[x])
    BY <1>2, <1>a, <2>1, <2>3 DEF JoinRoom, TypeOK
  <2>5. BattleMatchesRoom'
    BY <1>2, <1>a, <2>1, BattlesUndisturbed DEF JoinRoom, TypeOK
  <2>6. QED
    BY <2>4, <2>5 DEF IInv
<1>3. ASSUME NEW r \in Room, NEW u \in User, NEW s \in {"joined", "ready"},
             ToggleReady(r, u, s)
      PROVE  IInv'
  <2> DEFINE st == LobbyStatus(WithStatus(Active(r), u, s))
  <2>1. RoomOK(st, host[r], WithStatus(players[r], u, s))
    <3>1. status[r] \in Open
      BY <1>3 DEF ToggleReady
    <3>2. \E p \in ActiveRows(players[r]) : p.user = u
      BY <1>3, <1>b DEF ToggleReady
    <3>3. \A p, q \in players[r] : p.user = u /\ q.user = u => p = q
      BY <1>3 DEF ToggleReady, UpdateAccepted
    <3>4. QED
      BY <1>a, <1>b, <3>1, <3>2, <3>3, ToggleRows DEF TypeOK
  <2>2. \A x \in Room : RoomOK(status'[x], host'[x], players'[x])
    BY <1>3, <1>a, <2>1 DEF ToggleReady, TypeOK
  <2>3. status[r] \in Open /\ st \in Open
    BY <1>3 DEF ToggleReady, LobbyStatus, Open
  <2>4. BattleMatchesRoom'
    BY <1>3, <1>a, <2>3, BattlesUndisturbed DEF ToggleReady, TypeOK, Open
  <2>5. QED
    BY <2>2, <2>4 DEF IInv
<1>4. ASSUME NEW r \in Room, NEW u \in User, HostLeaves(r, u)
      PROVE  IInv'
  <2>1. RoomOK("closed", host[r], AllLeft(players[r]))
    BY <1>a, AllLeftRows DEF RoomOK, UniqueActive, ActiveRows, TypeOK, Open
  <2>2. \A x \in Room : RoomOK(status'[x], host'[x], players'[x])
    BY <1>4, <1>a, <2>1 DEF HostLeaves, TypeOK
  <2>3. BattleMatchesRoom'
    BY <1>4, <1>a, BattlesUndisturbed DEF HostLeaves, LeaveAllowed, TypeOK
  <2>4. QED
    BY <2>2, <2>3 DEF IInv
<1>5. ASSUME NEW r \in Room, NEW u \in User, GuestLeaves(r, u)
      PROVE  IInv'
  <2>1. status[r] \in Open
    <3>1. \E p \in ActiveRows(players[r]) : p.user = u
      BY <1>5, <1>b DEF GuestLeaves, LeaveAllowed, IsActive
    <3>2. status[r] \notin {"none", "closed", "expired", "in_battle"}
      BY <1>5, <1>a, <3>1 DEF RoomOK, GuestLeaves, LeaveAllowed
    <3>3. QED
      BY <1>a, <3>2 DEF TypeOK, RoomStatus
  <2>2. RoomOK(StatusWithoutGuest(status[r]), host[r], WithStatus(players[r], u, "left"))
    <3>1. \E p \in ActiveRows(players[r]) : p.user = u
      BY <1>5, <1>b DEF GuestLeaves, LeaveAllowed, IsActive
    <3>2. QED
      BY <1>5, <1>a, <2>1, <3>1, GuestRows DEF GuestLeaves, TypeOK
  <2>3. \A x \in Room : RoomOK(status'[x], host'[x], players'[x])
    BY <1>5, <1>a, <2>2 DEF GuestLeaves, TypeOK
  <2>4. BattleMatchesRoom'
    BY <1>5, <1>a, <2>1, BattlesUndisturbed
    DEF GuestLeaves, StatusWithoutGuest, TypeOK, Open
  <2>5. QED
    BY <2>3, <2>4 DEF IInv
<1>6. ASSUME NEW r \in Room, NEW u \in User, NEW b \in Battle, StartBattle(r, u, b)
      PROVE  IInv'
  <2>1. \A x \in Room : RoomOK(status'[x], host'[x], players'[x])
    BY <1>6, <1>a DEF StartBattle, TypeOK, RoomOK, Open
  <2> DEFINE new == [room |-> r, players |-> Members(r),
                     duration |-> BattleDuration(r), status |-> "active", over |-> FALSE]
  <2>2. /\ battles[b] = Null /\ status[r] = "ready"
        /\ \A a \in Battle : ~ActiveBattle(r, a)
        /\ players' = players
        /\ battles' = [battles EXCEPT ![b] = new]
        /\ status' = [status EXCEPT ![r] = "in_battle"]
    BY <1>6 DEF StartBattle
  <2>3. new # Null /\ new \in BattleRow
    <3>1. Members(r) \in SUBSET User
      BY <1>a DEF Members, Active, TypeOK, PlayerRow
    <3>2. new \in BattleRow
      BY <3>1 DEF BattleRow, BattleDuration, Duration
    <3>3. QED
      BY <3>2, NullAssumption
  <2>4. \A x \in Room : Members(x)' = Members(x)
    BY <2>2 DEF Members, Active
  <2>5. \A x \in Room, a \in Battle :
           ActiveBattle(x, a)' <=> IF a = b THEN x = r ELSE ActiveBattle(x, a)
    BY <1>a, <2>2, <2>3 DEF ActiveBattle, TypeOK
  <2>6. BattleMatchesRoom'
    <3>1. \A a \in Battle : battles'[a] = IF a = b THEN new ELSE battles[a]
      BY <1>a, <2>2 DEF TypeOK
    <3>2. \A x \in Room : status'[x] = IF x = r THEN "in_battle" ELSE status[x]
      BY <1>a, <2>2 DEF TypeOK
    <3>3. /\ status'[r] = "in_battle" /\ battles'[b].players = Members(r)'
          /\ \A a \in Battle : ActiveBattle(r, a)' <=> a = b
      BY <2>2, <2>4, <2>5, <3>1, <3>2
    <3>4. \A x \in Room \ {r} :
            /\ status'[x] = status[x]
            /\ \A a \in Battle : /\ ActiveBattle(x, a)' <=> ActiveBattle(x, a)
                                 /\ ActiveBattle(x, a) => battles'[a] = battles[a]
      BY <2>2, <2>5, <3>1, <3>2 DEF ActiveBattle
    <3>5. QED
      BY <1>a, <2>4, <3>3, <3>4 DEF BattleMatchesRoom
  <2>7. QED
    BY <2>1, <2>6 DEF IInv
<1>7. ASSUME NEW b \in Battle, CompleteBattle(b)
      PROVE  IInv'
  <2>0. PICK r \in Room : r = battles[b].room
    BY <1>7, <1>a DEF CompleteBattle, Completable, TypeOK, BattleRow
  <2>1. /\ battles[b] # Null /\ battles[b].status = "active" /\ battles[b] \in BattleRow
        /\ ActiveBattle(r, b)
        /\ players' = players /\ host' = host
        /\ status' = [status EXCEPT ![r] = "ready"]
    BY <1>7, <1>a, <2>0 DEF CompleteBattle, Completable, TypeOK, BattleRow, ActiveBattle
  <2>2. status[r] = "in_battle"
    BY <1>a, <2>1 DEF BattleMatchesRoom
  <2>3. \A x \in Room : RoomOK(status'[x], host'[x], players'[x])
    BY <1>a, <2>1, <2>2 DEF RoomOK, TypeOK, Open
  <2>4. \A x \in Room : Members(x)' = Members(x)
    BY <2>1 DEF Members, Active
  <2>5. /\ battles'[b] # Null /\ battles'[b].status = "finished"
        /\ \A a \in Battle \ {b} : battles'[a] = battles[a]
    BY <1>7, <1>a, <2>1, NullAssumption DEF CompleteBattle, TypeOK, BattleRow
  <2>6. \A x \in Room, a \in Battle :
           ActiveBattle(x, a)' <=> ActiveBattle(x, a) /\ a # b
    BY <2>5 DEF ActiveBattle
  <2>7. \A x \in Room : status'[x] = IF x = r THEN "ready" ELSE status[x]
    BY <1>a, <2>1 DEF TypeOK
  <2>8. BattleMatchesRoom'
    <3>1. \A a \in Battle : ~ActiveBattle(r, a)'
      BY <1>a, <2>1, <2>6 DEF BattleMatchesRoom
    <3>2. \A x \in Room \ {r} : \A a \in Battle :
            ActiveBattle(x, a) => ActiveBattle(x, a)' /\ battles'[a] = battles[a]
      BY <2>1, <2>5, <2>6 DEF ActiveBattle
    <3>3. QED
      BY <1>a, <2>4, <2>6, <2>7, <3>1, <3>2 DEF BattleMatchesRoom
  <2>9. QED
    BY <2>3, <2>8 DEF IInv
<1>8. ASSUME NEW rs \in SUBSET Room, ExpireRooms(rs)
      PROVE  IInv'
  <2>1. \A x \in Room : RoomOK("expired", host[x], AllLeft(players[x]))
    BY <1>a, AllLeftRows DEF RoomOK, UniqueActive, ActiveRows, TypeOK, Open
  <2>2. \A x \in Room : RoomOK(status'[x], host'[x], players'[x])
    BY <1>8, <1>a, <2>1 DEF ExpireRooms, ExpiredRooms, TypeOK
  <2>3. BattleMatchesRoom'
    BY <1>8, <1>a, BattlesUndisturbed DEF ExpireRooms, ExpiredRooms, TypeOK, Open
  <2>4. QED
    BY <2>2, <2>3 DEF IInv
<1>9. ASSUME NEW r \in Room, LobbyTimeUp(r)
      PROVE  IInv'
  BY <1>9, <1>a, BattlesUndisturbed DEF LobbyTimeUp, IInv
<1>10. ASSUME NEW b \in Battle, BattleTimeUp(b)
       PROVE  IInv'
  <2>1. /\ battles[b] # Null /\ status' = status /\ players' = players /\ host' = host
        /\ battles' = [battles EXCEPT ![b].over = TRUE]
    BY <1>10 DEF BattleTimeUp
  <2>2. \A a \in Battle : battles[a] # Null => battles[a] \in BattleRow
    BY <1>a DEF TypeOK
  <2>3. \A a \in Battle :
          /\ battles'[a] # Null <=> battles[a] # Null
          /\ battles[a] # Null => /\ battles'[a].room = battles[a].room
                                  /\ battles'[a].status = battles[a].status
                                  /\ battles'[a].players = battles[a].players
    <3>1. [battles[b] EXCEPT !.over = TRUE] \in BattleRow
      BY <2>1, <2>2 DEF BattleRow
    <3>2. battles'[b] = [battles[b] EXCEPT !.over = TRUE]
      BY <1>a, <2>1 DEF TypeOK
    <3>3. /\ battles'[b] # Null
          /\ battles'[b].room = battles[b].room
          /\ battles'[b].status = battles[b].status
          /\ battles'[b].players = battles[b].players
      BY <2>1, <2>2, <3>1, <3>2, NullAssumption DEF BattleRow
    <3>4. \A a \in Battle \ {b} : battles'[a] = battles[a]
      BY <1>a, <2>1 DEF TypeOK
    <3>5. QED
      BY <2>1, <3>3, <3>4
  <2>4. \A x \in Room, a \in Battle : ActiveBattle(x, a)' <=> ActiveBattle(x, a)
    BY <2>3 DEF ActiveBattle
  <2>5. \A x : Members(x)' = Members(x)
    BY <2>1 DEF Members, Active
  <2>6. BattleMatchesRoom'
    BY <1>a, <2>1, <2>3, <2>4, <2>5 DEF BattleMatchesRoom, ActiveBattle
  <2>7. QED
    BY <1>a, <2>1, <2>6 DEF IInv
<1>11. CASE UNCHANGED vars
  BY <1>11, <1>a, BattlesUndisturbed DEF vars, IInv
<1>12. QED
  BY <1>1, <1>2, <1>3, <1>4, <1>5, <1>6, <1>7, <1>8, <1>9, <1>10, <1>11 DEF Next

\* The invariant holds throughout.
THEOREM Invariance == Spec => []IInv
<1>1. IInv /\ TypeOK' /\ [Next]_vars => IInv'
  BY NextIInv
<1>2. QED
  BY <1>1, InitIInv, TypeCorrect, PTL DEF Spec

\* The host of every open room, or room in battle, sits in seat 1.
THEOREM HostAlwaysSeated == Spec => []HostSeated
<1>1. IInv => HostSeated
  BY DEF IInv, RoomOK, HostSeated, Active, ActiveRows
<1>2. QED
  BY <1>1, Invariance, PTL

\* The status column always summarises the active rows correctly.
THEOREM StatusAlwaysMatches == Spec => []StatusMatchesPlayers
<1>1. IInv => StatusMatchesPlayers
  BY DEF IInv, RoomOK, StatusMatchesPlayers, Active, ActiveRows
<1>2. QED
  BY <1>1, Invariance, PTL

\* Rooms in battle and active battles correspond one to one.
THEOREM BattlesAlwaysMatch == Spec => []BattleMatchesRoom
<1>1. IInv => BattleMatchesRoom
  BY DEF IInv
<1>2. QED
  BY <1>1, Invariance, PTL

\* No insert that passes the handlers' checks is refused by a unique index.
THEOREM IndexesAlwaysRedundant == Spec => []IndexesRedundant
<1>1. IInv => IndexesRedundant
  <2> SUFFICES ASSUME IInv, NEW r \in Room PROVE
        /\ \A u \in User : JoinAllowed(r, u) => UniqueActive(players[r] \cup {Newcomer(r, u)})
        /\ status[r] = "ready" => ~\E b \in Battle : ActiveBattle(r, b)
    BY DEF IndexesRedundant
  <2>1. ASSUME NEW u \in User, JoinAllowed(r, u)
        PROVE  UniqueActive(players[r] \cup {Newcomer(r, u)})
    <3>1. /\ RoomOK("waiting", host[r], players[r])
          /\ \A p \in ActiveRows(players[r]) : p.user # u
          /\ \A p, q \in ActiveRows(players[r]) : p = q
      BY <2>1 DEF JoinAllowed, Full, IsActive, Active, ActiveRows, IInv
    <3>2. SeatFor(r) = 2
      BY <3>1 DEF SeatFor, RoomOK, Open, Active, ActiveRows
    <3>3. QED
      BY <3>1, <3>2, JoinRows DEF Newcomer, IInv, TypeOK
  <2>2. status[r] = "ready" => ~\E b \in Battle : ActiveBattle(r, b)
    BY DEF IInv, BattleMatchesRoom, ActiveBattle
  <2>3. QED
    BY <2>1, <2>2
<1>2. QED
  BY <1>1, Invariance, PTL

-----------------------------------------------------------------------------
(***************************************************************************)
(* Rooms implements Lobby.                                                 *)
(***************************************************************************)

\* The users of ready rows.
ReadyUsers(rows) == {p.user : p \in {x \in rows : x.status = "ready"}}

Users(rows) == {p.user : p \in rows}

-----------------------------------------------------------------------------
(* What the statements do to the active rows.                              *)

\* Insert of a joined row: one more member, who is not ready.
LEMMA JoinActive ==
    ASSUME NEW rows, NEW row, row.status = "joined"
    PROVE  /\ ActiveRows(rows \cup {row}) = ActiveRows(rows) \cup {row}
           /\ Users(ActiveRows(rows) \cup {row}) = Users(ActiveRows(rows)) \cup {row.user}
           /\ ReadyUsers(ActiveRows(rows) \cup {row}) = ReadyUsers(ActiveRows(rows))
  BY DEF ActiveRows, IsActiveRow, Users, ReadyUsers

\* A guest marked left: his active row is gone, the others stay.
LEMMA LeftActive ==
    ASSUME NEW rows \in SUBSET PlayerRow, NEW u \in User
    PROVE  ActiveRows(WithStatus(rows, u, "left")) = {p \in ActiveRows(rows) : p.user # u}
  <1> DEFINE change(p) == IF p.user = u THEN [p EXCEPT !.status = "left"] ELSE p
  <1>1. WithStatus(rows, u, "left") = {change(p) : p \in rows}
    BY DEF WithStatus
  <1>2. \A p \in rows : IF p.user = u THEN ~IsActiveRow(change(p)) ELSE change(p) = p
    BY DEF IsActiveRow, PlayerRow
  <1>3. QED
    BY <1>1, <1>2 DEF ActiveRows

\* A player toggled: the members stay, and he alone changes sides.
LEMMA ToggleActive ==
    ASSUME NEW rows \in SUBSET PlayerRow, NEW u \in User, NEW s \in {"joined", "ready"},
           \E p \in ActiveRows(rows) : p.user = u,
           \A p, q \in rows : p.user = u /\ q.user = u => p = q
    PROVE  /\ Users(ActiveRows(WithStatus(rows, u, s))) = Users(ActiveRows(rows))
           /\ ReadyUsers(ActiveRows(WithStatus(rows, u, s))) =
                 IF s = "ready" THEN ReadyUsers(ActiveRows(rows)) \cup {u}
                                ELSE ReadyUsers(ActiveRows(rows)) \ {u}
  <1> DEFINE new == WithStatus(rows, u, s)
             change(p) == IF p.user = u THEN [p EXCEPT !.status = s] ELSE p
  <1>1. \A p \in rows : /\ change(p).user = p.user
                        /\ IsActiveRow(change(p)) <=> IsActiveRow(p)
                        /\ p.user = u => change(p).status = s
                        /\ p.user # u => change(p) = p
    BY DEF PlayerRow, IsActiveRow, ActiveRows
  <1>2. ActiveRows(new) = {change(p) : p \in ActiveRows(rows)}
    BY <1>1 DEF ActiveRows, WithStatus
  <1>3. \A p \in ActiveRows(rows) : p \in rows
    BY DEF ActiveRows
  <1> HIDE DEF new, change
  <1>4. Users(ActiveRows(new)) = Users(ActiveRows(rows))
    <2>1. Users(ActiveRows(new)) = {change(p).user : p \in ActiveRows(rows)}
      BY <1>2 DEF Users
    <2>2. QED
      BY <1>1, <1>3, <2>1 DEF Users
  <1>5. ReadyUsers(ActiveRows(new)) =
           {p.user : p \in {x \in ActiveRows(rows) : change(x).status = "ready"}}
    <2>1. {x \in ActiveRows(new) : x.status = "ready"}
             = {change(p) : p \in {x \in ActiveRows(rows) : change(x).status = "ready"}}
      BY <1>2
    <2>2. ReadyUsers(ActiveRows(new))
             = {change(p).user : p \in {x \in ActiveRows(rows) : change(x).status = "ready"}}
      BY <2>1 DEF ReadyUsers
    <2>3. QED
      BY <1>1, <1>3, <2>2
  <1>6. ReadyUsers(ActiveRows(new)) =
           IF s = "ready" THEN ReadyUsers(ActiveRows(rows)) \cup {u}
                          ELSE ReadyUsers(ActiveRows(rows)) \ {u}
    BY <1>1, <1>3, <1>5 DEF ReadyUsers
  <1>7. QED
    BY <1>4, <1>6 DEF new

-----------------------------------------------------------------------------
\* The view of the lobby written in terms of the rows.
LEMMA View ==
    /\ \A r : Members(r) = Users(ActiveRows(players[r]))
    /\ \A r : ReadyMembers(r) = ReadyUsers(ActiveRows(players[r]))
  BY DEF Members, ReadyMembers, Active, ActiveRows, Users, ReadyUsers

LEMMA ViewNext ==
    /\ \A r : Members(r)' = Users(ActiveRows(players'[r]))
    /\ \A r : ReadyMembers(r)' = ReadyUsers(ActiveRows(players'[r]))
  BY DEF Members, ReadyMembers, Active, ActiveRows, Users, ReadyUsers

\* A step that moves no player and changes no phase is invisible.
LEMMA Invisible ==
    ASSUME host' = host, players' = players,
           \A r \in Room : Phase(status'[r]) = Phase(status[r])
    PROVE  UNCHANGED TheLobby!vars
  <1>1. \A r \in Room : Members(r)' = Members(r) /\ ReadyMembers(r)' = ReadyMembers(r)
    BY View, ViewNext
  <1>2. QED
    BY <1>1 DEF TheLobby!vars

LEMMA Phases ==
    /\ Phase("none") = "unused"
    /\ Phase("waiting") = "open" /\ Phase("ready") = "open"
    /\ Phase("in_battle") = "playing"
    /\ Phase("closed") = "over" /\ Phase("expired") = "over"
  BY SMT DEF Phase, Open

LEMMA InitLobby == Init => TheLobby!Init
  <1> SUFFICES ASSUME Init PROVE TheLobby!Init
    OBVIOUS
  <1>1. \A r \in Room : Phase(status[r]) = "unused"
    BY Phases DEF Init
  <1>2. \A r \in Room : Members(r) = {} /\ ReadyMembers(r) = {}
    BY View DEF Init, Users, ReadyUsers, ActiveRows
  <1>3. QED
    BY <1>1, <1>2 DEF Init, TheLobby!Init

\* The view of a step that touches room r only.
LEMMA OneRoom ==
    ASSUME NEW r \in Room,
           \A x \in Room : x # r => status'[x] = status[x] /\ players'[x] = players[x]
    PROVE  /\ [x \in Room |-> Phase(status[x])]'
                 = [[x \in Room |-> Phase(status[x])] EXCEPT ![r] = Phase(status'[r])]
           /\ [x \in Room |-> Members(x)]'
                 = [[x \in Room |-> Members(x)] EXCEPT ![r] = Users(ActiveRows(players'[r]))]
           /\ [x \in Room |-> ReadyMembers(x)]'
                 = [[x \in Room |-> ReadyMembers(x)]
                      EXCEPT ![r] = ReadyUsers(ActiveRows(players'[r]))]
  <1>1. \A x \in Room : x # r => Members(x)' = Members(x) /\ ReadyMembers(x)' = ReadyMembers(x)
    BY View, ViewNext
  <1>2. Members(r)' = Users(ActiveRows(players'[r]))
    BY ViewNext
  <1>3. ReadyMembers(r)' = ReadyUsers(ActiveRows(players'[r]))
    BY ViewNext
  <1>4. QED
    BY <1>1, <1>2, <1>3

\* The parts of the view a step leaves alone.
LEMMA SamePhases ==
    ASSUME \A x \in Room : Phase(status'[x]) = Phase(status[x])
    PROVE  UNCHANGED [x \in Room |-> Phase(status[x])]
  OBVIOUS

LEMMA SameMembers ==
    ASSUME \A x \in Room : Users(ActiveRows(players'[x])) = Users(ActiveRows(players[x]))
    PROVE  UNCHANGED [x \in Room |-> Members(x)]
  <1>1. \A x \in Room : Members(x)' = Members(x)
    BY View, ViewNext
  <1>2. QED
    BY <1>1

LEMMA SameReady ==
    ASSUME \A x \in Room : ReadyUsers(ActiveRows(players'[x])) = ReadyUsers(ActiveRows(players[x]))
    PROVE  UNCHANGED [x \in Room |-> ReadyMembers(x)]
  <1>1. \A x \in Room : ReadyMembers(x)' = ReadyMembers(x)
    BY View, ViewNext
  <1>2. QED
    BY <1>1

\* The view of a step that ends the rooms in S.
LEMMA Dissolved ==
    ASSUME NEW S, host' = host,
           \A x \in S : /\ Phase(status[x]) = "open" /\ Phase(status'[x]) = "over"
                        /\ ActiveRows(players'[x]) = {},
           S \subseteq Room,
           \A x \in Room \ S : status'[x] = status[x] /\ players'[x] = players[x]
    PROVE  TheLobby!Dissolve(S)
  <1>1. \A x \in S : Members(x)' = {} /\ ReadyMembers(x)' = {}
    BY ViewNext DEF Users, ReadyUsers
  <1>2. \A x \in Room \ S : Members(x)' = Members(x) /\ ReadyMembers(x)' = ReadyMembers(x)
    BY View, ViewNext
  <1>3. QED
    BY <1>1, <1>2 DEF TheLobby!Dissolve

\* Every transaction is a step of the Lobby, or invisible.
LEMMA NextLobby == IInv /\ [Next]_vars => TheLobby!Next \/ UNCHANGED TheLobby!vars
<1> SUFFICES ASSUME IInv, [Next]_vars
             PROVE  TheLobby!Next \/ UNCHANGED TheLobby!vars
  OBVIOUS
<1> USE DEF lobbyVars
<1>a. TypeOK /\ BattleMatchesRoom /\ \A r \in Room : RoomOK(status[r], host[r], players[r])
  BY DEF IInv
<1>b. \A r : Active(r) = ActiveRows(players[r])
  BY DEF Active, ActiveRows
<1>1. ASSUME NEW r \in Room, NEW u \in User, NEW c \in Code, NEW d \in Duration,
             CreateRoom(r, u, c, d)
      PROVE  TheLobby!Next
  <2> DEFINE row == [user |-> u, seat |-> 1, status |-> "joined"]
  <2>1. /\ status[r] = "none"
        /\ status' = [status EXCEPT ![r] = "waiting"]
        /\ host' = [host EXCEPT ![r] = u]
        /\ players' = [players EXCEPT ![r] = {row}]
    BY <1>1 DEF CreateRoom, Exists
  <2>2. Users(ActiveRows({row})) = {u} /\ ReadyUsers(ActiveRows({row})) = {}
    <3>1. ActiveRows({row}) = {row}
      BY DEF ActiveRows, IsActiveRow
    <3>2. QED
      <4>1. row.user = u /\ row.status # "ready"
        OBVIOUS
      <4> HIDE DEF row
      <4>2. QED
        BY <3>1, <4>1 DEF Users, ReadyUsers
  <2>3. ReadyUsers(ActiveRows(players[r])) = {}
    BY <1>a, <2>1 DEF RoomOK, ReadyUsers
  <2>4. TheLobby!Create(r, u)
    BY <1>a, <2>1, <2>2, <2>3, View, ViewNext DEF TheLobby!Create, TypeOK, Phase, Open
  <2>5. QED
    BY <2>4 DEF TheLobby!Next
<1>2. ASSUME NEW r \in Room, NEW u \in User, JoinRoom(r, u)
      PROVE  TheLobby!Next
  <2> DEFINE row == Newcomer(r, u)
  <2>1. /\ status[r] = "waiting" /\ ~Full(r) /\ ~IsActive(r, u)
        /\ players' = [players EXCEPT ![r] = @ \cup {row}]
        /\ UNCHANGED <<status, host>>
    BY <1>2 DEF JoinRoom, JoinAllowed
  <2>2. row.user = u /\ row.status = "joined"
    BY DEF Newcomer
  <2>3. PICK m \in ActiveRows(players[r]) : m.user = host[r]
    BY <1>a, <2>1 DEF RoomOK, Open
  <2>4. \A p \in ActiveRows(players[r]) : p = m /\ p.user # u
    BY <1>b, <2>1, <2>3 DEF Full, IsActive
  <2>5. Users(ActiveRows(players[r])) = {host[r]} /\ u # host[r]
    BY <2>3, <2>4 DEF Users
  <2> HIDE DEF row
  <2>6. /\ players'[r] = players[r] \cup {row}
        /\ \A x \in Room : x # r => players'[x] = players[x]
    BY <1>a, <2>1 DEF TypeOK
  <2>7. /\ Users(ActiveRows(players'[r])) = Users(ActiveRows(players[r])) \cup {u}
        /\ ReadyUsers(ActiveRows(players'[r])) = ReadyUsers(ActiveRows(players[r]))
    <3>1. /\ ActiveRows(players[r] \cup {row}) = ActiveRows(players[r]) \cup {row}
          /\ Users(ActiveRows(players[r]) \cup {row})
                = Users(ActiveRows(players[r])) \cup {row.user}
          /\ ReadyUsers(ActiveRows(players[r]) \cup {row}) = ReadyUsers(ActiveRows(players[r]))
      BY <2>2, JoinActive
    <3>2. QED
      BY <2>2, <2>6, <3>1
  <2>8. TheLobby!Enter(r, u)
    BY <2>1, <2>5, <2>6, <2>7, Phases, View, OneRoom DEF TheLobby!Enter
  <2>9. QED
    BY <2>8 DEF TheLobby!Next
<1>3. ASSUME NEW r \in Room, NEW u \in User, NEW s \in {"joined", "ready"},
             ToggleReady(r, u, s)
      PROVE  TheLobby!Next
  <2>1. /\ status[r] \in Open
        /\ players' = [players EXCEPT ![r] = WithStatus(@, u, s)]
        /\ status' = [status EXCEPT ![r] = LobbyStatus(WithStatus(Active(r), u, s))]
        /\ host' = host
    BY <1>3 DEF ToggleReady
  <2>2. /\ players'[r] = WithStatus(players[r], u, s)
        /\ status'[r] \in Open
        /\ \A x \in Room : x # r => players'[x] = players[x] /\ status'[x] = status[x]
    BY <1>a, <2>1 DEF TypeOK, LobbyStatus, Open
  <2>3. \E p \in ActiveRows(players[r]) : p.user = u
    BY <1>3, <1>b DEF ToggleReady
  <2>4. \A p, q \in players[r] : p.user = u /\ q.user = u => p = q
    BY <1>3 DEF ToggleReady, UpdateAccepted
  <2>5. players[r] \in SUBSET PlayerRow
    BY <1>a DEF TypeOK
  <2>6. /\ Users(ActiveRows(players'[r])) = Users(ActiveRows(players[r]))
        /\ ReadyUsers(ActiveRows(players'[r])) =
              IF s = "ready" THEN ReadyUsers(ActiveRows(players[r])) \cup {u}
                             ELSE ReadyUsers(ActiveRows(players[r])) \ {u}
    <3> HIDE DEF WithStatus
    <3>1. LET new == WithStatus(players[r], u, s) IN
          /\ Users(ActiveRows(new)) = Users(ActiveRows(players[r]))
          /\ ReadyUsers(ActiveRows(new)) =
                IF s = "ready" THEN ReadyUsers(ActiveRows(players[r])) \cup {u}
                               ELSE ReadyUsers(ActiveRows(players[r])) \ {u}
      BY <2>3, <2>4, <2>5, ToggleActive
    <3>2. QED
      BY <2>2, <3>1
  <2>7. u \in Users(ActiveRows(players[r]))
    BY <2>3 DEF Users
  <2>8. Phase(status[r]) = "open" /\ Phase(status'[r]) = "open"
    BY <2>1, <2>2, Phases DEF Open
  <2>9. PICK isReady \in BOOLEAN : isReady <=> s = "ready"
    OBVIOUS
  <2>10. TheLobby!SetReady(r, u, isReady)
    <3>1. UNCHANGED <<host, [x \in Room |-> Phase(status[x])], [x \in Room |-> Members(x)]>>
      <4>1. \A x \in Room : Phase(status'[x]) = Phase(status[x])
        BY <2>2, <2>8
      <4>2. \A x \in Room : Users(ActiveRows(players'[x])) = Users(ActiveRows(players[x]))
        BY <2>2, <2>6
      <4>3. QED
        BY <2>1, <4>1, <4>2, SamePhases, SameMembers
    <3>2. [x \in Room |-> ReadyMembers(x)]' =
             [[x \in Room |-> ReadyMembers(x)]
                EXCEPT ![r] = IF isReady THEN ReadyMembers(r) \cup {u} ELSE ReadyMembers(r) \ {u}]
      BY <2>2, <2>6, <2>9, View, OneRoom
    <3>3. Phase(status[r]) = "open" /\ u \in Members(r)
      BY <2>7, <2>8, View
    <3>4. QED
      BY <3>1, <3>2, <3>3 DEF TheLobby!SetReady
  <2>11. QED
    BY <2>10 DEF TheLobby!Next
<1>4. ASSUME NEW r \in Room, NEW u \in User, HostLeaves(r, u)
      PROVE  TheLobby!Next
  <2>1. /\ status' = [status EXCEPT ![r] = "closed"]
        /\ players' = [players EXCEPT ![r] = AllLeft(@)]
        /\ host' = host
    BY <1>4 DEF HostLeaves
  <2>2. status[r] \in Open
    <3>1. \E p \in ActiveRows(players[r]) : p.user = u
      BY <1>4, <1>b DEF HostLeaves, LeaveAllowed, IsActive
    <3>2. status[r] \notin {"none", "closed", "expired", "in_battle"}
      BY <1>4, <1>a, <3>1 DEF RoomOK, HostLeaves, LeaveAllowed
    <3>3. QED
      BY <1>a, <3>2 DEF TypeOK, RoomStatus
  <2>3. \A x \in {r} : /\ Phase(status[x]) = "open" /\ Phase(status'[x]) = "over"
                       /\ ActiveRows(players'[x]) = {}
    BY <1>a, <2>1, <2>2, Phases, AllLeftRows DEF TypeOK, ActiveRows, Open
  <2>4. \A x \in Room \ {r} : status'[x] = status[x] /\ players'[x] = players[x]
    BY <1>a, <2>1 DEF TypeOK
  <2>5. TheLobby!Dissolve({r})
    BY <2>1, <2>3, <2>4, Dissolved
  <2>6. QED
    BY <2>5 DEF TheLobby!Next
<1>5. ASSUME NEW r \in Room, NEW u \in User, GuestLeaves(r, u)
      PROVE  TheLobby!Next
  <2>1. /\ status' = [status EXCEPT ![r] = StatusWithoutGuest(@)]
        /\ players' = [players EXCEPT ![r] = WithStatus(@, u, "left")]
        /\ host' = host /\ u # host[r]
    BY <1>5 DEF GuestLeaves
  <2>2. \E p \in ActiveRows(players[r]) : p.user = u
    BY <1>5, <1>b DEF GuestLeaves, LeaveAllowed, IsActive
  <2>3. status[r] \in Open
    <3>1. status[r] \notin {"none", "closed", "expired", "in_battle"}
      BY <1>5, <1>a, <2>2 DEF RoomOK, GuestLeaves, LeaveAllowed
    <3>2. QED
      BY <1>a, <3>1 DEF TypeOK, RoomStatus
  <2>4. /\ players'[r] = WithStatus(players[r], u, "left")
        /\ status'[r] \in Open
        /\ \A x \in Room : x # r => players'[x] = players[x] /\ status'[x] = status[x]
    BY <1>a, <2>1, <2>3 DEF TypeOK, StatusWithoutGuest, Open
  <2>5. ActiveRows(players'[r]) = {p \in ActiveRows(players[r]) : p.user # u}
    BY <1>a, <2>4, LeftActive DEF TypeOK
  <2>6. /\ Users(ActiveRows(players'[r])) = Users(ActiveRows(players[r])) \ {u}
        /\ ReadyUsers(ActiveRows(players'[r])) = ReadyUsers(ActiveRows(players[r])) \ {u}
    BY <2>5 DEF Users, ReadyUsers
  <2>7. u \in Users(ActiveRows(players[r]))
    BY <2>2 DEF Users
  <2>8. Phase(status[r]) = "open" /\ Phase(status'[r]) = "open"
    BY <2>3, <2>4, Phases DEF Open
  <2>9. TheLobby!Depart(r, u)
    <3>1. UNCHANGED <<host, [x \in Room |-> Phase(status[x])]>>
      <4>1. \A x \in Room : Phase(status'[x]) = Phase(status[x])
        BY <2>4, <2>8
      <4>2. QED
        BY <2>1, <4>1, SamePhases
    <3>2. /\ [x \in Room |-> Members(x)]' =
                [[x \in Room |-> Members(x)] EXCEPT ![r] = Members(r) \ {u}]
          /\ [x \in Room |-> ReadyMembers(x)]' =
                [[x \in Room |-> ReadyMembers(x)] EXCEPT ![r] = ReadyMembers(r) \ {u}]
      BY <2>4, <2>6, View, OneRoom
    <3>3. Phase(status[r]) = "open" /\ u \in Members(r) \ {host[r]}
      BY <2>1, <2>7, <2>8, View
    <3>4. QED
      BY <3>1, <3>2, <3>3 DEF TheLobby!Depart
  <2>10. QED
    BY <2>9 DEF TheLobby!Next
<1>6. ASSUME NEW r \in Room, NEW u \in User, NEW b \in Battle, StartBattle(r, u, b)
      PROVE  TheLobby!Next
  <2>1. /\ status[r] = "ready" /\ status' = [status EXCEPT ![r] = "in_battle"]
        /\ players' = players /\ host' = host
    BY <1>6 DEF StartBattle
  <2>2. status'[r] = "in_battle" /\ \A x \in Room : x # r => status'[x] = status[x]
    BY <1>a, <2>1 DEF TypeOK
  <2>3. BothReady(ActiveRows(players[r])) /\ UniqueActive(players[r])
    BY <1>a, <2>1 DEF RoomOK
  <2>4. PICK p, q \in ActiveRows(players[r]) : p # q
    BY <2>3 DEF BothReady, IsPair
  <2>5. p.user # q.user
    BY <2>3, <2>4 DEF UniqueActive, ActiveRows
  <2>6. Users(ActiveRows(players[r])) # {host[r]}
    BY <2>4, <2>5 DEF Users
  <2>7. ReadyUsers(ActiveRows(players[r])) = Users(ActiveRows(players[r]))
    BY <2>3 DEF BothReady, Users, ReadyUsers
  <2>8. TheLobby!Start(r)
    <3>1. UNCHANGED <<host, [x \in Room |-> Members(x)], [x \in Room |-> ReadyMembers(x)]>>
      BY <2>1, SameMembers, SameReady
    <3>2. [x \in Room |-> Phase(status[x])]' =
             [[x \in Room |-> Phase(status[x])] EXCEPT ![r] = "playing"]
      <4>1. Phase(status'[r]) = "playing"
        BY <2>1, <2>2, Phases
      <4>2. \A x \in Room : x # r => Phase(status'[x]) = Phase(status[x])
        BY <2>1, <2>2
      <4>3. QED
        BY <4>1, <4>2
    <3>3. Phase(status[r]) = "open" /\ Members(r) # {host[r]} /\ ReadyMembers(r) = Members(r)
      BY <2>1, <2>6, <2>7, Phases, View
    <3>4. QED
      BY <3>1, <3>2, <3>3 DEF TheLobby!Start
  <2>9. QED
    BY <2>8 DEF TheLobby!Next
<1>7. ASSUME NEW b \in Battle, CompleteBattle(b)
      PROVE  TheLobby!Next
  <2>1. PICK r \in Room : r = battles[b].room
    BY <1>7, <1>a DEF CompleteBattle, Completable, TypeOK, BattleRow
  <2>2. /\ ActiveBattle(r, b) /\ status' = [status EXCEPT ![r] = "ready"]
        /\ players' = players /\ host' = host
    BY <1>7, <2>1 DEF CompleteBattle, Completable, ActiveBattle
  <2>3. status[r] = "in_battle"
    BY <1>a, <2>2 DEF BattleMatchesRoom
  <2>4. status'[r] = "ready" /\ \A x \in Room : x # r => status'[x] = status[x]
    BY <1>a, <2>2 DEF TypeOK
  <2>5. TheLobby!Finish(r)
    <3>1. UNCHANGED <<host, [x \in Room |-> Members(x)], [x \in Room |-> ReadyMembers(x)]>>
      BY <2>2, SameMembers, SameReady
    <3>2. [x \in Room |-> Phase(status[x])]' =
             [[x \in Room |-> Phase(status[x])] EXCEPT ![r] = "open"]
      <4>1. Phase(status'[r]) = "open"
        BY <2>2, <2>4, Phases
      <4>2. \A x \in Room : x # r => Phase(status'[x]) = Phase(status[x])
        BY <2>2, <2>4
      <4>3. QED
        BY <4>1, <4>2
    <3>3. Phase(status[r]) = "playing"
      BY <2>3, Phases
    <3>4. QED
      BY <3>1, <3>2, <3>3 DEF TheLobby!Finish
  <2>6. QED
    BY <2>5 DEF TheLobby!Next
<1>8. ASSUME NEW rs \in SUBSET Room, ExpireRooms(rs)
      PROVE  TheLobby!Next
  <2>1. \A x \in rs : status[x] \in Open /\ x \in Room
    BY <1>8 DEF ExpireRooms, ExpiredRooms
  <2>2. /\ \A x \in rs : status'[x] = "expired" /\ players'[x] = AllLeft(players[x])
        /\ \A x \in Room \ rs : status'[x] = status[x] /\ players'[x] = players[x]
        /\ host' = host
    BY <1>8, <2>1 DEF ExpireRooms
  <2>3. \A x \in rs : /\ Phase(status[x]) = "open" /\ Phase(status'[x]) = "over"
                      /\ ActiveRows(players'[x]) = {}
    BY <1>a, <2>1, <2>2, Phases, AllLeftRows DEF TypeOK, ActiveRows, Open
  <2>4. TheLobby!Dissolve(rs)
    BY <2>1, <2>2, <2>3, Dissolved
  <2>5. rs \in SUBSET Room
    BY <2>1
  <2>6. QED
    BY <2>4, <2>5 DEF TheLobby!Next
<1>9. ASSUME NEW r \in Room, LobbyTimeUp(r)
      PROVE  UNCHANGED TheLobby!vars
  BY <1>9, Invisible DEF LobbyTimeUp
<1>10. ASSUME NEW b \in Battle, BattleTimeUp(b)
       PROVE  UNCHANGED TheLobby!vars
  BY <1>10, Invisible DEF BattleTimeUp
<1>11. CASE UNCHANGED vars
  BY <1>11, Invisible DEF vars
<1>12. QED
  BY <1>1, <1>2, <1>3, <1>4, <1>5, <1>6, <1>7, <1>8, <1>9, <1>10, <1>11 DEF Next

(***************************************************************************)
(* Every behaviour of the rooms, as their players see them, is a behaviour *)
(* of the Lobby.                                                           *)
(***************************************************************************)
THEOREM RoomsImplementLobby == Spec => ImplementsLobby
<1>1. QED
  BY InitLobby, NextLobby, Invariance, PTL DEF Spec, ImplementsLobby, TheLobby!Spec
-----------------------------------------------------------------------------
\* A status moves along the documented matrix only: a room that is over stays
\* over, and no completion pulls it back.
THEOREM StatusAlwaysMoves == Spec => StatusMatrix
<1>1. IInv /\ [Next]_vars =>
        [\A r \in Room : status'[r] # status[r] => <<status[r], status'[r]>> \in Transition]_vars
  <2> DEFINE Moves ==
        \A x \in Room : status'[x] # status[x] => <<status[x], status'[x]>> \in Transition
  <2> SUFFICES ASSUME IInv, Next PROVE Moves
    OBVIOUS
  <2>a. TypeOK /\ BattleMatchesRoom /\ \A r \in Room : RoomOK(status[r], host[r], players[r])
    BY DEF IInv
  <2>b. \A r : Active(r) = ActiveRows(players[r])
    BY DEF Active, ActiveRows
  <2>1. ASSUME NEW r \in Room, NEW from, NEW to, status[r] = from,
               status' = [status EXCEPT ![r] = to],
               from # to => <<from, to>> \in Transition
        PROVE  Moves
    BY <2>1, <2>a DEF TypeOK
  <2>2. ASSUME NEW r \in Room, NEW u \in User, NEW c \in Code, NEW d \in Duration,
               CreateRoom(r, u, c, d)
        PROVE  Moves
    BY <2>1, <2>2 DEF CreateRoom, Exists, Transition
  <2>3. ASSUME NEW r \in Room, NEW u \in User, NEW s \in {"joined", "ready"},
               ToggleReady(r, u, s)
        PROVE  Moves
    BY <2>1, <2>3 DEF ToggleReady, LobbyStatus, Transition, Open
  <2>4. ASSUME NEW r \in Room, NEW u \in User, LeaveAllowed(r, u)
        PROVE  status[r] \in Open
    <3>1. \E p \in ActiveRows(players[r]) : p.user = u
      BY <2>4, <2>b DEF LeaveAllowed, IsActive
    <3>2. status[r] \notin {"none", "closed", "expired", "in_battle"}
      BY <2>4, <2>a, <3>1 DEF RoomOK, LeaveAllowed
    <3>3. QED
      BY <2>a, <3>2 DEF TypeOK, RoomStatus
  <2>5. ASSUME NEW r \in Room, NEW u \in User, HostLeaves(r, u)
        PROVE  Moves
    BY <2>1, <2>4, <2>5 DEF HostLeaves, Transition
  <2>6. ASSUME NEW r \in Room, NEW u \in User, GuestLeaves(r, u)
        PROVE  Moves
    <3>1. /\ status' = [status EXCEPT ![r] = StatusWithoutGuest(status[r])]
          /\ status[r] \in Open
      BY <2>4, <2>6 DEF GuestLeaves
    <3>2. QED
      BY <2>1, <3>1 DEF StatusWithoutGuest, Transition, Open
  <2>7. ASSUME NEW r \in Room, NEW u \in User, NEW b \in Battle, StartBattle(r, u, b)
        PROVE  Moves
    BY <2>1, <2>7 DEF StartBattle, Transition
  <2>8. ASSUME NEW b \in Battle, CompleteBattle(b)
        PROVE  Moves
    <3>1. PICK r \in Room : r = battles[b].room
      BY <2>8, <2>a DEF CompleteBattle, Completable, TypeOK, BattleRow
    <3>2. ActiveBattle(r, b) /\ status' = [status EXCEPT ![r] = "ready"]
      BY <2>8, <3>1 DEF CompleteBattle, Completable, ActiveBattle
    <3>3. status[r] = "in_battle"
      BY <2>a, <3>2 DEF BattleMatchesRoom
    <3>4. QED
      BY <2>1, <3>2, <3>3 DEF Transition
  <2>9. ASSUME NEW rs \in SUBSET Room, ExpireRooms(rs)
        PROVE  Moves
    BY <2>9 DEF ExpireRooms, ExpiredRooms, Transition
  <2>10. CASE status' = status
    BY <2>10
  <2>11. QED
    BY <2>2, <2>3, <2>5, <2>6, <2>7, <2>8, <2>9, <2>10
    DEF Next, JoinRoom, LobbyTimeUp, BattleTimeUp
<1>2. QED
  BY <1>1, Invariance, PTL DEF Spec, StatusMatrix
=============================================================================
