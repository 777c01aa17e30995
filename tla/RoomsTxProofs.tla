--------------------------- MODULE RoomsTxProofs ---------------------------
(***************************************************************************)
(* The statements of the handlers implement the transactions of Rooms, for *)
(* any number of concurrent requests, rooms, users, codes and battles.     *)
(* What is proved of Rooms then holds of RoomsTx.                          *)
(***************************************************************************)
EXTENDS RoomsTx, RoomsProofs

(***************************************************************************)
(* The inductive invariant.  A request that has found its room holds the   *)
(* lock on it, so what it has read is still so; the same for the rooms the *)
(* worker has collected; and an insert that was let through is the only    *)
(* one of its code.                                                        *)
(***************************************************************************)
HoldsRoom(c) == c.at \in {"read", "write"}

HasCode(c) == c.at \in {"find", "insert", "inserted", "duplicate"}

Sound(p, c) ==
    /\ c \in Request
    /\ c.room # Null => HoldsRoom(c)
    /\ HasCode(c) => c.code \in Code
    /\ c.at = "draw" => c.tries < MaxAttempts
    /\ HoldsRoom(c) => /\ c.room \in Room
                       /\ lock[c.room] = p
                       /\ status[c.room] # "none"
                       /\ c.seen = status[c.room]
                       /\ c.at = "write" => c.rows = Active(c.room)
    /\ c.at = "write" => c.kind # "create"
    /\ c.at = "inserted" => ~CodeTaken(c.code)

Requests == \A p \in Call : calls[p] # Null => Sound(p, calls[p])

OneInsert ==
    \A p, q \in Call : At(p, "inserted") /\ At(q, "inserted") /\ p # q =>
        calls[p].code # calls[q].code

SweepLocks ==
    /\ pass # Null => /\ pass \in Pass
                      /\ \A r \in pass.got : lock[r] = Sweeper /\ r \in ExpiredRooms
    /\ \A r \in Room : lock[r] = Sweeper => pass # Null /\ r \in pass.got

TxInv ==
    /\ TypeOK
    /\ lock \in [Room -> Call \cup {Sweeper, Null}]
    /\ calls \in [Call -> Request \cup {Null}]
    /\ Requests
    /\ OneInsert
    /\ SweepLocks

-----------------------------------------------------------------------------
(* A step of one request: it changes its own record, touches no lock but   *)
(* its own and no room but one it has locked.                              *)

LEMMA RequestStep ==
    ASSUME TxInv, TypeOK',
           NEW p \in Call, NEW c, c = Null \/ Sound(p, c)',
           calls' = [calls EXCEPT ![p] = c],
           lock' \in [Room -> Call \cup {Sweeper, Null}],
           \A r \in Room : lock[r] \notin {p, Null} => lock'[r] = lock[r],
           \A r \in Room : lock'[r] = Sweeper => lock[r] = Sweeper,
           \A r \in Room : lock[r] # p => status'[r] = status[r] /\ players'[r] = players[r],
           \A r \in Room : status'[r] = "none" <=> status[r] = "none",
           code' = code, overdue' = overdue, pass' = pass,
           c # Null => (c.at = "inserted" =>
               \A q \in Call \ {p} : At(q, "inserted") => calls[q].code # c.code)
    PROVE  TxInv'
<1> USE DEF TxInv
<1>1. c \in Request \cup {Null}
  BY DEF Sound
<1>2. calls' \in [Call -> Request \cup {Null}]
  BY <1>1
<1>3. /\ calls'[p] = c
      /\ \A q \in Call \ {p} : calls'[q] = calls[q]
  OBVIOUS
<1>4. \A d : CodeTaken(d)' <=> CodeTaken(d)
  BY DEF CodeTaken, Exists
<1>5. ASSUME NEW q \in Call \ {p}, calls[q] # Null
      PROVE  Sound(q, calls[q])'
  <2>1. PICK d \in Request : d = calls[q]
    BY <1>5
  <2>2. Sound(q, d)
    BY <1>5, <2>1 DEF Requests
  <2>3. HoldsRoom(d) => /\ lock'[d.room] = lock[d.room]
                        /\ status'[d.room] = status[d.room]
                        /\ players'[d.room] = players[d.room]
    BY <2>2, TxAssumption DEF Sound
  <2>4. HoldsRoom(d) => Active(d.room)' = Active(d.room)
    BY <2>3 DEF Active
  <2>5. Sound(q, d)'
    BY <2>2, <2>3, <2>4, <1>4 DEF Sound
  <2>6. calls'[q] = d
    BY <1>3, <2>1
  <2>7. QED
    BY <2>5, <2>1, <2>6
<1>6. Requests'
  <2>1. ASSUME NEW q \in Call, calls'[q] # Null
        PROVE  Sound(q, calls[q])'
    <3>1. CASE q = p
      <4>1. Sound(p, c)'
        BY <2>1, <3>1, <1>3
      <4>2. QED
        BY <3>1, <4>1, <1>3
    <3>2. CASE q # p
      BY <2>1, <3>2, <1>3, <1>5
    <3>3. QED
      BY <3>1, <3>2
  <2>2. QED
    BY <2>1 DEF Requests
<1>7. OneInsert'
  BY <1>3 DEF OneInsert, At
<1>8. SweepLocks'
  <2>1. \A r \in Room : lock[r] = Sweeper => lock'[r] = Sweeper
    BY TxAssumption
  <2>2. \A r \in Room : lock[r] = Sweeper /\ r \in ExpiredRooms => r \in ExpiredRooms'
    BY TxAssumption DEF ExpiredRooms
  <2>3. QED
    BY <2>1, <2>2 DEF SweepLocks, Pass
<1>9. QED
  BY <1>2, <1>6, <1>7, <1>8

\* A request ends: its lock is free.
LEMMA Ended ==
    ASSUME TxInv, TypeOK', NEW p \in Call, Ends(p),
           \A r \in Room : lock[r] # p => status'[r] = status[r] /\ players'[r] = players[r],
           \A r \in Room : status'[r] = "none" <=> status[r] = "none",
           code' = code, overdue' = overdue
    PROVE  TxInv'
<1>1. /\ lock' \in [Room -> Call \cup {Sweeper, Null}]
      /\ \A r \in Room : lock[r] \notin {p, Null} => lock'[r] = lock[r]
      /\ \A r \in Room : lock'[r] = Sweeper => lock[r] = Sweeper
  BY TxAssumption DEF TxInv, Ends, ReleasedBy
<1>2. calls' = [calls EXCEPT ![p] = Null] /\ pass' = pass
  BY DEF Ends
<1>3. QED
  BY <1>1, <1>2, RequestStep

\* A request goes on without touching the tables.
LEMMA Continued ==
    ASSUME TxInv, UNCHANGED tables, NEW p \in Call, NEW c, Sound(p, c)',
           calls' = [calls EXCEPT ![p] = c], pass' = pass,
           lock' \in [Room -> Call \cup {Sweeper, Null}],
           \A r \in Room : lock[r] \notin {p, Null} => lock'[r] = lock[r],
           \A r \in Room : lock'[r] = Sweeper => lock[r] = Sweeper,
           c.at = "inserted" =>
               \A q \in Call \ {p} : At(q, "inserted") => calls[q].code # c.code
    PROVE  TxInv'
<1>1. /\ status' = status /\ players' = players /\ code' = code /\ overdue' = overdue
      /\ host' = host /\ duration' = duration /\ battles' = battles
  BY DEF tables, vars, lobbyVars
<1>2. TypeOK'
  BY <1>1 DEF TxInv, TypeOK
<1>3. QED
  BY <1>1, <1>2, RequestStep

-----------------------------------------------------------------------------
(* The steps that leave the tables alone.                                  *)

LEMMA Quiet ==
    ASSUME TxInv, NEW p \in Call,
           \/ \E k \in Kind, u \in User, c \in Code : Arrive(p, k, u, c)
           \/ \E c \in Code : Draw(p, c)
           \/ \E r \in Room : Find(p, r)
           \/ FindNothing(p) \/ Collide(p) \/ Read(p) \/ InsertRoom(p)
           \/ ReportDuplicate(p) \/ Refuse(p) \/ Abort(p)
    PROVE  UNCHANGED vars /\ TxInv'
<1> USE DEF TxInv
<1>a. calls[p] # Null => calls[p] \in Request /\ Sound(p, calls[p])
  BY DEF Requests
<1>b. ASSUME UNCHANGED tables, Ends(p)
      PROVE  TxInv'
  <2>1. /\ status' = status /\ players' = players /\ code' = code /\ overdue' = overdue
        /\ host' = host /\ duration' = duration /\ battles' = battles
    BY <1>b DEF tables, vars, lobbyVars
  <2>2. TypeOK'
    BY <2>1 DEF TypeOK
  <2>3. QED
    BY <1>b, <2>1, <2>2, Ended
<1>c. ASSUME UNCHANGED tables
      PROVE  /\ status' = status /\ code' = code
             /\ \A d : CodeTaken(d)' <=> CodeTaken(d)
             /\ \A r : Active(r)' = Active(r)
  BY <1>c DEF tables, vars, lobbyVars, CodeTaken, Exists, Active
<1>1. ASSUME NEW k \in Kind, NEW u \in User, NEW d \in Code, Arrive(p, k, u, d)
      PROVE  TxInv'
  <2>1. PICK c : c = [kind |-> k, user |-> u, tries |-> 0, room |-> Null, seen |-> Null,
                      rows |-> {}, code |-> IF k = "create" THEN Null ELSE d,
                      at |-> IF k = "create" THEN "draw" ELSE "find"]
    OBVIOUS
  <2>2. Sound(p, c)' /\ c.at # "inserted"
    BY <2>1, TxAssumption DEF Sound, Request, HoldsRoom, HasCode
  <2>3. QED
    BY <1>1, <2>1, <2>2, Continued DEF Arrive
<1>2. ASSUME NEW d \in Code, Draw(p, d)
      PROVE  TxInv'
  <2>1. PICK c : c = [calls[p] EXCEPT !.at = "find", !.code = d, !.tries = Counted(@)]
    OBVIOUS
  <2>2. Sound(p, calls[p]) /\ calls[p].at = "draw"
    BY <1>a, <1>2 DEF Draw, At
  <2>3. /\ calls[p] \in Request /\ calls[p].tries \in 0 .. MaxAttempts
        /\ calls[p].tries < MaxAttempts /\ calls[p].room = Null
    BY <2>2 DEF Sound, HoldsRoom, Request
  <2>4. calls[p].tries + 1 \in 0 .. MaxAttempts
    BY <2>3, TxAssumption
  <2>5. /\ c \in Request /\ c.at = "find" /\ c.code = d /\ c.room = Null
    BY <2>1, <2>3, <2>4 DEF Request, Counted
  <2>6. Sound(p, c)' /\ c.at # "inserted"
    BY <2>5 DEF Sound, HoldsRoom, HasCode
  <2>7. calls' = [calls EXCEPT ![p] = c]
    BY <1>2, <2>1 DEF Draw
  <2>8. QED
    BY <1>2, <2>6, <2>7, Continued DEF Draw
<1>3. ASSUME NEW r \in Room, Find(p, r)
      PROVE  TxInv'
  <2>1. PICK c : c = [calls[p] EXCEPT !.at = "read", !.room = r, !.seen = status[r]]
    OBVIOUS
  <2>2. Sound(p, calls[p]) /\ calls[p].at = "find" /\ status[r] \in RoomStatus
    BY <1>a, <1>3 DEF Find, At, Exists, TypeOK
  <2>3. lock' = [lock EXCEPT ![r] = p] /\ lock[r] = Null /\ status[r] # "none"
    BY <1>3 DEF Find, Free, Exists
  <2>4. c \in Request /\ c.at = "read" /\ c.room = r /\ c.seen = status[r]
    BY <2>1, <2>2 DEF Sound, Request
  <2>5. lock'[r] = p /\ status'[r] = status[r]
    BY <1>3, <1>c, <2>3 DEF Find
  <2>6. Sound(p, c)' /\ c.at # "inserted"
    BY <2>3, <2>4, <2>5 DEF Sound, HoldsRoom, HasCode
  <2>7. calls' = [calls EXCEPT ![p] = c] /\ UNCHANGED tables /\ pass' = pass
    BY <1>3, <2>1 DEF Find
  <2>8. /\ lock' \in [Room -> Call \cup {Sweeper, Null}]
        /\ \A x \in Room : lock[x] \notin {p, Null} => lock'[x] = lock[x]
        /\ \A x \in Room : lock'[x] = Sweeper => lock[x] = Sweeper
    BY <2>3, TxAssumption
  <2>9. QED
    BY <2>6, <2>7, <2>8, Continued
<1>4. ASSUME FindNothing(p)
      PROVE  TxInv'
  <2>1. PICK c : c = [calls[p] EXCEPT !.at = "insert"]
    OBVIOUS
  <2>2. Sound(p, calls[p]) /\ calls[p].at = "find"
    BY <1>a, <1>4 DEF FindNothing, At
  <2>3. Sound(p, c)' /\ c.at # "inserted"
    BY <2>1, <2>2 DEF Sound, Request, HoldsRoom, HasCode
  <2>4. QED
    BY <1>4, <1>b, <2>1, <2>3, Continued DEF FindNothing
<1>5. ASSUME Collide(p)
      PROVE  TxInv'
  <2>1. PICK c : c = [calls[p] EXCEPT !.at = "draw", !.room = Null, !.seen = Null]
    OBVIOUS
  <2>2. Sound(p, calls[p]) /\ calls[p].at = "read"
    BY <1>a, <1>5 DEF Collide, At
  <2>3. HasTriesLeft(calls[p]) => Sound(p, c)' /\ c.at # "inserted"
    BY <2>1, <2>2, TxAssumption DEF Sound, Request, HoldsRoom, HasCode, HasTriesLeft
  <2>4. /\ ReleasedBy(p) \in [Room -> Call \cup {Sweeper, Null}]
        /\ \A r \in Room : lock[r] \notin {p, Null} => ReleasedBy(p)[r] = lock[r]
        /\ \A r \in Room : ReleasedBy(p)[r] = Sweeper => lock[r] = Sweeper
    BY TxAssumption DEF ReleasedBy
  <2>5. CASE HasTriesLeft(calls[p])
    <3>1. /\ calls' = [calls EXCEPT ![p] = c] /\ lock' = ReleasedBy(p)
          /\ pass' = pass /\ UNCHANGED tables
      BY <1>5, <2>1, <2>5 DEF Collide
    <3>2. QED
      BY <2>3, <2>4, <2>5, <3>1, Continued
  <2>6. CASE ~HasTriesLeft(calls[p])
    BY <1>5, <1>b, <2>6 DEF Collide
  <2>7. QED
    BY <2>5, <2>6
<1>6. ASSUME Read(p)
      PROVE  TxInv'
  <2>1. PICK c : c = [calls[p] EXCEPT !.at = "write", !.rows = Active(calls[p].room)]
    OBVIOUS
  <2>2. Sound(p, calls[p]) /\ calls[p].at = "read" /\ calls[p].kind # "create"
    BY <1>a, <1>6 DEF Read, At
  <2>3. calls[p].room \in Room /\ Active(calls[p].room) \in SUBSET PlayerRow
    BY <2>2 DEF Sound, HoldsRoom, Active, TypeOK
  <2>4. Sound(p, c)' /\ c.at # "inserted"
    BY <1>6, <1>c, <2>1, <2>2, <2>3 DEF Sound, Request, HoldsRoom, HasCode, Read
  <2>5. QED
    BY <1>6, <2>1, <2>4, Continued DEF Read
<1>7. ASSUME InsertRoom(p)
      PROVE  TxInv'
  <2>1. PICK c : c = [calls[p] EXCEPT !.at = IF CodeTaken(calls[p].code) THEN "duplicate"
                                                                        ELSE "inserted"]
    OBVIOUS
  <2>2. Sound(p, calls[p]) /\ calls[p].at = "insert"
    BY <1>a, <1>7 DEF InsertRoom, At
  <2>3. Sound(p, c)' /\ c.code = calls[p].code
    BY <1>7, <1>c, <2>1, <2>2 DEF Sound, Request, HoldsRoom, HasCode, InsertRoom
  <2>4. QED
    BY <1>7, <2>1, <2>3, Continued DEF InsertRoom
<1>8. ASSUME ReportDuplicate(p) \/ Refuse(p) \/ Abort(p)
      PROVE  TxInv'
  BY <1>8, <1>b DEF ReportDuplicate, Refuse, Abort
<1>9. UNCHANGED vars
  BY DEF Arrive, Draw, Find, FindNothing, Collide, Read, InsertRoom, ReportDuplicate,
         Refuse, Abort, tables
<1>10. QED
  BY <1>1, <1>2, <1>3, <1>4, <1>5, <1>6, <1>7, <1>8, <1>9

-----------------------------------------------------------------------------
(* The commits are transactions of Rooms.                                  *)

\* What is known of a request that is about to write.
LEMMA AboutToWrite ==
    ASSUME TxInv, NEW p \in Call, At(p, "write")
    PROVE  \E c \in Request, r \in Room, u \in User :
              /\ c = calls[p] /\ r = c.room /\ u = c.user
              /\ lock[r] = p /\ status[r] # "none"
              /\ c.seen = status[r] /\ c.rows = Active(r)
<1>1. Sound(p, calls[p]) /\ calls[p].at = "write"
  BY DEF TxInv, Requests, At
<1>2. QED
  BY <1>1 DEF Sound, HoldsRoom, Request

LEMMA JoinCommits ==
    ASSUME TxInv, NEW p \in Call, CommitJoin(p)
    PROVE  (\E r \in Room, u \in User : JoinRoom(r, u)) /\ TxInv'
<1>1. PICK c \in Request, r \in Room, u \in User :
          /\ c = calls[p] /\ r = c.room /\ u = c.user
          /\ lock[r] = p /\ status[r] # "none"
          /\ c.seen = status[r] /\ c.rows = Active(r)
  BY AboutToWrite DEF CommitJoin
<1>2. /\ MayJoin(c)
      /\ players' = [players EXCEPT ![r] = @ \cup {Seat(c)}]
      /\ UNCHANGED <<status, lobbyVars, overdue, battles>>
      /\ Ends(p)
  BY <1>1 DEF CommitJoin
<1>3. Seat(c) = Newcomer(r, u)
  BY <1>1 DEF Seat, Newcomer, SeatFor
<1>4. JoinAllowed(r, u)
  BY <1>1, <1>2 DEF MayJoin, JoinAllowed, HasSeat, IsActive, Full
<1>5. UniqueActive(players[r] \cup {Newcomer(r, u)})
  BY <1>1, <1>2, <1>3 DEF MayJoin
<1>6. JoinRoom(r, u)
  BY <1>2, <1>3, <1>4, <1>5 DEF JoinRoom
<1>7. TypeOK'
  BY <1>6, TypeStep DEF TxInv, Next
<1>8. \A x \in Room : lock[x] # p => players'[x] = players[x]
  BY <1>1, <1>2 DEF TxInv, TypeOK
<1>9. QED
  BY <1>2, <1>6, <1>7, <1>8, Ended DEF lobbyVars

LEMMA ToggleCommits ==
    ASSUME TxInv, NEW p \in Call, CommitToggle(p)
    PROVE  /\ \E r \in Room, u \in User, s \in {"joined", "ready"} : ToggleReady(r, u, s)
           /\ TxInv'
<1>1. PICK c \in Request, r \in Room, u \in User :
          /\ c = calls[p] /\ r = c.room /\ u = c.user
          /\ lock[r] = p /\ status[r] # "none"
          /\ c.seen = status[r] /\ c.rows = Active(r)
  BY AboutToWrite DEF CommitToggle
<1>2. PICK s : s = c.kind
  OBVIOUS
<1>3. PICK new : new = LobbyStatus(WithStatus(Active(r), u, s))
  OBVIOUS
<1>4. /\ MayToggle(c)
      /\ players' = [players EXCEPT ![r] = WithStatus(@, u, s)]
      /\ status' = IF new = c.seen THEN status ELSE [status EXCEPT ![r] = new]
      /\ UNCHANGED <<lobbyVars, overdue, battles>>
      /\ Ends(p)
  BY <1>1, <1>2, <1>3 DEF CommitToggle
<1>5. status' = [status EXCEPT ![r] = new]
  BY <1>1, <1>4 DEF TxInv, TypeOK
<1>6. /\ s \in {"joined", "ready"}
      /\ status[r] \in Open
      /\ \E x \in Active(r) : x.user = u /\ x.status # s
      /\ UpdateAccepted(r, u)
  BY <1>1, <1>2, <1>4 DEF MayToggle
<1>7. ToggleReady(r, u, s)
  BY <1>3, <1>4, <1>5, <1>6 DEF ToggleReady
<1>8. TypeOK'
  BY <1>6, <1>7, TypeStep DEF TxInv, Next
<1>9. \A x \in Room : /\ lock[x] # p => status'[x] = status[x] /\ players'[x] = players[x]
                      /\ status'[x] = "none" <=> status[x] = "none"
  BY <1>1, <1>3, <1>4, <1>5 DEF TxInv, TypeOK, LobbyStatus
<1>10. QED
  BY <1>4, <1>6, <1>7, <1>8, <1>9, Ended DEF lobbyVars

LEMMA LeaveCommits ==
    ASSUME TxInv, NEW p \in Call, CommitLeave(p)
    PROVE  (\E r \in Room, u \in User : HostLeaves(r, u) \/ GuestLeaves(r, u)) /\ TxInv'
<1>1. PICK c \in Request, r \in Room, u \in User :
          /\ c = calls[p] /\ r = c.room /\ u = c.user
          /\ lock[r] = p /\ status[r] # "none"
          /\ c.seen = status[r] /\ c.rows = Active(r)
  BY AboutToWrite DEF CommitLeave, StatusWithoutGuest
<1>2. /\ MayLeave(c)
      /\ UNCHANGED <<lobbyVars, overdue, battles>>
      /\ Ends(p)
  BY <1>1 DEF CommitLeave, StatusWithoutGuest
<1>3. LeaveAllowed(r, u)
  BY <1>1, <1>2 DEF MayLeave, HasSeat, LeaveAllowed, IsActive
<1>4. CASE host[r] = u
  <2>1. /\ status' = [status EXCEPT ![r] = "closed"]
        /\ players' = [players EXCEPT ![r] = AllLeft(@)]
    BY <1>1, <1>4 DEF CommitLeave, StatusWithoutGuest
  <2>2. HostLeaves(r, u)
    BY <1>2, <1>3, <1>4, <2>1 DEF HostLeaves
  <2>3. TypeOK'
    BY <2>2, TypeStep DEF TxInv, Next
  <2>4. \A x \in Room : /\ lock[x] # p => status'[x] = status[x] /\ players'[x] = players[x]
                        /\ status'[x] = "none" <=> status[x] = "none"
    BY <1>1, <2>1 DEF TxInv, TypeOK
  <2>5. QED
    BY <1>2, <2>2, <2>3, <2>4, Ended DEF lobbyVars
<1>5. CASE host[r] # u
  <2>1. /\ status' = IF status[r] = "ready" THEN [status EXCEPT ![r] = "waiting"] ELSE status
        /\ players' = [players EXCEPT ![r] = WithStatus(@, u, "left")]
    BY <1>1, <1>5 DEF CommitLeave, StatusWithoutGuest
  <2>2. status' = [status EXCEPT ![r] = StatusWithoutGuest(@)]
    BY <2>1 DEF StatusWithoutGuest, TxInv, TypeOK
  <2>3. GuestLeaves(r, u)
    BY <1>2, <1>3, <1>5, <2>1, <2>2 DEF GuestLeaves
  <2>4. TypeOK'
    BY <2>3, TypeStep DEF TxInv, Next
  <2>5. \A x \in Room : /\ lock[x] # p => status'[x] = status[x] /\ players'[x] = players[x]
                        /\ status'[x] = "none" <=> status[x] = "none"
    BY <1>1, <2>1 DEF TxInv, TypeOK
  <2>6. QED
    BY <1>2, <2>3, <2>4, <2>5, Ended DEF lobbyVars
<1>6. QED
  BY <1>4, <1>5

LEMMA StartCommits ==
    ASSUME TxInv, NEW p \in Call, NEW b \in Battle, CommitStart(p, b)
    PROVE  (\E r \in Room, u \in User : StartBattle(r, u, b)) /\ TxInv'
<1>1. PICK c \in Request, r \in Room, u \in User :
          /\ c = calls[p] /\ r = c.room /\ u = c.user
          /\ lock[r] = p /\ status[r] # "none"
          /\ c.seen = status[r] /\ c.rows = Active(r)
  BY AboutToWrite DEF CommitStart
<1>2. /\ MayStart(c) /\ battles[b] = Null
      /\ status' = [status EXCEPT ![r] = "in_battle"]
      /\ battles' = [battles EXCEPT ![b] =
            [room |-> r, players |-> {x.user : x \in Active(r)},
             duration |-> BattleDuration(r), status |-> "active", over |-> FALSE]]
      /\ UNCHANGED <<lobbyVars, overdue, players>>
      /\ Ends(p)
  BY <1>1 DEF CommitStart
<1>3. StartBattle(r, u, b)
  BY <1>1, <1>2 DEF MayStart, StartBattle, Members
<1>4. TypeOK'
  BY <1>3, TypeStep DEF TxInv, Next
<1>5. \A x \in Room : /\ lock[x] # p => status'[x] = status[x]
                      /\ status'[x] = "none" <=> status[x] = "none"
  BY <1>1, <1>2 DEF TxInv, TypeOK
<1>6. QED
  BY <1>2, <1>3, <1>4, <1>5, Ended DEF lobbyVars

LEMMA CreateCommits ==
    ASSUME TxInv, NEW p \in Call, NEW r \in Room, NEW d \in Duration, CommitCreate(p, r, d)
    PROVE  (\E u \in User, c \in Code : CreateRoom(r, u, c, d)) /\ TxInv'
<1> USE DEF TxInv
<1>1. PICK u \in User, c \in Code : u = calls[p].user /\ c = calls[p].code
  BY DEF CommitCreate, At, Requests, Sound, HasCode, Request
<1>2. ~CodeTaken(c) /\ status[r] = "none" /\ Ends(p) /\ At(p, "inserted")
  BY <1>1 DEF CommitCreate, At, Requests, Sound, Exists
<1>3. CreateRoom(r, u, c, d)
  BY <1>1, <1>2 DEF CommitCreate, CreateRoom
<1>4. TypeOK'
  BY <1>3, TypeStep DEF Next
<1>5. /\ \A x \in Room \ {r} : status'[x] = status[x] /\ players'[x] = players[x]
                                                     /\ code'[x] = code[x]
      /\ status'[r] = "waiting" /\ code'[r] = c /\ overdue' = overdue
  BY <1>3 DEF CreateRoom, TypeOK
<1>6. \A e : CodeTaken(e)' => CodeTaken(e) \/ e = c
  BY <1>5 DEF CodeTaken, Exists
<1>7. /\ lock' \in [Room -> Call \cup {Sweeper, Null}]
      /\ \A x \in Room : lock[x] \notin {p, Null} => lock'[x] = lock[x]
      /\ \A x \in Room : lock'[x] = Sweeper => lock[x] = Sweeper
      /\ pass' = pass
      /\ calls' \in [Call -> Request \cup {Null}]
      /\ calls'[p] = Null
      /\ \A q \in Call \ {p} : calls'[q] = calls[q]
  BY <1>2, TxAssumption DEF Ends, ReleasedBy
<1>8. ASSUME NEW q \in Call \ {p}, calls[q] # Null
      PROVE  Sound(q, calls[q])'
  <2>1. PICK e \in Request : e = calls[q]
    BY <1>8
  <2>2. Sound(q, e)
    BY <1>8, <2>1 DEF Requests
  <2>3. HoldsRoom(e) => /\ e.room \in Room \ {r} /\ lock'[e.room] = lock[e.room]
    BY <1>2, <1>7, <2>2, TxAssumption DEF Sound
  <2>4. HoldsRoom(e) => /\ status'[e.room] = status[e.room]
                        /\ Active(e.room)' = Active(e.room)
    BY <1>5, <2>3 DEF Active
  <2>5. e.at = "inserted" => ~CodeTaken(e.code)'
    BY <1>1, <1>2, <1>6, <2>1, <2>2, <1>8 DEF Sound, OneInsert, At
  <2>6. Sound(q, e)'
    BY <2>2, <2>3, <2>4, <2>5 DEF Sound
  <2>7. QED
    BY <1>7, <2>1, <2>6
<1>9. Requests'
  BY <1>7, <1>8 DEF Requests
<1>10. OneInsert'
  BY <1>7 DEF OneInsert, At
<1>11. SweepLocks'
  <2>1. \A x \in Room : lock[x] = Sweeper => lock'[x] = Sweeper
    BY <1>7, TxAssumption
  <2>2. \A x \in Room : x \in ExpiredRooms => x \in ExpiredRooms'
    BY <1>2, <1>5 DEF ExpiredRooms, Open
  <2>3. QED
    BY <1>7, <2>1, <2>2 DEF SweepLocks, Pass
<1>12. QED
  BY <1>3, <1>4, <1>7, <1>9, <1>10, <1>11

-----------------------------------------------------------------------------
(* The steps of the others: the worker, the battles and the clock.         *)

LEMMA OtherStep ==
    ASSUME TxInv, TypeOK', SweepLocks', calls' = calls, code' = code,
           lock' \in [Room -> Call \cup {Sweeper, Null}],
           \A r \in Room : lock[r] \in Call =>
               /\ lock'[r] = lock[r]
               /\ status'[r] = status[r] /\ players'[r] = players[r],
           \A r \in Room : status'[r] = "none" <=> status[r] = "none"
    PROVE  TxInv'
<1> USE DEF TxInv
<1>1. \A e : CodeTaken(e)' <=> CodeTaken(e)
  BY DEF CodeTaken, Exists
<1>2. ASSUME NEW q \in Call, calls[q] # Null
      PROVE  Sound(q, calls[q])'
  <2>1. PICK e \in Request : e = calls[q]
    BY <1>2
  <2>2. Sound(q, e)
    BY <1>2, <2>1 DEF Requests
  <2>3. HoldsRoom(e) => /\ lock'[e.room] = lock[e.room]
                        /\ status'[e.room] = status[e.room]
                        /\ Active(e.room)' = Active(e.room)
    BY <2>2 DEF Sound, Active
  <2>4. Sound(q, e)'
    BY <1>1, <2>2, <2>3 DEF Sound
  <2>5. QED
    BY <2>1, <2>4
<1>3. Requests' /\ OneInsert'
  BY <1>2 DEF Requests, OneInsert, At
<1>4. QED
  BY <1>3

LEMMA WorkerStep ==
    ASSUME TxInv,
           SweepBegins \/ (\E r \in Room : SweepLock(r)) \/ SweepCommits \/ SweepFails
    PROVE  [Next]_vars /\ TxInv'
<1> USE DEF TxInv
<1>a. ASSUME UNCHANGED tables
      PROVE  /\ TypeOK' /\ code' = code /\ status' = status /\ players' = players
             /\ ExpiredRooms' = ExpiredRooms
  BY <1>a DEF tables, vars, lobbyVars, TypeOK, ExpiredRooms
<1>b. ASSUME SweepEnds
      PROVE  /\ SweepLocks'
             /\ calls' = calls
             /\ lock' \in [Room -> Call \cup {Sweeper, Null}]
             /\ \A r \in Room : lock[r] \in Call => lock'[r] = lock[r]
  BY <1>b, TxAssumption DEF SweepEnds, ReleasedBy, SweepLocks
<1>1. CASE SweepBegins
  <2>1. /\ UNCHANGED tables /\ lock' = lock /\ calls' = calls
        /\ pass = Null /\ pass' = [todo |-> ExpiredRooms, got |-> {}]
    BY <1>1 DEF SweepBegins
  <2>2. ExpiredRooms \in SUBSET Room
    BY DEF ExpiredRooms
  <2>3. pass' \in Pass /\ pass' # Null /\ pass'.got = {}
    BY <2>1, <2>2, TxAssumption DEF Pass
  <2>4. SweepLocks'
    BY <2>1, <2>3 DEF SweepLocks
  <2>5. QED
    BY <1>a, <2>1, <2>4, OtherStep DEF tables
<1>2. ASSUME NEW r \in Room, SweepLock(r)
      PROVE  [Next]_vars /\ TxInv'
  <2>1. UNCHANGED tables /\ calls' = calls /\ pass # Null /\ lock[r] = Null
    BY <1>2 DEF SweepLock, Free
  <2>2. pass \in Pass
    BY <2>1 DEF SweepLocks
  <2>3. CASE StillExpired(r)
    <3>1. /\ lock' = [lock EXCEPT ![r] = Sweeper]
          /\ pass' = [todo |-> pass.todo \ {r}, got |-> pass.got \cup {r}]
          /\ r \in ExpiredRooms
      BY <1>2, <2>3 DEF SweepLock, StillExpired
    <3>2. pass' \in Pass /\ pass' # Null /\ pass'.got = pass.got \cup {r}
      BY <2>2, <3>1, TxAssumption DEF Pass
    <3>3. SweepLocks'
      BY <1>a, <2>1, <3>1, <3>2 DEF SweepLocks
    <3>4. /\ lock' \in [Room -> Call \cup {Sweeper, Null}]
          /\ \A x \in Room : lock[x] \in Call => lock'[x] = lock[x]
      BY <2>1, <3>1, TxAssumption
    <3>5. QED
      BY <1>a, <2>1, <3>3, <3>4, OtherStep DEF tables
  <2>4. CASE ~StillExpired(r)
    <3>1. lock' = lock /\ pass' = [pass EXCEPT !.todo = @ \ {r}]
      BY <1>2, <2>4 DEF SweepLock
    <3>2. pass' \in Pass /\ pass' # Null /\ pass'.got = pass.got
      BY <2>2, <3>1, TxAssumption DEF Pass
    <3>3. SweepLocks'
      BY <1>a, <2>1, <3>1, <3>2 DEF SweepLocks
    <3>4. QED
      BY <1>a, <2>1, <3>1, <3>3, OtherStep DEF tables
  <2>5. QED
    BY <2>3, <2>4
<1>3. CASE SweepCommits
  <2>1. PICK rs \in SUBSET Room : rs = pass.got
    BY <1>3 DEF SweepCommits, SweepLocks, Pass
  <2>2. /\ rs \subseteq ExpiredRooms
        /\ \A r \in rs : lock[r] = Sweeper
        /\ SweepEnds
    BY <1>3, <2>1 DEF SweepCommits, SweepLocks
  <2>3. /\ status' = [r \in Room |-> IF r \in rs THEN "expired" ELSE status[r]]
        /\ players' = [r \in Room |-> IF r \in rs THEN AllLeft(players[r]) ELSE players[r]]
        /\ UNCHANGED <<lobbyVars, overdue, battles>>
    BY <1>3, <2>1 DEF SweepCommits
  <2>4. CASE rs = {}
    <3>1. status' = status /\ players' = players
      BY <2>3, <2>4 DEF TypeOK
    <3>2. UNCHANGED tables
      BY <2>3, <3>1 DEF tables, vars, lobbyVars
    <3>3. QED
      BY <1>a, <1>b, <2>2, <3>2, OtherStep DEF tables
  <2>5. CASE rs # {}
    <3>1. ExpireRooms(rs)
      BY <2>2, <2>3, <2>5 DEF ExpireRooms
    <3>2. TypeOK' /\ Next
      BY <3>1, TypeStep DEF Next
    <3>3. \A r \in Room : /\ lock[r] \in Call => status'[r] = status[r] /\ players'[r] = players[r]
                          /\ status'[r] = "none" <=> status[r] = "none"
      BY <2>2, <2>3, TxAssumption DEF ExpiredRooms, Open
    <3>4. QED
      BY <1>b, <2>2, <2>3, <3>2, <3>3, OtherStep DEF lobbyVars
  <2>6. QED
    BY <2>4, <2>5
<1>4. CASE SweepFails
  BY <1>4, <1>a, <1>b, OtherStep DEF SweepFails, tables
<1>5. QED
  BY <1>1, <1>2, <1>3, <1>4

LEMMA OutsideStep ==
    ASSUME TxInv, IInv, (\E b \in Battle : Complete(b)) \/ TimePasses
    PROVE  Next /\ TxInv'
<1> USE DEF TxInv
<1>1. Next /\ lock' = lock /\ calls' = calls /\ pass' = pass
  BY DEF Complete, TimePasses, Next
<1>2. TypeOK'
  BY <1>1, TypeStep
<1> DEFINE Kept(r) == /\ overdue[r] => overdue'[r]
                      /\ lock[r] # Null => status'[r] = status[r]
                      /\ players'[r] = players[r]
                      /\ status'[r] = "none" <=> status[r] = "none"
<1>3. ASSUME NEW b \in Battle, Complete(b)
      PROVE  code' = code /\ \A r \in Room : Kept(r)
  <2>1. battles[b] \in BattleRow /\ battles[b].status = "active"
    BY <1>3 DEF Complete, CompleteBattle, Completable, TypeOK
  <2>2. PICK x \in Room : x = battles[b].room
    BY <2>1 DEF BattleRow
  <2>3. lock[x] = Null /\ status' = [status EXCEPT ![x] = "ready"] /\ status[x] = "in_battle"
    BY <1>3, <2>1, <2>2, NullAssumption
    DEF Complete, CompleteBattle, Free, IInv, BattleMatchesRoom, ActiveBattle
  <2>4. code' = code /\ overdue' = overdue /\ players' = players
    BY <1>3 DEF Complete, CompleteBattle, lobbyVars
  <2>5. QED
    BY <2>3, <2>4 DEF TypeOK
<1>4. ASSUME TimePasses
      PROVE  code' = code /\ \A r \in Room : Kept(r)
  BY <1>4 DEF TimePasses, LobbyTimeUp, BattleTimeUp, lobbyVars, TypeOK
<1>5. code' = code /\ \A r \in Room : Kept(r)
  BY <1>3, <1>4
<1>6. SweepLocks'
  <2>1. \A r \in Room : lock[r] = Sweeper /\ r \in ExpiredRooms => r \in ExpiredRooms'
    BY <1>5, TxAssumption DEF ExpiredRooms
  <2>2. QED
    BY <1>1, <2>1 DEF SweepLocks, Pass
<1>7. QED
  BY <1>1, <1>2, <1>5, <1>6, OtherStep, TxAssumption

-----------------------------------------------------------------------------
(* The theorems.                                                           *)

LEMMA TxInit_TxInv == TxInit => Init /\ TxInv /\ IInv
<1> SUFFICES ASSUME TxInit PROVE Init /\ TxInv /\ IInv
  OBVIOUS
<1>1. Init /\ TypeOK /\ IInv
  BY InitIInv DEF TxInit, Init, TypeOK, RoomStatus
<1>2. /\ \A p \in Call : calls[p] = Null
      /\ \A r \in Room : lock[r] = Null
      /\ pass = Null
  BY DEF TxInit
<1>3. Requests /\ OneInsert /\ SweepLocks
  BY <1>2, TxAssumption DEF Requests, OneInsert, At, SweepLocks
<1>4. QED
  BY <1>1, <1>3 DEF TxInv, TxInit

LEMMA TxStep == TxInv /\ IInv /\ [TxNext]_txVars => [Next]_vars /\ TxInv' /\ IInv'
<1> SUFFICES ASSUME TxInv, IInv, [TxNext]_txVars PROVE [Next]_vars /\ TxInv'
  <2>1. IInv /\ TypeOK' /\ [Next]_vars => IInv'
    BY NextIInv
  <2>2. QED
    BY <2>1 DEF TxInv
<1>1. ASSUME NEW p \in Call, NEW k \in Kind, NEW u \in User, NEW c \in Code, Arrive(p, k, u, c)
      PROVE  [Next]_vars /\ TxInv'
  BY <1>1, Quiet
<1>2. ASSUME NEW p \in Call, NEW r \in Room, Find(p, r)
      PROVE  [Next]_vars /\ TxInv'
  BY <1>2, Quiet
<1>3. ASSUME NEW p \in Call, Proceed(p) \/ InsertRoom(p) \/ Abort(p)
      PROVE  [Next]_vars /\ TxInv'
  <2>1. CASE CommitJoin(p)
    BY <2>1, JoinCommits DEF Next
  <2>2. CASE CommitToggle(p)
    BY <2>2, ToggleCommits DEF Next
  <2>3. CASE CommitLeave(p)
    BY <2>3, LeaveCommits DEF Next
  <2>4. CASE ~CommitJoin(p) /\ ~CommitToggle(p) /\ ~CommitLeave(p)
    BY <1>3, <2>4, Quiet DEF Proceed
  <2>5. QED
    BY <2>1, <2>2, <2>3, <2>4
<1>4. ASSUME NEW p \in Call, NEW r \in Room, NEW d \in Duration, CommitCreate(p, r, d)
      PROVE  [Next]_vars /\ TxInv'
  BY <1>4, CreateCommits DEF Next
<1>5. ASSUME NEW p \in Call, NEW b \in Battle, CommitStart(p, b)
      PROVE  [Next]_vars /\ TxInv'
  BY <1>5, StartCommits DEF Next
<1>6. ASSUME SweepBegins \/ (\E r \in Room : SweepLock(r)) \/ SweepCommits \/ SweepFails
      PROVE  [Next]_vars /\ TxInv'
  BY <1>6, WorkerStep
<1>7. ASSUME (\E b \in Battle : Complete(b)) \/ TimePasses
      PROVE  [Next]_vars /\ TxInv'
  BY <1>7, OutsideStep
<1>8. CASE UNCHANGED txVars
  <2>1. UNCHANGED tables /\ lock' = lock /\ calls' = calls /\ pass' = pass
    BY <1>8 DEF txVars, tables
  <2>2. /\ status' = status /\ players' = players /\ code' = code /\ overdue' = overdue
        /\ TypeOK' /\ SweepLocks'
    BY <2>1 DEF tables, vars, lobbyVars, TxInv, TypeOK, SweepLocks, ExpiredRooms
  <2>3. QED
    BY <2>1, <2>2, OtherStep DEF TxInv, tables
<1>9. QED
  BY <1>1, <1>2, <1>3, <1>4, <1>5, <1>6, <1>7, <1>8 DEF TxNext

\* The inductive invariants of the tables and of the requests hold together.
THEOREM TxInvariance == TxSpec => [](TxInv /\ IInv)
  BY TxInit_TxInv, TxStep, PTL DEF TxSpec

\* However the statements of any number of requests interleave with the passes
\* of the worker and the completions of battles, the tables go through a
\* behaviour of Rooms, so every theorem about Rooms holds of RoomsTx.
THEOREM RequestsImplementRooms == TxSpec => ImplementsRooms
<1>1. TxSpec => [][Next]_vars
  BY TxStep, TxInvariance, PTL DEF TxSpec
<1>2. TxSpec => Init
  BY TxInit_TxInv, PTL DEF TxSpec
<1>3. QED
  BY <1>1, <1>2, PTL DEF ImplementsRooms, Spec

\* What a request has read under the lock of its room is so when it writes.
THEOREM ReadsAlwaysHold == TxSpec => []ReadsHold
<1>1. TxInv => ReadsHold
  BY DEF TxInv, Requests, Sound, HoldsRoom, ReadsHold, At
<1>2. QED
  BY <1>1, TxInvariance, PTL

\* The worker expires only rooms that are overdue and open when it commits.
THEOREM SweepsAlwaysHold == TxSpec => []SweepHolds
<1>1. TxInv => SweepHolds
  BY DEF TxInv, SweepLocks, SweepHolds
<1>2. QED
  BY <1>1, TxInvariance, PTL

\* Locks, requests and the pass of the worker are well formed.
THEOREM TxTypeCorrect == TxSpec => []TxTypeOK
<1>1. TxInv => TxTypeOK
  BY DEF TxInv, SweepLocks, TxTypeOK
<1>2. QED
  BY <1>1, TxInvariance, PTL

\* No insert of a player that passed the checks is refused by a unique index.
THEOREM InsertsAlwaysAccepted == TxSpec => []InsertsAccepted
<1>1. TxSpec => []IndexesRedundant
  BY RequestsImplementRooms, IndexesAlwaysRedundant DEF ImplementsRooms
<1>2. TxInv /\ IndexesRedundant => InsertsAccepted
  <2> SUFFICES ASSUME TxInv, IndexesRedundant, NEW p \in Call, At(p, "write"),
                      calls[p].kind = "join", ~HasSeat(calls[p]),
                      calls[p].seen = "waiting", \A x, y \in calls[p].rows : x = y
               PROVE  UniqueActive(players[calls[p].room] \cup {Seat(calls[p])})
    BY DEF InsertsAccepted
  <2>1. PICK c \in Request, r \in Room, u \in User :
            /\ c = calls[p] /\ r = c.room /\ u = c.user
            /\ lock[r] = p /\ status[r] # "none"
            /\ c.seen = status[r] /\ c.rows = Active(r)
    BY AboutToWrite
  <2>2. JoinAllowed(r, u)
    BY <2>1 DEF JoinAllowed, HasSeat, IsActive, Full
  <2>3. Seat(c) = Newcomer(r, u)
    BY <2>1 DEF Seat, Newcomer, SeatFor
  <2>4. QED
    BY <2>1, <2>2, <2>3 DEF IndexesRedundant
<1>3. QED
  BY <1>1, <1>2, TxInvariance, PTL
=============================================================================
