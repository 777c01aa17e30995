------------------------- MODULE AuthSessionsProofs -------------------------
(***************************************************************************)
(* Theorems about AuthSessions, for any number of browsers, concurrent     *)
(* requests, accounts and tokens.                                          *)
(***************************************************************************)
EXTENDS AuthSessions, TLAPS

-----------------------------------------------------------------------------
(***************************************************************************)
(* The inductive invariant.  A rotation puts one session in the place of   *)
(* another only because the row it has locked is still live when the new   *)
(* one is inserted, and because no other request holds that row.           *)
(***************************************************************************)

\* What holds of a table of sessions, given the table of accounts.
TableOK(ses, acc) ==
    /\ ses \in [Token -> SessionRow \cup {Null}]
    /\ \A t \in Token : ses[t] # Null =>
          acc[ses[t].user] # "none" /\ ses[ses[t].signIn] # Null
    /\ \A t, u \in Token :
          /\ ses[t] # Null /\ ses[t].revoked # "rotated"
          /\ ses[u] # Null /\ ses[u].revoked # "rotated"
          /\ ses[t].signIn = ses[u].signIn
          => t = u
    /\ \A t \in Token : ses[t] # Null =>
          \E u \in Token : /\ ses[u] # Null /\ ses[u].revoked # "rotated"
                           /\ ses[t].signIn = ses[u].signIn

\* What the next statement of a request relies on.
RequestOK(r, ses, acc) ==
    /\ r \in Request
    /\ r.at \in {"createUser", "findUser", "issue"} => r.user \in Email
    /\ r.at = "issue" => acc[r.user] # "none"
    /\ r.at \in {"findSession", "revokeOld", "insertNew", "revoke"} =>
          r.cookie \in Token /\ ses[r.cookie] # Null
    /\ r.at = "insertNew" => ses[r.cookie].revoked = "live"
    /\ r.at = "signedIn" => r.issued \in Token /\ ses[r.issued] # Null

OneHolder ==
    \A g, h \in Handler :
        At(g, "insertNew") /\ At(h, "insertNew") /\ request[g].cookie = request[h].cookie
        => g = h

IInv ==
    /\ account \in [Email -> {"none", "active", "disabled"}]
    /\ TableOK(session, account)
    /\ request \in [Handler -> Request \cup {Null}]
    /\ \A h \in Handler : request[h] # Null => RequestOK(request[h], session, account)
    /\ OneHolder
    /\ jar \in [Browser -> Token \cup {Null}]
    /\ \A b \in Browser : jar[b] # Null => session[jar[b]] # Null

-----------------------------------------------------------------------------
(* What the statements do to the table of sessions.                        *)

\* A login inserts a session that is its own sign-in.
LEMMA InsertedRow ==
    ASSUME NEW ses, NEW acc, NEW e \in Email, NEW t \in Token,
           TableOK(ses, acc), ses[t] = Null, acc[e] # "none"
    PROVE  TableOK([ses EXCEPT ![t] = SessionFor(e, t)], acc)
  <1> DEFINE new == [ses EXCEPT ![t] = SessionFor(e, t)]
  <1>1. SessionFor(e, t) \in SessionRow /\ SessionFor(e, t) # Null
    <2>1. SessionFor(e, t) \in SessionRow
      BY DEF SessionFor, SessionRow
    <2>2. QED
      BY <2>1, NullAssumption
  <1>2. /\ new \in [Token -> SessionRow \cup {Null}]
        /\ new[t] = SessionFor(e, t)
        /\ \A u \in Token \ {t} : new[u] = ses[u]
    BY <1>1 DEF TableOK
  <1>3. \A u \in Token : ses[u] # Null => ses[u].signIn \in Token /\ ses[u].signIn # t
    BY DEF TableOK, SessionRow
  <1>4. /\ new[t].user = e /\ new[t].signIn = t /\ new[t].revoked = "live"
    BY <1>2 DEF SessionFor
  <1>5. QED
    BY <1>1, <1>2, <1>3, <1>4 DEF TableOK

\* A rotation replaces the session of a sign-in by another.
LEMMA RotatedRow ==
    ASSUME NEW ses, NEW acc, NEW old \in Token, NEW t \in Token,
           TableOK(ses, acc), ses[t] = Null, ses[old] # Null, ses[old].revoked = "live"
    PROVE  TableOK([ses EXCEPT ![old].revoked = "rotated",
                               ![t] = SessionFor(ses[old].user, ses[old].signIn)], acc)
  <1> DEFINE row == SessionFor(ses[old].user, ses[old].signIn)
             gone == [ses[old] EXCEPT !.revoked = "rotated"]
             new == [ses EXCEPT ![old].revoked = "rotated", ![t] = row]
  <1>1. ses[old] \in SessionRow
    BY DEF TableOK
  <1>2. row \in SessionRow /\ row # Null /\ gone \in SessionRow /\ gone # Null
    <2>1. row \in SessionRow
      BY <1>1 DEF SessionFor, SessionRow
    <2>2. gone \in SessionRow
      BY <1>1 DEF SessionRow
    <2>3. QED
      BY <2>1, <2>2, NullAssumption
  <1>3. /\ row.user = ses[old].user /\ row.signIn = ses[old].signIn /\ row.revoked = "live"
        /\ gone.user = ses[old].user /\ gone.signIn = ses[old].signIn
        /\ gone.revoked = "rotated"
    BY <1>1 DEF SessionFor, SessionRow
  <1>4. /\ new \in [Token -> SessionRow \cup {Null}]
        /\ new[t] = row /\ new[old] = gone
        /\ \A u \in Token \ {t, old} : new[u] = ses[u]
    BY <1>1, <1>2 DEF TableOK
  <1>5. \A u \in Token : ses[u] # Null => ses[u].signIn \in Token /\ ses[ses[u].signIn] # Null
    BY DEF TableOK, SessionRow
  <1>6. \A u \in Token : ses[u] # Null => new[u] # Null
    BY <1>2, <1>4
  <1> HIDE DEF row, gone, new
  <1>7. \A u \in Token : new[u] # Null =>
           acc[new[u].user] # "none" /\ new[new[u].signIn] # Null
    BY <1>3, <1>4, <1>5, <1>6 DEF TableOK
  <1>8. \A u, v \in Token :
           /\ new[u] # Null /\ new[u].revoked # "rotated"
           /\ new[v] # Null /\ new[v].revoked # "rotated"
           /\ new[u].signIn = new[v].signIn
           => u = v
    BY <1>3, <1>4 DEF TableOK
  <1>9. \A u \in Token : new[u] # Null =>
           \E v \in Token : /\ new[v] # Null /\ new[v].revoked # "rotated"
                            /\ new[u].signIn = new[v].signIn
    <2> SUFFICES ASSUME NEW u \in Token, new[u] # Null
                 PROVE  \E v \in Token : /\ new[v] # Null /\ new[v].revoked # "rotated"
                                         /\ new[u].signIn = new[v].signIn
      OBVIOUS
    <2>1. CASE new[u].signIn = ses[old].signIn
      BY <2>1, <1>2, <1>3, <1>4
    <2>2. CASE new[u].signIn # ses[old].signIn
      <3>1. u # t /\ u # old /\ new[u] = ses[u]
        BY <2>2, <1>3, <1>4
      <3>2. PICK v \in Token : /\ ses[v] # Null /\ ses[v].revoked # "rotated"
                               /\ ses[u].signIn = ses[v].signIn
        BY <3>1 DEF TableOK
      <3>3. v # t /\ v # old
        BY <2>2, <3>1, <3>2
      <3>4. QED
        BY <3>1, <3>2, <3>3, <1>4
    <2>3. QED
      BY <2>1, <2>2
  <1>10. QED
    BY <1>4, <1>7, <1>8, <1>9 DEF TableOK, new, row

\* A logout, and the clock, leave the sign-ins with the sessions they have.
LEMMA MarkedRow ==
    ASSUME NEW ses, NEW acc, NEW t \in Token, NEW row \in SessionRow,
           TableOK(ses, acc), ses[t] # Null,
           row.user = ses[t].user, row.signIn = ses[t].signIn,
           row.revoked = "rotated" <=> ses[t].revoked = "rotated"
    PROVE  TableOK([ses EXCEPT ![t] = row], acc)
  <1> DEFINE new == [ses EXCEPT ![t] = row]
  <1>1. row # Null
    BY NullAssumption
  <1>2. /\ new \in [Token -> SessionRow \cup {Null}]
        /\ new[t] = row
        /\ \A u \in Token \ {t} : new[u] = ses[u]
    BY DEF TableOK
  <1>3. \A u \in Token : /\ new[u] # Null <=> ses[u] # Null
                         /\ new[u].user = ses[u].user /\ new[u].signIn = ses[u].signIn
                         /\ new[u].revoked = "rotated" <=> ses[u].revoked = "rotated"
    BY <1>1, <1>2
  <1>4. \A u \in Token : ses[u] # Null => ses[u].signIn \in Token
    BY DEF TableOK, SessionRow
  <1> HIDE DEF new
  <1>5. QED
    BY <1>2, <1>3, <1>4 DEF TableOK, new

\* More accounts do no harm.
LEMMA MoreAccounts ==
    ASSUME NEW ses, NEW acc, NEW acc2, TableOK(ses, acc),
           \A e \in Email : acc[e] # "none" => acc2[e] # "none"
    PROVE  TableOK(ses, acc2)
  BY DEF TableOK, SessionRow

-----------------------------------------------------------------------------
(* What a step leaves of the requests.                                     *)

\* A request that did not move is still served as it expects, when accounts
\* and sessions only grow and the row it has locked is untouched.
LEMMA OthersServed ==
    ASSUME NEW r, NEW ses, NEW acc, NEW ses2, NEW acc2, RequestOK(r, ses, acc),
           \A e \in Email : acc[e] # "none" => acc2[e] # "none",
           \A t \in Token : ses[t] # Null => ses2[t] # Null,
           r.at = "insertNew" => ses2[r.cookie].revoked = ses[r.cookie].revoked
    PROVE  RequestOK(r, ses2, acc2)
  BY DEF RequestOK

\* A request moved on to statement s keeps its other fields.
LEMMA Moved ==
    ASSUME NEW r \in Request, NEW s \in Statement \cup Response
    PROVE  LET r2 == [r EXCEPT !.at = s] IN
           /\ r2 \in Request /\ r2.at = s
           /\ r2.by = r.by /\ r2.op = r.op /\ r2.user = r.user
           /\ r2.cookie = r.cookie /\ r2.issued = r.issued /\ r2.late = r.late
  BY DEF Request

LEMMA InitIInv == Init => IInv
  <1> SUFFICES ASSUME Init PROVE IInv
    OBVIOUS
  <1>1. TableOK(session, account)
    BY DEF Init, TableOK
  <1>2. QED
    BY <1>1 DEF Init, IInv, OneHolder, At

\* A step that only moves request h on to s, without touching a table.
LEMMA MoveOn ==
    ASSUME IInv, NEW h \in Handler, request[h] # Null,
           NEW s \in Statement \cup Response, Go(h, s),
           s # "signedIn", s # "createUser", s # "findUser",
           s = "issue" => request[h].user \in Email /\ account'[request[h].user] # "none",
           s \in {"findSession", "revokeOld", "insertNew", "revoke"} =>
              request[h].at \in {"findSession", "revokeOld", "insertNew", "revoke"},
           s = "insertNew" =>
              session[request[h].cookie].revoked = "live" /\ ~Locked(request[h].cookie),
           UNCHANGED <<session, jar>>,
           account' \in [Email -> {"none", "active", "disabled"}],
           \A e \in Email : account[e] # "none" => account'[e] # "none"
    PROVE  IInv'
  <1> DEFINE r2 == [request[h] EXCEPT !.at = s]
  <1>1. request[h] \in Request /\ RequestOK(request[h], session, account)
    BY DEF IInv
  <1>2. /\ r2 \in Request /\ r2.at = s
        /\ r2.user = request[h].user /\ r2.cookie = request[h].cookie
    BY <1>1, Moved
  <1>3. /\ request' \in [Handler -> Request \cup {Null}]
        /\ request'[h] = r2
        /\ \A g \in Handler \ {h} : request'[g] = request[g]
    BY <1>2 DEF Go, IInv
  <1>4. RequestOK(r2, session', account')
    BY <1>1, <1>2 DEF RequestOK
  <1>5. \A g \in Handler : request'[g] # Null => RequestOK(request'[g], session', account')
    <2> SUFFICES ASSUME NEW g \in Handler, g # h, request[g] # Null
                 PROVE  RequestOK(request[g], session', account')
      BY <1>3, <1>4
    <2>1. RequestOK(request[g], session, account)
      BY DEF IInv
    <2>2. QED
      BY <2>1, OthersServed
  <1>6. OneHolder'
    <2> SUFFICES ASSUME NEW f \in Handler, NEW g \in Handler, f # g,
                        request'[f] # Null, request'[f].at = "insertNew",
                        request'[g] # Null, request'[g].at = "insertNew",
                        request'[f].cookie = request'[g].cookie
                 PROVE  FALSE
      BY DEF OneHolder, At
    <2>1. CASE f # h /\ g # h
      BY <2>1, <1>3 DEF IInv, OneHolder, At
    <2>2. CASE f = h
      BY <2>2, <1>2, <1>3 DEF Locked, At
    <2>3. CASE g = h
      BY <2>3, <1>2, <1>3 DEF Locked, At
    <2>4. QED
      BY <2>1, <2>2, <2>3
  <1>7. TableOK(session', account')
    BY MoreAccounts DEF IInv
  <1>8. QED
    BY <1>3, <1>5, <1>6, <1>7 DEF IInv

\* The last statement of request h changes the sessions and sends response r2.
LEMMA Answer ==
    ASSUME IInv, NEW h \in Handler, NEW r2,
           RequestOK(r2, session', account), r2.at \in Response,
           request' = [request EXCEPT ![h] = r2],
           TableOK(session', account), UNCHANGED <<account, jar>>,
           \A t \in Token : session[t] # Null => session'[t] # Null,
           \A g \in Handler : g # h /\ At(g, "insertNew") =>
              session'[request[g].cookie].revoked = session[request[g].cookie].revoked
    PROVE  IInv'
  <1> USE DEF Response
  <1>1. /\ request' \in [Handler -> Request \cup {Null}]
        /\ request'[h] = r2
        /\ \A g \in Handler \ {h} : request'[g] = request[g]
    BY DEF IInv, RequestOK
  <1>2. \A g \in Handler : request'[g] # Null => RequestOK(request'[g], session', account')
    <2> SUFFICES ASSUME NEW g \in Handler, g # h, request[g] # Null
                 PROVE  RequestOK(request[g], session', account)
      BY <1>1
    <2>1. RequestOK(request[g], session, account)
      BY DEF IInv
    <2>2. request[g].at = "insertNew" =>
             session'[request[g].cookie].revoked = session[request[g].cookie].revoked
      BY DEF At
    <2>3. QED
      BY <2>1, <2>2, OthersServed
  <1>3. \A g \in Handler : At(g, "insertNew")' =>
           At(g, "insertNew") /\ request'[g] = request[g]
    BY <1>1 DEF At
  <1>4. OneHolder'
    BY <1>3 DEF OneHolder, IInv
  <1>5. QED
    BY <1>1, <1>2, <1>4 DEF IInv

-----------------------------------------------------------------------------
\* Every step preserves the invariant.
LEMMA NextIInv == IInv /\ [Next]_vars => IInv'
<1> SUFFICES ASSUME IInv, [Next]_vars PROVE IInv'
  OBVIOUS
<1> USE DEF Statement, Response
<1>a. \A h \in Handler : request[h] # Null =>
         request[h] \in Request /\ RequestOK(request[h], session, account)
  BY DEF IInv
<1>1. ASSUME NEW h \in Handler, NEW b \in Browser, NEW e \in Email \cup {Null},
             NEW op \in {"signup", "login", "refresh", "logout"},
             NEW first \in {"createUser", "findUser", "findSession", "revoke", "signedOut"},
             first \in {"createUser", "findUser"} => e \in Email,
             first \in {"findSession", "revoke"} => jar[b] # Null,
             Arrive(h, b, op, e, first)
      PROVE  IInv'
  <2> DEFINE r2 == [by |-> b, op |-> op, user |-> e, cookie |-> jar[b], at |-> first,
                    issued |-> Null, late |-> e # Null /\ account[e] = "disabled"]
  <2>1. r2 \in Request
    <3>1. jar[b] \in Token \cup {Null}
      BY DEF IInv
    <3>2. (e # Null /\ account[e] = "disabled") \in BOOLEAN
      OBVIOUS
    <3>3. QED
      BY <3>1, <3>2 DEF Request
  <2>2. /\ request' \in [Handler -> Request \cup {Null}]
        /\ request'[h] = r2
        /\ \A g \in Handler \ {h} : request'[g] = request[g]
    BY <1>1, <2>1 DEF Arrive, IInv
  <2>3. UNCHANGED <<account, session, jar>>
    BY <1>1 DEF Arrive
  <2>4. RequestOK(r2, session, account)
    <3>1. jar[b] # Null => jar[b] \in Token /\ session[jar[b]] # Null
      BY DEF IInv
    <3>2. r2.at = first /\ r2.user = e /\ r2.cookie = jar[b]
      OBVIOUS
    <3>3. QED
      BY <1>1, <2>1, <3>1, <3>2 DEF RequestOK
  <2>5. \A g \in Handler : At(g, "insertNew")' =>
           g # h /\ At(g, "insertNew") /\ request'[g] = request[g]
    BY <2>2 DEF At
  <2>6. OneHolder'
    BY <2>5 DEF OneHolder, IInv
  <2>7. QED
    BY <2>2, <2>3, <2>4, <2>6 DEF IInv
<1>2. ASSUME NEW h \in Handler, request[h] # Null,
             request' = [request EXCEPT ![h] = Null],
             UNCHANGED <<account, session>>, jar' \in [Browser -> Token \cup {Null}],
             \A b \in Browser : jar'[b] # Null => session[jar'[b]] # Null
      PROVE  IInv'
  <2>1. /\ request' \in [Handler -> Request \cup {Null}]
        /\ request'[h] = Null
        /\ \A g \in Handler \ {h} : request'[g] = request[g]
    BY <1>2 DEF IInv
  <2>2. OneHolder'
    BY <2>1 DEF OneHolder, At, IInv
  <2>3. QED
    BY <1>2, <2>1, <2>2 DEF IInv
<1>3. ASSUME NEW h \in Handler, Receive(h)
      PROVE  IInv'
  <2>1. CookieAfter(request[h]) \in Token \cup {Null}
    BY <1>3, <1>a DEF Receive, CookieAfter, RequestOK, IInv, Request
  <2>2. CookieAfter(request[h]) # Null => session[CookieAfter(request[h])] # Null
    BY <1>3, <1>a DEF Receive, CookieAfter, RequestOK, IInv, Request
  <2>3. /\ jar' \in [Browser -> Token \cup {Null}]
        /\ \A b \in Browser : jar'[b] # Null => session[jar'[b]] # Null
    BY <1>3, <2>1, <2>2 DEF Receive, IInv
  <2>4. QED
    BY <1>2, <1>3, <2>3 DEF Receive
<1>4. ASSUME NEW h \in Handler, Lose(h)
      PROVE  IInv'
  BY <1>2, <1>4 DEF Lose, IInv

<1>5. ASSUME NEW h \in Handler, Fail(h)
      PROVE  IInv'
  <2>1. Refusal(request[h]) \in {"signedOut", "refused"}
    BY DEF Refusal
  <2>2. /\ request[h] # Null /\ Go(h, Refusal(request[h]))
        /\ UNCHANGED <<account, session, jar>>
    BY <1>5 DEF Fail, RolledBack
  <2>3. QED
    BY <2>1, <2>2, MoveOn DEF IInv
<1>6. ASSUME NEW h \in Handler, CreateUser(h)
      PROVE  IInv'
  <2> DEFINE e == request[h].user
  <2>1. request[h] # Null /\ e \in Email
    BY <1>6, <1>a DEF CreateUser, At, RequestOK
  <2>2. CASE account[e] = "none"
    <3>1. /\ account' = [account EXCEPT ![e] = "active"] /\ Go(h, "issue")
          /\ UNCHANGED <<session, jar>>
      BY <1>6, <2>2 DEF CreateUser
    <3>2. /\ account' \in [Email -> {"none", "active", "disabled"}]
          /\ account'[e] = "active"
          /\ \A f \in Email : account[f] # "none" => account'[f] # "none"
      BY <2>1, <3>1 DEF IInv
    <3>3. QED
      BY <2>1, <3>1, <3>2, MoveOn
  <2>3. CASE account[e] # "none"
    <3>1. Refusal(request[h]) \in {"signedOut", "refused"}
      BY DEF Refusal
    <3>2. Go(h, Refusal(request[h])) /\ UNCHANGED <<account, session, jar>>
      BY <1>6, <2>3 DEF CreateUser
    <3>3. QED
      BY <2>1, <3>1, <3>2, MoveOn DEF IInv
  <2>4. QED
    BY <2>2, <2>3
<1>7. ASSUME NEW h \in Handler, FindUser(h)
      PROVE  IInv'
  <2>1. Refusal(request[h]) \in {"signedOut", "refused"}
    BY DEF Refusal
  <2>2. request[h] # Null /\ request[h].user \in Email
    BY <1>7, <1>a DEF FindUser, At, RequestOK
  <2>3. PICK s \in {"issue", Refusal(request[h])} :
           Go(h, s) /\ (s = "issue" => account[request[h].user] = "active")
    BY <1>7, <2>1 DEF FindUser, CanSignIn
  <2>4. UNCHANGED <<account, session, jar>>
    BY <1>7 DEF FindUser
  <2>5. QED
    BY <2>1, <2>2, <2>3, <2>4, MoveOn DEF IInv
<1>8. ASSUME NEW h \in Handler, FindSession(h)
      PROVE  IInv'
  <2>1. Refusal(request[h]) \in {"signedOut", "refused"}
    BY DEF Refusal
  <2>2. request[h] # Null /\ request[h].at = "findSession"
    BY <1>8 DEF FindSession, At
  <2>3. PICK s \in {"revokeOld", Refusal(request[h])} : Go(h, s)
    BY <1>8 DEF FindSession
  <2>4. UNCHANGED <<account, session, jar>>
    BY <1>8 DEF FindSession
  <2>5. QED
    BY <2>1, <2>2, <2>3, <2>4, MoveOn DEF IInv
<1>9. ASSUME NEW h \in Handler, RevokeOld(h)
      PROVE  IInv'
  <2>1. Refusal(request[h]) \in {"signedOut", "refused"}
    BY DEF Refusal
  <2>2. request[h] # Null /\ request[h].at = "revokeOld" /\ ~Locked(request[h].cookie)
    BY <1>9 DEF RevokeOld, At
  <2>3. PICK s \in {"insertNew", Refusal(request[h])} :
           Go(h, s) /\ (s = "insertNew" => session[request[h].cookie].revoked = "live")
    BY <1>9, <2>1 DEF RevokeOld, Rotatable, Usable
  <2>4. UNCHANGED <<account, session, jar>>
    BY <1>9 DEF RevokeOld
  <2>5. QED
    BY <2>1, <2>2, <2>3, <2>4, MoveOn DEF IInv
<1>10. ASSUME NEW h \in Handler, NEW t \in Token, Issue(h, t)
       PROVE  IInv'
  <2> DEFINE e == request[h].user
             signedIn == [request[h] EXCEPT !.at = "signedIn", !.issued = t]
             refused == [request[h] EXCEPT !.at = Refusal(request[h])]
  <2>1. /\ request[h] \in Request /\ e \in Email /\ account[e] # "none"
        /\ session[t] = Null
    BY <1>10, <1>a DEF Issue, At, Unused, RequestOK
  <2>2. session' = [session EXCEPT ![t] = SessionFor(e, t)]
    BY <1>10 DEF Issue
  <2>3. TableOK(session', account)
    BY <2>1, <2>2, InsertedRow DEF IInv
  <2>4. /\ session' \in [Token -> SessionRow \cup {Null}]
        /\ session'[t] = SessionFor(e, t)
        /\ \A u \in Token \ {t} : session'[u] = session[u]
    BY <2>2, <2>3 DEF TableOK, IInv
  <2>5. session'[t] # Null
    <3>1. SessionFor(e, t) \in SessionRow
      BY <2>1 DEF SessionFor, SessionRow
    <3>2. QED
      BY <2>4, <3>1, NullAssumption
  <2>6. \A g \in Handler : g # h /\ At(g, "insertNew") =>
           session'[request[g].cookie].revoked = session[request[g].cookie].revoked
    BY <1>a, <2>1, <2>4 DEF At, RequestOK
  <2>7. PICK r2 \in {signedIn, refused} : request' = [request EXCEPT ![h] = r2]
    BY <1>10 DEF Issue, Go
  <2>8. Refusal(request[h]) \in {"signedOut", "refused"}
    BY DEF Refusal
  <2>9. signedIn \in Request /\ signedIn.at = "signedIn" /\ signedIn.issued = t
    BY <2>1 DEF Request
  <2>10. refused \in Request /\ refused.at = Refusal(request[h])
    BY <2>1, <2>8, Moved
  <2>11. RequestOK(r2, session', account) /\ r2.at \in Response
    BY <2>5, <2>7, <2>8, <2>9, <2>10 DEF RequestOK
  <2>12. UNCHANGED <<account, jar>>
    BY <1>10 DEF Issue
  <2>13. \A u \in Token : session[u] # Null => session'[u] # Null
    BY <2>1, <2>4
  <2>14. QED
    BY <2>3, <2>6, <2>7, <2>11, <2>12, <2>13, Answer
<1>11. ASSUME NEW h \in Handler, NEW t \in Token, InsertNew(h, t)
       PROVE  IInv'
  <2> DEFINE old == request[h].cookie
             row == SessionFor(session[old].user, session[old].signIn)
             signedIn == [request[h] EXCEPT !.at = "signedIn", !.issued = t]
             refused == [request[h] EXCEPT !.at = Refusal(request[h])]
  <2>1. /\ request[h] \in Request /\ old \in Token /\ session[old] # Null
        /\ session[old].revoked = "live" /\ session[t] = Null
    BY <1>11, <1>a DEF InsertNew, At, Unused, RequestOK
  <2>2. session' = [session EXCEPT ![old].revoked = "rotated", ![t] = row]
    BY <1>11 DEF InsertNew
  <2>3. TableOK(session', account)
    BY <2>1, <2>2, RotatedRow DEF IInv
  <2>4. /\ session' \in [Token -> SessionRow \cup {Null}]
        /\ session'[t] = row
        /\ session'[old] = [session[old] EXCEPT !.revoked = "rotated"]
        /\ \A u \in Token \ {t, old} : session'[u] = session[u]
    <3>1. session' \in [Token -> SessionRow \cup {Null}]
      BY <2>3 DEF TableOK
    <3>2. session \in [Token -> SessionRow \cup {Null}] /\ t # old
      BY <2>1 DEF TableOK, IInv
    <3> HIDE DEF row
    <3>3. QED
      BY <2>1, <2>2, <3>1, <3>2
  <2>5. session'[t] # Null /\ session'[old] # Null
    <3>1. session[old] \in SessionRow
      BY <2>1 DEF IInv, TableOK
    <3>2. row \in SessionRow
      BY <3>1 DEF SessionFor, SessionRow
    <3>3. [session[old] EXCEPT !.revoked = "rotated"] \in SessionRow
      BY <3>1 DEF SessionRow
    <3>4. QED
      BY <2>4, <3>2, <3>3, NullAssumption
  <2>6. \A g \in Handler : g # h /\ At(g, "insertNew") =>
           session'[request[g].cookie].revoked = session[request[g].cookie].revoked
    <3> SUFFICES ASSUME NEW g \in Handler, g # h, At(g, "insertNew")
                 PROVE  request[g].cookie \in Token \ {t, old}
      BY <2>4
    <3>1. request[g].cookie \in Token /\ session[request[g].cookie] # Null
      BY <1>a DEF At, RequestOK
    <3>2. request[g].cookie # old
      BY <1>11 DEF InsertNew, IInv, OneHolder
    <3>3. QED
      BY <2>1, <3>1, <3>2
  <2>7. PICK r2 \in {signedIn, refused} : request' = [request EXCEPT ![h] = r2]
    BY <1>11 DEF InsertNew, Go
  <2>8. Refusal(request[h]) \in {"signedOut", "refused"}
    BY DEF Refusal
  <2>9. signedIn \in Request /\ signedIn.at = "signedIn" /\ signedIn.issued = t
    BY <2>1 DEF Request
  <2>10. refused \in Request /\ refused.at = Refusal(request[h])
    BY <2>1, <2>8, Moved
  <2>11. RequestOK(r2, session', account) /\ r2.at \in Response
    BY <2>5, <2>7, <2>8, <2>9, <2>10 DEF RequestOK
  <2>12. UNCHANGED <<account, jar>>
    BY <1>11 DEF InsertNew
  <2>13. \A u \in Token : session[u] # Null => session'[u] # Null
    BY <2>4, <2>5
  <2>14. QED
    BY <2>3, <2>6, <2>7, <2>11, <2>12, <2>13, Answer
<1>12. ASSUME NEW h \in Handler, Revoke(h)
       PROVE  IInv'
  <2> DEFINE t == request[h].cookie
             row == [session[t] EXCEPT !.revoked = "loggedOut"]
  <2>1. /\ request[h] # Null /\ request[h] \in Request
        /\ t \in Token /\ session[t] # Null /\ ~Locked(t)
    BY <1>12, <1>a DEF Revoke, At, RequestOK
  <2>2. PICK s \in {"signedOut", "refused"} :
           request' = [request EXCEPT ![h] = [request[h] EXCEPT !.at = s]]
    BY <1>12 DEF Revoke, Go, Refusal
  <2>3. LET r2 == [request[h] EXCEPT !.at = s] IN r2 \in Request /\ r2.at = s
    BY <2>1, Moved
  <2>4. RequestOK([request[h] EXCEPT !.at = s], session', account)
    BY <2>3 DEF RequestOK
  <2>5. UNCHANGED <<account, jar>>
    BY <1>12 DEF Revoke
  <2>6. CASE session[t].revoked = "live"
    <3>1. session' = [session EXCEPT ![t] = row]
      BY <1>12, <2>6 DEF Revoke
    <3>2. session[t] \in SessionRow
      BY <2>1 DEF IInv, TableOK
    <3>3. /\ row \in SessionRow
          /\ row.user = session[t].user /\ row.signIn = session[t].signIn
          /\ row.revoked = "loggedOut"
      BY <3>2 DEF SessionRow
    <3>4. TableOK(session', account)
      BY <2>1, <2>6, <3>1, <3>3, MarkedRow DEF IInv
    <3>5. \A u \in Token \ {t} : session'[u] = session[u]
      BY <3>1 DEF IInv, TableOK
    <3>6. session'[t] # Null
      BY <2>1, <3>1, <3>3, NullAssumption DEF IInv, TableOK
    <3>7. \A g \in Handler : g # h /\ At(g, "insertNew") =>
             session'[request[g].cookie].revoked = session[request[g].cookie].revoked
      BY <1>a, <2>1, <3>5 DEF Locked, At, RequestOK
    <3>8. \A u \in Token : session[u] # Null => session'[u] # Null
      BY <3>5, <3>6
    <3>9. QED
      BY <2>2, <2>3, <2>4, <2>5, <3>4, <3>7, <3>8, Answer
  <2>7. CASE session[t].revoked # "live"
    <3>1. session' = session
      BY <1>12, <2>7 DEF Revoke
    <3>2. QED
      BY <2>2, <2>3, <2>4, <2>5, <3>1, Answer DEF IInv
  <2>8. QED
    BY <2>6, <2>7
<1>13. ASSUME NEW t \in Token, Expire(t)
       PROVE  IInv'
  <2> DEFINE row == [session[t] EXCEPT !.expired = TRUE]
  <2>1. /\ session[t] # Null /\ session' = [session EXCEPT ![t] = row]
        /\ UNCHANGED <<account, request, jar>>
    BY <1>13 DEF Expire, Exists
  <2>2. session[t] \in SessionRow
    BY <2>1 DEF IInv, TableOK
  <2>3. /\ row \in SessionRow
        /\ row.user = session[t].user /\ row.signIn = session[t].signIn
        /\ row.revoked = session[t].revoked
    BY <2>2 DEF SessionRow
  <2>4. TableOK(session', account)
    BY <2>1, <2>3, MarkedRow DEF IInv
  <2>5. \A u \in Token : /\ session[u] # Null => session'[u] # Null
                         /\ session'[u].revoked = session[u].revoked
    BY <2>1, <2>3, NullAssumption DEF IInv, TableOK
  <2>6. \A h \in Handler : request[h] # Null => RequestOK(request[h], session', account)
    BY <1>a, <2>5, OthersServed DEF RequestOK
  <2>7. \A b \in Browser : jar[b] # Null => session'[jar[b]] # Null
    BY <2>5 DEF IInv
  <2>8. QED
    BY <2>1, <2>4, <2>6, <2>7 DEF IInv, OneHolder, At
<1>14. ASSUME NEW e \in Email, Disable(e)
       PROVE  IInv'
  <2>1. /\ account' = [account EXCEPT ![e] = "disabled"]
        /\ UNCHANGED <<session, request, jar>>
    BY <1>14 DEF Disable
  <2>2. /\ account' \in [Email -> {"none", "active", "disabled"}]
        /\ \A f \in Email : account[f] # "none" => account'[f] # "none"
    BY <2>1 DEF IInv
  <2>3. TableOK(session, account')
    BY <2>2, MoreAccounts DEF IInv
  <2>4. \A h \in Handler : request[h] # Null => RequestOK(request[h], session, account')
    BY <1>a, <2>2, OthersServed
  <2>5. QED
    BY <2>1, <2>2, <2>3, <2>4 DEF IInv, OneHolder, At
<1>15. ASSUME NEW h \in Handler, NEW b \in Browser, NEW e \in Email,
              SendSignup(h, b, e) \/ SendLogin(h, b, e)
       PROVE  IInv'
  BY <1>1, <1>15 DEF SendSignup, SendLogin
<1>16. ASSUME NEW h \in Handler, NEW b \in Browser, SendRefresh(h, b) \/ SendLogout(h, b)
       PROVE  IInv'
  <2>1. Owner(jar[b]) \in Email \cup {Null}
    <3>1. Exists(jar[b]) => session[jar[b]] \in SessionRow
      BY DEF Exists, IInv, TableOK
    <3>2. QED
      BY <3>1 DEF Owner, SessionRow
  <2>2. CASE SendRefresh(h, b)
    BY <1>1, <2>1, <2>2 DEF SendRefresh
  <2>3. CASE SendLogout(h, b)
    BY <1>1, <2>1, <2>3 DEF SendLogout
  <2>4. QED
    BY <1>16, <2>2, <2>3
<1>17. CASE UNCHANGED vars
  BY <1>17 DEF vars, IInv, OneHolder, At
<1>18. QED
  BY <1>3, <1>4, <1>5, <1>6, <1>7, <1>8, <1>9, <1>10, <1>11, <1>12, <1>13, <1>14, <1>15,
     <1>16, <1>17 DEF Next

\* The strengthened invariant holds in every reachable state.
THEOREM Invariance == Spec => []IInv
<1>1. QED
  BY InitIInv, NextIInv, PTL DEF Spec

-----------------------------------------------------------------------------
(* What the runs check.                                                    *)

\* Accounts, sessions, requests and cookies are always well formed.
THEOREM TypeCorrect == Spec => []TypeOK
<1>1. IInv => TypeOK
  BY NullAssumption DEF IInv, TypeOK, TableOK, Exists, SessionRow
<1>2. QED
  BY <1>1, Invariance, PTL

\* No race of refreshes and logouts leaves a sign-in with two sessions.
THEOREM NeverTwoSessions == Spec => []OneSessionPerSignIn
<1>1. IInv => OneSessionPerSignIn
  BY DEF IInv, OneSessionPerSignIn, TableOK, Current, SameSignIn, Exists
<1>2. QED
  BY <1>1, Invariance, PTL

\* No failure in the middle of a refresh leaves a sign-in with none.
THEOREM NeverNoSession == Spec => []RotationLosesNothing
<1>1. IInv => RotationLosesNothing
  <2> SUFFICES ASSUME IInv, NEW t \in Token, Exists(t)
               PROVE  \E u \in Token : Current(u) /\ SameSignIn(t, u)
    BY DEF RotationLosesNothing
  <2>1. PICK u \in Token : /\ session[u] # Null /\ session[u].revoked # "rotated"
                           /\ session[t].signIn = session[u].signIn
    BY DEF IInv, TableOK, Exists
  <2>2. QED
    BY <2>1, NullAssumption DEF Current, SameSignIn, Exists
<1>2. QED
  BY <1>1, Invariance, PTL

-----------------------------------------------------------------------------
(***************************************************************************)
(* Cookies.  A token is known to one browser only, so nobody rotates the   *)
(* cookie of a browser behind its back; and a careful browser has only one *)
(* request that could.                                                     *)
(***************************************************************************)

\* b keeps the token t in its jar, or it is in a request of b.
Holds(b, t) ==
    \/ jar[b] = t
    \/ \E h \in Handler : /\ request[h] # Null /\ request[h].by = b
                          /\ t \in {request[h].cookie, request[h].issued}

OneBrowser == \A t \in Token : \A b, c \in Browser : Holds(b, t) /\ Holds(c, t) => b = c

OneAtATime ==
    \A g, h \in Handler :
        /\ request[g] # Null /\ request[h] # Null
        /\ request[g].by \in Careful /\ request[g].by = request[h].by
        => g = h

\* No session of the sign-in of t is live.
Over(t) == \A u \in Token : Exists(u) /\ SameSignIn(u, t) => session[u].revoked # "live"

\* The response is on its way and changes the cookie.
Replaced(b) ==
    \E h \in Handler : /\ request[h] # Null /\ request[h].by = b
                       /\ request[h].at \in {"signedIn", "signedOut"}

\* What a request with the fields of r brings and what it is about to find.
CookieOK(r) ==
    /\ r.cookie # Null => Exists(r.cookie)
    /\ r.issued # Null => Exists(r.issued)
    /\ r.by \in Careful => r.cookie = jar[r.by]
    /\ r.at \in {"findSession", "revokeOld", "insertNew"} => r.op = "refresh"
    /\ r.at = "revoke" => r.op = "logout"
    /\ r.at = "findSession" => session[r.cookie].user = r.user
    /\ r.by \in Careful /\ r.at = "signedIn" => Current(r.issued)
    /\ r.by \in Careful /\ r.at = "signedOut" /\ r.op = "logout" /\ r.cookie # Null =>
          Over(r.cookie)
    /\ r.late => /\ r.user \in Email /\ account[r.user] = "disabled"
                 /\ r.at \notin {"issue", "revokeOld", "insertNew", "signedIn"}

CookieInv ==
    /\ OneBrowser
    /\ OneAtATime
    /\ \A h \in Handler : request[h] # Null => CookieOK(request[h])
    /\ \A b \in Careful : jar[b] # Null /\ ~Replaced(b) => Current(jar[b])

LEMMA InitCookieInv == Init => CookieInv
<1> SUFFICES ASSUME Init
             PROVE  CookieInv
  OBVIOUS
<1>1. \A h \in Handler : request[h] = Null
  BY DEF Init
<1>2. \A b \in Browser : jar[b] = Null
  BY DEF Init
<1>3. OneBrowser
  BY <1>1, <1>2, NullAssumption DEF OneBrowser, Holds
<1>4. QED
  BY <1>1, <1>2, <1>3, CarefulAssumption DEF CookieInv, OneAtATime

\* Who holds a token holds one that was issued.
LEMMA HeldExists ==
    ASSUME IInv, CookieInv, NEW b \in Browser, NEW t \in Token, Holds(b, t)
    PROVE  Exists(t)
<1>1. CASE jar[b] = t
  BY <1>1, NullAssumption DEF IInv, Exists
<1>2. CASE jar[b] # t
  <2>1. PICK h \in Handler : request[h] # Null /\ t \in {request[h].cookie, request[h].issued}
    BY <1>2 DEF Holds
  <2>2. CookieOK(request[h])
    BY <2>1 DEF CookieInv
  <2>3. QED
    BY <2>1, <2>2, NullAssumption DEF CookieOK
<1>3. QED
  BY <1>1, <1>2

\* What the steps do to accounts and sessions: sessions stay with their user and
\* their sign-in, a session becomes live only in the place of a live one or by a
\* new sign-in, and disabled accounts stay so.
Grows ==
    /\ \A t \in Token : Exists(t) => /\ Exists(t)'
                                     /\ session'[t].user = session[t].user
                                     /\ session'[t].signIn = session[t].signIn
    /\ \A u \in Token : Exists(u)' /\ session'[u].revoked = "live" =>
          \A c \in Token : Exists(c) /\ session[c].signIn = session'[u].signIn => ~Over(c)
    /\ \A e \in Email : account[e] = "disabled" => account'[e] = "disabled"

\* A sign-in that is over stays over.
LEMMA OverForGood ==
    ASSUME Grows, NEW c \in Token, Exists(c), Over(c)
    PROVE  Over(c)'
<1>1. PICK i : i = session[c].signIn /\ i = session'[c].signIn
  BY DEF Grows
<1>2. SUFFICES ASSUME NEW u \in Token, Exists(u)', session'[u].signIn = i
               PROVE  session'[u].revoked # "live"
  BY <1>1 DEF Over, SameSignIn
<1>3. QED
  BY <1>1, <1>2 DEF Grows

\* r2 is request r, further on.
SameRequest(r, r2) ==
    /\ r2.by = r.by /\ r2.op = r.op /\ r2.user = r.user
    /\ r2.cookie = r.cookie /\ r2.late = r.late

\* A request that rests, or that goes on without a new cookie, stays as it was.
LEMMA StaysOK ==
    ASSUME IInv, NEW r \in Request, CookieOK(r), Grows,
           r.by \in Careful => jar'[r.by] = jar[r.by],
           r.at = "findSession" => r.cookie # Null,
           r.by \in Careful /\ r.at = "signedIn" => Current(r.issued)'
    PROVE  CookieOK(r)'
<1>1. (r.cookie \in Token \cup {Null}) /\ (r.issued \in Token \cup {Null})
      /\ r.user \in Email \cup {Null}
  BY DEF Request
<1>2. r.cookie # Null => Exists(r.cookie)'
  BY <1>1 DEF CookieOK, Grows
<1>3. r.issued # Null => Exists(r.issued)'
  BY <1>1 DEF CookieOK, Grows
<1>4. r.at = "findSession" => session'[r.cookie].user = r.user
  BY <1>1 DEF CookieOK, Grows
<1>5. r.by \in Careful /\ r.at = "signedOut" /\ r.op = "logout" /\ r.cookie # Null =>
        Over(r.cookie)'
  BY <1>1, OverForGood DEF CookieOK
<1>6. r.late => account'[r.user] = "disabled"
  BY <1>1 DEF CookieOK, Grows
<1>7. QED
  BY <1>2, <1>3, <1>4, <1>5, <1>6 DEF CookieOK

\* A request that goes on.
LEMMA GoesOnOK ==
    ASSUME IInv, NEW r \in Request, NEW r2 \in Request, CookieOK(r), Grows, jar' = jar,
           SameRequest(r, r2),
           r2.issued = r.issued \/ Exists(r2.issued)',
           r2.at \notin {"findSession", "revoke"},
           r2.at \in {"revokeOld", "insertNew"} => r.op = "refresh",
           r2.at = "signedIn" => Current(r2.issued)',
           r2.at = "signedOut" /\ r.op = "logout" /\ r.by \in Careful /\ r.cookie # Null =>
              Over(r.cookie)',
           r.late => r2.at \notin {"issue", "revokeOld", "insertNew", "signedIn"}
    PROVE  CookieOK(r2)'
<1>1. (r.cookie \in Token \cup {Null}) /\ (r.issued \in Token \cup {Null})
      /\ r.user \in Email \cup {Null}
  BY DEF Request
<1>2. r2.cookie # Null => Exists(r2.cookie)'
  BY <1>1 DEF CookieOK, Grows, SameRequest
<1>3. r2.issued # Null => Exists(r2.issued)'
  BY <1>1 DEF CookieOK, Grows
<1>4. r2.late => r2.user \in Email /\ account'[r2.user] = "disabled"
  BY <1>1 DEF CookieOK, Grows, SameRequest
<1>5. r2.by \in Careful => r2.cookie = jar'[r2.by]
  BY DEF CookieOK, SameRequest
<1>6. QED
  BY <1>2, <1>3, <1>4, <1>5 DEF CookieOK, SameRequest

\* A statement of request h, which no other request notices: it takes away no
\* cookie but one that h brought, and that only when its response replaces it.
LEMMA StatementStep ==
    ASSUME IInv, CookieInv, NEW h \in Handler, request[h] # Null, request[h].at \in Statement,
           NEW r2 \in Request, request' = [request EXCEPT ![h] = r2],
           SameRequest(request[h], r2), jar' = jar, Grows,
           r2.issued = request[h].issued \/ (Unused(r2.issued) /\ r2.issued \in Token),
           \A t \in Token : Current(t) =>
              Current(t)' \/ (t = request[h].cookie /\ r2.at \in {"signedIn", "signedOut"}),
           CookieOK(r2)'
    PROVE  CookieInv'
<1>1. PICK r : r = request[h]
  OBVIOUS
<1>2. r \in Request /\ r2.by = r.by /\ r2.cookie = r.cookie /\ r2 # Null
  BY <1>1, NullAssumption DEF IInv, SameRequest
<1>3. /\ request'[h] = r2
      /\ \A g \in Handler \ {h} : request'[g] = request[g]
  BY DEF IInv
<1>4. r.by \in Browser /\ r.cookie \in Token \cup {Null}
  BY <1>2 DEF Request
<1>5. OneAtATime'
  <2>1. ASSUME NEW f \in Handler, NEW g \in Handler,
               request'[f] # Null, request'[g] # Null,
               request'[f].by \in Careful, request'[f].by = request'[g].by
        PROVE  f = g
    <3>1. /\ request[f] # Null /\ request[g] # Null
          /\ request[f].by = request'[f].by /\ request[g].by = request'[g].by
      BY <1>1, <1>2, <1>3, <2>1
    <3>2. QED
      BY <2>1, <3>1 DEF CookieInv, OneAtATime
  <2>2. QED
    BY <2>1 DEF OneAtATime
<1>6. \A b \in Browser : \A t \in Token : Holds(b, t)' =>
        Holds(b, t) \/ (b = r.by /\ t = r2.issued /\ ~Exists(t))
  <2> SUFFICES ASSUME NEW b \in Browser, NEW t \in Token, Holds(b, t)', ~Holds(b, t)
               PROVE  b = r.by /\ t = r2.issued /\ ~Exists(t)
    OBVIOUS
  <2>1. PICK g \in Handler : /\ request'[g] # Null /\ request'[g].by = b
                             /\ t \in {request'[g].cookie, request'[g].issued}
    BY DEF Holds
  <2>2. g = h
    BY <1>3, <2>1 DEF Holds
  <2>3. b = r.by /\ t \in {r.cookie, r2.issued}
    BY <1>2, <1>3, <2>1, <2>2
  <2>4. t # r.cookie /\ t # r.issued
    BY <1>1, <2>3 DEF Holds
  <2>5. QED
    BY <1>1, <2>3, <2>4 DEF Unused, Exists
<1>7. OneBrowser'
  <2>1. ASSUME NEW t \in Token, NEW b \in Browser, NEW c \in Browser, Holds(b, t)', Holds(c, t)'
        PROVE  b = c
    <3>1. CASE Holds(b, t) /\ Holds(c, t)
      BY <3>1 DEF CookieInv, OneBrowser
    <3>2. CASE ~(Holds(b, t) /\ Holds(c, t))
      <4>1. ~Exists(t)
        BY <1>6, <2>1, <3>2
      <4>2. ~Holds(b, t) /\ ~Holds(c, t)
        BY <4>1, HeldExists
      <4>3. QED
        BY <1>6, <2>1, <4>2
    <3>3. QED
      BY <3>1, <3>2
  <2>2. QED
    BY <2>1 DEF OneBrowser
<1>8. ASSUME NEW b \in Careful, NEW t \in Token, Holds(b, t), b # r.by, Current(t)
      PROVE  Current(t)'
  <2>1. b \in Browser
    BY CarefulAssumption
  <2>2. t # r.cookie
    BY <1>1, <1>4, <1>8, <2>1 DEF CookieInv, OneBrowser, Holds
  <2>3. QED
    BY <1>1, <1>8, <2>2
<1>9. ASSUME NEW g \in Handler, request'[g] # Null
      PROVE  CookieOK(request[g])'
  <2>1. CASE g = h
    BY <2>1, <1>3
  <2>2. CASE g # h
    <3>1. PICK q : q = request[g] /\ q = request'[g]
      BY <2>2, <1>3
    <3>2. q # Null /\ q \in Request /\ CookieOK(q) /\ (q.at = "findSession" => q.cookie # Null)
      <4>1. q # Null /\ CookieOK(q) /\ RequestOK(q, session, account)
        BY <1>9, <3>1 DEF IInv, CookieInv
      <4>2. QED
        BY <4>1, NullAssumption DEF RequestOK
    <3>3. q.by \in Careful /\ q.at = "signedIn" => Current(q.issued)'
      <4> SUFFICES ASSUME q.by \in Careful, q.at = "signedIn"
                   PROVE  Current(q.issued)'
        OBVIOUS
      <4>1. q.by # r.by
        BY <1>1, <2>2, <3>1, <3>2 DEF CookieInv, OneAtATime
      <4>2. Current(q.issued)
        BY <3>2 DEF CookieOK
      <4>3. q.issued \in Token
        BY <3>2, <4>2 DEF Request, Current, Exists
      <4>4. Holds(q.by, q.issued)
        BY <3>1, <3>2 DEF Holds
      <4>5. QED
        BY <1>8, <4>1, <4>2, <4>3, <4>4
    <3>4. CookieOK(q)'
      BY <3>2, <3>3, StaysOK
    <3>5. QED
      BY <3>1, <3>4
  <2>3. QED
    BY <2>1, <2>2
<1>10. ASSUME NEW b \in Careful, jar'[b] # Null, ~Replaced(b)'
       PROVE  Current(jar[b])'
  <2>1. b \in Browser /\ jar[b] # Null /\ jar[b] \in Token /\ jar'[b] = jar[b]
    BY <1>10, CarefulAssumption DEF IInv
  <2>2. \A g \in Handler \ {h} : request[g] # Null /\ request[g].by = b =>
          request[g].at \notin {"signedIn", "signedOut"}
    BY <1>3, <1>10 DEF Replaced
  <2>3. request[h].at \notin {"signedIn", "signedOut"}
    BY DEF Statement
  <2>4. Current(jar[b])
    BY <2>1, <2>2, <2>3 DEF CookieInv, Replaced
  <2>5. CASE b # r.by
    <3>1. Holds(b, jar[b])
      BY DEF Holds
    <3>2. QED
      BY <1>8, <2>1, <2>4, <2>5, <3>1
  <2>6. CASE b = r.by
    <3>1. r2.at \notin {"signedIn", "signedOut"}
      BY <1>2, <1>3, <1>10, <2>6 DEF Replaced
    <3>2. QED
      BY <2>1, <2>4, <3>1
  <2>7. QED
    BY <2>5, <2>6
<1>11. QED
  BY <1>5, <1>7, <1>9, <1>10 DEF CookieInv

\* A request that is served by a statement that changes no session.
LEMMA QuietStatement ==
    ASSUME IInv, CookieInv, NEW h \in Handler, request[h] # Null, request[h].at \in Statement,
           NEW s \in Statement \cup Response, Go(h, s), UNCHANGED <<session, jar>>,
           s \notin {"findSession", "revoke", "signedIn"},
           s \in {"revokeOld", "insertNew"} => request[h].op = "refresh",
           s = "signedOut" => request[h].op = "refresh",
           request[h].late => s \notin {"issue", "revokeOld", "insertNew"},
           \A e \in Email : account[e] = "disabled" => account'[e] = "disabled"
    PROVE  CookieInv'
<1>1. PICK r, r2 : r = request[h] /\ r2 = [r EXCEPT !.at = s]
  OBVIOUS
<1>2. r \in Request /\ CookieOK(r)
  BY <1>1, NullAssumption DEF IInv, CookieInv
<1>3. r2 \in Request /\ SameRequest(r, r2) /\ r2.issued = r.issued /\ r2.at = s
  BY <1>1, <1>2, Moved DEF SameRequest
<1>4. request' = [request EXCEPT ![h] = r2]
  BY <1>1 DEF Go
<1>5. Grows
  <2>1. \A t \in Token : (Exists(t) <=> Exists(t)') /\ session'[t] = session[t]
    BY DEF Exists
  <2>2. ASSUME NEW u \in Token, Exists(u)', session'[u].revoked = "live",
               NEW c \in Token, Exists(c), session[c].signIn = session'[u].signIn
        PROVE  ~Over(c)
    BY <2>1, <2>2 DEF Over, SameSignIn
  <2>3. QED
    BY <2>1, <2>2 DEF Grows
<1>6. CookieOK(r2)'
  BY <1>1, <1>2, <1>3, <1>5, GoesOnOK DEF Response
<1>7. \A t \in Token : Current(t) => Current(t)'
  BY DEF Current, Exists
<1>8. QED
  BY <1>1, <1>3, <1>4, <1>5, <1>6, <1>7, StatementStep

\* A session is inserted: the responses there may be.
Answers(r, t) == {[r EXCEPT !.at = "signedIn", !.issued = t], [r EXCEPT !.at = Refusal(r)]}

\* The new token, or an error.
LEMMA Answered ==
    ASSUME NEW r \in Request, NEW t \in Token, NEW r2 \in Answers(r, t)
    PROVE  /\ r2 \in Request /\ SameRequest(r, r2)
           /\ \/ r2.at = "signedIn" /\ r2.issued = t
              \/ r2.at = Refusal(r) /\ r2.issued = r.issued
<1>1. CASE r2 = [r EXCEPT !.at = "signedIn", !.issued = t]
  BY <1>1 DEF Request, SameRequest, Response
<1>2. CASE r2 = [r EXCEPT !.at = Refusal(r)]
  <2>1. Refusal(r) \in Statement \cup Response
    BY DEF Refusal, Response
  <2>2. QED
    BY <1>2, <2>1, Moved DEF SameRequest
<1>3. QED
  BY <1>1, <1>2 DEF Answers

\* Signup and login insert a session of a new sign-in.
LEMMA IssueCookie ==
    ASSUME IInv, CookieInv, NEW h \in Handler, NEW t \in Token, Issue(h, t)
    PROVE  CookieInv'
<1>1. PICK r : r = request[h]
  OBVIOUS
<1>2. r # Null /\ r.at = "issue" /\ r \in Request /\ CookieOK(r) /\ r.user \in Email
  BY <1>1, NullAssumption DEF Issue, At, IInv, CookieInv, RequestOK
<1>3. PICK row : row = SessionFor(r.user, t)
  OBVIOUS
<1>4. row \in SessionRow /\ row # Null /\ row.signIn = t /\ row.revoked = "live"
  <2>1. row \in SessionRow /\ row.signIn = t /\ row.revoked = "live"
    BY <1>2, <1>3 DEF SessionFor, SessionRow
  <2>2. QED
    BY <2>1, NullAssumption
<1>5. session' = [session EXCEPT ![t] = row] /\ session[t] = Null /\ Unused(t)
  BY <1>1, <1>3 DEF Issue, Unused
<1>6. session \in [Token -> SessionRow \cup {Null}]
  BY DEF IInv, TableOK
<1>7. session'[t] = row /\ \A u \in Token \ {t} : session'[u] = session[u]
  BY <1>5, <1>6
<1>8. UNCHANGED <<account, jar>>
  BY DEF Issue
<1>9. \A u \in Token : Exists(u) => u # t /\ session[u].signIn # t
  BY <1>5, <1>6 DEF IInv, TableOK, Exists
<1>10. Grows
  <2>1. \A u \in Token : Exists(u) => Exists(u)' /\ session'[u] = session[u]
    BY <1>7, <1>9 DEF Exists
  <2>2. ASSUME NEW u \in Token, Exists(u)', session'[u].revoked = "live",
               NEW c \in Token, Exists(c), session[c].signIn = session'[u].signIn
        PROVE  ~Over(c)
    <3>1. u # t
      BY <1>4, <1>7, <1>9, <2>2
    <3>2. Exists(u) /\ session[u] = session'[u]
      BY <1>7, <2>2, <3>1 DEF Exists
    <3>3. QED
      BY <2>2, <3>2 DEF Over, SameSignIn
  <2>3. QED
    BY <1>8, <2>1, <2>2 DEF Grows
<1>11. PICK r2 \in Answers(r, t) : request' = [request EXCEPT ![h] = r2]
  BY <1>1 DEF Issue, Go, Answers
<1>12. /\ r2 \in Request /\ SameRequest(r, r2)
       /\ \/ r2.at = "signedIn" /\ r2.issued = t
          \/ r2.at = Refusal(r) /\ r2.issued = r.issued
  BY <1>2, <1>11, Answered
<1>13. Current(t)' /\ Exists(t)'
  BY <1>4, <1>7, NullAssumption DEF Current, Exists
<1>14. ~r.late
  BY <1>2 DEF CookieOK
<1>15. Refusal(r) \in {"signedOut", "refused"} /\ (Refusal(r) = "signedOut" => r.op = "refresh")
  BY DEF Refusal
<1>16. CookieOK(r2)'
  BY <1>2, <1>8, <1>10, <1>12, <1>13, <1>14, <1>15, GoesOnOK
<1>17. \A u \in Token : Current(u) => Current(u)'
  BY <1>7, <1>9 DEF Current, Exists
<1>18. r.at \in Statement
  BY <1>2 DEF Statement
<1>19. QED
  BY <1>1, <1>2, <1>5, <1>8, <1>10, <1>11, <1>12, <1>16, <1>17, <1>18, StatementStep

\* A refresh replaces the session of its cookie.
LEMMA RotateCookie ==
    ASSUME IInv, CookieInv, NEW h \in Handler, NEW t \in Token, InsertNew(h, t)
    PROVE  CookieInv'
<1>1. PICK r, old : r = request[h] /\ old = request[h].cookie
  OBVIOUS
<1>2. /\ r # Null /\ r.at = "insertNew" /\ r \in Request /\ CookieOK(r)
      /\ old \in Token /\ session[old] # Null /\ session[old].revoked = "live"
  BY <1>1, NullAssumption DEF InsertNew, At, IInv, CookieInv, RequestOK
<1>3. session \in [Token -> SessionRow \cup {Null}] /\ session[old] \in SessionRow
  BY <1>2 DEF IInv, TableOK
<1>4. PICK row, gone : /\ row = SessionFor(session[old].user, session[old].signIn)
                       /\ gone = [session[old] EXCEPT !.revoked = "rotated"]
  OBVIOUS
<1>5. /\ row \in SessionRow /\ row.signIn = session[old].signIn /\ row.revoked = "live"
      /\ gone \in SessionRow /\ gone.user = session[old].user
      /\ gone.signIn = session[old].signIn /\ gone.revoked = "rotated"
  BY <1>3, <1>4 DEF SessionFor, SessionRow
<1>6. row # Null /\ gone # Null
  BY <1>5, NullAssumption
<1>7. session[t] = Null /\ Unused(t) /\ t # old
  BY <1>2 DEF InsertNew, Unused
<1>8. /\ session'[t] = row /\ session'[old] = gone
      /\ \A u \in Token \ {t, old} : session'[u] = session[u]
  <2>1. session' = [session EXCEPT ![old].revoked = "rotated", ![t] = row]
    BY <1>1, <1>4 DEF InsertNew
  <2>2. QED
    BY <1>2, <1>3, <1>4, <1>7, <2>1
<1>9. UNCHANGED <<account, jar>>
  BY DEF InsertNew
<1>10. Grows
  <2>1. \A u \in Token : Exists(u) =>
          Exists(u)' /\ session'[u].user = session[u].user /\ session'[u].signIn = session[u].signIn
    BY <1>5, <1>6, <1>7, <1>8 DEF Exists
  <2>2. ASSUME NEW u \in Token, Exists(u)', session'[u].revoked = "live",
               NEW c \in Token, Exists(c), session[c].signIn = session'[u].signIn
        PROVE  ~Over(c)
    <3>1. CASE u = t
      <4>1. session[c].signIn = session[old].signIn
        BY <1>5, <1>8, <2>2, <3>1
      <4>2. QED
        BY <1>2, <4>1, NullAssumption DEF Over, SameSignIn, Exists
    <3>2. CASE u # t
      <4>1. Exists(u) /\ session[u] = session'[u]
        BY <1>5, <1>8, <2>2, <3>2 DEF Exists
      <4>2. QED
        BY <2>2, <4>1 DEF Over, SameSignIn
    <3>3. QED
      BY <3>1, <3>2
  <2>3. QED
    BY <1>9, <2>1, <2>2 DEF Grows
<1>11. PICK r2 \in Answers(r, t) : request' = [request EXCEPT ![h] = r2]
  BY <1>1 DEF InsertNew, Go, Answers
<1>12. /\ r2 \in Request /\ SameRequest(r, r2)
       /\ \/ r2.at = "signedIn" /\ r2.issued = t
          \/ r2.at = Refusal(r) /\ r2.issued = r.issued
  BY <1>2, <1>11, Answered
<1>13. Current(t)' /\ Exists(t)'
  BY <1>5, <1>6, <1>8, NullAssumption DEF Current, Exists
<1>14. ~r.late /\ r.op = "refresh"
  BY <1>2 DEF CookieOK
<1>15. Refusal(r) = "signedOut"
  BY <1>14 DEF Refusal
<1>16. CookieOK(r2)'
  BY <1>2, <1>9, <1>10, <1>12, <1>13, <1>14, <1>15, GoesOnOK
<1>17. \A u \in Token : Current(u) => Current(u)' \/ u = old
  BY <1>7, <1>8 DEF Current, Exists
<1>18. r.at \in Statement
  BY <1>2 DEF Statement
<1>19. QED
  BY <1>1, <1>2, <1>7, <1>9, <1>10, <1>11, <1>12, <1>15, <1>16, <1>17, <1>18, StatementStep

\* A logout revokes the session of its cookie.  That of a careful browser is
\* the one its sign-in has come to, so nothing of the sign-in stays live.
LEMMA RevokeCookie ==
    ASSUME IInv, CookieInv, NEW h \in Handler, Revoke(h)
    PROVE  CookieInv'
<1>1. PICK r, t : r = request[h] /\ t = request[h].cookie
  OBVIOUS
<1>2. /\ r # Null /\ r.at = "revoke" /\ r \in Request /\ CookieOK(r)
      /\ t \in Token /\ session[t] # Null
  BY <1>1, NullAssumption DEF Revoke, At, IInv, CookieInv, RequestOK
<1>3. session \in [Token -> SessionRow \cup {Null}] /\ session[t] \in SessionRow
  BY <1>2 DEF IInv, TableOK
<1>4. PICK row \in SessionRow :
        /\ row.user = session[t].user /\ row.signIn = session[t].signIn
        /\ row.revoked = IF session[t].revoked = "live" THEN "loggedOut" ELSE session[t].revoked
        /\ session' = [session EXCEPT ![t] = row]
  <2>1. CASE session[t].revoked = "live"
    <3>1. PICK row : row = [session[t] EXCEPT !.revoked = "loggedOut"]
      OBVIOUS
    <3>2. row \in SessionRow /\ row.user = session[t].user /\ row.signIn = session[t].signIn
          /\ row.revoked = "loggedOut"
      BY <1>3, <3>1 DEF SessionRow
    <3>3. session' = [session EXCEPT ![t] = row]
      BY <1>1, <2>1, <3>1 DEF Revoke
    <3>4. QED
      BY <2>1, <3>2, <3>3
  <2>2. CASE session[t].revoked # "live"
    <3>1. session' = session
      BY <1>1, <2>2 DEF Revoke
    <3>2. session' = [session EXCEPT ![t] = session[t]]
      BY <1>3, <3>1
    <3>3. QED
      BY <1>3, <2>2, <3>2
  <2>3. QED
    BY <2>1, <2>2
<1>5. row # Null
  BY NullAssumption
<1>6. session'[t] = row /\ \A u \in Token \ {t} : session'[u] = session[u]
  BY <1>2, <1>3, <1>4
<1>7. UNCHANGED <<account, jar>>
  BY DEF Revoke
<1>8. \A u \in Token : /\ Exists(u) <=> Exists(u)'
                       /\ session'[u].user = session[u].user
                       /\ session'[u].signIn = session[u].signIn
                       /\ session'[u].revoked = "live" => session[u].revoked = "live" /\ u # t
                       /\ session'[u].revoked = "rotated" <=> session[u].revoked = "rotated"
  BY <1>2, <1>4, <1>5, <1>6 DEF Exists
<1>9. Grows
  <2>1. ASSUME NEW u \in Token, Exists(u)', session'[u].revoked = "live",
               NEW c \in Token, Exists(c), session[c].signIn = session'[u].signIn
        PROVE  ~Over(c)
    <3>1. Exists(u) /\ session[u].revoked = "live" /\ session[u].signIn = session[c].signIn
      BY <1>8, <2>1
    <3>2. QED
      BY <3>1 DEF Over, SameSignIn
  <2>2. QED
    BY <1>7, <1>8, <2>1 DEF Grows
<1>10. PICK s \in {"signedOut", "refused"} : Go(h, s)
  BY DEF Revoke, Refusal
<1>11. PICK r2 : r2 = [r EXCEPT !.at = s]
  OBVIOUS
<1>12. r2 \in Request /\ SameRequest(r, r2) /\ r2.issued = r.issued /\ r2.at = s
  BY <1>2, <1>11, Moved DEF SameRequest, Response
<1>13. request' = [request EXCEPT ![h] = r2]
  BY <1>1, <1>10, <1>11 DEF Go
<1>14. r.by \in Careful => Over(t)'
  <2> SUFFICES ASSUME r.by \in Careful
               PROVE  Over(t)'
    OBVIOUS
  <2>1. t = jar[r.by]
    BY <1>1, <1>2 DEF CookieOK
  <2>2. ~Replaced(r.by)
    <3>1. \A g \in Handler : request[g] # Null /\ request[g].by = r.by => request[g] = r
      BY <1>1, <1>2 DEF CookieInv, OneAtATime
    <3>2. QED
      BY <1>2, <3>1 DEF Replaced
  <2>3. Current(t)
    BY <1>2, <2>1, <2>2, NullAssumption DEF CookieInv
  <2>4. ASSUME NEW u \in Token, Exists(u)', SameSignIn(u, t)', session'[u].revoked = "live"
        PROVE  FALSE
    <3>1. Exists(u) /\ session[u].revoked = "live" /\ session[u].signIn = session[t].signIn /\ u # t
      BY <1>2, <1>8, <2>4 DEF SameSignIn
    <3>2. QED
      BY <1>2, <2>3, <3>1 DEF IInv, TableOK, Current, Exists
  <2>5. QED
    BY <2>4 DEF Over
<1>15. CookieOK(r2)'
  BY <1>1, <1>2, <1>7, <1>9, <1>12, <1>14, GoesOnOK
<1>16. \A u \in Token : Current(u) => Current(u)'
  BY <1>8 DEF Current
<1>17. r.at \in Statement
  BY <1>2 DEF Statement
<1>18. QED
  BY <1>1, <1>2, <1>7, <1>9, <1>12, <1>13, <1>15, <1>16, <1>17, StatementStep

\* The clock, and the administrator, do nothing to cookies and requests.
LEMMA OutsideCookie ==
    ASSUME IInv, CookieInv, UNCHANGED <<request, jar>>, Grows,
           \A t \in Token : Current(t) => Current(t)'
    PROVE  CookieInv'
<1>1. OneBrowser' /\ OneAtATime'
  BY DEF CookieInv, OneBrowser, OneAtATime, Holds
<1>2. ASSUME NEW h \in Handler, request[h] # Null
      PROVE  CookieOK(request[h])'
  <2>1. PICK r : r = request[h] /\ r = request'[h]
    OBVIOUS
  <2>2. r \in Request /\ CookieOK(r) /\ (r.at = "findSession" => r.cookie # Null)
    BY <1>2, <2>1, NullAssumption DEF IInv, CookieInv, RequestOK
  <2>3. r.by \in Careful /\ r.at = "signedIn" => Current(r.issued)'
    BY <2>2 DEF CookieOK, Request, Current, Exists
  <2>4. CookieOK(r)'
    BY <2>2, <2>3, StaysOK
  <2>5. QED
    BY <2>1, <2>4
<1>3. ASSUME NEW b \in Careful, jar[b] # Null, ~Replaced(b)'
      PROVE  Current(jar[b])'
  <2>1. ~Replaced(b)
    BY <1>3 DEF Replaced
  <2>2. jar[b] \in Token /\ jar'[b] = jar[b]
    BY <1>3, CarefulAssumption DEF IInv
  <2>3. QED
    BY <1>3, <2>1, <2>2 DEF CookieInv
<1>4. QED
  BY <1>1, <1>2, <1>3 DEF CookieInv

\* A request comes in, with the cookie of its browser.
LEMMA ArriveCookie ==
    ASSUME IInv, CookieInv, NEW h \in Handler, NEW b \in Browser, NEW e \in Email \cup {Null},
           NEW op \in {"signup", "login", "refresh", "logout"},
           NEW first \in {"createUser", "findUser", "findSession", "revoke", "signedOut"},
           Arrive(h, b, op, e, first),
           first = "findSession" => op = "refresh" /\ jar[b] # Null /\ e = Owner(jar[b]),
           first = "revoke" => op = "logout",
           first = "signedOut" => jar[b] = Null
    PROVE  CookieInv'
<1>1. PICK r : r = [by |-> b, op |-> op, user |-> e, cookie |-> jar[b], at |-> first,
                    issued |-> Null, late |-> e # Null /\ account[e] = "disabled"]
  OBVIOUS
<1>2. /\ r.by = b /\ r.op = op /\ r.user = e /\ r.cookie = jar[b] /\ r.at = first
      /\ r.issued = Null /\ r.late = (e # Null /\ account[e] = "disabled")
  BY <1>1
<1>3. UNCHANGED <<account, session, jar>> /\ request[h] = Null
  BY DEF Arrive
<1>4. b \in Careful => \A g \in Handler : ~(request[g] # Null /\ request[g].by = b)
  BY DEF Arrive, InFlight
<1>5. jar[b] \in Token \cup {Null} /\ (jar[b] # Null => session[jar[b]] # Null)
  BY DEF IInv
<1>6. r \in Request
  BY <1>1, <1>5 DEF Request, Statement, Response
<1>7. r # Null
  BY <1>6, NullAssumption
<1>8. request'[h] = r /\ \A g \in Handler \ {h} : request'[g] = request[g]
  BY <1>1 DEF Arrive, IInv
<1>9. OneAtATime'
  BY <1>2, <1>4, <1>8 DEF CookieInv, OneAtATime
<1>10. OneBrowser'
  <2>1. ASSUME NEW c \in Browser, NEW t \in Token, Holds(c, t)'
        PROVE  Holds(c, t)
    <3>1. CASE jar[c] = t
      BY <3>1 DEF Holds
    <3>2. CASE jar[c] # t
      <4>1. PICK g \in Handler : /\ request'[g] # Null /\ request'[g].by = c
                                 /\ t \in {request'[g].cookie, request'[g].issued}
        BY <1>3, <2>1, <3>2 DEF Holds
      <4>2. g # h
        BY <1>2, <1>8, <3>2, <4>1, NullAssumption
      <4>3. QED
        BY <1>8, <4>1, <4>2 DEF Holds
    <3>3. QED
      BY <3>1, <3>2
  <2>2. QED
    BY <2>1 DEF CookieInv, OneBrowser
<1>11. CookieOK(r)
  <2>1. r.cookie # Null => Exists(r.cookie)
    BY <1>2, <1>5 DEF Exists
  <2>2. r.at = "findSession" => session[r.cookie].user = r.user
    BY <1>2, <1>5 DEF Owner, Exists
  <2>3. QED
    BY <1>2, <2>1, <2>2 DEF CookieOK
<1>12. ASSUME NEW g \in Handler, request'[g] # Null
       PROVE  CookieOK(request[g])'
  <2>1. PICK q : q = request'[g]
    OBVIOUS
  <2>2. CookieOK(q)
    BY <1>8, <1>11, <1>12, <2>1 DEF CookieInv
  <2>3. CookieOK(q)'
    BY <1>3, <2>2 DEF CookieOK, Exists, Current, Over, SameSignIn
  <2>4. QED
    BY <2>1, <2>3
<1>13. ASSUME NEW c \in Careful, jar'[c] # Null, ~Replaced(c)'
       PROVE  Current(jar[c])'
  <2>1. ~Replaced(c)
    BY <1>3, <1>8, <1>13 DEF Replaced
  <2>2. QED
    BY <1>3, <1>13, <2>1 DEF CookieInv, Current, Exists
<1>14. QED
  BY <1>9, <1>10, <1>12, <1>13 DEF CookieInv

\* A response comes in, or is lost on its way to a browser that is not careful.
LEMMA ResponseCookie ==
    ASSUME IInv, CookieInv, NEW h \in Handler, Receive(h) \/ Lose(h)
    PROVE  CookieInv'
<1>1. PICK r, b : r = request[h] /\ b = request[h].by
  OBVIOUS
<1>2. /\ r # Null /\ r \in Request /\ CookieOK(r) /\ r.at \in Response
      /\ b \in Browser /\ r.issued \in Token \cup {Null} /\ r.by = b
  BY <1>1, NullAssumption DEF Receive, Lose, IInv, CookieInv, RequestOK, Request
<1>3. UNCHANGED <<account, session>>
  BY DEF Receive, Lose
<1>4. request'[h] = Null /\ \A g \in Handler \ {h} : request'[g] = request[g]
  BY DEF Receive, Lose, IInv
<1>5. PICK v : /\ jar' = [jar EXCEPT ![b] = v]
               /\ v \in {r.issued, Null, jar[b]}
               /\ b \in Careful => /\ r.at = "signedIn" => v = r.issued
                                   /\ r.at = "signedOut" => v = Null
                                   /\ r.at = "refused" => v = jar[b]
  <2>1. CASE Receive(h)
    BY <1>1, <1>2, <2>1 DEF Receive, CookieAfter, Response
  <2>2. CASE Lose(h)
    <3>1. jar' = [jar EXCEPT ![b] = jar[b]] /\ b \notin Careful
      BY <1>1, <2>2 DEF Lose, IInv
    <3>2. QED
      BY <3>1
  <2>3. QED
    BY <2>1, <2>2
<1>6. jar'[b] = v /\ \A c \in Browser \ {b} : jar'[c] = jar[c]
  BY <1>2, <1>5 DEF IInv
<1>7. OneAtATime'
  BY <1>4 DEF CookieInv, OneAtATime
<1>8. OneBrowser'
  <2>1. ASSUME NEW c \in Browser, NEW t \in Token, Holds(c, t)'
        PROVE  Holds(c, t)
    <3>1. CASE jar'[c] = t
      BY <1>1, <1>2, <1>5, <1>6, <3>1, NullAssumption DEF Holds
    <3>2. CASE jar'[c] # t
      BY <1>4, <2>1, <3>2 DEF Holds
    <3>3. QED
      BY <3>1, <3>2
  <2>2. QED
    BY <2>1 DEF CookieInv, OneBrowser
<1>9. \A g \in Handler \ {h} : request[g] # Null /\ request[g].by = b => b \notin Careful
  BY <1>1, <1>2 DEF CookieInv, OneAtATime
<1>10. ASSUME NEW g \in Handler, request'[g] # Null
       PROVE  CookieOK(request[g])'
  <2>1. PICK q : q = request[g] /\ q = request'[g] /\ g # h
    BY <1>4, <1>10
  <2>2. CookieOK(q) /\ q \in Request /\ q # Null
    BY <1>10, <2>1, NullAssumption DEF CookieInv, IInv
  <2>3. q.by \in Careful => jar'[q.by] = jar[q.by]
    BY <1>6, <1>9, <2>1, <2>2 DEF Request
  <2>4. CookieOK(q)'
    BY <1>3, <2>2, <2>3 DEF CookieOK, Exists, Current, Over, SameSignIn
  <2>5. QED
    BY <2>1, <2>4
<1>11. ASSUME NEW c \in Careful, jar'[c] # Null, ~Replaced(c)'
       PROVE  Current(jar[c])'
  <2>1. c \in Browser
    BY CarefulAssumption
  <2>2. \A g \in Handler \ {h} : request[g] # Null /\ request[g].by = c =>
          request[g].at \notin {"signedIn", "signedOut"}
    BY <1>4, <1>11 DEF Replaced
  <2>3. CASE c # b
    <3>1. ~Replaced(c)
      BY <1>1, <2>2, <2>3 DEF Replaced
    <3>2. QED
      BY <1>3, <1>6, <1>11, <2>1, <2>3, <3>1 DEF CookieInv, Current, Exists
  <2>4. CASE c = b
    <3>1. CASE r.at = "signedIn"
      BY <1>2, <1>3, <1>5, <1>6, <1>11, <2>4, <3>1 DEF CookieOK, Current, Exists
    <3>2. CASE r.at = "signedOut"
      BY <1>5, <1>6, <1>11, <2>4, <3>2
    <3>3. CASE r.at = "refused"
      <4>1. ~Replaced(c)
        BY <1>1, <2>2, <3>3 DEF Replaced
      <4>2. jar'[c] = jar[c]
        BY <1>5, <1>6, <2>4, <3>3
      <4>3. QED
        BY <1>3, <1>11, <4>1, <4>2 DEF CookieInv, Current, Exists
    <3>4. QED
      BY <1>2, <3>1, <3>2, <3>3 DEF Response
  <2>5. QED
    BY <2>3, <2>4
<1>12. QED
  BY <1>7, <1>8, <1>10, <1>11 DEF CookieInv

\* The statements that change no session.
LEMMA QuietCookie ==
    ASSUME IInv, CookieInv, NEW h \in Handler,
           CreateUser(h) \/ FindUser(h) \/ FindSession(h) \/ RevokeOld(h) \/ Fail(h)
    PROVE  CookieInv'
<1>1. PICK r : r = request[h]
  OBVIOUS
<1>2. /\ r # Null /\ r \in Request /\ CookieOK(r) /\ RequestOK(r, session, account)
      /\ r.at \in Statement /\ UNCHANGED <<session, jar>>
  BY <1>1, NullAssumption DEF CreateUser, FindUser, FindSession, RevokeOld, Fail, RolledBack,
     At, IInv, CookieInv, Statement
<1>3. PICK f : f = Refusal(r) /\ f \in {"signedOut", "refused"} /\ (f = "signedOut" => r.op = "refresh")
  BY DEF Refusal
<1>4. \A s \in {"issue", "revokeOld", "insertNew"} \cup {f} :
        s \in Statement \cup Response /\ s \notin {"findSession", "revoke", "signedIn"}
  BY <1>3 DEF Statement, Response
<1>5. CASE Fail(h)
  <2>1. Go(h, f) /\ UNCHANGED account
    BY <1>1, <1>3, <1>5 DEF Fail
  <2>2. QED
    BY <1>1, <1>2, <1>3, <1>4, <2>1, QuietStatement
<1>6. CASE CreateUser(h)
  <2>1. r.user \in Email
    BY <1>1, <1>2, <1>6 DEF CreateUser, At, RequestOK
  <2>2. CASE account[r.user] = "none"
    <3>1. Go(h, "issue") /\ account' = [account EXCEPT ![r.user] = "active"]
      BY <1>1, <1>6, <2>2 DEF CreateUser
    <3>2. \A e \in Email : account[e] = "disabled" => account'[e] = "disabled"
      BY <2>1, <2>2, <3>1 DEF IInv
    <3>3. ~r.late
      BY <1>2, <2>2 DEF CookieOK
    <3>4. QED
      BY <1>1, <1>2, <1>4, <3>1, <3>2, <3>3, QuietStatement
  <2>3. CASE account[r.user] # "none"
    <3>1. Go(h, f) /\ UNCHANGED account
      BY <1>1, <1>3, <1>6, <2>3 DEF CreateUser
    <3>2. QED
      BY <1>1, <1>2, <1>3, <1>4, <3>1, QuietStatement
  <2>4. QED
    BY <2>2, <2>3
<1>7. CASE FindUser(h)
  <2>1. PICK s \in {"issue", f} : Go(h, s) /\ (s = "issue" => account[r.user] = "active")
    BY <1>1, <1>3, <1>7 DEF FindUser, CanSignIn
  <2>2. UNCHANGED account
    BY <1>7 DEF FindUser
  <2>3. r.late => s # "issue"
    BY <1>2, <2>1 DEF CookieOK
  <2>4. QED
    BY <1>1, <1>2, <1>3, <1>4, <2>1, <2>2, <2>3, QuietStatement
<1>8. CASE FindSession(h)
  <2>1. PICK s \in {"revokeOld", f} :
          Go(h, s) /\ (s = "revokeOld" => account[session[r.cookie].user] = "active")
    BY <1>1, <1>3, <1>8 DEF FindSession, CanRefresh
  <2>2. UNCHANGED account /\ r.at = "findSession"
    BY <1>1, <1>8 DEF FindSession, At
  <2>3. r.late => s # "revokeOld"
    BY <1>2, <2>1, <2>2 DEF CookieOK
  <2>4. r.op = "refresh"
    BY <1>2, <2>2 DEF CookieOK
  <2>5. QED
    BY <1>1, <1>2, <1>3, <1>4, <2>1, <2>2, <2>3, <2>4, QuietStatement
<1>9. CASE RevokeOld(h)
  <2>1. PICK s \in {"insertNew", f} : Go(h, s)
    BY <1>1, <1>3, <1>9 DEF RevokeOld
  <2>2. UNCHANGED account /\ r.at = "revokeOld"
    BY <1>1, <1>9 DEF RevokeOld, At
  <2>3. ~r.late /\ r.op = "refresh"
    BY <1>2, <2>2 DEF CookieOK
  <2>4. QED
    BY <1>1, <1>2, <1>3, <1>4, <2>1, <2>2, <2>3, QuietStatement
<1>10. QED
  BY <1>5, <1>6, <1>7, <1>8, <1>9

LEMMA NextCookieInv == IInv /\ CookieInv /\ [Next]_vars => CookieInv'
<1> SUFFICES ASSUME IInv, CookieInv, [Next]_vars
             PROVE  CookieInv'
  OBVIOUS
<1>1. ASSUME NEW h \in Handler, NEW b \in Browser, NEW e \in Email,
             SendSignup(h, b, e) \/ SendLogin(h, b, e)
      PROVE  CookieInv'
  BY <1>1, ArriveCookie DEF SendSignup, SendLogin
<1>2. ASSUME NEW h \in Handler, NEW b \in Browser, SendRefresh(h, b) \/ SendLogout(h, b)
      PROVE  CookieInv'
  <2>1. Owner(jar[b]) \in Email \cup {Null}
    <3>1. jar[b] \in Token \cup {Null}
      BY DEF IInv
    <3>2. Exists(jar[b]) => session[jar[b]] \in SessionRow
      BY <3>1 DEF Exists, IInv, TableOK
    <3>3. QED
      BY <3>2 DEF Owner, SessionRow
  <2>2. CASE SendRefresh(h, b)
    BY <2>1, <2>2, ArriveCookie DEF SendRefresh
  <2>3. CASE SendLogout(h, b)
    BY <2>1, <2>3, ArriveCookie DEF SendLogout
  <2>4. QED
    BY <1>2, <2>2, <2>3
<1>3. ASSUME NEW h \in Handler, Receive(h) \/ Lose(h)
      PROVE  CookieInv'
  BY <1>3, ResponseCookie
<1>4. ASSUME NEW h \in Handler,
             CreateUser(h) \/ FindUser(h) \/ FindSession(h) \/ RevokeOld(h) \/ Fail(h)
      PROVE  CookieInv'
  BY <1>4, QuietCookie
<1>5. ASSUME NEW h \in Handler, Revoke(h)
      PROVE  CookieInv'
  BY <1>5, RevokeCookie
<1>6. ASSUME NEW h \in Handler, NEW t \in Token, Issue(h, t)
      PROVE  CookieInv'
  BY <1>6, IssueCookie
<1>7. ASSUME NEW h \in Handler, NEW t \in Token, InsertNew(h, t)
      PROVE  CookieInv'
  BY <1>7, RotateCookie
<1>8. ASSUME NEW t \in Token, Expire(t)
      PROVE  CookieInv'
  <2>1. PICK row : row = [session[t] EXCEPT !.expired = TRUE]
    OBVIOUS
  <2>2. session[t] # Null /\ session[t] \in SessionRow /\ UNCHANGED <<account, request, jar>>
        /\ session' = [session EXCEPT ![t] = row]
    BY <1>8, <2>1 DEF Expire, Exists, IInv, TableOK
  <2>3. /\ row \in SessionRow /\ row # Null
        /\ row.user = session[t].user /\ row.signIn = session[t].signIn
        /\ row.revoked = session[t].revoked
    <3>1. row \in SessionRow
      BY <2>1, <2>2 DEF SessionRow
    <3>2. QED
      BY <2>1, <2>2, <3>1, NullAssumption DEF SessionRow
  <2>4. \A u \in Token : /\ Exists(u) <=> Exists(u)'
                         /\ session'[u].user = session[u].user
                         /\ session'[u].signIn = session[u].signIn
                         /\ session'[u].revoked = session[u].revoked
    BY <2>2, <2>3 DEF Exists, IInv, TableOK
  <2>5. Grows
    <3>1. ASSUME NEW u \in Token, Exists(u)', session'[u].revoked = "live",
                 NEW c \in Token, Exists(c), session[c].signIn = session'[u].signIn
          PROVE  ~Over(c)
      BY <2>4, <3>1 DEF Over, SameSignIn
    <3>2. QED
      BY <2>2, <2>4, <3>1 DEF Grows
  <2>6. \A u \in Token : Current(u) => Current(u)'
    BY <2>4 DEF Current
  <2>7. QED
    BY <2>2, <2>5, <2>6, OutsideCookie
<1>9. ASSUME UNCHANGED <<session, request, jar>>,
             \A e \in Email : account[e] = "disabled" => account'[e] = "disabled"
      PROVE  CookieInv'
  <2>1. \A u \in Token : (Exists(u) <=> Exists(u)') /\ (Current(u) => Current(u)')
    BY <1>9 DEF Exists, Current
  <2>2. Grows
    <3>1. ASSUME NEW u \in Token, Exists(u)', session'[u].revoked = "live",
                 NEW c \in Token, Exists(c), session[c].signIn = session'[u].signIn
          PROVE  ~Over(c)
      BY <1>9, <2>1, <3>1 DEF Over, SameSignIn
    <3>2. QED
      BY <1>9, <2>1, <3>1 DEF Grows
  <2>3. QED
    BY <1>9, <2>1, <2>2, OutsideCookie
<1>10. ASSUME NEW e \in Email, Disable(e)
       PROVE  CookieInv'
  <2>1. account' = [account EXCEPT ![e] = "disabled"] /\ UNCHANGED <<session, request, jar>>
    BY <1>10 DEF Disable
  <2>2. \A f \in Email : account[f] = "disabled" => account'[f] = "disabled"
    BY <2>1 DEF IInv
  <2>3. QED
    BY <1>9, <2>1, <2>2
<1>11. CASE UNCHANGED vars
  BY <1>9, <1>11 DEF vars
<1>12. QED
  BY <1>1, <1>2, <1>3, <1>4, <1>5, <1>6, <1>7, <1>8, <1>10, <1>11 DEF Next

\* What is said of cookies and requests holds in every reachable state.
THEOREM CookieInvariance == Spec => []CookieInv
<1>1. QED
  BY InitCookieInv, NextCookieInv, Invariance, PTL DEF Spec

\* A browser that sends one request at a time and gets every response never
\* keeps a token that a rotation has replaced.
THEOREM CookieIsCurrent == Spec => []CookieNotBehind
<1>1. CookieInv => CookieNotBehind
  BY DEF CookieInv, CookieNotBehind, InFlight, Replaced
<1>2. QED
  BY <1>1, CookieInvariance, PTL

\* A request that comes in after the account was disabled signs nobody in.
THEOREM DisabledIsOut == Spec => []DisabledStaysOut
<1>1. CookieInv => DisabledStaysOut
  BY DEF CookieInv, DisabledStaysOut, At, CookieOK
<1>2. QED
  BY <1>1, CookieInvariance, PTL

\* After a logout whose response is on its way to a browser that sends one
\* request at a time, no session of its sign-in is usable.
THEOREM LogoutIsFinal == Spec => []LogoutEndsSignIn
<1>1. CookieInv => LogoutEndsSignIn
  BY DEF CookieInv, LogoutEndsSignIn, At, CookieOK, Over
<1>2. QED
  BY <1>1, CookieInvariance, PTL
=============================================================================
