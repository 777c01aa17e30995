---------------------------- MODULE AuthSessions ----------------------------
(***************************************************************************)
(* Accounts and refresh sessions (src/backend/internal/auth): signup,      *)
(* login, refresh and logout, one committed statement or transaction per   *)
(* action, in any number of concurrent requests, next to the browsers that *)
(* keep the refresh token in a cookie.                                     *)
(***************************************************************************)
CONSTANTS
    Browser,    \* cookie jars
    Careful,    \* those that send one request at a time and get its response
    Handler,    \* requests being served at the same time
    Email,      \* accounts, by their unique column
    Token,      \* refresh tokens, and their hashes
    Null

ASSUME CarefulAssumption == Careful \subseteq Browser

VARIABLES
    account,    \* account[e]: users.status, "none" without a row
    session,    \* session[t]: the row of auth_sessions with that hash, or Null
    request,    \* request[h]: the request of a handler, or Null
    jar         \* jar[b]: the refresh_token cookie of a browser, or Null

vars == <<account, session, request, jar>>

(***************************************************************************)
(* revoked_at is "live" while NULL; rotated and loggedOut say what set it. *)
(* signIn is no column: it names the token the login or signup issued, of  *)
(* which this one is a rotation.                                           *)
(***************************************************************************)
SessionRow == [user : Email, signIn : Token, expired : BOOLEAN,
               revoked : {"live", "rotated", "loggedOut"}]

\* The next statement of a request, or the response that is on its way.
Statement == {"createUser", "findUser", "issue", "findSession",
              "revokeOld", "insertNew", "revoke"}
Response == {"signedIn", "signedOut", "refused"}

\* late: the account was disabled already when the request came in.
Request == [by : Browser, op : {"signup", "login", "refresh", "logout"},
            user : Email \cup {Null}, cookie : Token \cup {Null},
            at : Statement \cup Response, issued : Token \cup {Null},
            late : BOOLEAN]

ASSUME NullAssumption ==
    Null \notin Browser \cup Email \cup Token \cup SessionRow \cup Request

Init ==
    /\ account = [e \in Email |-> "none"]
    /\ session = [t \in Token |-> Null]
    /\ request = [h \in Handler |-> Null]
    /\ jar = [b \in Browser |-> Null]

-----------------------------------------------------------------------------
(* Queries.                                                                *)

At(h, statement) == request[h] # Null /\ request[h].at = statement

Exists(t) == t # Null /\ session[t] # Null

\* revoked_at IS NULL AND expires_at > NOW()
Usable(t) == Exists(t) /\ session[t].revoked = "live" /\ ~session[t].expired

\* The row lock RotateSession holds between its two statements.
Locked(t) == \E h \in Handler : At(h, "insertNew") /\ request[h].cookie = t

\* GenerateRefreshToken: 32 random bytes, never drawn before.
Unused(t) ==
    session[t] = Null /\ \A h \in Handler : request[h] # Null => request[h].issued # t

Go(h, statement) == request' = [request EXCEPT ![h].at = statement]

-----------------------------------------------------------------------------
(* Browsers.                                                               *)

InFlight(b) == \E h \in Handler : request[h] # Null /\ request[h].by = b

Arrive(h, b, op, e, first) ==
    /\ request[h] = Null
    /\ b \in Careful => ~InFlight(b)
    /\ request' = [request EXCEPT ![h] =
         [by |-> b, op |-> op, user |-> e, cookie |-> jar[b], at |-> first,
          issued |-> Null, late |-> e # Null /\ account[e] = "disabled"]]
    /\ UNCHANGED <<account, session, jar>>

Owner(t) == IF Exists(t) THEN session[t].user ELSE Null

SendSignup(h, b, e) == Arrive(h, b, "signup", e, "createUser")

\* With the right password; with a wrong one the request changes nothing.
SendLogin(h, b, e) == Arrive(h, b, "login", e, "findUser")

\* Without the cookie the handler answers 401 and changes nothing.
SendRefresh(h, b) ==
    jar[b] # Null /\ Arrive(h, b, "refresh", Owner(jar[b]), "findSession")

\* Without the cookie there is no statement, and the response is the same.
SendLogout(h, b) ==
    Arrive(h, b, "logout", Owner(jar[b]), IF jar[b] = Null THEN "signedOut" ELSE "revoke")

\* setAuthCookies, clearAuthCookies, or an error that leaves the cookies alone.
CookieAfter(r) ==
    CASE r.at = "signedIn"  -> r.issued
      [] r.at = "signedOut" -> Null
      [] r.at = "refused"   -> jar[r.by]

Receive(h) ==
    /\ request[h] # Null
    /\ request[h].at \in Response
    /\ jar' = [jar EXCEPT ![request[h].by] = CookieAfter(request[h])]
    /\ request' = [request EXCEPT ![h] = Null]
    /\ UNCHANGED <<account, session>>

\* The response is lost on the way.
Lose(h) ==
    /\ request[h] # Null
    /\ request[h].at \in Response
    /\ request[h].by \notin Careful
    /\ request' = [request EXCEPT ![h] = Null]
    /\ UNCHANGED <<account, session, jar>>

-----------------------------------------------------------------------------
(* The statements of the handlers.                                         *)

\* Mutant: a failed refresh keeps the cookies, as the other handlers do.
RefusedAlways(r) == "refused"

\* Only Refresh clears the cookies when it fails.
Refusal(r) == IF r.op = "refresh" THEN "signedOut" ELSE "refused"

\* CreateUser: the account and its statistics in one transaction.  The account
\* stays when what follows fails.
CreateUser(h) ==
    /\ At(h, "createUser")
    /\ LET e == request[h].user IN
         IF account[e] = "none"
         THEN account' = [account EXCEPT ![e] = "active"] /\ Go(h, "issue")
         ELSE Go(h, Refusal(request[h])) /\ UNCHANGED account      \* ErrEmailTaken
    /\ UNCHANGED <<session, jar>>

CanSignIn(e) == account[e] = "active"

\* Login: FindUserByEmail, and UpdateLastLogin when the account is active.
FindUser(h) ==
    /\ At(h, "findUser")
    /\ Go(h, IF CanSignIn(request[h].user) THEN "issue" ELSE Refusal(request[h]))
    /\ UNCHANGED <<account, session, jar>>

SessionFor(e, signIn) == [user |-> e, signIn |-> signIn, expired |-> FALSE, revoked |-> "live"]

(***************************************************************************)
(* issueTokens: insert the session.  An error that reaches the handler     *)
(* after the row was committed looks like a failure to the browser.        *)
(***************************************************************************)
Issue(h, t) ==
    /\ At(h, "issue")
    /\ Unused(t)
    /\ session' = [session EXCEPT ![t] = SessionFor(request[h].user, t)]
    /\ \/ request' = [request EXCEPT ![h].at = "signedIn", ![h].issued = t]
       \/ Go(h, Refusal(request[h]))
    /\ UNCHANGED <<account, jar>>

\* Mutant: a disabled account keeps its sessions.
CanRefreshAny(t) == Usable(t)

\* FindActiveSessionByHash, then FindUserByID.  One step stands for the two
\* reads: what happens to the session in between, RevokeOld finds out.
CanRefresh(t) == Usable(t) /\ account[session[t].user] = "active"

FindSession(h) ==
    /\ At(h, "findSession")
    /\ Go(h, IF CanRefresh(request[h].cookie) THEN "revokeOld" ELSE Refusal(request[h]))
    /\ UNCHANGED <<account, session, jar>>

\* Mutant: RowsAffected is not looked at.
RotateAnyway(t) == Exists(t)

\* The UPDATE of RotateSession found its row.
Rotatable(t) == Usable(t)

(***************************************************************************)
(* The UPDATE of RotateSession waits for whoever holds the row and tests   *)
(* its condition on the row it then finds.                                 *)
(***************************************************************************)
RevokeOld(h) ==
    /\ At(h, "revokeOld")
    /\ ~Locked(request[h].cookie)
    /\ Go(h, IF Rotatable(request[h].cookie) THEN "insertNew" ELSE Refusal(request[h]))
    /\ UNCHANGED <<account, session, jar>>

\* The INSERT and the COMMIT: both rows change at once.
InsertNew(h, t) ==
    /\ At(h, "insertNew")
    /\ Unused(t)
    /\ LET old == request[h].cookie IN
         session' = [session EXCEPT ![old].revoked = "rotated",
                                    ![t] = SessionFor(session[old].user, session[old].signIn)]
    /\ \/ request' = [request EXCEPT ![h].at = "signedIn", ![h].issued = t]
       \/ Go(h, Refusal(request[h]))
    /\ UNCHANGED <<account, jar>>

\* Mutant: without the transaction the UPDATE survives a failed INSERT.
UpdateSurvives(h) ==
    IF At(h, "insertNew")
    THEN [session EXCEPT ![request[h].cookie].revoked = "rotated"] ELSE session

\* The deferred Rollback: the UPDATE of RotateSession is undone.
RolledBack(h) == session

\* RevokeSessionByHash, whether or not it found a row that was not revoked.
Revoke(h) ==
    /\ At(h, "revoke")
    /\ ~Locked(request[h].cookie)
    /\ LET t == request[h].cookie IN
         session' = IF session[t].revoked = "live"
                    THEN [session EXCEPT ![t].revoked = "loggedOut"] ELSE session
    /\ Go(h, "signedOut") \/ Go(h, Refusal(request[h]))
    /\ UNCHANGED <<account, jar>>

\* Any statement may fail: connection lost, request cancelled.
Fail(h) ==
    /\ request[h] # Null
    /\ request[h].at \in Statement
    /\ session' = RolledBack(h)
    /\ Go(h, Refusal(request[h]))
    /\ UNCHANGED <<account, jar>>

-----------------------------------------------------------------------------
\* expires_at passes.
Expire(t) ==
    /\ Exists(t)
    /\ ~session[t].expired
    /\ session' = [session EXCEPT ![t].expired = TRUE]
    /\ UNCHANGED <<account, request, jar>>

\* By hand in the database: no handler writes users.status.
Disable(e) ==
    /\ account[e] = "active"
    /\ account' = [account EXCEPT ![e] = "disabled"]
    /\ UNCHANGED <<session, request, jar>>

Next ==
    \/ \E h \in Handler, b \in Browser, e \in Email : SendSignup(h, b, e) \/ SendLogin(h, b, e)
    \/ \E h \in Handler, b \in Browser : SendRefresh(h, b) \/ SendLogout(h, b)
    \/ \E h \in Handler : Receive(h) \/ Lose(h) \/ Fail(h)
    \/ \E h \in Handler : CreateUser(h) \/ FindUser(h) \/ FindSession(h)
    \/ \E h \in Handler : RevokeOld(h) \/ Revoke(h)
    \/ \E h \in Handler, t \in Token : Issue(h, t) \/ InsertNew(h, t)
    \/ \E t \in Token : Expire(t)
    \/ \E e \in Email : Disable(e)

Spec == Init /\ [][Next]_vars

-----------------------------------------------------------------------------
(* Properties.                                                             *)

\* Every column and every cookie holds what it should; a session belongs to
\* an account, and is no older than the sign-in it stems from.
TypeOK ==
    /\ account \in [Email -> {"none", "active", "disabled"}]
    /\ session \in [Token -> SessionRow \cup {Null}]
    /\ request \in [Handler -> Request \cup {Null}]
    /\ jar \in [Browser -> Token \cup {Null}]
    /\ \A t \in Token : Exists(t) =>
          account[session[t].user] # "none" /\ Exists(session[t].signIn)
    /\ \A b \in Browser : jar[b] # Null => Exists(jar[b])

\* The session a sign-in has come to.
Current(t) == Exists(t) /\ session[t].revoked # "rotated"

SameSignIn(t, u) == session[t].signIn = session[u].signIn

\* However many refreshes with one token race each other and a logout, a
\* sign-in has one session at a time: no token is rotated twice, and none is
\* rotated after a logout.
OneSessionPerSignIn ==
    \A t, u \in Token : Current(t) /\ Current(u) /\ SameSignIn(t, u) => t = u

\* No failure between the statements of a refresh takes the session away
\* without putting another in its place: a sign-in ends only by logout or by
\* running out.
RotationLosesNothing ==
    \A t \in Token : Exists(t) => \E u \in Token : Current(u) /\ SameSignIn(t, u)

\* A browser that sends one request at a time and gets every response never
\* keeps a token that a rotation has replaced, even when a refresh reports an
\* error after it was committed.
CookieNotBehind ==
    \A b \in Careful : jar[b] # Null /\ ~InFlight(b) => Current(jar[b])

\* A request that comes in after the account was disabled signs nobody in.
\* (One that had read the account before may.)
DisabledStaysOut ==
    \A h \in Handler : At(h, "signedIn") => ~request[h].late

\* When a browser that sends one request at a time and gets every response has
\* logged out, its sign-in is over: no session of it stays usable.  (With requests
\* in parallel a refresh may overtake the logout, which then revokes nothing.)
LogoutEndsSignIn ==
    \A h \in Handler :
        At(h, "signedOut") /\ request[h].op = "logout" /\ request[h].by \in Careful
                          /\ request[h].cookie # Null =>
            \A t \in Token : Exists(t) /\ SameSignIn(t, request[h].cookie) =>
                session[t].revoked # "live"
=============================================================================
