---------------------------- MODULE LoginSessions ----------------------------
(***************************************************************************)
(* The workbench's one account: its bootstrap, its logins with the         *)
(* lockout, the sessions they open and the CSRF token of each session.     *)
(*                                                                         *)
(* A request is a handler of workbench_routes.py; it runs on a thread of   *)
(* the server and each of its store calls is a transaction, so requests    *)
(* of one browser (two tabs) and of several browsers interleave between    *)
(* them. An exception (a locked database) may end a request before any of  *)
(* its calls. All clients are on the loopback address, and every login is  *)
(* for the one e-mail address, so the lockout counts all failures.         *)
(* Whether a password is right is a choice. What no handler reads is left  *)
(* out: last_seen_at, the audit rows and the rows of successful attempts;  *)
(* and no handler disables a user.                                         *)
(*                                                                         *)
(* A session is named by its place in user_sessions and a token by its     *)
(* number; 0 is no session and no token.                                   *)
(***************************************************************************)
EXTENDS Integers, Sequences, FiniteSets

CONSTANTS
    Browser,
    WebRequest,         \* requests that may be in flight at once
    BrowserOf,          \* the browser that sends them
    SessionTtl,         \* SESSION_TTL_HOURS, in ticks
    LockoutWindow,      \* LOGIN_LOCKOUT_WINDOW_SECONDS, in ticks
    FailureLimit,       \* LOGIN_LOCKOUT_FAILURE_LIMIT
    MaxNow,             \* bound: ticks
    MaxTokens,          \* bound: CSRF tokens issued, at login and by /api/auth/me
    MaxAttempts         \* bound: failed login_attempts

ASSUME LoginAssumption ==
    /\ IsFiniteSet(WebRequest)
    /\ BrowserOf \in [WebRequest -> Browser]
    /\ {SessionTtl, LockoutWindow, MaxNow, MaxTokens, MaxAttempts} \subseteq Nat
    /\ FailureLimit \in Nat \ {0}

VARIABLES
    bootstrapped,       \* there is a user
    sessions,           \* user_sessions, in the order of their logins
    loginAttempts,      \* failed login_attempts: was a password judged, and when
    now,
    issued,             \* CSRF tokens issued so far
    webRequest,         \* where each request is, the cookies it was sent or is given
    cookie,             \* the session cookie of each browser
    csrfCookie          \* and its CSRF cookie

loginVars == <<bootstrapped, sessions, loginAttempts, now, issued, webRequest, cookie, csrfCookie>>
serverVars == <<bootstrapped, sessions, loginAttempts, now, issued>>

Idle == [at |-> "idle", session |-> 0, token |-> 0]

LoginInit ==
    /\ bootstrapped = FALSE
    /\ sessions = <<>> /\ loginAttempts = <<>> /\ now = 0 /\ issued = 0
    /\ webRequest = [r \in WebRequest |-> Idle]
    /\ cookie = [b \in Browser |-> 0]
    /\ csrfCookie = [b \in Browser |-> 0]

IsAt(r, stage) == webRequest[r].at = stage
Moves(r, stage) == webRequest' = [webRequest EXCEPT ![r].at = stage]
EndsRequest(r) == webRequest' = [webRequest EXCEPT ![r] = Idle]

\* The user behind a session: not revoked, not expired.
Answers(s) == s \in 1..Len(sessions) /\ ~sessions[s].revoked /\ sessions[s].expires > now

\* Any failed attempt of the window counts, one that was refused for the lockout too.
Failures == {i \in 1..Len(loginAttempts) : loginAttempts[i].when >= now - LockoutWindow}
LockedOneLate == Cardinality(Failures) > FailureLimit                       \* a mutant
Locked == Cardinality(Failures) >= FailureLimit

\* bootstrap_admin, in one transaction; refused once there is a user.
Bootstrap ==
    /\ ~bootstrapped
    /\ bootstrapped' = TRUE
    /\ UNCHANGED <<sessions, loginAttempts, now, issued, webRequest, cookie, csrfCookie>>

\* A login looks its user up: the password of a user that is not there is judged and wrong.
BeginLogin(r) ==
    /\ IsAt(r, "idle")
    /\ Moves(r, IF bootstrapped THEN "looked" ELSE "unknown")
    /\ UNCHANGED <<serverVars, cookie, csrfCookie>>

\* is_login_locked reads the failures; the password is judged after that.
CheckLock(r) ==
    /\ webRequest[r].at \in {"looked", "unknown"}
    /\ \/ Locked /\ Moves(r, "locked")
       \/ ~Locked /\ IsAt(r, "unknown") /\ Moves(r, "wrong")
       \/ ~Locked /\ IsAt(r, "looked") /\ \E verdict \in {"right", "wrong"} : Moves(r, verdict)
    /\ UNCHANGED <<serverVars, cookie, csrfCookie>>

\* The attempt is recorded and answered with a 401, which sets no cookie.
RefuseLogin(r) ==
    /\ webRequest[r].at \in {"locked", "wrong"}
    /\ Len(loginAttempts) < MaxAttempts
    /\ loginAttempts' = Append(loginAttempts, [judged |-> IsAt(r, "wrong"), when |-> now])
    /\ EndsRequest(r)
    /\ UNCHANGED <<bootstrapped, sessions, now, issued, cookie, csrfCookie>>

\* A mutant: the other sessions stay open.
OpenSessionBesides(r) ==
    /\ IsAt(r, "right")
    /\ issued < MaxTokens
    /\ issued' = issued + 1
    /\ sessions' = Append(sessions,
           [revoked |-> FALSE, expires |-> now + SessionTtl, token |-> issued'])
    /\ webRequest' = [webRequest EXCEPT ![r] =
           [at |-> "opened", session |-> Len(sessions'), token |-> issued']]
    /\ UNCHANGED <<bootstrapped, loginAttempts, now, cookie, csrfCookie>>

\* create_user_session: the user's other sessions are revoked in the same transaction.
OpenSession(r) ==
    /\ IsAt(r, "right")
    /\ issued < MaxTokens
    /\ issued' = issued + 1
    /\ sessions' = Append([s \in 1..Len(sessions) |-> [sessions[s] EXCEPT !.revoked = TRUE]],
           [revoked |-> FALSE, expires |-> now + SessionTtl, token |-> issued'])
    /\ webRequest' = [webRequest EXCEPT ![r] =
           [at |-> "opened", session |-> Len(sessions'), token |-> issued']]
    /\ UNCHANGED <<bootstrapped, loginAttempts, now, cookie, csrfCookie>>

\* The success is recorded after the session is open; only then is there an answer.
RecordLogin(r) ==
    /\ IsAt(r, "opened")
    /\ Moves(r, "login done")
    /\ UNCHANGED <<serverVars, cookie, csrfCookie>>

\* The browser sends its session cookie with every other request; for a post, here a
\* logout, a page reads the CSRF cookie into a header.
Send(r, kind) ==
    /\ IsAt(r, "idle")
    /\ cookie[BrowserOf[r]] # 0
    /\ webRequest' = [webRequest EXCEPT ![r] =
           [at |-> kind, session |-> cookie[BrowserOf[r]],
            token |-> IF kind = "logout" THEN csrfCookie[BrowserOf[r]] ELSE 0]]
    /\ UNCHANGED <<serverVars, cookie, csrfCookie>>

\* require_current_user, of /api/auth/me and of a logout.
RequireUser(r) ==
    /\ \/ ~Answers(webRequest[r].session) /\ webRequest[r].at \in {"me", "logout"} /\ EndsRequest(r)
       \/ Answers(webRequest[r].session) /\ IsAt(r, "me") /\ Moves(r, "me admitted")
       \/ Answers(webRequest[r].session) /\ IsAt(r, "logout") /\ Moves(r, "logout admitted")
    /\ UNCHANGED <<serverVars, cookie, csrfCookie>>

\* A mutant: the new token is answered and not stored.
RotateTokenUnstored(r) ==
    /\ IsAt(r, "me admitted")
    /\ issued < MaxTokens
    /\ issued' = issued + 1
    /\ webRequest' = [webRequest EXCEPT ![r].at = "me done", ![r].token = issued']
    /\ UNCHANGED <<bootstrapped, sessions, loginAttempts, now, cookie, csrfCookie>>

\* rotate_session_csrf gives the session a new token, unless it was revoked meanwhile; the
\* answer carries the token in either case.
RotateToken(r) ==
    /\ IsAt(r, "me admitted")
    /\ issued < MaxTokens
    /\ issued' = issued + 1
    /\ LET s == webRequest[r].session IN
       sessions' = IF sessions[s].revoked THEN sessions
                   ELSE [sessions EXCEPT ![s].token = issued']
    /\ webRequest' = [webRequest EXCEPT ![r].at = "me done", ![r].token = issued']
    /\ UNCHANGED <<bootstrapped, loginAttempts, now, cookie, csrfCookie>>

\* verify_session_csrf, the second half of require_csrf_user: another transaction, which
\* asks for the token and not for the expiry.
RequireToken(r) ==
    /\ IsAt(r, "logout admitted")
    /\ LET s == webRequest[r].session IN
       IF ~sessions[s].revoked /\ sessions[s].token = webRequest[r].token
       THEN webRequest' = [webRequest EXCEPT ![r].at = "logout verified", ![r].token = 0]
       ELSE EndsRequest(r)
    /\ UNCHANGED <<serverVars, cookie, csrfCookie>>

RevokeSession(r) ==
    /\ IsAt(r, "logout verified")
    /\ sessions' = [sessions EXCEPT ![webRequest[r].session].revoked = TRUE]
    /\ Moves(r, "logout done")
    /\ UNCHANGED <<bootstrapped, loginAttempts, now, issued, cookie, csrfCookie>>

\* Answers reach a browser in any order: a login sets both cookies, /api/auth/me the CSRF
\* cookie, and a logout deletes both.
Answer(r) ==
    /\ webRequest[r].at \in {"login done", "me done", "logout done"}
    /\ LET b == BrowserOf[r] IN
       /\ cookie' = IF IsAt(r, "me done") THEN cookie
                    ELSE [cookie EXCEPT ![b] =
                              IF IsAt(r, "login done") THEN webRequest[r].session ELSE 0]
       /\ csrfCookie' = [csrfCookie EXCEPT ![b] = webRequest[r].token]
    /\ EndsRequest(r)
    /\ UNCHANGED serverVars

\* A store call raises: the transactions before it stay, and no cookie is set.
RequestFails(r) ==
    /\ webRequest[r].at \notin {"idle", "login done", "me done", "logout done"}
    /\ EndsRequest(r)
    /\ UNCHANGED <<serverVars, cookie, csrfCookie>>

TimePasses ==
    /\ now < MaxNow
    /\ now' = now + 1
    /\ UNCHANGED <<bootstrapped, sessions, loginAttempts, issued, webRequest, cookie, csrfCookie>>

LoginNext ==
    \/ Bootstrap \/ TimePasses
    \/ \E r \in WebRequest :
        \/ BeginLogin(r) \/ CheckLock(r) \/ RefuseLogin(r) \/ OpenSession(r) \/ RecordLogin(r)
        \/ Send(r, "me") \/ Send(r, "logout") \/ RequireUser(r) \/ RotateToken(r)
        \/ RequireToken(r) \/ RevokeSession(r) \/ Answer(r) \/ RequestFails(r)

LoginSpec == LoginInit /\ [][LoginNext]_loginVars

-----------------------------------------------------------------------------
Stage == {"idle", "unknown", "looked", "locked", "right", "wrong", "opened", "login done",
          "me", "me admitted", "me done",
          "logout", "logout admitted", "logout verified", "logout done"}
SessionRow == [revoked : BOOLEAN, expires : Nat, token : 1..issued]
AttemptRow == [judged : BOOLEAN, when : 0..now]

\* The tables and cookies are what they can be; a request that acts for a session names a
\* row of user_sessions (_get_user_by_session, create_user_session).
LoginTypeOK ==
    /\ bootstrapped \in BOOLEAN
    /\ now \in Nat /\ issued \in Nat
    /\ sessions \in Seq(SessionRow) /\ loginAttempts \in Seq(AttemptRow)
    /\ webRequest \in [WebRequest -> [at : Stage, session : 0..Len(sessions), token : 0..issued]]
    /\ cookie \in [Browser -> 0..Len(sessions)]
    /\ csrfCookie \in [Browser -> 0..issued]

\* However logins, logouts and failing requests interleave, only the session of the latest
\* login can answer, and a request that has passed its checks acts for a row that exists
\* (create_user_session, login, require_csrf_user).
NewestLoginHolds ==
    /\ \A s \in 1..Len(sessions) - 1 : sessions[s].revoked
    /\ \A r \in WebRequest :
           webRequest[r].at \notin {"idle", "looked", "unknown", "locked", "right", "wrong"} =>
               webRequest[r].session \in 1..Len(sessions)

\* Requests in flight may each have read the failures before the others were recorded; but
\* no window ever holds more judged and failed passwords than those before the lockout and
\* one for each such request (login, is_login_locked, record_login_attempt).
Guesses == {i \in Failures : loginAttempts[i].judged}
GuessesAreBounded == Cardinality(Guesses) <= FailureLimit - 1 + Cardinality(WebRequest)

\* A browser that sends one request at a time holds the token of its session, as long as
\* that session is not revoked: whatever other browsers do, its posts are not refused for
\* their token (login, me, rotate_session_csrf, verify_session_csrf).
Alone(b) == \A r1, r2 \in {r \in WebRequest : BrowserOf[r] = b} : r1 = r2
Quiet(b) == \A r \in WebRequest : BrowserOf[r] = b => webRequest[r].at \notin {"me done", "login done"}
TokenFitsSession ==
    \A b \in Browser : Alone(b) /\ Quiet(b) /\ cookie[b] # 0 /\ ~sessions[cookie[b]].revoked
        => sessions[cookie[b]].token = csrfCookie[b]
=============================================================================
