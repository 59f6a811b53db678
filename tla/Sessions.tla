------------------------------ MODULE Sessions -------------------------------
(***************************************************************************)
(* Dashboard sessions: AuthService's login, refresh and logout, the JWT    *)
(* guard, and one browser holding the two cookies.  The browser may have   *)
(* several calls under way (tabs), answers arrive in any order or are      *)
(* lost, and the reads of a call are not in the transaction that follows.  *)
(*                                                                         *)
(* Time is abstract: a lock, a session row and an access token each lapse  *)
(* at some moment.  There is one user.  A session row that is dead and     *)
(* that nobody holds may be reused as a new row (the code draws a fresh    *)
(* random token), which keeps the rows finite.                             *)
(***************************************************************************)
EXTENDS Naturals, FiniteSets

CONSTANTS
  SessionIds,              \* session rows, named by their refresh token
  AuthCalls,               \* calls of the browser in flight
  NoSession,
  maxFailedLoginAttempts   \* MAX_FAILED_LOGIN_ATTEMPTS

ASSUME SessionConstants ==
  /\ NoSession \notin SessionIds
  /\ maxFailedLoginAttempts \in Nat \ {0}

VARIABLES
  authUser,     \* users row: status, failedLoginCount, locked
  authSession,  \* sessions: "live", "expired" (or not yet used) or "revoked"
  authCall,     \* calls in flight
  authCookie,   \* the browser's gw_refresh and its gw_access token
  authLost      \* an answer with new cookies was lost since the last login

sessionVars == <<authUser, authSession, authCall, authCookie, authLost>>

IdleAuthCall == [pc |-> "idle"]
NoCookies == [refresh |-> NoSession, access |-> "none"]

SessionsInit ==
  /\ authUser = [status |-> "ACTIVE", failed |-> 0, locked |-> FALSE]
  /\ authSession = [s \in SessionIds |-> "expired"]
  /\ authCall = [c \in AuthCalls |-> IdleAuthCall]
  /\ authCookie = NoCookies
  /\ authLost = FALSE

-----------------------------------------------------------------------------

\* Sessions named by the browser's cookie or by a call.
HeldSessions ==
  {authCookie.refresh}
    \cup {authCall[c].old : c \in {d \in AuthCalls : authCall[d].pc \in {"user", "rotate"}}}
    \cup {authCall[c].new : c \in {d \in AuthCalls : authCall[d].pc = "respond"}}

\* generateOpaqueToken: a token no row has.
FreshSessions == {s \in SessionIds : authSession[s] # "live" /\ s \notin HeldSessions}
FreshSession == CHOOSE s \in FreshSessions : TRUE

AuthGoto(c, call) == authCall' = [authCall EXCEPT ![c] = call]

verifyPassword(password) == password = "right"

\* login: read the user; an unknown, inactive or locked one is refused at once.
LoginRead(c, password) ==
  /\ authCall[c].pc = "idle"
  /\ authUser.status = "ACTIVE" /\ ~authUser.locked
  /\ AuthGoto(c, IF verifyPassword(password) THEN [pc |-> "login"]
                 ELSE [pc |-> "badPassword", failed |-> authUser.failed])
  /\ UNCHANGED <<authUser, authSession, authCookie, authLost>>

\* The attempt that locks the account.  (Mutant: one attempt too late.)
locksOneLate(failedCount) == failedCount > maxFailedLoginAttempts
Locks(failedCount) == failedCount >= maxFailedLoginAttempts

\* verifyPassword returned false: the counters are written from what was read.
LoginFailed(c) ==
  LET failedCount == authCall[c].failed + 1
      locking == Locks(failedCount)
  IN
  /\ authCall[c].pc = "badPassword"
  /\ authUser' = [authUser EXCEPT !.failed = IF locking THEN 0 ELSE failedCount,
                                  !.locked = locking]
  /\ AuthGoto(c, IdleAuthCall)
  /\ UNCHANGED <<authSession, authCookie, authLost>>

\* The login transaction: reset the counters, create the session row.
LoginCommit(c) ==
  /\ authCall[c].pc = "login"
  /\ authUser' = [authUser EXCEPT !.failed = 0, !.locked = FALSE]
  /\ FreshSessions # {}
  /\ authSession' = [authSession EXCEPT ![FreshSession] = "live"]
  /\ AuthGoto(c, [pc |-> "respond", new |-> FreshSession, kind |-> "login"])
  /\ UNCHANGED <<authCookie, authLost>>

-----------------------------------------------------------------------------

\* refresh: read the session the cookie names ...
RefreshReadSession(c) ==
  LET s == authCookie.refresh IN
  /\ authCall[c].pc = "idle"
  /\ s # NoSession /\ authSession[s] = "live"
  /\ AuthGoto(c, [pc |-> "user", old |-> s])
  /\ UNCHANGED <<authUser, authSession, authCookie, authLost>>

\* (Mutant: the user's status is not looked at.)
anyoneRefreshes == TRUE
MayRefresh == authUser.status = "ACTIVE"

\* ... then the user, who must be active ...
RefreshReadUser(c) ==
  /\ authCall[c].pc = "user"
  /\ AuthGoto(c, IF MayRefresh
                 THEN [pc |-> "rotate", old |-> authCall[c].old] ELSE IdleAuthCall)
  /\ UNCHANGED <<authUser, authSession, authCookie, authLost>>

\* (Mutant: every session of the user is revoked.)
rotatedAll(old, new) == [s \in SessionIds |-> IF s = new THEN "live" ELSE "revoked"]
Rotated(old, new) == [authSession EXCEPT ![old] = "revoked", ![new] = "live"]

\* ... then the rotation: the old row is revoked and a new one created,
\* whatever has become of the old row meanwhile.
RefreshCommit(c) ==
  /\ authCall[c].pc = "rotate"
  /\ FreshSessions # {}
  /\ authSession' = Rotated(authCall[c].old, FreshSession)
  /\ AuthGoto(c, [pc |-> "respond", new |-> FreshSession, kind |-> "refresh"])
  /\ UNCHANGED <<authUser, authCookie, authLost>>

-----------------------------------------------------------------------------

\* logout: the row is revoked if it is not yet.
Logout(c) ==
  /\ authCall[c].pc = "idle" /\ authCookie.refresh # NoSession
  /\ authSession' = [authSession EXCEPT ![authCookie.refresh] = "revoked"]
  /\ AuthGoto(c, [pc |-> "clear"])
  /\ UNCHANGED <<authUser, authCookie, authLost>>

-----------------------------------------------------------------------------

\* An access token names the user and expires; nothing else ends it.  One
\* that has expired is as good as none.
signJwt == "valid"
verifyJwt(token) == token = "valid"

signAccessToken == signJwt

\* setAuthCookies: the answer of a login or a refresh reaches the browser.
SetAuthCookies(c) ==
  /\ authCall[c].pc = "respond"
  /\ authCookie' = [refresh |-> authCall[c].new, access |-> signAccessToken]
  /\ authLost' = (authLost /\ authCall[c].kind # "login")
  /\ AuthGoto(c, IdleAuthCall)
  /\ UNCHANGED <<authUser, authSession>>

\* clearAuthCookies.
ClearAuthCookies(c) ==
  /\ authCall[c].pc = "clear"
  /\ authCookie' = NoCookies
  /\ AuthGoto(c, IdleAuthCall)
  /\ UNCHANGED <<authUser, authSession, authLost>>

\* The answer is lost on its way (the connection breaks).
LoseAnswer(c) ==
  /\ authCall[c].pc \in {"respond", "clear"}
  /\ authLost' = TRUE
  /\ AuthGoto(c, IdleAuthCall)
  /\ UNCHANGED <<authUser, authSession, authCookie>>

\* JwtAuthGuard: the token decides, and the database is not asked.
JwtAuthGuard == verifyJwt(authCookie.access)

-----------------------------------------------------------------------------
(* Time passing, and the user's status changed by hand in the database.    *)

LockLapses ==
  /\ authUser.locked
  /\ authUser' = [authUser EXCEPT !.locked = FALSE]
  /\ UNCHANGED <<authSession, authCall, authCookie, authLost>>

SessionLapses(s) ==
  /\ authSession[s] = "live"
  /\ authSession' = [authSession EXCEPT ![s] = "expired"]
  /\ UNCHANGED <<authUser, authCall, authCookie, authLost>>

AccessLapses ==
  /\ JwtAuthGuard
  /\ authCookie' = [authCookie EXCEPT !.access = "none"]
  /\ UNCHANGED <<authUser, authSession, authCall, authLost>>

SetUserStatus ==
  /\ authUser' = [authUser EXCEPT !.status = IF @ = "ACTIVE" THEN "SUSPENDED" ELSE "ACTIVE"]
  /\ UNCHANGED <<authSession, authCall, authCookie, authLost>>

AuthStep(c) ==
  \/ LoginFailed(c) \/ LoginCommit(c)
  \/ RefreshReadUser(c) \/ RefreshCommit(c)
  \/ SetAuthCookies(c) \/ ClearAuthCookies(c)

AuthRoutes(c) ==
  \/ \E password \in {"right", "wrong"} : LoginRead(c, password)
  \/ RefreshReadSession(c) \/ Logout(c)

SessionsNext ==
  \/ \E c \in AuthCalls : AuthRoutes(c) \/ AuthStep(c) \/ LoseAnswer(c)
  \/ LockLapses \/ AccessLapses \/ SetUserStatus
  \/ \E s \in SessionIds : SessionLapses(s)

\* Calls that have started end, and tokens lapse.
SessionsFairness ==
  /\ \A c \in AuthCalls : WF_sessionVars(AuthStep(c))
  /\ WF_sessionVars(AccessLapses)

SessionsSpec == SessionsInit /\ [][SessionsNext]_sessionVars /\ SessionsFairness

-----------------------------------------------------------------------------

SessionsTypeOK ==
  /\ authUser \in [status : {"ACTIVE", "SUSPENDED"}, failed : 0..maxFailedLoginAttempts-1,
                   locked : BOOLEAN]
  /\ authSession \in [SessionIds -> {"live", "expired", "revoked"}]
  /\ authCookie \in [refresh : SessionIds \cup {NoSession}, access : {"none", "valid"}]
  /\ authLost \in BOOLEAN

\* Two tabs that refresh at the same time, with answers in either order, do
\* not log the user out: once every call is answered and no answer was lost,
\* the cookie the browser ends up with names a session that was not revoked
\* (AuthService.refresh: each rotation revokes only the row it was given).
CookieIsLive ==
  /\ ~authLost
  /\ \A c \in AuthCalls : authCall[c].pc = "idle"
  /\ authCookie.refresh # NoSession
  => authSession[authCookie.refresh] # "revoked"

\* Suspending a user ends their dashboard access, although access tokens are
\* not checked against the database and calls may be under way: no refresh
\* or login renews them for ever (auth.service.ts 61 and 140).
SuspensionBites ==
  <>[](authUser.status = "SUSPENDED") => <>[]~JwtAuthGuard
=============================================================================
