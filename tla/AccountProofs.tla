---------------------------- MODULE AccountProofs ----------------------------
(***************************************************************************)
(* Dashboard sessions, merchant members and idempotency keys, for any      *)
(* number of calls in flight, session rows, users, API keys, keys and      *)
(* bodies.                                                                 *)
(***************************************************************************)
EXTENDS Sessions, MerchantAccess, IdempotencyKeys, FiniteSetTheorems, TLAPS

-----------------------------------------------------------------------------
(* Sessions: an answer under way names a session nobody else knows of, so  *)
(* only its own arrival can make it the browser's.                         *)

AuthCallState ==
  [pc : {"idle", "login", "clear"}]
    \cup [pc : {"badPassword"}, failed : 0..maxFailedLoginAttempts-1]
    \cup [pc : {"user", "rotate"}, old : SessionIds]
    \cup [pc : {"respond"}, new : SessionIds, kind : {"login", "refresh"}]

\* Session s is known to call x: as the one it rotates, or as its answer.
Rotates(x, s)  == x.pc \in {"user", "rotate"} /\ x.old = s
Responds(x, s) == x.pc = "respond" /\ x.new = s

\* The answer of x names a session that is not revoked, that the browser's
\* cookie k does not name and that no other call y knows of.
AnswerSound(x, k, rows) ==
  \A s \in SessionIds : Responds(x, s) => rows[s] # "revoked" /\ k # s
AnswersApart(x, y) ==
  \A s \in SessionIds : Responds(x, s) => ~Responds(y, s) /\ ~Rotates(y, s)

SessionsTypes ==
  /\ SessionsTypeOK
  /\ authCall \in [AuthCalls -> AuthCallState]

SessionsInv ==
  /\ SessionsTypes
  /\ \A c \in AuthCalls : AnswerSound(authCall[c], authCookie.refresh, authSession)
  /\ \A c, d \in AuthCalls : c # d => AnswersApart(authCall[c], authCall[d])
  /\ \/ authLost
     \/ authCookie.refresh = NoSession
     \/ authSession[authCookie.refresh] # "revoked"
     \/ \E c \in AuthCalls : authCall[c].pc \in {"respond", "clear"}


\* Calls keep out of each other's way if the one that moves does.
LEMMA CallMoves ==
  ASSUME SessionsInv, NEW c \in AuthCalls, NEW y \in AuthCallState,
         authCall' = [authCall EXCEPT ![c] = y], SessionsTypeOK',
         AnswerSound(y, authCookie.refresh', authSession'),
         \A d \in AuthCalls \ {c} :
           /\ AnswerSound(authCall[d], authCookie.refresh', authSession')
           /\ AnswersApart(y, authCall[d])
           /\ AnswersApart(authCall[d], y),
         \/ authLost'
         \/ authCookie.refresh' = NoSession
         \/ authSession'[authCookie.refresh'] # "revoked"
         \/ y.pc \in {"respond", "clear"}
         \/ /\ authCall[c].pc \notin {"respond", "clear"}
            /\ \E d \in AuthCalls : authCall[d].pc \in {"respond", "clear"}
  PROVE  SessionsInv'
<1>1. authCall \in [AuthCalls -> AuthCallState]
  BY DEF SessionsInv, SessionsTypes
<1>2. authCall'[c] = y /\ \A d \in AuthCalls : d # c => authCall'[d] = authCall[d]
  BY <1>1
<1>3. SessionsTypes'
  BY <1>1 DEF SessionsTypes
<1>4. \A d \in AuthCalls : AnswerSound(authCall'[d], authCookie.refresh', authSession')
  BY <1>2
<1>5. \A d, e \in AuthCalls : d # e => AnswersApart(authCall'[d], authCall'[e])
  BY <1>2 DEF SessionsInv
<1>6. \/ authLost'
      \/ authCookie.refresh' = NoSession
      \/ authSession'[authCookie.refresh'] # "revoked"
      \/ \E d \in AuthCalls : authCall'[d].pc \in {"respond", "clear"}
  BY <1>2
<1> QED BY <1>3, <1>4, <1>5, <1>6 DEF SessionsInv

\* A call that is in no state to answer or rotate disturbs nobody.
LEMMA CallRests ==
  ASSUME SessionsInv, NEW c \in AuthCalls, NEW y \in AuthCallState,
         authCall' = [authCall EXCEPT ![c] = y],
         y.pc \notin {"user", "rotate", "respond"},
         authCall[c].pc \notin {"respond", "clear"},
         SessionsTypeOK', UNCHANGED <<authSession, authCookie, authLost>>
  PROVE  SessionsInv'
<1>1. /\ AnswerSound(y, authCookie.refresh, authSession)
      /\ \A d \in AuthCalls : AnswersApart(y, authCall[d]) /\ AnswersApart(authCall[d], y)
  BY DEF AnswerSound, AnswersApart, Responds, Rotates
<1>2. \A d \in AuthCalls : AnswerSound(authCall[d], authCookie.refresh, authSession)
  BY DEF SessionsInv
<1>3. \/ authLost'
      \/ authCookie.refresh' = NoSession
      \/ authSession'[authCookie.refresh'] # "revoked"
      \/ \E d \in AuthCalls : authCall[d].pc \in {"respond", "clear"}
  BY DEF SessionsInv
<1> QED BY <1>1, <1>2, <1>3, CallMoves

\* A new token belongs to nobody.
LEMMA FreshIsFree ==
  ASSUME SessionsInv, FreshSessions # {}
  PROVE  /\ FreshSession \in SessionIds
         /\ FreshSession # authCookie.refresh
         /\ \A d \in AuthCalls : ~Responds(authCall[d], FreshSession) /\ ~Rotates(authCall[d], FreshSession)
<1>1. FreshSession \in FreshSessions
  BY DEF FreshSession
<1>2. FreshSession \in SessionIds /\ FreshSession \notin HeldSessions
  BY <1>1 DEF FreshSessions
<1> QED BY <1>2 DEF HeldSessions, Responds, Rotates

\* The reads of a login, and the counting of a wrong password.
LEMMA LoginKeeps ==
  ASSUME SessionsInv, NEW c \in AuthCalls,
         (\E password \in {"right", "wrong"} : LoginRead(c, password)) \/ LoginFailed(c)
  PROVE  SessionsInv'
<1>1. SessionsTypeOK /\ authCall[c] \in AuthCallState
  BY DEF SessionsInv, SessionsTypes
<1>2. IdleAuthCall \in AuthCallState /\ [pc |-> "login"] \in AuthCallState
  BY DEF IdleAuthCall, AuthCallState
<1>3. ASSUME NEW password, LoginRead(c, password) PROVE SessionsInv'
  <2> DEFINE y == IF verifyPassword(password) THEN [pc |-> "login"]
                  ELSE [pc |-> "badPassword", failed |-> authUser.failed]
  <2>1. authUser.failed \in 0..maxFailedLoginAttempts-1
    BY <1>1 DEF SessionsTypeOK
  <2>2. y \in AuthCallState /\ y.pc \in {"login", "badPassword"}
    BY <1>2, <2>1 DEF AuthCallState
  <2>3. /\ authCall' = [authCall EXCEPT ![c] = y] /\ authCall[c].pc = "idle"
        /\ UNCHANGED <<authUser, authSession, authCookie, authLost>>
    BY <1>3 DEF LoginRead, AuthGoto
  <2>4. SessionsTypeOK'
    BY <1>1, <2>3 DEF SessionsTypeOK
  <2> HIDE DEF y
  <2> QED BY <2>2, <2>3, <2>4, CallRests
<1>4. ASSUME LoginFailed(c) PROVE SessionsInv'
  <2> DEFINE failedCount == authCall[c].failed + 1
             locking == Locks(failedCount)
  <2>1. authCall[c].pc = "badPassword"
    BY <1>4 DEF LoginFailed
  <2>2. authCall[c].failed \in 0..maxFailedLoginAttempts-1
    BY <1>1, <2>1 DEF AuthCallState
  <2>3. locking \in BOOLEAN
    BY DEF Locks
  <2>4. (IF locking THEN 0 ELSE failedCount) \in 0..maxFailedLoginAttempts-1
    BY <2>2, SessionConstants DEF Locks
  <2>5. authUser' = [authUser EXCEPT !.failed = IF locking THEN 0 ELSE failedCount, !.locked = locking]
    BY <1>4 DEF LoginFailed
  <2> HIDE DEF locking, failedCount
  <2>6. authUser' \in [status : {"ACTIVE", "SUSPENDED"}, failed : 0..maxFailedLoginAttempts-1, locked : BOOLEAN]
    BY <1>1, <2>3, <2>4, <2>5 DEF SessionsTypeOK
  <2>7. /\ authCall' = [authCall EXCEPT ![c] = IdleAuthCall]
        /\ UNCHANGED <<authSession, authCookie, authLost>>
    BY <1>4 DEF LoginFailed, AuthGoto
  <2>8. SessionsTypeOK'
    BY <1>1, <2>6, <2>7 DEF SessionsTypeOK
  <2>9. IdleAuthCall.pc = "idle"
    BY DEF IdleAuthCall
  <2> QED BY <1>2, <2>1, <2>7, <2>8, <2>9, CallRests
<1> QED BY <1>3, <1>4

\* A session row is created for a login or in place of the one rotated.
LEMMA CreateKeeps ==
  ASSUME SessionsInv, NEW c \in AuthCalls, LoginCommit(c) \/ RefreshCommit(c)
  PROVE  SessionsInv'
<1> DEFINE f == FreshSession
           x == authCall[c]
<1>1. SessionsTypeOK /\ x \in AuthCallState
  BY DEF SessionsInv, SessionsTypes
<1>2. /\ f \in SessionIds /\ f # authCookie.refresh
      /\ \A d \in AuthCalls : ~Responds(authCall[d], f) /\ ~Rotates(authCall[d], f)
  BY FreshIsFree DEF LoginCommit, RefreshCommit
<1> HIDE DEF f
<1>3. PICK kind \in {"login", "refresh"} :
        authCall' = [authCall EXCEPT ![c] = [pc |-> "respond", new |-> f, kind |-> kind]]
  BY DEF LoginCommit, RefreshCommit, AuthGoto, f
<1>4. /\ authSession' \in [SessionIds -> {"live", "expired", "revoked"}]
      /\ authSession'[f] = "live"
      /\ \A s \in SessionIds : authSession'[s] = "revoked" => authSession[s] = "revoked" \/ Rotates(x, s)
  <2>1. CASE LoginCommit(c)
    BY <1>1, <1>2, <2>1 DEF LoginCommit, SessionsTypeOK, f
  <2>2. CASE RefreshCommit(c)
    <3>1. x.pc = "rotate" /\ x.old \in SessionIds
      BY <1>1, <2>2 DEF RefreshCommit, AuthCallState
    <3>2. authSession' = [authSession EXCEPT ![x.old] = "revoked", ![f] = "live"]
      BY <2>2 DEF RefreshCommit, Rotated, f
    <3> QED BY <1>1, <1>2, <3>1, <3>2 DEF SessionsTypeOK, Rotates
  <2> QED BY <2>1, <2>2
<1>5. authUser' \in [status : {"ACTIVE", "SUSPENDED"}, failed : 0..maxFailedLoginAttempts-1, locked : BOOLEAN]
  <2>1. 0 \in 0..maxFailedLoginAttempts-1 /\ FALSE \in BOOLEAN
    BY SessionConstants
  <2> QED BY <1>1, <2>1 DEF LoginCommit, RefreshCommit, SessionsTypeOK
<1>6. SessionsTypeOK' /\ UNCHANGED <<authCookie, authLost>>
  BY <1>1, <1>4, <1>5 DEF SessionsTypeOK, LoginCommit, RefreshCommit
<1> DEFINE y == [pc |-> "respond", new |-> f, kind |-> kind]
<1>7. y \in AuthCallState /\ y.pc = "respond" /\ y.new = f
  BY <1>2 DEF AuthCallState
<1> HIDE DEF y
<1>8. AnswerSound(y, authCookie.refresh', authSession')
  BY <1>2, <1>4, <1>6, <1>7 DEF AnswerSound, Responds
<1>9. ASSUME NEW d \in AuthCalls, d # c
      PROVE  /\ AnswerSound(authCall[d], authCookie.refresh', authSession')
             /\ AnswersApart(y, authCall[d])
             /\ AnswersApart(authCall[d], y)
  <2>1. AnswersApart(authCall[d], x) /\ AnswerSound(authCall[d], authCookie.refresh, authSession)
    BY <1>9 DEF SessionsInv
  <2>2. AnswerSound(authCall[d], authCookie.refresh', authSession')
    BY <1>4, <1>6, <2>1 DEF AnswerSound, AnswersApart
  <2>3. AnswersApart(y, authCall[d]) /\ AnswersApart(authCall[d], y)
    BY <1>2, <1>7 DEF AnswersApart, Responds, Rotates
  <2> QED BY <2>2, <2>3
<1> QED BY <1>3, <1>6, <1>7, <1>8, <1>9, CallMoves DEF y

\* The reads of a refresh.
LEMMA RefreshReadsKeep ==
  ASSUME SessionsInv, NEW c \in AuthCalls, RefreshReadSession(c) \/ RefreshReadUser(c)
  PROVE  SessionsInv'
<1> DEFINE x == authCall[c]
<1>1. SessionsTypeOK /\ x \in AuthCallState
  BY DEF SessionsInv, SessionsTypes
<1>2. SessionsTypeOK' /\ UNCHANGED <<authSession, authCookie, authLost>>
  BY <1>1 DEF RefreshReadSession, RefreshReadUser, SessionsTypeOK
<1>3. \A d \in AuthCalls : AnswerSound(authCall[d], authCookie.refresh, authSession)
  BY DEF SessionsInv
<1>4. \/ authLost \/ authCookie.refresh = NoSession
      \/ authSession[authCookie.refresh] # "revoked"
      \/ \E d \in AuthCalls : authCall[d].pc \in {"respond", "clear"}
  BY DEF SessionsInv
<1>5. ASSUME NEW y \in AuthCallState, NEW s \in SessionIds, y.pc \in {"user", "rotate"}, y.old = s,
             s = authCookie.refresh \/ Rotates(x, s),
             x.pc \in {"idle", "user"},
             authCall' = [authCall EXCEPT ![c] = y]
      PROVE  SessionsInv'
  <2>1. AnswerSound(y, authCookie.refresh, authSession)
    BY <1>5 DEF AnswerSound, Responds
  <2>2. ASSUME NEW d \in AuthCalls, d # c
        PROVE  AnswersApart(y, authCall[d]) /\ AnswersApart(authCall[d], y)
    <3>1. AnswersApart(authCall[d], x)
      BY <2>2 DEF SessionsInv
    <3> QED BY <1>3, <1>5, <3>1 DEF AnswersApart, AnswerSound, Responds, Rotates
  <2> QED BY <1>2, <1>3, <1>4, <1>5, <2>1, <2>2, CallMoves
<1>6. CASE RefreshReadSession(c)
  <2> DEFINE s == authCookie.refresh
             y == [pc |-> "user", old |-> s]
  <2>1. s \in SessionIds /\ x.pc = "idle"
    BY <1>1, <1>6 DEF RefreshReadSession, SessionsTypeOK
  <2>2. y \in AuthCallState /\ y.pc = "user" /\ y.old = s
    BY <2>1 DEF AuthCallState
  <2>3. authCall' = [authCall EXCEPT ![c] = y]
    BY <1>6 DEF RefreshReadSession, AuthGoto
  <2> HIDE DEF y
  <2> QED BY <1>5, <2>1, <2>2, <2>3
<1>7. CASE RefreshReadUser(c)
  <2>1. x.pc = "user" /\ x.old \in SessionIds
    BY <1>1, <1>7 DEF RefreshReadUser, AuthCallState
  <2>2. CASE MayRefresh
    <3> DEFINE y == [pc |-> "rotate", old |-> x.old]
    <3>1. y \in AuthCallState /\ y.pc = "rotate" /\ y.old = x.old
      BY <2>1 DEF AuthCallState
    <3>2. authCall' = [authCall EXCEPT ![c] = y]
      BY <1>7, <2>2 DEF RefreshReadUser, AuthGoto
    <3> HIDE DEF y
    <3> QED BY <1>5, <2>1, <3>1, <3>2 DEF Rotates
  <2>3. CASE ~MayRefresh
    <3>1. authCall' = [authCall EXCEPT ![c] = IdleAuthCall]
      BY <1>7, <2>3 DEF RefreshReadUser, AuthGoto
    <3>2. IdleAuthCall \in AuthCallState /\ IdleAuthCall.pc = "idle"
      BY DEF IdleAuthCall, AuthCallState
    <3> QED BY <1>2, <2>1, <3>1, <3>2, CallRests
  <2> QED BY <2>2, <2>3
<1> QED BY <1>6, <1>7

\* Logging out revokes the browser's session, and the answer clears its cookies.
LEMMA LogoutKeeps ==
  ASSUME SessionsInv, NEW c \in AuthCalls, Logout(c)
  PROVE  SessionsInv'
<1> DEFINE y == [pc |-> "clear"]
           k == authCookie.refresh
<1>1. SessionsTypeOK
  BY DEF SessionsInv, SessionsTypes
<1>2. /\ authCall' = [authCall EXCEPT ![c] = y]
      /\ authSession' = [authSession EXCEPT ![k] = "revoked"]
      /\ UNCHANGED <<authUser, authCookie, authLost>>
  BY DEF Logout, AuthGoto
<1>3. y \in AuthCallState /\ y.pc = "clear"
  BY DEF AuthCallState
<1> HIDE DEF y
<1>4. SessionsTypeOK'
  BY <1>1, <1>2 DEF SessionsTypeOK
<1>5. \A s \in SessionIds : s # k => authSession'[s] = authSession[s]
  BY <1>1, <1>2 DEF SessionsTypeOK
<1>6. \A d \in AuthCalls : AnswerSound(authCall[d], authCookie.refresh', authSession')
  BY <1>2, <1>5 DEF SessionsInv, AnswerSound
<1>7. /\ AnswerSound(y, authCookie.refresh', authSession')
      /\ \A d \in AuthCalls : AnswersApart(y, authCall[d]) /\ AnswersApart(authCall[d], y)
  BY <1>3 DEF AnswerSound, AnswersApart, Responds, Rotates
<1> QED BY <1>2, <1>3, <1>4, <1>6, <1>7, CallMoves

\* The answers that arrive, and those that are lost.
LEMMA AnswerKeeps ==
  ASSUME SessionsInv, NEW c \in AuthCalls,
         SetAuthCookies(c) \/ ClearAuthCookies(c) \/ LoseAnswer(c)
  PROVE  SessionsInv'
<1> DEFINE x == authCall[c]
           y == IdleAuthCall
<1>1. SessionsTypeOK /\ x \in AuthCallState /\ AnswerSound(x, authCookie.refresh, authSession)
  BY DEF SessionsInv, SessionsTypes
<1>2. authCall' = [authCall EXCEPT ![c] = y] /\ UNCHANGED <<authUser, authSession>>
  BY DEF SetAuthCookies, ClearAuthCookies, LoseAnswer, AuthGoto
<1>3. y \in AuthCallState /\ y.pc = "idle"
  BY DEF IdleAuthCall, AuthCallState
<1> HIDE DEF y
<1>4. \A k : /\ AnswerSound(y, k, authSession)
             /\ \A d \in AuthCalls : AnswersApart(y, authCall[d]) /\ AnswersApart(authCall[d], y)
  BY <1>3 DEF AnswerSound, AnswersApart, Responds, Rotates
<1>5. \A d \in AuthCalls : AnswerSound(authCall[d], authCookie.refresh, authSession)
  BY DEF SessionsInv
<1>6. CASE SetAuthCookies(c)
  <2>1. x.pc = "respond" /\ x.new \in SessionIds
    BY <1>1, <1>6 DEF SetAuthCookies, AuthCallState
  <2>2. /\ authCookie' = [refresh |-> x.new, access |-> "valid"]
        /\ authLost' \in BOOLEAN
    BY <1>6 DEF SetAuthCookies, signAccessToken, signJwt
  <2>3. SessionsTypeOK' /\ authCookie.refresh' = x.new
    BY <1>1, <1>2, <2>1, <2>2 DEF SessionsTypeOK
  <2>4. authSession[x.new] # "revoked"
    BY <1>1, <2>1 DEF AnswerSound, Responds
  <2>5. ASSUME NEW d \in AuthCalls, d # c
        PROVE  AnswerSound(authCall[d], x.new, authSession)
    <3>1. AnswersApart(x, authCall[d])
      BY <2>5 DEF SessionsInv
    <3> QED BY <1>5, <2>1, <3>1 DEF AnswersApart, AnswerSound, Responds
  <2> QED BY <1>2, <1>3, <1>4, <2>3, <2>4, <2>5, CallMoves
<1>7. CASE ClearAuthCookies(c)
  <2>1. authCookie' = [refresh |-> NoSession, access |-> "none"] /\ UNCHANGED authLost
    BY <1>7 DEF ClearAuthCookies, NoCookies
  <2>2. SessionsTypeOK' /\ authCookie.refresh' = NoSession
    BY <1>1, <1>2, <2>1 DEF SessionsTypeOK
  <2>3. \A d \in AuthCalls : AnswerSound(authCall[d], NoSession, authSession)
    BY <1>5, SessionConstants DEF AnswerSound
  <2> QED BY <1>2, <1>3, <1>4, <2>2, <2>3, CallMoves
<1>8. CASE LoseAnswer(c)
  <2>1. UNCHANGED authCookie /\ authLost' = TRUE
    BY <1>8 DEF LoseAnswer
  <2>2. SessionsTypeOK'
    BY <1>1, <1>2, <2>1 DEF SessionsTypeOK
  <2> QED BY <1>2, <1>3, <1>4, <1>5, <2>1, <2>2, CallMoves
<1> QED BY <1>6, <1>7, <1>8

\* Time passing and the user's status.
LEMMA TimeKeeps ==
  ASSUME SessionsInv,
         LockLapses \/ AccessLapses \/ SetUserStatus \/ \E s \in SessionIds : SessionLapses(s)
  PROVE  SessionsInv'
<1>1. SessionsTypeOK /\ authCall \in [AuthCalls -> AuthCallState]
  BY DEF SessionsInv, SessionsTypes
<1>2. UNCHANGED <<authCall, authLost>>
  BY DEF LockLapses, AccessLapses, SetUserStatus, SessionLapses
<1>3. /\ authSession' \in [SessionIds -> {"live", "expired", "revoked"}]
      /\ \A s \in SessionIds : authSession'[s] = "revoked" <=> authSession[s] = "revoked"
  BY <1>1 DEF LockLapses, AccessLapses, SetUserStatus, SessionLapses, SessionsTypeOK
<1>4. /\ authCookie' \in [refresh : SessionIds \cup {NoSession}, access : {"none", "valid"}]
      /\ authCookie.refresh' = authCookie.refresh
  BY <1>1 DEF LockLapses, AccessLapses, SetUserStatus, SessionLapses, SessionsTypeOK
<1>5. authUser' \in [status : {"ACTIVE", "SUSPENDED"}, failed : 0..maxFailedLoginAttempts-1, locked : BOOLEAN]
  <2>1. FALSE \in BOOLEAN
    OBVIOUS
  <2> QED BY <1>1, <2>1 DEF LockLapses, AccessLapses, SetUserStatus, SessionLapses, SessionsTypeOK
<1>6. SessionsTypes'
  BY <1>1, <1>2, <1>3, <1>4, <1>5 DEF SessionsTypes, SessionsTypeOK
<1>7. authCookie.refresh \in SessionIds \cup {NoSession}
  BY <1>1 DEF SessionsTypeOK
<1>8. \A c \in AuthCalls : AnswerSound(authCall'[c], authCookie.refresh', authSession')
  BY <1>2, <1>3, <1>4 DEF SessionsInv, AnswerSound
<1> QED BY <1>2, <1>3, <1>4, <1>6, <1>7, <1>8 DEF SessionsInv

\* The invariant holds at first.
LEMMA SessionsInitInv == SessionsInit => SessionsInv
<1> SUFFICES ASSUME SessionsInit PROVE SessionsInv
  OBVIOUS
<1> USE DEF SessionsInit
<1>1. IdleAuthCall \in AuthCallState /\ IdleAuthCall.pc = "idle"
  BY DEF IdleAuthCall, AuthCallState
<1>2. 0 \in 0..maxFailedLoginAttempts-1 /\ FALSE \in BOOLEAN
  BY SessionConstants
<1>3. SessionsTypes
  BY <1>1, <1>2 DEF SessionsTypes, SessionsTypeOK, NoCookies
<1>4. authCookie.refresh = NoSession
  BY DEF NoCookies
<1> QED BY <1>1, <1>3, <1>4 DEF SessionsInv, AnswerSound, AnswersApart, Responds, Rotates

\* Every step keeps it.
LEMMA SessionsStepInv == SessionsInv /\ [SessionsNext]_sessionVars => SessionsInv'
<1> SUFFICES ASSUME SessionsInv, [SessionsNext]_sessionVars PROVE SessionsInv'
  OBVIOUS
<1>1. CASE UNCHANGED sessionVars
  BY <1>1 DEF sessionVars, SessionsInv, SessionsTypes, SessionsTypeOK
<1>2. ASSUME NEW c \in AuthCalls, AuthRoutes(c) \/ AuthStep(c) \/ LoseAnswer(c)
      PROVE  SessionsInv'
  BY <1>2, LoginKeeps, CreateKeeps, RefreshReadsKeep, LogoutKeeps, AnswerKeeps
  DEF AuthRoutes, AuthStep
<1> QED BY <1>1, <1>2, TimeKeeps DEF SessionsNext

\* However many tabs refresh, log in and log out at once, and in whatever
\* order their answers arrive, the cookie the browser ends up with names a
\* session that was not revoked, unless an answer was lost.
THEOREM TabsDoNotLogOut ==
  SessionsInit /\ [][SessionsNext]_sessionVars => [](SessionsTypeOK /\ CookieIsLive)
<1>1. SessionsInv => SessionsTypeOK /\ CookieIsLive
  BY DEF SessionsInv, SessionsTypes, CookieIsLive
<1> QED BY <1>1, SessionsInitInv, SessionsStepInv, PTL

-----------------------------------------------------------------------------
(* Members: as long as no two changes have overlapped, the one under way   *)
(* was decided from the roles as they are.                                 *)

MemberOps == {"add", "role", "remove"}

AccCallState ==
  [pc : {"idle"}]
    \cup [pc : MemberOps, actor : AccUsers, member : AccUsers, role : {"OWNER", "ADMIN"}]
    \cup [pc : {"merchant"}, key : ApiKeyIds, scope : ALL_API_KEY_SCOPES, scopes : SUBSET ALL_API_KEY_SCOPES]
    \cup [pc : {"handler"}, key : ApiKeyIds, scope : ALL_API_KEY_SCOPES]

\* A change by x of the members with these roles leaves an owner.
LeavesOwner(x, roles) ==
  x.pc \in MemberOps =>
    \E u \in AccUsers : roles[u] = "OWNER" /\ (u = x.member => MemberRow(x) = "OWNER")

AccessTypes ==
  /\ AccessTypeOK
  /\ accKey \in [ApiKeyIds -> [status : {"none", "ACTIVE", "REVOKED"}, scopes : SUBSET ALL_API_KEY_SCOPES]]
  /\ accCall \in [AccCalls -> AccCallState]
  /\ accOverlap \in BOOLEAN

AccessInv ==
  /\ AccessTypes
  /\ \A u \in AccUsers : accRole[u] = "OWNER" => u \in accEverOwner
  /\ \A c \in AccCalls : accCall[c].pc \in MemberOps => accCall[c].actor \in accEverOwner
  /\ ~accOverlap =>
       /\ CurrentOwners # {}
       /\ \A c \in AccCalls : LeavesOwner(accCall[c], accRole)
       /\ \A c, d \in AccCalls : accCall[c].pc \in MemberOps /\ accCall[d].pc \in MemberOps => c = d

\* Only owners pass the guard of the members' routes.
LEMMA OwnersManage == merchantRolesWith("members:manage") = {"OWNER"}
<1>1. /\ "members:manage" \notin MERCHANT_ROLE_PERMISSIONS["VIEWER"]
      /\ "members:manage" \notin MERCHANT_ROLE_PERMISSIONS["DEVELOPER"]
      /\ "members:manage" \notin MERCHANT_ROLE_PERMISSIONS["ADMIN"]
  BY DEF MERCHANT_ROLE_PERMISSIONS, READ_ONLY_MERCHANT_PERMISSIONS
<1>2. "members:manage" \in MERCHANT_ROLE_PERMISSIONS["OWNER"]
  BY DEF MERCHANT_ROLE_PERMISSIONS, MerchantPermission
<1> QED BY <1>1, <1>2 DEF merchantRolesWith, MerchantRole

\* A request that is no change of members moves without touching a role.
LEMMA RequestMoves ==
  ASSUME AccessInv, NEW c \in AccCalls, NEW y \in AccCallState, y.pc \notin MemberOps,
         accCall' = [accCall EXCEPT ![c] = y],
         UNCHANGED <<accRole, accStatus, accKey, accEverOwner, accOverlap>>
  PROVE  AccessInv'
<1>1. accCall \in [AccCalls -> AccCallState] /\ AccessTypes
  BY DEF AccessInv, AccessTypes
<1>2. accCall'[c] = y /\ \A d \in AccCalls : d # c => accCall'[d] = accCall[d]
  BY <1>1
<1>3. AccessTypes'
  BY <1>1 DEF AccessTypes, AccessTypeOK
<1>4. \A d \in AccCalls : accCall'[d].pc \in MemberOps => d # c
  BY <1>2
<1>5. CurrentOwners' = CurrentOwners
  BY DEF CurrentOwners
<1>6. \A d \in AccCalls : accCall'[d].pc \in MemberOps => accCall'[d].actor \in accEverOwner
  BY <1>2, <1>4 DEF AccessInv
<1>7. ASSUME ~accOverlap
      PROVE  /\ \A d \in AccCalls : LeavesOwner(accCall'[d], accRole)
             /\ \A d, e \in AccCalls : accCall'[d].pc \in MemberOps /\ accCall'[e].pc \in MemberOps => d = e
  BY <1>2, <1>4, <1>7 DEF AccessInv, LeavesOwner
<1> QED BY <1>3, <1>5, <1>6, <1>7 DEF AccessInv

\* A request by API key passes through its guards.
LEMMA KeyRequestKeeps ==
  ASSUME AccessInv, NEW c \in AccCalls,
         \/ \E credential \in ApiKeyIds \cup {"malformed"}, scope \in ALL_API_KEY_SCOPES :
              KeyRequest(c, credential, scope)
         \/ KeyRequestMerchant(c) \/ KeyRequestServed(c)
  PROVE  AccessInv'
<1>1. UNCHANGED <<accRole, accStatus, accKey, accEverOwner, accOverlap>>
  BY DEF KeyRequest, KeyRequestMerchant, KeyRequestServed
<1>2. accCall[c] \in AccCallState
  BY DEF AccessInv, AccessTypes
<1>3. IdleAccCall \in AccCallState /\ IdleAccCall.pc = "idle"
  BY DEF IdleAccCall, AccCallState
<1>4. ASSUME NEW credential \in ApiKeyIds \cup {"malformed"}, NEW scope \in ALL_API_KEY_SCOPES,
             KeyRequest(c, credential, scope)
      PROVE  AccessInv'
  <2>1. PICK k \in ApiKeyIds :
          accCall' = [accCall EXCEPT ![c] =
            [pc |-> "merchant", key |-> k, scope |-> scope, scopes |-> accKey[k].scopes]]
    BY <1>4 DEF KeyRequest, parseApiKey, AccGoto
  <2> DEFINE y == [pc |-> "merchant", key |-> k, scope |-> scope, scopes |-> accKey[k].scopes]
  <2>2. accKey[k].scopes \in SUBSET ALL_API_KEY_SCOPES
    BY DEF AccessInv, AccessTypes
  <2>3. y \in AccCallState /\ y.pc \notin MemberOps
    BY <2>2 DEF AccCallState, MemberOps
  <2> HIDE DEF y
  <2> QED BY <1>1, <2>1, <2>3, RequestMoves DEF y
<1>5. CASE KeyRequestMerchant(c)
  <2> DEFINE x == accCall[c]
             y == [pc |-> "handler", key |-> x.key, scope |-> x.scope]
  <2>1. x.key \in ApiKeyIds /\ x.scope \in ALL_API_KEY_SCOPES
    BY <1>2, <1>5 DEF KeyRequestMerchant, AccCallState, MemberOps
  <2>2. y \in AccCallState /\ y.pc \notin MemberOps
    BY <2>1 DEF AccCallState, MemberOps
  <2>3. accCall' = [accCall EXCEPT ![c] = y] \/ accCall' = [accCall EXCEPT ![c] = IdleAccCall]
    BY <1>5 DEF KeyRequestMerchant, AccGoto
  <2> HIDE DEF y
  <2> QED BY <1>1, <1>3, <2>2, <2>3, RequestMoves DEF MemberOps
<1>6. CASE KeyRequestServed(c)
  BY <1>1, <1>3, <1>6, RequestMoves DEF KeyRequestServed, AccGoto, MemberOps
<1> QED BY <1>4, <1>5, <1>6

\* A change of members is let in by an owner, and decided from the roles as
\* they are.
LEMMA MemberRequestKeeps ==
  ASSUME AccessInv, NEW c \in AccCalls, NEW u \in AccUsers, NEW m \in AccUsers,
         NEW op \in MemberOps, NEW role \in {"OWNER", "ADMIN"}, MemberRequest(c, u, op, m, role)
  PROVE  AccessInv'
<1> DEFINE y == [pc |-> op, actor |-> u, member |-> m, role |-> role]
<1>1. accCall \in [AccCalls -> AccCallState] /\ AccessTypes
  BY DEF AccessInv, AccessTypes
<1>2. /\ accCall' = [accCall EXCEPT ![c] = y]
      /\ accOverlap' = (accOverlap \/ MemberCallsInFlight # {})
      /\ UNCHANGED <<accRole, accStatus, accKey, accEverOwner>>
  BY DEF MemberRequest, AccGoto
<1>3. /\ y \in AccCallState /\ y.pc = op /\ y.actor = u /\ y.member = m /\ y.role = role
  BY DEF AccCallState
<1> HIDE DEF y
<1>4. accCall'[c] = y /\ \A d \in AccCalls : d # c => accCall'[d] = accCall[d]
  BY <1>1, <1>2
<1>5. accOverlap' \in BOOLEAN
  BY <1>2, Zenon
<1>6. AccessTypes'
  BY <1>1, <1>2, <1>3, <1>5 DEF AccessTypes, AccessTypeOK
<1>7. accRole[u] = "OWNER" /\ u \in accEverOwner
  BY OwnersManage DEF MemberRequest, MerchantRoleGuard, AccessInv
<1>8. CurrentOwners' = CurrentOwners /\ u \in CurrentOwners
  BY <1>2, <1>7 DEF CurrentOwners
<1>9. LeavesOwner(y, accRole)
  <2>1. CASE op = "add"
    <3>1. accRole[m] = "none"
      BY <2>1 DEF MemberRequest, MemberChangeAllowed, AddAllowed
    <3> QED BY <1>3, <1>7, <3>1 DEF LeavesOwner
  <2>2. CASE op = "role"
    <3>1. accRole[m] = "OWNER" /\ role # "OWNER" => CurrentOwners \ {m} # {}
      BY <2>2 DEF MemberRequest, MemberChangeAllowed, assertNotLastOwner
    <3>2. MemberRow(y) = role
      BY <1>3, <2>2 DEF MemberRow
    <3> QED BY <1>3, <1>7, <3>1, <3>2 DEF LeavesOwner, CurrentOwners
  <2>3. CASE op = "remove"
    <3>1. accRole[m] = "OWNER" => CurrentOwners \ {m} # {}
      BY <2>3 DEF MemberRequest, MemberChangeAllowed, assertNotLastOwner
    <3> QED BY <1>3, <1>7, <3>1 DEF LeavesOwner, CurrentOwners
  <2> QED BY <2>1, <2>2, <2>3 DEF MemberOps
<1>10. \A d \in AccCalls : accCall'[d].pc \in MemberOps => accCall'[d].actor \in accEverOwner'
  BY <1>2, <1>3, <1>4, <1>7 DEF AccessInv
<1>11. ASSUME ~accOverlap'
       PROVE  /\ \A d \in AccCalls : LeavesOwner(accCall'[d], accRole')
              /\ \A d, e \in AccCalls : accCall'[d].pc \in MemberOps /\ accCall'[e].pc \in MemberOps => d = e
  <2>1. ~accOverlap /\ \A d \in AccCalls : accCall[d].pc \notin MemberOps
    BY <1>2, <1>11 DEF MemberCallsInFlight, MemberOps
  <2> QED BY <1>2, <1>4, <1>9, <2>1 DEF AccessInv
<1> QED BY <1>2, <1>6, <1>8, <1>10, <1>11 DEF AccessInv

\* The transaction applies what was decided, if the row is still there.
LEMMA MemberCommitKeeps ==
  ASSUME AccessInv, NEW c \in AccCalls, MemberCommit(c)
  PROVE  AccessInv'
<1> DEFINE x == accCall[c]
           y == IdleAccCall
           m == x.member
           role == MemberRow(x)
<1>1. accCall \in [AccCalls -> AccCallState] /\ AccessTypes /\ x \in AccCallState
  BY DEF AccessInv, AccessTypes
<1>2. x.pc \in MemberOps /\ m \in AccUsers /\ role \in {"none", "OWNER", "ADMIN"}
  BY <1>1 DEF MemberCommit, AccCallState, MemberOps, MemberRow
<1>3. /\ accCall' = [accCall EXCEPT ![c] = y]
      /\ UNCHANGED <<accStatus, accKey, accOverlap>>
      /\ \/ /\ accRole' = [accRole EXCEPT ![m] = role]
            /\ accEverOwner' = accEverOwner \cup (IF role = "OWNER" THEN {m} ELSE {})
         \/ UNCHANGED <<accRole, accEverOwner>>
  BY DEF MemberCommit, AccGoto
<1>4. y \in AccCallState /\ y.pc = "idle"
  BY DEF IdleAccCall, AccCallState
<1> HIDE DEF y, role
<1>5. accCall'[c] = y /\ \A d \in AccCalls : d # c => accCall'[d] = accCall[d]
  BY <1>1, <1>3
<1>6. accRole \in [AccUsers -> MerchantRole \cup {"none"}] /\ accEverOwner \subseteq AccUsers
  BY <1>1 DEF AccessTypes, AccessTypeOK
<1>7. /\ accRole' \in [AccUsers -> MerchantRole \cup {"none"}]
      /\ accEverOwner \subseteq accEverOwner' /\ accEverOwner' \subseteq AccUsers
      /\ \A u \in AccUsers : accRole'[u] = "OWNER" => u \in accEverOwner'
      /\ \A u \in AccUsers : u # m => accRole'[u] = accRole[u]
      /\ accRole'[m] \in {accRole[m], role}
  BY <1>2, <1>3, <1>6 DEF MerchantRole, AccessInv
<1>8. AccessTypes'
  BY <1>1, <1>3, <1>4, <1>7 DEF AccessTypes, AccessTypeOK
<1>9. \A d \in AccCalls : accCall'[d].pc \in MemberOps => d # c
  BY <1>4, <1>5 DEF MemberOps
<1>10. \A d \in AccCalls : accCall'[d].pc \in MemberOps => accCall'[d].actor \in accEverOwner'
  BY <1>5, <1>7, <1>9 DEF AccessInv
<1>11. ASSUME ~accOverlap'
       PROVE  /\ CurrentOwners' # {}
              /\ \A d \in AccCalls : accCall'[d].pc \notin MemberOps
  <2>1. ~accOverlap
    BY <1>3, <1>11
  <2>2. \A d \in AccCalls : accCall'[d].pc \notin MemberOps
    BY <1>2, <1>5, <1>9, <2>1 DEF AccessInv
  <2>3. PICK u \in AccUsers : accRole[u] = "OWNER" /\ (u = m => role = "OWNER")
    BY <1>2, <2>1 DEF AccessInv, LeavesOwner, role
  <2>4. accRole'[u] = "OWNER"
    BY <1>7, <2>3
  <2> QED BY <2>2, <2>4 DEF CurrentOwners
<1>12. ~accOverlap' => \A d \in AccCalls : LeavesOwner(accCall'[d], accRole')
  BY <1>11 DEF LeavesOwner
<1> QED BY <1>7, <1>8, <1>10, <1>11, <1>12 DEF AccessInv

\* API keys and the merchant's status have nothing to do with the members.
LEMMA KeysKeep ==
  ASSUME AccessInv,
         ApiKeyRequests \/ \E status \in {"ACTIVE", "SUSPENDED"} : MerchantTransition(status)
  PROVE  AccessInv'
<1>1. AccessTypes
  BY DEF AccessInv
<1>2. UNCHANGED <<accRole, accCall, accEverOwner, accOverlap>>
  BY DEF ApiKeyRequests, CreateApiKey, RevokeApiKey, MerchantTransition
<1>3. accStatus' \in {"ACTIVE", "SUSPENDED"}
  BY <1>1 DEF ApiKeyRequests, CreateApiKey, RevokeApiKey, MerchantTransition, AccessTypes, AccessTypeOK
<1>4. accKey' \in [ApiKeyIds -> [status : {"none", "ACTIVE", "REVOKED"}, scopes : SUBSET ALL_API_KEY_SCOPES]]
  <2>1. ASSUME NEW u \in AccUsers, NEW k \in ApiKeyIds, NEW scopes \in SUBSET ALL_API_KEY_SCOPES,
               CreateApiKey(u, k, scopes)
        PROVE  accKey' \in [ApiKeyIds -> [status : {"none", "ACTIVE", "REVOKED"}, scopes : SUBSET ALL_API_KEY_SCOPES]]
    BY <1>1, <2>1 DEF CreateApiKey, AccessTypes
  <2>2. ASSUME NEW u \in AccUsers, NEW k \in ApiKeyIds, RevokeApiKey(u, k)
        PROVE  accKey' \in [ApiKeyIds -> [status : {"none", "ACTIVE", "REVOKED"}, scopes : SUBSET ALL_API_KEY_SCOPES]]
    BY <1>1, <2>2 DEF RevokeApiKey, AccessTypes
  <2>3. ASSUME NEW status, MerchantTransition(status)
        PROVE  accKey' = accKey
    BY <2>3 DEF MerchantTransition
  <2> QED BY <1>1, <2>1, <2>2, <2>3 DEF ApiKeyRequests, AccessTypes
<1>5. AccessTypes'
  BY <1>1, <1>2, <1>3, <1>4 DEF AccessTypes, AccessTypeOK
<1>6. CurrentOwners' = CurrentOwners
  BY <1>2 DEF CurrentOwners
<1> QED BY <1>2, <1>5, <1>6 DEF AccessInv

\* The invariant holds of a merchant with its first owner.
LEMMA AccessInitInv == AccessInit => AccessInv
<1> SUFFICES ASSUME AccessInit PROVE AccessInv
  OBVIOUS
<1> USE DEF AccessInit
<1>1. IdleAccCall \in AccCallState /\ IdleAccCall.pc \notin MemberOps
  BY DEF IdleAccCall, AccCallState, MemberOps
<1>2. AccessTypes
  BY <1>1, AccessConstants DEF AccessTypes, AccessTypeOK, MerchantRole
<1>3. FirstOwner \in CurrentOwners
  BY AccessConstants DEF CurrentOwners
<1> QED BY <1>1, <1>2, <1>3, AccessConstants DEF AccessInv, LeavesOwner

\* Every step keeps it.
LEMMA AccessStepInv == AccessInv /\ [AccessNext]_accessVars => AccessInv'
<1> SUFFICES ASSUME AccessInv, [AccessNext]_accessVars PROVE AccessInv'
  OBVIOUS
<1>1. CASE UNCHANGED accessVars
  BY <1>1 DEF accessVars, AccessInv, AccessTypes, AccessTypeOK, CurrentOwners
<1>2. ASSUME NEW c \in AccCalls, NEW u \in AccUsers, NEW m \in AccUsers,
             NEW op \in {"add", "role", "remove"}, NEW role \in {"OWNER", "ADMIN"},
             MemberRequest(c, u, op, m, role)
      PROVE  AccessInv'
  BY <1>2, MemberRequestKeeps DEF MemberOps
<1> QED BY <1>1, <1>2, KeyRequestKeeps, MemberCommitKeeps, KeysKeep DEF AccessNext, AccessStep

\* However many users and requests there are, changes of members that follow
\* one another never leave the merchant without an owner.
THEOREM OwnerStays ==
  AccessInit /\ [][AccessNext]_accessVars => [](AccessTypeOK /\ OwnerRemains)
<1>1. AccessInv => AccessTypeOK /\ OwnerRemains
  BY DEF AccessInv, AccessTypes, OwnerRemains
<1> QED BY <1>1, AccessInitInv, AccessStepInv, PTL

\* Nobody becomes an owner but by the hand of somebody who has been one: the
\* actor of every change under way held OWNER when it was let in.
THEOREM OwnersMakeOwners ==
  AccessInit /\ [][AccessNext]_accessVars => PromotedByOwner
<1>1. ASSUME AccessInv, [AccessNext]_accessVars PROVE [accEverOwner' # accEverOwner =>
               \E c \in AccCalls : /\ accCall[c].pc \in {"add", "role"} /\ accCall'[c].pc = "idle"
                                  /\ accCall[c].actor \in accEverOwner]_accessVars
  <2>1. CASE UNCHANGED accessVars
    BY <2>1
  <2>2. CASE \E c \in AccCalls : MemberCommit(c)
    <3>1. PICK c \in AccCalls : MemberCommit(c)
      BY <2>2
    <3>2. accCall \in [AccCalls -> AccCallState]
      BY <1>1 DEF AccessInv, AccessTypes
    <3>3. accCall'[c].pc = "idle"
      BY <3>1, <3>2 DEF MemberCommit, AccGoto, IdleAccCall
    <3>4. accCall[c].pc \in MemberOps /\ accCall[c].actor \in accEverOwner
      BY <1>1, <3>1 DEF MemberCommit, AccessInv, MemberOps
    <3>5. accEverOwner' # accEverOwner => accCall[c].pc # "remove"
      BY <3>1 DEF MemberCommit, MemberRow
    <3> QED BY <3>3, <3>4, <3>5 DEF MemberOps
  <2>3. CASE ~\E c \in AccCalls : MemberCommit(c)
    <3>1. UNCHANGED accEverOwner
      BY <1>1, <2>3 DEF AccessNext, AccessStep, accessVars, MemberRequest, KeyRequest,
         KeyRequestMerchant, KeyRequestServed, ApiKeyRequests, CreateApiKey, RevokeApiKey,
         MerchantTransition
    <3> QED BY <3>1
  <2> QED BY <2>1, <2>2, <2>3
<1> QED BY <1>1, AccessInitInv, AccessStepInv, PTL DEF PromotedByOwner

-----------------------------------------------------------------------------
(* Idempotency keys: the requests with one key create one invoice at most. *)
(* The row is a lock: whoever runs the handler inserted it, nobody else    *)
(* runs it while the row is there, and only a handler that created nothing *)
(* deletes it.  So once an invoice exists the row stays, completed or in   *)
(* progress for ever, and both stop a retry.                               *)

IdemRequest == [pc : {"claim", "handler", "release"}, key : IdemKeys, body : IdemBodies]
IdemStoring == [pc : {"store"}, key : IdemKeys, body : IdemBodies, response : Nat]

IdemTypes ==
  /\ IdempotencyTypeOK
  /\ idemCall \in [IdemCalls -> [pc : {"idle"}] \cup IdemRequest \cup IdemStoring]
  /\ idemEffects \in [IdemKeys -> Nat]
  /\ idemTold = [k \in IdemKeys |-> idemTold[k]]

\* The calls between their insert and their last statement.
Runs(c) == idemCall[c].pc \in {"handler", "release", "store"}

\* A call that runs the handler holds the row, alone.
RunnerHoldsRow ==
  \A c \in IdemCalls : Runs(c) =>
    LET k == idemCall[c].key IN
    /\ idemRow[k] = [hash |-> idemCall[c].body, response |-> 0]
    /\ \A d \in IdemCalls : Runs(d) /\ idemCall[d].key = k => d = c

\* Before the handler has returned nothing was created under the key, and
\* after it exactly what the call is about to answer.
RunnerKnowsEffects ==
  \A c \in IdemCalls :
    /\ idemCall[c].pc \in {"handler", "release"} => idemEffects[idemCall[c].key] = 0
    /\ idemCall[c].pc = "store" =>
         idemEffects[idemCall[c].key] = 1 /\ idemCall[c].response = 1

\* An invoice, once created, keeps the row; a completed row answers for it.
EffectKeepsRow ==
  \A k \in IdemKeys :
    /\ idemEffects[k] \in 0..1
    /\ idemEffects[k] = 1 => idemRow[k] # NoIdemRow
    /\ Completed(k) => idemEffects[k] = 1 /\ idemRow[k].response = 1
    /\ ~Completed(k) => idemTold[k] = {}
    /\ idemTold[k] \subseteq {<<idemRow[k].hash, idemRow[k].response>>}

IdempotencyInv == IdemTypes /\ RunnerHoldsRow /\ RunnerKnowsEffects /\ EffectKeepsRow

-----------------------------------------------------------------------------
(* Steps.                                                                  *)

\* What the types say of a call by its program counter.
LEMMA IdemCallShape ==
  ASSUME IdemTypes, NEW c \in IdemCalls
  PROVE  /\ idemCall[c].pc = "idle" => ~Runs(c)
         /\ idemCall[c].pc # "idle" => idemCall[c].key \in IdemKeys /\ idemCall[c].body \in IdemBodies
         /\ idemCall[c].pc \in {"claim", "handler", "release"} => idemCall[c] \in IdemRequest
         /\ idemCall[c].pc = "store" => idemCall[c] \in IdemStoring
BY DEF IdemTypes, IdemRequest, IdemStoring, Runs

\* The state before any request.
LEMMA IdempotencyInitInv == IdempotencyInit => IdempotencyInv
<1> SUFFICES ASSUME IdempotencyInit PROVE IdempotencyInv
  OBVIOUS
<1> USE DEF IdempotencyInit, IdleIdemCall, NoIdemRow
<1>1. IdemTypes
  <2>1. idemFault \in BOOLEAN
    BY Zenon
  <2> QED
    BY <2>1, IdempotencyConstants DEF IdempotencyConstants, IdemTypes, IdempotencyTypeOK
<1>2. RunnerHoldsRow /\ RunnerKnowsEffects
  BY DEF RunnerHoldsRow, RunnerKnowsEffects, Runs
<1>3. EffectKeepsRow
  BY DEF EffectKeepsRow, Completed
<1> QED
  BY <1>1, <1>2, <1>3 DEF IdempotencyInv

\* The lookup answers from a completed row, or changes nothing but its call.
LEMMA LookupKeyInv ==
  ASSUME IdempotencyInv, NEW c \in IdemCalls, NEW k \in IdemKeys, NEW body \in IdemBodies,
         LookupKey(c, k, body)
  PROVE  IdempotencyInv'
<1> USE DEF IdempotencyInv, LookupKey, IdemGoto
<1>1. IdemTypes'
  BY DEF IdemTypes, IdempotencyTypeOK, IdemRequest
<1>2. RunnerHoldsRow'
  BY DEF IdemTypes, RunnerHoldsRow, Runs
<1>3. RunnerKnowsEffects'
  BY DEF IdemTypes, RunnerKnowsEffects
<1>4. EffectKeepsRow'
  BY DEF IdemTypes, EffectKeepsRow, Completed
<1> QED
  BY <1>1, <1>2, <1>3, <1>4

\* The insert: the row was free, so nobody runs and nothing was created.
LEMMA ClaimKeyInv ==
  ASSUME IdempotencyInv, NEW c \in IdemCalls, ClaimKey(c)
  PROVE  IdempotencyInv'
<1> DEFINE k == idemCall[c].key
           body == idemCall[c].body
<1> USE DEF IdempotencyInv
<1>1. idemCall[c] \in IdemRequest /\ k \in IdemKeys /\ body \in IdemBodies /\ body # "none"
  BY IdemCallShape, IdempotencyConstants DEF ClaimKey, IdempotencyConstants
<1>2. CASE idemCall' = [idemCall EXCEPT ![c] = IdleIdemCall] /\ UNCHANGED <<idemRow, idemRuns>>
  BY <1>2 DEF ClaimKey, IdemTypes, IdempotencyTypeOK, RunnerHoldsRow, RunnerKnowsEffects,
              EffectKeepsRow, Runs, Completed, IdleIdemCall
<1>3. CASE /\ KeyFree(k) /\ idemRuns[k] < MaxRuns
           /\ idemRow' = [idemRow EXCEPT ![k] = [hash |-> body, response |-> 0]]
           /\ idemRuns' = [idemRuns EXCEPT ![k] = @ + 1]
           /\ idemCall' = [idemCall EXCEPT ![c] = [@ EXCEPT !.pc = "handler"]]
  <2> DEFINE call == [idemCall[c] EXCEPT !.pc = "handler"]
  <2>1. call \in IdemRequest /\ call.pc = "handler" /\ call.key = k /\ call.body = body
    BY <1>1 DEF IdemRequest
  <2> HIDE DEF call
  <2>2. idemCall' = [idemCall EXCEPT ![c] = call]
    BY <1>3 DEF call
  <2>3. idemRow[k] = NoIdemRow /\ idemEffects[k] = 0 /\ idemTold[k] = {}
    BY <1>1, <1>3 DEF KeyFree, EffectKeepsRow, Completed, NoIdemRow
  <2>4. \A d \in IdemCalls : Runs(d) => idemCall[d].key # k
    <3> SUFFICES ASSUME NEW d \in IdemCalls, Runs(d), idemCall[d].key = k PROVE FALSE
      OBVIOUS
    <3>1. idemRow[idemCall[d].key] = [hash |-> idemCall[d].body, response |-> 0]
      BY Zenon DEF RunnerHoldsRow
    <3>2. idemCall[d].body \in IdemBodies
      BY IdemCallShape DEF Runs
    <3> QED
      BY <2>3, <3>1, <3>2, IdempotencyConstants DEF NoIdemRow, IdempotencyConstants
  <2>5. UNCHANGED <<idemEffects, idemTold, idemFault>>
    BY DEF ClaimKey
  <2>6. idemRuns[k] + 1 \in 0..MaxRuns
    BY <1>1, <1>3, IdempotencyConstants DEF IdemTypes, IdempotencyTypeOK, IdempotencyConstants
  <2>7. IdemTypes'
    <3>1. idemRow' \in [IdemKeys -> [hash : IdemBodies \cup {"none"}, response : 0..MaxRuns]]
      BY <1>1, <1>3, IdempotencyConstants DEF IdemTypes, IdempotencyTypeOK, IdempotencyConstants
    <3>2. idemRuns' \in [IdemKeys -> 0..MaxRuns]
      BY <1>3, <2>6 DEF IdemTypes, IdempotencyTypeOK
    <3> QED
      BY <2>1, <2>2, <2>5, <3>1, <3>2 DEF IdemTypes, IdempotencyTypeOK
  <2>8. RunnerHoldsRow'
    BY <1>1, <1>3, <2>1, <2>2, <2>4, IdemCallShape DEF RunnerHoldsRow, Runs, IdemTypes, IdempotencyTypeOK
  <2>9. RunnerKnowsEffects'
    BY <1>1, <2>1, <2>2, <2>3, <2>5 DEF RunnerKnowsEffects, IdemTypes
  <2>10. EffectKeepsRow'
    BY <1>1, <1>3, <2>3, <2>5 DEF EffectKeepsRow, Completed, IdemTypes, IdempotencyTypeOK, NoIdemRow
  <2> QED
    BY <2>7, <2>8, <2>9, <2>10
<1> QED
  BY <1>2, <1>3 DEF ClaimKey, IdemGoto

\* The handler: the one runner of the key creates its only invoice.
LEMMA RunHandlerInv ==
  ASSUME IdempotencyInv, NEW c \in IdemCalls, RunHandler(c)
  PROVE  IdempotencyInv'
<1> DEFINE k == idemCall[c].key
           body == idemCall[c].body
<1> USE DEF IdempotencyInv
<1>1. /\ idemCall[c] \in IdemRequest /\ k \in IdemKeys /\ body \in IdemBodies
      /\ body # "none" /\ Runs(c)
  BY IdemCallShape, IdempotencyConstants DEF RunHandler, IdempotencyConstants, Runs
<1>2. /\ idemEffects[k] = 0
      /\ idemRow[k] = [hash |-> body, response |-> 0]
      /\ \A d \in IdemCalls : Runs(d) /\ d # c => idemCall[d].key # k
  BY <1>1 DEF RunHandler, RunnerKnowsEffects, RunnerHoldsRow
<1>3. UNCHANGED <<idemRow, idemRuns, idemTold, idemFault>>
  BY DEF RunHandler
<1>4. PICK call \in IdemRequest \cup IdemStoring, n \in 0..1 :
        /\ call.key = k /\ call.body = body
        /\ \/ call.pc = "release" /\ n = 0
           \/ call.pc = "store" /\ call.response = 1 /\ n = 1
        /\ idemCall' = [idemCall EXCEPT ![c] = call]
        /\ idemEffects' = [idemEffects EXCEPT ![k] = n]
  <2>1. CASE /\ idemEffects' = [idemEffects EXCEPT ![k] = @ + 1]
             /\ idemCall' = [idemCall EXCEPT ![c] =
                  [pc |-> "store", key |-> k, body |-> body, response |-> idemEffects[k] + 1]]
    <3> DEFINE call == [pc |-> "store", key |-> k, body |-> body, response |-> 1]
    <3>1. /\ call \in IdemStoring /\ call.pc = "store" /\ call.key = k /\ call.body = body
          /\ call.response = 1
      BY <1>1 DEF IdemStoring
    <3>2. /\ idemEffects' = [idemEffects EXCEPT ![k] = 1]
          /\ idemCall' = [idemCall EXCEPT ![c] = call]
      BY <1>1, <1>2, <2>1 DEF IdemTypes
    <3> HIDE DEF call
    <3>3. call \in IdemRequest \cup IdemStoring /\ 1 \in 0..1
      BY <3>1
    <3> QED
      BY <3>1, <3>2, <3>3
  <2>2. CASE /\ idemCall' = [idemCall EXCEPT ![c] = [@ EXCEPT !.pc = "release"]]
             /\ UNCHANGED idemEffects
    <3> DEFINE call == [idemCall[c] EXCEPT !.pc = "release"]
    <3>1. call \in IdemRequest /\ call.pc = "release" /\ call.key = k /\ call.body = body
      BY <1>1 DEF IdemRequest
    <3>2. idemEffects' = [idemEffects EXCEPT ![k] = 0]
      BY <1>1, <1>2, <2>2 DEF IdemTypes
    <3> HIDE DEF call
    <3>3. idemCall' = [idemCall EXCEPT ![c] = call]
      BY <2>2 DEF call
    <3>4. call \in IdemRequest \cup IdemStoring /\ 0 \in 0..1
      BY <3>1
    <3> QED
      BY <3>1, <3>2, <3>3, <3>4
  <2> QED
    BY <2>1, <2>2 DEF RunHandler, IdemGoto
<1>5. IdemTypes'
  BY <1>1, <1>3, <1>4 DEF IdemTypes, IdempotencyTypeOK
<1>6. RunnerHoldsRow'
  BY <1>1, <1>2, <1>3, <1>4 DEF RunnerHoldsRow, Runs, IdemTypes
<1>7. RunnerKnowsEffects'
  BY <1>1, <1>2, <1>4 DEF RunnerKnowsEffects, Runs, IdemTypes
<1>8. EffectKeepsRow'
  <2>1. idemRow[k] # NoIdemRow /\ ~Completed(k)
    BY <1>1, <1>2 DEF NoIdemRow, Completed
  <2> QED
    BY <1>1, <1>3, <1>4, <2>1 DEF EffectKeepsRow, Completed, IdemTypes
<1> QED
  BY <1>5, <1>6, <1>7, <1>8

\* The row is deleted only while nothing was created under it.
LEMMA ReleaseKeyInv ==
  ASSUME IdempotencyInv, NEW c \in IdemCalls, ReleaseKey(c)
  PROVE  IdempotencyInv'
<1> DEFINE k == idemCall[c].key
<1> USE DEF IdempotencyInv, ReleaseKey, DeletedRow, IdemGoto, IdleIdemCall
<1>1. k \in IdemKeys /\ Runs(c)
  BY IdemCallShape DEF Runs
<1>2. /\ idemEffects[k] = 0
      /\ idemRow[k].response = 0
      /\ \A d \in IdemCalls : Runs(d) /\ d # c => idemCall[d].key # k
  <2>1. idemRow[k] = [hash |-> idemCall[c].body, response |-> 0]
    BY <1>1, Zenon DEF RunnerHoldsRow
  <2> QED
    BY <1>1, <2>1 DEF RunnerKnowsEffects, RunnerHoldsRow
<1>3. IdemTypes'
  BY <1>1, IdempotencyConstants DEF IdemTypes, IdempotencyTypeOK, NoIdemRow, IdempotencyConstants
<1>4. RunnerHoldsRow' /\ RunnerKnowsEffects'
  BY <1>1, <1>2 DEF RunnerHoldsRow, RunnerKnowsEffects, Runs, IdemTypes, IdempotencyTypeOK
<1>5. EffectKeepsRow'
  BY <1>1, <1>2 DEF EffectKeepsRow, Completed, IdemTypes, IdempotencyTypeOK, NoIdemRow
<1> QED
  BY <1>3, <1>4, <1>5

\* The answer given is the one the row keeps.
LEMMA StoreResponseInv ==
  ASSUME IdempotencyInv, NEW c \in IdemCalls, StoreResponse(c)
  PROVE  IdempotencyInv'
<1> DEFINE k == idemCall[c].key
           body == idemCall[c].body
<1> USE DEF IdempotencyInv
<1>1. k \in IdemKeys /\ body \in IdemBodies /\ body # "none" /\ Runs(c)
  BY IdemCallShape, IdempotencyConstants DEF StoreResponse, Runs, IdempotencyConstants
<1>2. /\ idemEffects[k] = 1 /\ idemCall[c].response = 1
      /\ idemRow[k] = [hash |-> body, response |-> 0]
      /\ \A d \in IdemCalls : Runs(d) /\ d # c => idemCall[d].key # k
  BY <1>1 DEF StoreResponse, RunnerKnowsEffects, RunnerHoldsRow
<1>3. idemTold[k] = {}
  BY <1>1, <1>2 DEF EffectKeepsRow, Completed
<1> DEFINE row == [hash |-> body, response |-> 1]
<1>4. /\ idemRow' = [idemRow EXCEPT ![k] = row]
      /\ idemTold' = [idemTold EXCEPT ![k] = {<<row.hash, row.response>>}]
      /\ idemCall' = [idemCall EXCEPT ![c] = IdleIdemCall]
      /\ UNCHANGED <<idemRuns, idemEffects, idemFault>>
  <2>1. [idemRow[k] EXCEPT !.response = 1] = row
    BY <1>2
  <2>2. idemRow' = [idemRow EXCEPT ![k] = row]
    BY <1>2, <2>1 DEF StoreResponse
  <2>3. idemTold' = [idemTold EXCEPT ![k] = {<<row.hash, row.response>>}]
    BY <1>1, <1>2, <1>3 DEF StoreResponse, IdemTypes
  <2> QED
    BY <2>2, <2>3 DEF StoreResponse, IdemGoto
<1>5. row \in [hash : IdemBodies \cup {"none"}, response : 0..MaxRuns] /\ row # NoIdemRow
  BY <1>1, IdempotencyConstants DEF NoIdemRow, IdempotencyConstants
<1>6. row.response = 1
  OBVIOUS
<1> HIDE DEF row
<1>7. IdemTypes'
  BY <1>1, <1>4, <1>5 DEF IdemTypes, IdempotencyTypeOK, IdleIdemCall
<1>8. RunnerHoldsRow' /\ RunnerKnowsEffects'
  BY <1>1, <1>2, <1>4
     DEF RunnerHoldsRow, RunnerKnowsEffects, Runs, IdemTypes, IdempotencyTypeOK, IdleIdemCall
<1>9. EffectKeepsRow'
  BY <1>1, <1>2, <1>4, <1>5, <1>6 DEF EffectKeepsRow, Completed, IdemTypes, IdempotencyTypeOK
<1> QED
  BY <1>7, <1>8, <1>9

\* A statement that fails, and a crash, end calls and leave the rows.
LEMMA IdempotencyFaultInv ==
  ASSUME IdempotencyInv,
         IdempotencyCrash \/ \E c \in IdemCalls : ExecuteStatementFails(c)
  PROVE  IdempotencyInv'
<1> USE DEF IdempotencyInv
<1>1. /\ idemFault' = TRUE /\ UNCHANGED <<idemRow, idemRuns, idemEffects, idemTold>>
      /\ idemCall' \in [IdemCalls -> [pc : {"idle"}] \cup IdemRequest \cup IdemStoring]
      /\ \A c \in IdemCalls : idemCall'[c] \in {idemCall[c], IdleIdemCall}
  BY DEF IdempotencyCrash, ExecuteStatementFails, IdemGoto, IdemTypes, IdleIdemCall
<1>2. idemFault' \in BOOLEAN
  BY <1>1, Zenon
<1>3. IdemTypes' /\ EffectKeepsRow'
  BY <1>1, <1>2 DEF IdemTypes, IdempotencyTypeOK, EffectKeepsRow, Completed
<1>4. RunnerHoldsRow' /\ RunnerKnowsEffects'
  BY <1>1 DEF RunnerHoldsRow, RunnerKnowsEffects, Runs, IdleIdemCall
<1> QED
  BY <1>3, <1>4

\* The invariant is inductive.
LEMMA IdempotencyStepInv == IdempotencyInv /\ [IdempotencyNext]_idempotencyVars => IdempotencyInv'
<1> SUFFICES ASSUME IdempotencyInv, [IdempotencyNext]_idempotencyVars PROVE IdempotencyInv'
  OBVIOUS
<1>1. CASE UNCHANGED idempotencyVars
  BY <1>1 DEF idempotencyVars, IdempotencyInv, IdemTypes, IdempotencyTypeOK, RunnerHoldsRow,
              RunnerKnowsEffects, EffectKeepsRow, Runs, Completed
<1>2. CASE IdempotencyNext
  BY <1>2, LookupKeyInv, ClaimKeyInv, RunHandlerInv, ReleaseKeyInv, StoreResponseInv,
     IdempotencyFaultInv DEF IdempotencyNext, IdempotencyStep
<1> QED
  BY <1>1, <1>2

\* The invariant gives the property: effects are 0 or 1, and the answers told
\* are at most the one the row keeps.
LEMMA IdempotencyInvImplies == IdempotencyInv => OneEffectPerKey
<1> SUFFICES ASSUME IdempotencyInv, NEW k \in IdemKeys
             PROVE  idemEffects[k] <= 1 /\ Cardinality(idemTold[k]) <= 1
  BY DEF OneEffectPerKey
<1> DEFINE answer == <<idemRow[k].hash, idemRow[k].response>>
<1>1. idemEffects[k] \in 0..1 /\ idemTold[k] \subseteq {answer}
  BY DEF IdempotencyInv, EffectKeepsRow
<1> HIDE DEF answer
<1>2. IsFiniteSet({answer}) /\ Cardinality({answer}) = 1
  BY FS_Singleton
<1>3. Cardinality(idemTold[k]) <= 1
  BY <1>1, <1>2, FS_Subset
<1> QED
  BY <1>1, <1>3

-----------------------------------------------------------------------------

\* "Never a second invoice" (IdempotencyService.execute): for any number of
\* keys and of requests under way at once, whatever fails or dies, one key
\* creates at most one invoice, and only that one is ever answered.
THEOREM OneInvoicePerKey ==
  IdempotencyInit /\ [][IdempotencyNext]_idempotencyVars => [](IdempotencyTypeOK /\ OneEffectPerKey)
<1>1. IdempotencyInv => IdempotencyTypeOK /\ OneEffectPerKey
  BY IdempotencyInvImplies DEF IdempotencyInv, IdemTypes
<1> QED
  BY <1>1, IdempotencyInitInv, IdempotencyStepInv, PTL
=============================================================================
