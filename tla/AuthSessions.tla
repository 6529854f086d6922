---------------------------- MODULE AuthSessions ----------------------------
(***************************************************************************)
(* The sessions of one user (modules/auth of the API gateway and           *)
(* middleware/auth.middleware.js): login, rotation of refresh tokens,      *)
(* logout, logout from all devices, and the check every other request      *)
(* passes.  Requests run concurrently; an action is what one does between  *)
(* two awaits.                                                             *)
(*                                                                         *)
(* A grant is what one login or one rotation hands out: an access token,   *)
(* which carries the second it was signed in (iat), and a refresh token,   *)
(* which is a row of the database.  The user's tokenIssuedAt is the time   *)
(* of the last logoutAllDevices; the user is cached in Redis with it, as   *)
(* JSON, so that from the cache it comes back as a string.  Times are      *)
(* compared by their seconds, rounded down, and are seconds here.          *)
(*                                                                         *)
(* The user has registered and is never deleted (softDeleteUser has no     *)
(* caller).  Access tokens do not expire here: one past its 15 minutes is  *)
(* refused by jwt.verify and does nothing more.  The Redis copy of the     *)
(* blacklist only repeats rows of it, which nothing removes, and is left   *)
(* out, as are passwords and the permissions a token carries.              *)
(***************************************************************************)
EXTENDS Integers

CONSTANTS
  Grants,    \* bound of the model: logins and rotations
  First,     \* the grant of the registration
  NoGrant,
  Requests,  \* requests served at the same time
  MaxNow     \* bound of the model: seconds that pass

Seconds == 0..MaxNow

ASSUME SessionsAssumption ==
  /\ First \in Grants
  /\ NoGrant \notin Grants
  /\ MaxNow \in Nat

VARIABLES
  now,          \* the time, in seconds
  issuedAt,     \* User.tokenIssuedAt
  cached,       \* tokenIssuedAt of the cached user, or Absent
  live,         \* grants whose refresh token is in the database
  blacklisted,  \* grants whose access token is in TokenBlacklist
  iat,          \* grant -> the second its access token was signed in
  root,         \* history: grant -> the grant of the login it descends from
  op,           \* request -> its route
  pc,           \* request -> what it does next
  token,        \* request -> the grant it presents
  stamp,        \* request -> the tokenIssuedAt it has read or is about to write
  signed,       \* request -> iat of the access token it has signed
  revoked,      \* history: grants logoutAllDevices has put an end to
  doomed,       \* history: requests whose access token was revoked when they began
  ended         \* history: logins whose last refresh token was taken away

requestVars == <<op, pc, token, stamp, signed, doomed>>
tableVars == <<issuedAt, live, blacklisted, iat, root, revoked, ended>>
vars == <<now, cached, requestVars, tableVars>>

Never == -1        \* tokenIssuedAt null
Absent == -2       \* no cached user
Unsigned == -1     \* iat of a grant not handed out yet
Stamps == Seconds \cup {Never}

Routes == {"none", "login", "refresh", "logout", "authenticated"}
Steps == {"idle", "user", "fill", "check", "checkCached", "rotate", "sign",
          "store", "drop", "revoke", "refill", "sweep"}

TypeOK ==
  /\ now \in Seconds
  /\ issuedAt \in Stamps
  /\ cached \in Stamps \cup {Absent}
  /\ live \in SUBSET Grants
  /\ blacklisted \in SUBSET Grants
  /\ iat \in [Grants -> Seconds \cup {Unsigned}]
  /\ root \in [Grants -> Grants \cup {NoGrant}]
  /\ op \in [Requests -> Routes]
  /\ pc \in [Requests -> Steps]
  /\ token \in [Requests -> Grants \cup {NoGrant}]
  /\ stamp \in [Requests -> Stamps]
  /\ signed \in [Requests -> Seconds]
  /\ revoked \in SUBSET Grants
  /\ doomed \in SUBSET Requests
  /\ ended \in SUBSET Grants

\* registerUser has stored the user and its first refresh token and cached the user.
Init ==
  /\ now = 0
  /\ issuedAt = Never
  /\ cached = Never
  /\ live = {First}
  /\ blacklisted = {}
  /\ iat = [g \in Grants |-> IF g = First THEN 0 ELSE Unsigned]
  /\ root = [g \in Grants |-> IF g = First THEN First ELSE NoGrant]
  /\ op = [r \in Requests |-> "none"]
  /\ pc = [r \in Requests |-> "idle"]
  /\ token = [r \in Requests |-> NoGrant]
  /\ stamp = [r \in Requests |-> Never]
  /\ signed = [r \in Requests |-> 0]
  /\ revoked = {}
  /\ doomed = {}
  /\ ended = {}

HandedOut == {g \in Grants : root[g] # NoGrant}

-----------------------------------------------------------------------------
(* The life of a request.                                                  *)

Begin(r, route, g, step) ==
  /\ pc[r] = "idle"
  /\ op' = [op EXCEPT ![r] = route]
  /\ token' = [token EXCEPT ![r] = g]
  /\ pc' = [pc EXCEPT ![r] = step]
  /\ UNCHANGED signed

GoTo(r, step) ==
  /\ pc' = [pc EXCEPT ![r] = step]
  /\ UNCHANGED <<op, token, signed, doomed>>

\* The answer is sent; what the request held is gone.
Finish(r) ==
  /\ pc' = [pc EXCEPT ![r] = "idle"]
  /\ op' = [op EXCEPT ![r] = "none"]
  /\ token' = [token EXCEPT ![r] = NoGrant]
  /\ stamp' = [stamp EXCEPT ![r] = Never]
  /\ signed' = [signed EXCEPT ![r] = 0]
  /\ doomed' = doomed \ {r}

-----------------------------------------------------------------------------
(* Routes begin.                                                           *)

\* loginUser with the right password: findUserByEmail reads the database.
Login(r) ==
  /\ HandedOut # Grants
  /\ Begin(r, "login", NoGrant, "fill")
  /\ stamp' = [stamp EXCEPT ![r] = issuedAt]
  /\ UNCHANGED <<now, cached, doomed, tableVars>>

\* refreshAccessToken with a token that is found and not past expiresAt.  One that
\* is not found changes nothing.
Refresh(r, g) ==
  /\ HandedOut # Grants
  /\ g \in live
  /\ Begin(r, "refresh", g, "user")
  /\ UNCHANGED <<now, cached, stamp, doomed, tableVars>>

\* authenticate, which precedes every other route, up to isTokenBlacklisted.
Authenticate(r, g) ==
  /\ g \in HandedOut \ blacklisted
  /\ Begin(r, "authenticated", g, "user")
  /\ doomed' = IF g \in revoked THEN doomed \cup {r} ELSE doomed
  /\ UNCHANGED <<now, cached, stamp, tableVars>>

\* logoutUser, which does not authenticate: the access token is blacklisted, or the
\* error is swallowed with those of tokens that need not be.
Logout(r, g) ==
  /\ g \in HandedOut
  /\ blacklisted' \in {blacklisted, blacklisted \cup {g}}
  /\ Begin(r, "logout", g, "drop")
  /\ UNCHANGED <<now, cached, stamp, doomed, issuedAt, live, iat, root, revoked, ended>>

\* Some refreshAccessToken has found the token past expiresAt: it is deleted.
RefreshOverdue(g) ==
  /\ g \in live
  /\ live' = live \ {g}
  /\ ended' = ended \cup {root[g]}
  /\ UNCHANGED <<now, cached, requestVars, issuedAt, blacklisted, iat, root, revoked>>

-----------------------------------------------------------------------------
(* The user: findUserById and cacheUser.                                   *)

\* Where the request goes on with the user.
WithUser(r, fromCache) ==
  CASE op[r] = "login" -> "sign"
    [] op[r] = "refresh" -> "rotate"
    [] OTHER -> IF fromCache THEN "checkCached" ELSE "check"

\* Only authenticate looks at the user's tokenIssuedAt.
Keep(r, time) ==
  stamp' = [stamp EXCEPT ![r] = IF op[r] = "authenticated" THEN time ELSE Never]

\* A hit.
UserFromCache(r) ==
  /\ pc[r] = "user"
  /\ cached # Absent
  /\ Keep(r, cached)
  /\ GoTo(r, WithUser(r, TRUE))
  /\ UNCHANGED <<now, cached, tableVars>>

\* A miss, or a cache that does not answer: the user is read from the database.
UserFromDatabase(r) ==
  /\ pc[r] = "user"
  /\ stamp' = [stamp EXCEPT ![r] = issuedAt]
  /\ GoTo(r, "fill")
  /\ UNCHANGED <<now, cached, tableVars>>

\* cacheUser, which may fail silently, with the user as it was read.
CacheUser(r) == cached' \in {cached, stamp[r]}

FillCache(r) ==
  /\ pc[r] = "fill"
  /\ CacheUser(r)
  /\ Keep(r, stamp[r])
  /\ GoTo(r, WithUser(r, FALSE))
  /\ UNCHANGED <<now, tableVars>>

-----------------------------------------------------------------------------
(* The end of authenticate.                                                *)

Issued(r) == iat[token[r]]

\* Mutant: a tokenIssuedAt that is not a Date is not looked at.
PassesUnlessDate(r) ==
  \/ pc[r] = "checkCached"
  \/ pc[r] = "check" /\ (stamp[r] = Never \/ Issued(r) >= stamp[r])

\* Mutant: clocks may differ by a second.
PassesWithTolerance(r) ==
  \/ pc[r] \in {"check", "checkCached"} /\ stamp[r] = Never
  \/ pc[r] = "check" /\ stamp[r] # Never /\ Issued(r) + 1 >= stamp[r]

\* The token is accepted: there is no tokenIssuedAt, or it is not after the token.
Passes(r) ==
  \/ pc[r] \in {"check", "checkCached"} /\ stamp[r] = Never
  \/ pc[r] = "check" /\ stamp[r] # Never /\ Issued(r) >= stamp[r]

\* getTime of a string: the request ends with a TypeError.
Breaks(r) == pc[r] = "checkCached" /\ stamp[r] # Never

\* The route goes on; that of logout-all takes the time it is about to write.
Accept(r) ==
  /\ Passes(r)
  /\ \/ Finish(r)
     \/ /\ stamp' = [stamp EXCEPT ![r] = now]
        /\ pc' = [pc EXCEPT ![r] = "revoke"]
        /\ token' = [token EXCEPT ![r] = NoGrant]
        /\ doomed' = doomed \ {r}
        /\ UNCHANGED <<op, signed>>
  /\ UNCHANGED <<now, cached, tableVars>>

\* 401, or the TypeError.
Refuse(r) ==
  /\ pc[r] \in {"check", "checkCached"}
  /\ ~Passes(r)
  /\ Finish(r)
  /\ UNCHANGED <<now, cached, tableVars>>

-----------------------------------------------------------------------------
(* Rotation and issueTokens.                                               *)

\* Mutant: deleteMany, which does not mind that there is no such row.
RotateAnyway(r) ==
  /\ pc[r] = "rotate"
  /\ live' = live \ {token[r]}
  /\ GoTo(r, "sign")
  /\ UNCHANGED <<now, cached, stamp, issuedAt, blacklisted, iat, root, revoked, ended>>

\* Mutant: the old token stays.
RotateKeepingOld(r) ==
  /\ pc[r] = "rotate"
  /\ token[r] \in live
  /\ GoTo(r, "sign")
  /\ UNCHANGED <<now, cached, stamp, tableVars>>

\* deleteRefreshToken of the old token; without its row the request fails (P2025).
Rotate(r) ==
  /\ pc[r] = "rotate"
  /\ token[r] \in live
  /\ live' = live \ {token[r]}
  /\ GoTo(r, "sign")
  /\ UNCHANGED <<now, cached, stamp, issuedAt, blacklisted, iat, root, revoked, ended>>

\* generateAccessToken, after the permissions were read.
Sign(r) ==
  /\ pc[r] = "sign"
  /\ signed' = [signed EXCEPT ![r] = now]
  /\ pc' = [pc EXCEPT ![r] = "store"]
  /\ UNCHANGED <<now, cached, op, token, stamp, doomed, tableVars>>

\* createRefreshToken, and the answer with both tokens.
Store(r) ==
  /\ pc[r] = "store"
  /\ \E g \in Grants \ HandedOut :
       /\ live' = live \cup {g}
       /\ iat' = [iat EXCEPT ![g] = signed[r]]
       /\ root' = [root EXCEPT ![g] = IF op[r] = "login" THEN g ELSE root[token[r]]]
  /\ Finish(r)
  /\ UNCHANGED <<now, cached, issuedAt, blacklisted, revoked, ended>>

-----------------------------------------------------------------------------
(* The end of logout and of logout-all.                                    *)

\* deleteRefreshToken, a missing row is no error.
Drop(r) ==
  /\ pc[r] = "drop"
  /\ live' = live \ {token[r]}
  /\ ended' = IF token[r] \in live THEN ended \cup {root[token[r]]} ELSE ended
  /\ Finish(r)
  /\ UNCHANGED <<now, cached, issuedAt, blacklisted, iat, root, revoked>>

\* updateUserTokenIssuedAt: the database.
Revoke(r) ==
  /\ pc[r] = "revoke"
  /\ issuedAt' = stamp[r]
  /\ GoTo(r, "refill")
  /\ UNCHANGED <<now, cached, stamp, live, blacklisted, iat, root, revoked, ended>>

\* updateUserTokenIssuedAt: the cache.
Refill(r) ==
  /\ pc[r] = "refill"
  /\ CacheUser(r)
  /\ GoTo(r, "sweep")
  /\ stamp' = [stamp EXCEPT ![r] = Never]
  /\ UNCHANGED <<now, tableVars>>

\* A rotation has deleted its old token and not stored the new one yet.
BetweenTokens(q) == op[q] = "refresh" /\ pc[q] \in {"sign", "store"}
Rotating == {q \in Requests : BetweenTokens(q)}

\* deleteUserRefreshTokens.  The access tokens older than tokenIssuedAt count as
\* revoked when no other logoutAllDevices is about to write an earlier time.
Sweep(r) ==
  /\ pc[r] = "sweep"
  /\ live' = {}
  /\ ended' = {root[g] : g \in HandedOut} \ {root[token[q]] : q \in Rotating}
  /\ revoked' = IF \E q \in Requests : pc[q] = "revoke" THEN revoked
                ELSE {g \in HandedOut : iat[g] < issuedAt}
  /\ Finish(r)
  /\ UNCHANGED <<now, cached, issuedAt, blacklisted, iat, root>>

-----------------------------------------------------------------------------
(* Failures and time.                                                      *)

\* A query fails (P2025 included) or the process dies.
Fail(r) ==
  /\ pc[r] # "idle"
  /\ Finish(r)
  /\ UNCHANGED <<now, cached, tableVars>>

\* The entry's 300 seconds are over.
Expire ==
  /\ cached # Absent
  /\ cached' = Absent
  /\ UNCHANGED <<now, requestVars, tableVars>>

Tick ==
  /\ now < MaxNow
  /\ now' = now + 1
  /\ UNCHANGED <<cached, requestVars, tableVars>>

GoOn(r) ==
  \/ UserFromCache(r)
  \/ UserFromDatabase(r)
  \/ FillCache(r)
  \/ Accept(r)
  \/ Refuse(r)
  \/ Rotate(r)
  \/ Sign(r)
  \/ Store(r)
  \/ Drop(r)
  \/ Revoke(r)
  \/ Refill(r)
  \/ Sweep(r)
  \/ Fail(r)

Next ==
  \/ \E r \in Requests :
       \/ Login(r)
       \/ \E g \in Grants :
            \/ Refresh(r, g)
            \/ Logout(r, g)
            \/ Authenticate(r, g)
       \/ GoOn(r)
  \/ \E g \in Grants : RefreshOverdue(g)
  \/ Expire
  \/ Tick

Spec == Init /\ [][Next]_vars

\* Queries are answered or fail.  A cached user without tokenIssuedAt is not renewed
\* for ever once the database has one, so its entry expires.
Fairness ==
  /\ \A r \in Requests : WF_vars(GoOn(r))
  /\ WF_vars(cached = Never /\ Expire)

FairSpec == Spec /\ Fairness

-----------------------------------------------------------------------------
(* Properties.                                                             *)

\* A login has one refresh token at most, counting a rotation under way: however
\* many rotations of one token run at once, one gets a successor
\* (refreshAccessToken, "Rotate: delete old, issue new").
ChainsDoNotFork ==
  /\ \A g, h \in live : root[g] = root[h] => g = h
  /\ \A p, q \in Rotating : root[token[p]] = root[token[q]] => p = q
  /\ \A g \in live, q \in Rotating : root[g] # root[token[q]]

\* A login whose refresh token a logout or a logout-all took away gets none again,
\* also not by a rotation that had found the token before (refreshAccessToken
\* against logoutUser and logoutAllDevices).
EndedStayEnded == \A g \in live : root[g] \notin ended

\* An access token that logoutAllDevices has revoked before a request began is
\* accepted only with a user that was cached before the first logoutAllDevices
\* (authenticate, findUserById).
RevokedNeedsOldUser ==
  [][\A r \in doomed : Accept(r) => pc[r] = "checkCached" /\ stamp[r] = Never]_vars

\* In the end no revoked access token is accepted any more, whatever was cached
\* when and in what order (authenticate against cacheUser of concurrent requests).
RevokedTokensDie == <>[][\A r \in doomed : ~Accept(r)]_vars

\* "should accept token issued after tokenIssuedAt" (auth.middleware.test.js:113).
LaterTokensAccepted ==
  [][\A r \in Requests :
       Refuse(r) => ~(Issued(r) > issuedAt)]_vars
=============================================================================
