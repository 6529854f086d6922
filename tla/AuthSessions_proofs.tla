------------------------ MODULE AuthSessions_proofs ------------------------
(***************************************************************************)
(* The safety properties of AuthSessions, for any requests, grants and     *)
(* clock.                                                                  *)
(*                                                                         *)
(* Refresh tokens: the tokens of one login form a chain, of which one is   *)
(* in the database or one rotation is between two of them.  That, and that *)
(* a rotation goes on only if the row is still there, is why concurrent    *)
(* rotations do not multiply and a logout is final.                        *)
(*                                                                         *)
(* Access tokens: a revoked token is older than tokenIssuedAt and than     *)
(* every time a logoutAllDevices under way is about to write, so reading   *)
(* the database refuses it whenever it happens; only the cached user can   *)
(* be older.                                                               *)
(***************************************************************************)
EXTENDS AuthSessions, TLAPS

\* The steps of each route.
StepInv ==
  \A r \in Requests :
    /\ pc[r] = "user" => op[r] \in {"refresh", "authenticated"}
    /\ pc[r] = "fill" => op[r] \in {"login", "refresh", "authenticated"}
    /\ pc[r] = "rotate" => op[r] = "refresh"
    /\ pc[r] = "drop" => op[r] = "logout"
    /\ pc[r] \in {"sign", "store"} => op[r] \in {"login", "refresh"}
    /\ pc[r] \in {"check", "checkCached", "revoke", "refill", "sweep"}
         => op[r] = "authenticated"

\* Presents a token that is still needed.
Presents(r) ==
  \/ op[r] \in {"refresh", "logout"}
  \/ op[r] = "authenticated" /\ pc[r] \in {"user", "fill", "check", "checkCached"}

\* Refresh tokens in the database, the tokens requests present and the logins they
\* descend from were handed out.
HandedInv ==
  /\ live \subseteq HandedOut
  /\ ended \subseteq HandedOut
  /\ \A g \in HandedOut : root[g] \in HandedOut /\ iat[g] \in Seconds
  /\ \A r \in Requests : Presents(r) => token[r] \in HandedOut

\* No time written down is in the future.
TimeInv ==
  /\ issuedAt <= now
  /\ cached <= now
  /\ \A r \in Requests : stamp[r] <= now

\* A login that has ended has no refresh token and no rotation under way.
EndedInv ==
  /\ EndedStayEnded
  /\ \A q \in Rotating : root[token[q]] \notin ended

\* A revoked access token is older than tokenIssuedAt, and than any about to be written.
RevokedInv ==
  \A g \in revoked :
    /\ g \in HandedOut
    /\ iat[g] < issuedAt
    /\ \A q \in Requests : pc[q] = "revoke" => iat[g] < stamp[q]

\* A doomed request presents a revoked token; if it has the user from the database,
\* then with a tokenIssuedAt after the token.
DoomedInv ==
  \A r \in doomed :
    /\ op[r] = "authenticated"
    /\ pc[r] \in {"user", "fill", "check", "checkCached"}
    /\ token[r] \in revoked
    /\ pc[r] \in {"fill", "check"} => iat[token[r]] < stamp[r]

IInv ==
  /\ TypeOK
  /\ StepInv
  /\ HandedInv
  /\ TimeInv
  /\ ChainsDoNotFork
  /\ EndedInv
  /\ RevokedInv
  /\ DoomedInv

-----------------------------------------------------------------------------
(* Steps keep the parts of the invariant.  Each proof goes action by action. *)

\* Types: the roots that Store, Drop and RefreshOverdue copy are those of handed out
\* tokens.
LEMMA TypeStep ==
  ASSUME TypeOK, StepInv, HandedInv, [Next]_vars
  PROVE  TypeOK'
<1> USE SessionsAssumption DEF vars, requestVars, tableVars, TypeOK, HandedOut,
      Stamps, Seconds, Never, Absent, Unsigned, Routes, Steps
<1>1. ASSUME NEW r \in Requests, Login(r) PROVE TypeOK'
  BY <1>1 DEF Login, Begin
<1>2. ASSUME NEW r \in Requests, NEW g \in Grants, Refresh(r, g) PROVE TypeOK'
  BY <1>2 DEF Refresh, Begin
<1>3. ASSUME NEW r \in Requests, NEW g \in Grants, Logout(r, g) PROVE TypeOK'
  BY <1>3 DEF Logout, Begin
<1>4. ASSUME NEW r \in Requests, NEW g \in Grants, Authenticate(r, g) PROVE TypeOK'
  BY <1>4 DEF Authenticate, Begin
<1>5. ASSUME NEW r \in Requests, UserFromCache(r) PROVE TypeOK'
  BY <1>5 DEF UserFromCache, GoTo, Keep, WithUser
<1>6. ASSUME NEW r \in Requests, UserFromDatabase(r) PROVE TypeOK'
  BY <1>6 DEF UserFromDatabase, GoTo
<1>7. ASSUME NEW r \in Requests, FillCache(r) PROVE TypeOK'
  BY <1>7 DEF FillCache, CacheUser, Keep, GoTo, WithUser
<1>8. ASSUME NEW r \in Requests, Accept(r) PROVE TypeOK'
  BY <1>8 DEF Accept, Passes, Finish
<1>9. ASSUME NEW r \in Requests, Refuse(r) PROVE TypeOK'
  BY <1>9 DEF Refuse, Finish
<1>10. ASSUME NEW r \in Requests, Rotate(r) PROVE TypeOK'
  BY <1>10 DEF Rotate, GoTo
<1>11. ASSUME NEW r \in Requests, Sign(r) PROVE TypeOK'
  BY <1>11 DEF Sign
<1>12. ASSUME NEW r \in Requests, Store(r) PROVE TypeOK'
  BY <1>12 DEF Store, Finish, StepInv, HandedInv, Presents
<1>13. ASSUME NEW r \in Requests, Drop(r) PROVE TypeOK'
  BY <1>13 DEF Drop, Finish, HandedInv
<1>14. ASSUME NEW r \in Requests, Revoke(r) PROVE TypeOK'
  BY <1>14 DEF Revoke, GoTo
<1>15. ASSUME NEW r \in Requests, Refill(r) PROVE TypeOK'
  BY <1>15 DEF Refill, CacheUser, GoTo
<1>16. ASSUME NEW r \in Requests, Sweep(r) PROVE TypeOK'
  BY <1>16 DEF Sweep, Finish
<1>17. ASSUME NEW r \in Requests, Fail(r) PROVE TypeOK'
  BY <1>17 DEF Fail, Finish
<1>18. ASSUME NEW g \in Grants, RefreshOverdue(g) PROVE TypeOK'
  BY <1>18 DEF RefreshOverdue, HandedInv
<1>19. CASE Expire
  BY <1>19 DEF Expire
<1>20. CASE Tick
  BY <1>20 DEF Tick
<1>21. CASE UNCHANGED vars
  BY <1>21
<1> QED BY <1>1, <1>2, <1>3, <1>4, <1>5, <1>6, <1>7, <1>8, <1>9, <1>10, <1>11,
      <1>12, <1>13, <1>14, <1>15, <1>16, <1>17, <1>18, <1>19, <1>20, <1>21
  DEF Next, GoOn

\* A route takes its own steps only.
LEMMA StepStep ==
  ASSUME TypeOK, StepInv, [Next]_vars
  PROVE  StepInv'
<1> USE DEF vars, requestVars, TypeOK, StepInv
<1>1. ASSUME NEW r \in Requests, Login(r) PROVE StepInv'
  BY <1>1 DEF Login, Begin
<1>2. ASSUME NEW r \in Requests, NEW g \in Grants, Refresh(r, g) PROVE StepInv'
  BY <1>2 DEF Refresh, Begin
<1>3. ASSUME NEW r \in Requests, NEW g \in Grants, Logout(r, g) PROVE StepInv'
  BY <1>3 DEF Logout, Begin
<1>4. ASSUME NEW r \in Requests, NEW g \in Grants, Authenticate(r, g) PROVE StepInv'
  BY <1>4 DEF Authenticate, Begin
<1>5. ASSUME NEW r \in Requests, UserFromCache(r) PROVE StepInv'
  BY <1>5 DEF UserFromCache, GoTo, Keep, WithUser
<1>6. ASSUME NEW r \in Requests, UserFromDatabase(r) PROVE StepInv'
  BY <1>6 DEF UserFromDatabase, GoTo
<1>7. ASSUME NEW r \in Requests, FillCache(r) PROVE StepInv'
  BY <1>7 DEF FillCache, CacheUser, Keep, GoTo, WithUser
<1>8. ASSUME NEW r \in Requests, Accept(r) PROVE StepInv'
  BY <1>8 DEF Accept, Passes, Finish
<1>9. ASSUME NEW r \in Requests, Refuse(r) PROVE StepInv'
  BY <1>9 DEF Refuse, Finish
<1>10. ASSUME NEW r \in Requests, Rotate(r) PROVE StepInv'
  BY <1>10 DEF Rotate, GoTo
<1>11. ASSUME NEW r \in Requests, Sign(r) PROVE StepInv'
  BY <1>11 DEF Sign
<1>12. ASSUME NEW r \in Requests, Store(r) PROVE StepInv'
  BY <1>12 DEF Store, Finish
<1>13. ASSUME NEW r \in Requests, Drop(r) PROVE StepInv'
  BY <1>13 DEF Drop, Finish
<1>14. ASSUME NEW r \in Requests, Revoke(r) PROVE StepInv'
  BY <1>14 DEF Revoke, GoTo
<1>15. ASSUME NEW r \in Requests, Refill(r) PROVE StepInv'
  BY <1>15 DEF Refill, CacheUser, GoTo
<1>16. ASSUME NEW r \in Requests, Sweep(r) PROVE StepInv'
  BY <1>16 DEF Sweep, Finish
<1>17. ASSUME NEW r \in Requests, Fail(r) PROVE StepInv'
  BY <1>17 DEF Fail, Finish
<1>18. ASSUME NEW g \in Grants, RefreshOverdue(g) PROVE StepInv'
  BY <1>18 DEF RefreshOverdue
<1>19. CASE Expire
  BY <1>19 DEF Expire
<1>20. CASE Tick
  BY <1>20 DEF Tick
<1>21. CASE UNCHANGED vars
  BY <1>21
<1> QED BY <1>1, <1>2, <1>3, <1>4, <1>5, <1>6, <1>7, <1>8, <1>9, <1>10, <1>11,
      <1>12, <1>13, <1>14, <1>15, <1>16, <1>17, <1>18, <1>19, <1>20, <1>21
  DEF Next, GoOn

\* What is presented, stored or ended was handed out.
LEMMA HandedStep ==
  ASSUME TypeOK, StepInv, HandedInv, [Next]_vars
  PROVE  HandedInv'
<1> USE DEF vars, requestVars, tableVars, TypeOK, HandedOut, StepInv, HandedInv,
      Presents, Rotating, BetweenTokens
<1>1. ASSUME NEW r \in Requests, Login(r) PROVE HandedInv'
  BY <1>1 DEF Login, Begin
<1>2. ASSUME NEW r \in Requests, NEW g \in Grants, Refresh(r, g) PROVE HandedInv'
  BY <1>2 DEF Refresh, Begin
<1>3. ASSUME NEW r \in Requests, NEW g \in Grants, Logout(r, g) PROVE HandedInv'
  BY <1>3 DEF Logout, Begin
<1>4. ASSUME NEW r \in Requests, NEW g \in Grants, Authenticate(r, g) PROVE HandedInv'
  BY <1>4 DEF Authenticate, Begin
<1>5. ASSUME NEW r \in Requests, UserFromCache(r) PROVE HandedInv'
  BY <1>5 DEF UserFromCache, GoTo, Keep, WithUser
<1>6. ASSUME NEW r \in Requests, UserFromDatabase(r) PROVE HandedInv'
  BY <1>6 DEF UserFromDatabase, GoTo
<1>7. ASSUME NEW r \in Requests, FillCache(r) PROVE HandedInv'
  BY <1>7 DEF FillCache, CacheUser, Keep, GoTo, WithUser
<1>8. ASSUME NEW r \in Requests, Accept(r) PROVE HandedInv'
  BY <1>8 DEF Accept, Passes, Finish
<1>9. ASSUME NEW r \in Requests, Refuse(r) PROVE HandedInv'
  BY <1>9 DEF Refuse, Finish
<1>10. ASSUME NEW r \in Requests, Rotate(r) PROVE HandedInv'
  BY <1>10 DEF Rotate, GoTo
<1>11. ASSUME NEW r \in Requests, Sign(r) PROVE HandedInv'
  BY <1>11 DEF Sign
<1>12. ASSUME NEW r \in Requests, Store(r) PROVE HandedInv'
  BY <1>12, SessionsAssumption DEF Store, Finish
<1>13. ASSUME NEW r \in Requests, Drop(r) PROVE HandedInv'
  BY <1>13 DEF Drop, Finish
<1>14. ASSUME NEW r \in Requests, Revoke(r) PROVE HandedInv'
  BY <1>14 DEF Revoke, GoTo
<1>15. ASSUME NEW r \in Requests, Refill(r) PROVE HandedInv'
  BY <1>15 DEF Refill, CacheUser, GoTo
<1>16. ASSUME NEW r \in Requests, Sweep(r) PROVE HandedInv'
  BY <1>16 DEF Sweep, Finish
<1>17. ASSUME NEW r \in Requests, Fail(r) PROVE HandedInv'
  BY <1>17 DEF Fail, Finish
<1>18. ASSUME NEW g \in Grants, RefreshOverdue(g) PROVE HandedInv'
  BY <1>18 DEF RefreshOverdue
<1>19. CASE Expire
  BY <1>19 DEF Expire
<1>20. CASE Tick
  BY <1>20 DEF Tick
<1>21. CASE UNCHANGED vars
  BY <1>21
<1> QED BY <1>1, <1>2, <1>3, <1>4, <1>5, <1>6, <1>7, <1>8, <1>9, <1>10, <1>11,
      <1>12, <1>13, <1>14, <1>15, <1>16, <1>17, <1>18, <1>19, <1>20, <1>21
  DEF Next, GoOn

\* Times are taken from the clock and copied.
LEMMA TimeStep ==
  ASSUME TypeOK, TimeInv, [Next]_vars
  PROVE  TimeInv'
<1> USE DEF vars, requestVars, tableVars, TypeOK, Seconds, Stamps, Never, Absent,
      TimeInv
<1>1. ASSUME NEW r \in Requests, Login(r) PROVE TimeInv'
  BY <1>1 DEF Login, Begin
<1>2. ASSUME NEW r \in Requests, NEW g \in Grants, Refresh(r, g) PROVE TimeInv'
  BY <1>2 DEF Refresh, Begin
<1>3. ASSUME NEW r \in Requests, NEW g \in Grants, Logout(r, g) PROVE TimeInv'
  BY <1>3 DEF Logout, Begin
<1>4. ASSUME NEW r \in Requests, NEW g \in Grants, Authenticate(r, g) PROVE TimeInv'
  BY <1>4 DEF Authenticate, Begin
<1>5. ASSUME NEW r \in Requests, UserFromCache(r) PROVE TimeInv'
  BY <1>5 DEF UserFromCache, GoTo, Keep, WithUser
<1>6. ASSUME NEW r \in Requests, UserFromDatabase(r) PROVE TimeInv'
  BY <1>6 DEF UserFromDatabase, GoTo
<1>7. ASSUME NEW r \in Requests, FillCache(r) PROVE TimeInv'
  BY <1>7 DEF FillCache, CacheUser, Keep, GoTo, WithUser
<1>8. ASSUME NEW r \in Requests, Accept(r) PROVE TimeInv'
  BY <1>8 DEF Accept, Passes, Finish
<1>9. ASSUME NEW r \in Requests, Refuse(r) PROVE TimeInv'
  BY <1>9 DEF Refuse, Finish
<1>10. ASSUME NEW r \in Requests, Rotate(r) PROVE TimeInv'
  BY <1>10 DEF Rotate, GoTo
<1>11. ASSUME NEW r \in Requests, Sign(r) PROVE TimeInv'
  BY <1>11 DEF Sign
<1>12. ASSUME NEW r \in Requests, Store(r) PROVE TimeInv'
  BY <1>12 DEF Store, Finish
<1>13. ASSUME NEW r \in Requests, Drop(r) PROVE TimeInv'
  BY <1>13 DEF Drop, Finish
<1>14. ASSUME NEW r \in Requests, Revoke(r) PROVE TimeInv'
  BY <1>14 DEF Revoke, GoTo
<1>15. ASSUME NEW r \in Requests, Refill(r) PROVE TimeInv'
  BY <1>15 DEF Refill, CacheUser, GoTo
<1>16. ASSUME NEW r \in Requests, Sweep(r) PROVE TimeInv'
  BY <1>16 DEF Sweep, Finish
<1>17. ASSUME NEW r \in Requests, Fail(r) PROVE TimeInv'
  BY <1>17 DEF Fail, Finish
<1>18. ASSUME NEW g \in Grants, RefreshOverdue(g) PROVE TimeInv'
  BY <1>18 DEF RefreshOverdue
<1>19. CASE Expire
  BY <1>19 DEF Expire
<1>20. CASE Tick
  BY <1>20 DEF Tick
<1>21. CASE UNCHANGED vars
  BY <1>21
<1> QED BY <1>1, <1>2, <1>3, <1>4, <1>5, <1>6, <1>7, <1>8, <1>9, <1>10, <1>11,
      <1>12, <1>13, <1>14, <1>15, <1>16, <1>17, <1>18, <1>19, <1>20, <1>21
  DEF Next, GoOn

\* Only a login starts a chain; a rotation takes its token's place in the chain, and
\* only one can, as the row is there once.
LEMMA ForkStep ==
  ASSUME TypeOK, StepInv, HandedInv, ChainsDoNotFork, [Next]_vars
  PROVE  ChainsDoNotFork'
<1> USE DEF vars, requestVars, tableVars, TypeOK, HandedOut, StepInv, HandedInv,
      Presents, Rotating, BetweenTokens, ChainsDoNotFork
<1>1. ASSUME NEW r \in Requests, Login(r) PROVE ChainsDoNotFork'
  BY <1>1 DEF Login, Begin
<1>2. ASSUME NEW r \in Requests, NEW g \in Grants, Refresh(r, g) PROVE ChainsDoNotFork'
  BY <1>2 DEF Refresh, Begin
<1>3. ASSUME NEW r \in Requests, NEW g \in Grants, Logout(r, g) PROVE ChainsDoNotFork'
  BY <1>3 DEF Logout, Begin
<1>4. ASSUME NEW r \in Requests, NEW g \in Grants, Authenticate(r, g) PROVE ChainsDoNotFork'
  BY <1>4 DEF Authenticate, Begin
<1>5. ASSUME NEW r \in Requests, UserFromCache(r) PROVE ChainsDoNotFork'
  BY <1>5 DEF UserFromCache, GoTo, Keep, WithUser
<1>6. ASSUME NEW r \in Requests, UserFromDatabase(r) PROVE ChainsDoNotFork'
  BY <1>6 DEF UserFromDatabase, GoTo
<1>7. ASSUME NEW r \in Requests, FillCache(r) PROVE ChainsDoNotFork'
  BY <1>7 DEF FillCache, CacheUser, Keep, GoTo, WithUser
<1>8. ASSUME NEW r \in Requests, Accept(r) PROVE ChainsDoNotFork'
  BY <1>8 DEF Accept, Passes, Finish
<1>9. ASSUME NEW r \in Requests, Refuse(r) PROVE ChainsDoNotFork'
  BY <1>9 DEF Refuse, Finish
<1>10. ASSUME NEW r \in Requests, Rotate(r) PROVE ChainsDoNotFork'
  BY <1>10 DEF Rotate, GoTo
<1>11. ASSUME NEW r \in Requests, Sign(r) PROVE ChainsDoNotFork'
  BY <1>11 DEF Sign
<1>12. ASSUME NEW r \in Requests, Store(r) PROVE ChainsDoNotFork'
  BY <1>12 DEF Store, Finish
<1>13. ASSUME NEW r \in Requests, Drop(r) PROVE ChainsDoNotFork'
  BY <1>13 DEF Drop, Finish
<1>14. ASSUME NEW r \in Requests, Revoke(r) PROVE ChainsDoNotFork'
  BY <1>14 DEF Revoke, GoTo
<1>15. ASSUME NEW r \in Requests, Refill(r) PROVE ChainsDoNotFork'
  BY <1>15 DEF Refill, CacheUser, GoTo
<1>16. ASSUME NEW r \in Requests, Sweep(r) PROVE ChainsDoNotFork'
  BY <1>16 DEF Sweep, Finish
<1>17. ASSUME NEW r \in Requests, Fail(r) PROVE ChainsDoNotFork'
  BY <1>17 DEF Fail, Finish
<1>18. ASSUME NEW g \in Grants, RefreshOverdue(g) PROVE ChainsDoNotFork'
  BY <1>18 DEF RefreshOverdue
<1>19. CASE Expire
  BY <1>19 DEF Expire
<1>20. CASE Tick
  BY <1>20 DEF Tick
<1>21. CASE UNCHANGED vars
  BY <1>21
<1> QED BY <1>1, <1>2, <1>3, <1>4, <1>5, <1>6, <1>7, <1>8, <1>9, <1>10, <1>11,
      <1>12, <1>13, <1>14, <1>15, <1>16, <1>17, <1>18, <1>19, <1>20, <1>21
  DEF Next, GoOn

\* A rotation that has not deleted its token finds no row after the login's end.
LEMMA EndedStep ==
  ASSUME TypeOK, StepInv, HandedInv, ChainsDoNotFork, EndedInv, [Next]_vars
  PROVE  EndedInv'
<1> USE DEF vars, requestVars, tableVars, TypeOK, HandedOut, StepInv, HandedInv,
      Presents, Rotating, BetweenTokens, ChainsDoNotFork, EndedInv, EndedStayEnded
<1>1. ASSUME NEW r \in Requests, Login(r) PROVE EndedInv'
  BY <1>1 DEF Login, Begin
<1>2. ASSUME NEW r \in Requests, NEW g \in Grants, Refresh(r, g) PROVE EndedInv'
  BY <1>2 DEF Refresh, Begin
<1>3. ASSUME NEW r \in Requests, NEW g \in Grants, Logout(r, g) PROVE EndedInv'
  BY <1>3 DEF Logout, Begin
<1>4. ASSUME NEW r \in Requests, NEW g \in Grants, Authenticate(r, g) PROVE EndedInv'
  BY <1>4 DEF Authenticate, Begin
<1>5. ASSUME NEW r \in Requests, UserFromCache(r) PROVE EndedInv'
  BY <1>5 DEF UserFromCache, GoTo, Keep, WithUser
<1>6. ASSUME NEW r \in Requests, UserFromDatabase(r) PROVE EndedInv'
  BY <1>6 DEF UserFromDatabase, GoTo
<1>7. ASSUME NEW r \in Requests, FillCache(r) PROVE EndedInv'
  BY <1>7 DEF FillCache, CacheUser, Keep, GoTo, WithUser
<1>8. ASSUME NEW r \in Requests, Accept(r) PROVE EndedInv'
  BY <1>8 DEF Accept, Passes, Finish
<1>9. ASSUME NEW r \in Requests, Refuse(r) PROVE EndedInv'
  BY <1>9 DEF Refuse, Finish
<1>10. ASSUME NEW r \in Requests, Rotate(r) PROVE EndedInv'
  BY <1>10 DEF Rotate, GoTo
<1>11. ASSUME NEW r \in Requests, Sign(r) PROVE EndedInv'
  BY <1>11 DEF Sign
<1>12. ASSUME NEW r \in Requests, Store(r) PROVE EndedInv'
  BY <1>12 DEF Store, Finish
<1>13. ASSUME NEW r \in Requests, Drop(r) PROVE EndedInv'
  BY <1>13 DEF Drop, Finish
<1>14. ASSUME NEW r \in Requests, Revoke(r) PROVE EndedInv'
  BY <1>14 DEF Revoke, GoTo
<1>15. ASSUME NEW r \in Requests, Refill(r) PROVE EndedInv'
  BY <1>15 DEF Refill, CacheUser, GoTo
<1>16. ASSUME NEW r \in Requests, Sweep(r) PROVE EndedInv'
  BY <1>16 DEF Sweep, Finish
<1>17. ASSUME NEW r \in Requests, Fail(r) PROVE EndedInv'
  BY <1>17 DEF Fail, Finish
<1>18. ASSUME NEW g \in Grants, RefreshOverdue(g) PROVE EndedInv'
  BY <1>18 DEF RefreshOverdue
<1>19. CASE Expire
  BY <1>19 DEF Expire
<1>20. CASE Tick
  BY <1>20 DEF Tick
<1>21. CASE UNCHANGED vars
  BY <1>21
<1> QED BY <1>1, <1>2, <1>3, <1>4, <1>5, <1>6, <1>7, <1>8, <1>9, <1>10, <1>11,
      <1>12, <1>13, <1>14, <1>15, <1>16, <1>17, <1>18, <1>19, <1>20, <1>21
  DEF Next, GoOn

\* A logoutAllDevices that is yet to write takes a time no revoked token reaches.
LEMMA RevokedStep ==
  ASSUME TypeOK, HandedInv, TimeInv, RevokedInv, [Next]_vars
  PROVE  RevokedInv'
<1> USE SessionsAssumption DEF vars, requestVars, tableVars, TypeOK, Seconds,
      Stamps, Never, HandedOut, HandedInv, TimeInv, RevokedInv
<1>1. ASSUME NEW r \in Requests, Login(r) PROVE RevokedInv'
  BY <1>1 DEF Login, Begin
<1>2. ASSUME NEW r \in Requests, NEW g \in Grants, Refresh(r, g) PROVE RevokedInv'
  BY <1>2 DEF Refresh, Begin
<1>3. ASSUME NEW r \in Requests, NEW g \in Grants, Logout(r, g) PROVE RevokedInv'
  BY <1>3 DEF Logout, Begin
<1>4. ASSUME NEW r \in Requests, NEW g \in Grants, Authenticate(r, g) PROVE RevokedInv'
  BY <1>4 DEF Authenticate, Begin
<1>5. ASSUME NEW r \in Requests, UserFromCache(r) PROVE RevokedInv'
  BY <1>5 DEF UserFromCache, GoTo, Keep, WithUser
<1>6. ASSUME NEW r \in Requests, UserFromDatabase(r) PROVE RevokedInv'
  BY <1>6 DEF UserFromDatabase, GoTo
<1>7. ASSUME NEW r \in Requests, FillCache(r) PROVE RevokedInv'
  BY <1>7 DEF FillCache, CacheUser, Keep, GoTo, WithUser
<1>8. ASSUME NEW r \in Requests, Accept(r) PROVE RevokedInv'
  BY <1>8 DEF Accept, Passes, Finish
<1>9. ASSUME NEW r \in Requests, Refuse(r) PROVE RevokedInv'
  BY <1>9 DEF Refuse, Finish
<1>10. ASSUME NEW r \in Requests, Rotate(r) PROVE RevokedInv'
  BY <1>10 DEF Rotate, GoTo
<1>11. ASSUME NEW r \in Requests, Sign(r) PROVE RevokedInv'
  BY <1>11 DEF Sign
<1>12. ASSUME NEW r \in Requests, Store(r) PROVE RevokedInv'
  BY <1>12 DEF Store, Finish
<1>13. ASSUME NEW r \in Requests, Drop(r) PROVE RevokedInv'
  BY <1>13 DEF Drop, Finish
<1>14. ASSUME NEW r \in Requests, Revoke(r) PROVE RevokedInv'
  BY <1>14 DEF Revoke, GoTo
<1>15. ASSUME NEW r \in Requests, Refill(r) PROVE RevokedInv'
  BY <1>15 DEF Refill, CacheUser, GoTo
<1>16. ASSUME NEW r \in Requests, Sweep(r) PROVE RevokedInv'
  BY <1>16 DEF Sweep, Finish
<1>17. ASSUME NEW r \in Requests, Fail(r) PROVE RevokedInv'
  BY <1>17 DEF Fail, Finish
<1>18. ASSUME NEW g \in Grants, RefreshOverdue(g) PROVE RevokedInv'
  BY <1>18 DEF RefreshOverdue
<1>19. CASE Expire
  BY <1>19 DEF Expire
<1>20. CASE Tick
  BY <1>20 DEF Tick
<1>21. CASE UNCHANGED vars
  BY <1>21
<1> QED BY <1>1, <1>2, <1>3, <1>4, <1>5, <1>6, <1>7, <1>8, <1>9, <1>10, <1>11,
      <1>12, <1>13, <1>14, <1>15, <1>16, <1>17, <1>18, <1>19, <1>20, <1>21
  DEF Next, GoOn

\* A doomed request that misses the cache reads a tokenIssuedAt after its token.
LEMMA DoomedStep ==
  ASSUME TypeOK, StepInv, HandedInv, RevokedInv, DoomedInv, [Next]_vars
  PROVE  DoomedInv'
<1> USE SessionsAssumption DEF vars, requestVars, tableVars, TypeOK, Seconds,
      Stamps, Never, HandedOut, StepInv, HandedInv, RevokedInv, DoomedInv
<1>1. ASSUME NEW r \in Requests, Login(r) PROVE DoomedInv'
  BY <1>1 DEF Login, Begin
<1>2. ASSUME NEW r \in Requests, NEW g \in Grants, Refresh(r, g) PROVE DoomedInv'
  BY <1>2 DEF Refresh, Begin
<1>3. ASSUME NEW r \in Requests, NEW g \in Grants, Logout(r, g) PROVE DoomedInv'
  BY <1>3 DEF Logout, Begin
<1>4. ASSUME NEW r \in Requests, NEW g \in Grants, Authenticate(r, g) PROVE DoomedInv'
  BY <1>4 DEF Authenticate, Begin
<1>5. ASSUME NEW r \in Requests, UserFromCache(r) PROVE DoomedInv'
  BY <1>5 DEF UserFromCache, GoTo, Keep, WithUser
<1>6. ASSUME NEW r \in Requests, UserFromDatabase(r) PROVE DoomedInv'
  BY <1>6 DEF UserFromDatabase, GoTo
<1>7. ASSUME NEW r \in Requests, FillCache(r) PROVE DoomedInv'
  BY <1>7 DEF FillCache, CacheUser, Keep, GoTo, WithUser
<1>8. ASSUME NEW r \in Requests, Accept(r) PROVE DoomedInv'
  BY <1>8 DEF Accept, Passes, Finish
<1>9. ASSUME NEW r \in Requests, Refuse(r) PROVE DoomedInv'
  BY <1>9 DEF Refuse, Finish
<1>10. ASSUME NEW r \in Requests, Rotate(r) PROVE DoomedInv'
  BY <1>10 DEF Rotate, GoTo
<1>11. ASSUME NEW r \in Requests, Sign(r) PROVE DoomedInv'
  BY <1>11 DEF Sign
<1>12. ASSUME NEW r \in Requests, Store(r) PROVE DoomedInv'
  BY <1>12 DEF Store, Finish
<1>13. ASSUME NEW r \in Requests, Drop(r) PROVE DoomedInv'
  BY <1>13 DEF Drop, Finish
<1>14. ASSUME NEW r \in Requests, Revoke(r) PROVE DoomedInv'
  BY <1>14 DEF Revoke, GoTo
<1>15. ASSUME NEW r \in Requests, Refill(r) PROVE DoomedInv'
  BY <1>15 DEF Refill, CacheUser, GoTo
<1>16. ASSUME NEW r \in Requests, Sweep(r) PROVE DoomedInv'
  BY <1>16 DEF Sweep, Finish
<1>17. ASSUME NEW r \in Requests, Fail(r) PROVE DoomedInv'
  BY <1>17 DEF Fail, Finish
<1>18. ASSUME NEW g \in Grants, RefreshOverdue(g) PROVE DoomedInv'
  BY <1>18 DEF RefreshOverdue
<1>19. CASE Expire
  BY <1>19 DEF Expire
<1>20. CASE Tick
  BY <1>20 DEF Tick
<1>21. CASE UNCHANGED vars
  BY <1>21
<1> QED BY <1>1, <1>2, <1>3, <1>4, <1>5, <1>6, <1>7, <1>8, <1>9, <1>10, <1>11,
      <1>12, <1>13, <1>14, <1>15, <1>16, <1>17, <1>18, <1>19, <1>20, <1>21
  DEF Next, GoOn

-----------------------------------------------------------------------------
(* The invariant and the theorems.                                         *)

\* After the registration.
LEMMA IInvInit == Init => IInv
<1> SUFFICES ASSUME Init PROVE IInv
  OBVIOUS
<1> USE SessionsAssumption DEF Init
<1>1. TypeOK
  BY DEF TypeOK, Seconds, Stamps, Never, Absent, Unsigned, Routes, Steps
<1>2. StepInv
  BY DEF StepInv
<1>3. HandedInv
  <2>1. HandedOut = {First}
    BY DEF HandedOut
  <2>2. 0 \in Seconds
    BY DEF Seconds
  <2> QED BY <2>1, <2>2 DEF HandedInv, Presents
<1>4. TimeInv
  BY DEF TimeInv, Never
<1>5. ChainsDoNotFork
  BY DEF ChainsDoNotFork, Rotating, BetweenTokens
<1>6. EndedInv
  BY DEF EndedInv, EndedStayEnded, Rotating
<1>7. RevokedInv /\ DoomedInv
  BY DEF RevokedInv, DoomedInv
<1> QED BY <1>1, <1>2, <1>3, <1>4, <1>5, <1>6, <1>7 DEF IInv

\* Part by part.
LEMMA IInvStep == IInv /\ [Next]_vars => IInv'
<1> SUFFICES ASSUME IInv, [Next]_vars PROVE IInv'
  OBVIOUS
<1>1. /\ TypeOK
      /\ StepInv
      /\ HandedInv
      /\ TimeInv
      /\ ChainsDoNotFork
      /\ EndedInv
      /\ RevokedInv
      /\ DoomedInv
  BY DEF IInv
<1>2. TypeOK'
  BY <1>1, TypeStep
<1>3. StepInv'
  BY <1>1, StepStep
<1>4. HandedInv'
  BY <1>1, HandedStep
<1>5. TimeInv'
  BY <1>1, TimeStep
<1>6. ChainsDoNotFork'
  BY <1>1, ForkStep
<1>7. EndedInv'
  BY <1>1, EndedStep
<1>8. RevokedInv'
  BY <1>1, RevokedStep
<1>9. DoomedInv'
  BY <1>1, DoomedStep
<1> QED BY <1>2, <1>3, <1>4, <1>5, <1>6, <1>7, <1>8, <1>9 DEF IInv

\* What the invariant says of requests under way holds for any number of requests,
\* grants and seconds (authenticate, refreshAccessToken, logoutUser, logoutAllDevices).
THEOREM InvCorrect == Spec => []IInv
<1> QED BY IInvInit, IInvStep, PTL DEF Spec

\* The variables keep their types, for any grants, requests and seconds (the records
\* of modules/auth).
THEOREM TypeCorrect == Spec => []TypeOK
<1>1. IInv => TypeOK
  BY DEF IInv
<1> QED BY <1>1, InvCorrect, PTL

\* However many rotations of one refresh token run at once, the login has one refresh
\* token at most (refreshAccessToken, deleteRefreshToken by its unique key).
THEOREM ChainsCorrect == Spec => []ChainsDoNotFork
<1>1. IInv => ChainsDoNotFork
  BY DEF IInv
<1> QED BY <1>1, InvCorrect, PTL

\* A rotation that found its token before a logout or logoutAllDevices took it away
\* does not bring the login back (refreshAccessToken).
THEOREM EndedCorrect == Spec => []EndedStayEnded
<1>1. IInv => EndedStayEnded
  BY DEF IInv, EndedInv
<1> QED BY <1>1, InvCorrect, PTL

\* A revoked access token is accepted only with a user cached before the first
\* logoutAllDevices (authenticate, findUserById).
THEOREM RevokedCorrect == Spec => RevokedNeedsOldUser
<1>1. ASSUME IInv
      PROVE  [\A r \in doomed : Accept(r) => pc[r] = "checkCached" /\ stamp[r] = Never]_vars
  <2> SUFFICES ASSUME NEW r \in doomed, Accept(r)
               PROVE  pc[r] = "checkCached" /\ stamp[r] = Never
    OBVIOUS
  <2>1. /\ r \in Requests
        /\ token[r] \in HandedOut
        /\ iat[token[r]] \in Seconds
        /\ pc[r] = "check" => iat[token[r]] < stamp[r]
    BY <1>1 DEF IInv, TypeOK, HandedInv, RevokedInv, DoomedInv
  <2>2. Passes(r)
    BY DEF Accept
  <2>3. pc[r] # "check"
    BY <1>1, <2>1, <2>2, SessionsAssumption
    DEF IInv, TypeOK, Passes, Issued, Stamps, Seconds, Never
  <2> QED BY <2>2, <2>3 DEF Passes
<1> QED BY <1>1, InvCorrect, PTL DEF RevokedNeedsOldUser
=============================================================================
