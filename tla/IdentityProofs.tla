--------------------------- MODULE IdentityProofs ----------------------------
(***************************************************************************)
(* Proofs about Identity, for any tokens, requests and number of faults.   *)
(* The inductive invariant says, beside the types, what each step of a     *)
(* handler holds, that a token drawn for a successor is not used yet, that *)
(* a session locked for its rotation stays live until it is rotated, and   *)
(* what an account that is not registered, or inactive, rules out.         *)
(***************************************************************************)
EXTENDS Identity, TLAPS

\* What a handler holds at its steps.
Locals ==
    \A h \in Requests :
        /\ at[h] \in {"supersede", "insertToken", "publish"} => subject[h] \in OneTime
        /\ at[h] = "insertSession" => subject[h] \in RecoveryTokens \cup {None}
        /\ at[h] = "applyReset" => subject[h] \in RecoveryTokens
        /\ at[h] \in {"lockSession", "rotate", "cacheRevocation"} => subject[h] \in Tokens
        /\ at[h] \in {"insertSession", "rotate", "recheckUser", "answer"} => fresh[h] \in Tokens
        /\ at[h] \in ApplySteps => rows[h] \subseteq Tokens

\* Clients hold tokens that have rows, and a refresh that arrived without a
\* token to draw presents one that cannot be rotated any more.
Stored ==
    /\ \A t \in delivered : row[t] # "none"
    /\ \A h \in Requests :
        /\ at[h] \in {"recheckUser", "answer"} => row[fresh[h]] # "none"
        /\ at[h] \in {"lockSession", "rotate"} => row[subject[h]] # "none"
        /\ at[h] = "lockSession" => fresh[h] \in Tokens \/ Replayed(subject[h])

\* A token that is to be inserted has no row, and nobody else drew it.
Drawn ==
    \A h \in Requests :
        at[h] \in {"insertSession", "lockSession", "rotate"} /\ fresh[h] \in Tokens =>
            /\ row[fresh[h]] = "none"
            /\ \A g \in Requests \ {h} : fresh[g] # fresh[h]

Foundation == TypeOK /\ Locals /\ Stored /\ Drawn

\* One request at a time rotates a session, which is live until it is done.
Rotating ==
    \A h \in Requests : at[h] = "rotate" =>
        /\ Live(subject[h])
        /\ \A g \in Requests \ {h} : subject[h] \notin SessionLocks(g)

\* A family is named after a token that has a row.
FamiliesAreStored ==
    \A t \in Tokens : row[t] # "none" => family[t] \in Tokens /\ row[family[t]] # "none"

\* What Redis holds or is about to be told is revoked.
CacheFollows ==
    /\ CachedIsRevoked
    /\ \A h \in Requests : at[h] = "cacheRevocation" => subject[h] \in revoked

\* Before the registration nothing can happen but a registration.
NothingBefore ==
    status = "none" =>
        mailed = {} /\ delivered = {} /\ \A h \in Requests : at[h] = "idle"

\* A late refresh may look at the session, never pass the second look at the
\* account.
LateIsRefused ==
    /\ late # {} => status \in Inactive
    /\ \A h \in late :
        at[h] \in {"lockSession", "rotate", "recheckUser", "applyReuse", "applyInactive"}

IInv ==
    /\ Foundation /\ Rotating /\ FamiliesAreStored /\ OneLivePerFamily
    /\ CacheFollows /\ NothingBefore /\ LateIsRefused

-----------------------------------------------------------------------------

\* Types and what the handlers hold are kept by every step.
LEMMA TypesStep ==
    ASSUME Foundation, [Next]_vars
    PROVE  (TypeOK /\ Locals)'
<1> USE DEF TypeOK, Locals, Stored, Drawn, Foundation, OneTime, Steps, ApplySteps,
            GrantSteps, Statuses, Inactive, Replayed, Live, Unused, accountVars,
            sessionVars, clientVars, requestVars
<1>1. CASE UNCHANGED vars
  BY <1>1 DEF vars
<1>2. ASSUME NEW h \in Requests, Supersede(h) PROVE (TypeOK /\ Locals)'
  BY <1>2 DEF Supersede, KindOf
<1>3. ASSUME NEW h \in Requests, InsertToken(h) PROVE (TypeOK /\ Locals)'
  BY <1>3 DEF InsertToken
<1>4. ASSUME NEW h \in Requests, Publish(h) PROVE (TypeOK /\ Locals)'
  BY <1>4 DEF Publish, End
<1>5. ASSUME NEW h \in Requests, InsertSession(h) PROVE (TypeOK /\ Locals)'
  BY <1>5 DEF InsertSession, Goto
<1>6. ASSUME NEW h \in Requests, Answer(h) PROVE (TypeOK /\ Locals)'
  BY <1>6 DEF Answer, End
<1>7. ASSUME NEW h \in Requests, LockSession(h) PROVE (TypeOK /\ Locals)'
  BY <1>7 DEF LockSession, End, Goto, FamilyRows
<1>8. ASSUME NEW h \in Requests, Rotate(h) PROVE (TypeOK /\ Locals)'
  BY <1>8 DEF Rotate, Goto
<1>9. ASSUME NEW h \in Requests, RecheckUser(h) PROVE (TypeOK /\ Locals)'
  BY <1>9 DEF RecheckUser, Goto, UnrevokedRows
<1>10. ASSUME NEW h \in Requests, ApplyRevocation(h) PROVE (TypeOK /\ Locals)'
  BY <1>10 DEF ApplyRevocation, End
<1>11. ASSUME NEW h \in Requests, CacheRevocation(h) PROVE (TypeOK /\ Locals)'
  BY <1>11 DEF CacheRevocation, End
<1>12. ASSUME NEW h \in Requests, ApplyReset(h) PROVE (TypeOK /\ Locals)'
  BY <1>12 DEF ApplyReset, End
<1>13. ASSUME NEW h \in Requests, ApplyDeletion(h) PROVE (TypeOK /\ Locals)'
  BY <1>13 DEF ApplyDeletion, End
<1>14. ASSUME NEW h \in Requests, DeadlockVictim(h) PROVE (TypeOK /\ Locals)'
  BY <1>14 DEF DeadlockVictim, End
<1>15. ASSUME NEW h \in Requests, Register(h) PROVE (TypeOK /\ Locals)'
  BY <1>15 DEF Register, BeginToken
<1>16. ASSUME NEW h \in Requests, ResendVerification(h) PROVE (TypeOK /\ Locals)'
  BY <1>16 DEF ResendVerification, BeginToken
<1>17. ASSUME NEW h \in Requests, ForgotPassword(h) PROVE (TypeOK /\ Locals)'
  BY <1>17 DEF ForgotPassword, BeginToken
<1>18. ASSUME NEW h \in Requests, Login(h) PROVE (TypeOK /\ Locals)'
  BY <1>18 DEF Login, NewToken
<1>19. ASSUME NEW h \in Requests, LogoutAll(h) PROVE (TypeOK /\ Locals)'
  BY <1>19 DEF LogoutAll, UnrevokedRows
<1>20. ASSUME NEW h \in Requests, RequestDeletion(h) PROVE (TypeOK /\ Locals)'
  BY <1>20 DEF RequestDeletion, UnrevokedRows
<1>21. ASSUME NEW h \in Requests, NEW t \in Tokens, Refresh(h, t) PROVE (TypeOK /\ Locals)'
  BY <1>21 DEF Refresh, NewToken
<1>22. ASSUME NEW h \in Requests, NEW t \in Tokens, Logout(h, t) PROVE (TypeOK /\ Locals)'
  BY <1>22 DEF Logout
<1>23. ASSUME NEW h \in Requests, NEW r \in RecoveryTokens, ResetPassword(h, r) PROVE (TypeOK /\ Locals)'
  BY <1>23 DEF ResetPassword, UnrevokedRows
<1>24. ASSUME NEW h \in Requests, Abort(h) PROVE (TypeOK /\ Locals)'
  BY <1>24, FaultsAreBounded DEF Abort, End
<1>25. ASSUME Suspend PROVE (TypeOK /\ Locals)'
  BY <1>25 DEF Suspend
<1>26. ASSUME NEW v \in VerificationTokens, VerifyEmail(v) PROVE (TypeOK /\ Locals)'
  BY <1>26 DEF VerifyEmail
<1> QED
  BY <1>1, <1>2, <1>3, <1>4, <1>5, <1>6, <1>7, <1>8, <1>9, <1>10, <1>11, <1>12, <1>13,
     <1>14, <1>15, <1>16, <1>17, <1>18, <1>19, <1>20, <1>21, <1>22, <1>23, <1>24, <1>25,
     <1>26 DEF Next, HandlerStep, Arrival, Environment

\* Clients keep holding tokens that have rows.
LEMMA StoredStep ==
    ASSUME Foundation, [Next]_vars
    PROVE  Stored'
<1> USE DEF TypeOK, Locals, Stored, Drawn, Foundation, OneTime, Steps, ApplySteps,
            GrantSteps, Statuses, Inactive, Replayed, Live, Unused, accountVars,
            sessionVars, clientVars, requestVars
<1>1. CASE UNCHANGED vars
  BY <1>1 DEF vars
<1>2. ASSUME NEW h \in Requests, Supersede(h) PROVE Stored'
  BY <1>2 DEF Supersede, KindOf
<1>3. ASSUME NEW h \in Requests, InsertToken(h) PROVE Stored'
  BY <1>3 DEF InsertToken
<1>4. ASSUME NEW h \in Requests, Publish(h) PROVE Stored'
  BY <1>4 DEF Publish, End
<1>5. ASSUME NEW h \in Requests, InsertSession(h) PROVE Stored'
  BY <1>5 DEF InsertSession, Goto
<1>6. ASSUME NEW h \in Requests, Answer(h) PROVE Stored'
  BY <1>6 DEF Answer, End
<1>7. ASSUME NEW h \in Requests, LockSession(h) PROVE Stored'
  BY <1>7 DEF LockSession, End, Goto, FamilyRows
<1>8. ASSUME NEW h \in Requests, Rotate(h) PROVE Stored'
  BY <1>8 DEF Rotate, Goto
<1>9. ASSUME NEW h \in Requests, RecheckUser(h) PROVE Stored'
  BY <1>9 DEF RecheckUser, Goto, UnrevokedRows
<1>10. ASSUME NEW h \in Requests, ApplyRevocation(h) PROVE Stored'
  BY <1>10 DEF ApplyRevocation, End
<1>11. ASSUME NEW h \in Requests, CacheRevocation(h) PROVE Stored'
  BY <1>11 DEF CacheRevocation, End
<1>12. ASSUME NEW h \in Requests, ApplyReset(h) PROVE Stored'
  BY <1>12 DEF ApplyReset, End
<1>13. ASSUME NEW h \in Requests, ApplyDeletion(h) PROVE Stored'
  BY <1>13 DEF ApplyDeletion, End
<1>14. ASSUME NEW h \in Requests, DeadlockVictim(h) PROVE Stored'
  BY <1>14 DEF DeadlockVictim, End
<1>15. ASSUME NEW h \in Requests, Register(h) PROVE Stored'
  BY <1>15 DEF Register, BeginToken
<1>16. ASSUME NEW h \in Requests, ResendVerification(h) PROVE Stored'
  BY <1>16 DEF ResendVerification, BeginToken
<1>17. ASSUME NEW h \in Requests, ForgotPassword(h) PROVE Stored'
  BY <1>17 DEF ForgotPassword, BeginToken
<1>18. ASSUME NEW h \in Requests, Login(h) PROVE Stored'
  BY <1>18 DEF Login, NewToken
<1>19. ASSUME NEW h \in Requests, LogoutAll(h) PROVE Stored'
  BY <1>19 DEF LogoutAll, UnrevokedRows
<1>20. ASSUME NEW h \in Requests, RequestDeletion(h) PROVE Stored'
  BY <1>20 DEF RequestDeletion, UnrevokedRows
<1>21. ASSUME NEW h \in Requests, NEW t \in Tokens, Refresh(h, t) PROVE Stored'
  BY <1>21 DEF Refresh, NewToken
<1>22. ASSUME NEW h \in Requests, NEW t \in Tokens, Logout(h, t) PROVE Stored'
  BY <1>22 DEF Logout
<1>23. ASSUME NEW h \in Requests, NEW r \in RecoveryTokens, ResetPassword(h, r) PROVE Stored'
  BY <1>23 DEF ResetPassword, UnrevokedRows
<1>24. ASSUME NEW h \in Requests, Abort(h) PROVE Stored'
  BY <1>24 DEF Abort, End
<1>25. ASSUME Suspend PROVE Stored'
  BY <1>25 DEF Suspend
<1>26. ASSUME NEW v \in VerificationTokens, VerifyEmail(v) PROVE Stored'
  BY <1>26 DEF VerifyEmail
<1> QED
  BY <1>1, <1>2, <1>3, <1>4, <1>5, <1>6, <1>7, <1>8, <1>9, <1>10, <1>11, <1>12, <1>13,
     <1>14, <1>15, <1>16, <1>17, <1>18, <1>19, <1>20, <1>21, <1>22, <1>23, <1>24, <1>25,
     <1>26 DEF Next, HandlerStep, Arrival, Environment

\* Drawn tokens stay unused until they are inserted.
LEMMA DrawnStep ==
    ASSUME Foundation, [Next]_vars
    PROVE  Drawn'
<1> USE DEF TypeOK, Locals, Stored, Drawn, Foundation, OneTime, Steps, ApplySteps,
            GrantSteps, Statuses, Inactive, Replayed, Live, Unused, accountVars,
            sessionVars, clientVars, requestVars
<1>1. CASE UNCHANGED vars
  BY <1>1 DEF vars
<1>2. ASSUME NEW h \in Requests, Supersede(h) PROVE Drawn'
  BY <1>2 DEF Supersede, KindOf
<1>3. ASSUME NEW h \in Requests, InsertToken(h) PROVE Drawn'
  BY <1>3 DEF InsertToken
<1>4. ASSUME NEW h \in Requests, Publish(h) PROVE Drawn'
  BY <1>4, NoneIsNoToken DEF Publish, End
<1>5. ASSUME NEW h \in Requests, InsertSession(h) PROVE Drawn'
  BY <1>5 DEF InsertSession, Goto
<1>6. ASSUME NEW h \in Requests, Answer(h) PROVE Drawn'
  BY <1>6, NoneIsNoToken DEF Answer, End
<1>7. ASSUME NEW h \in Requests, LockSession(h) PROVE Drawn'
  BY <1>7, NoneIsNoToken DEF LockSession, End, Goto, FamilyRows
<1>8. ASSUME NEW h \in Requests, Rotate(h) PROVE Drawn'
  BY <1>8 DEF Rotate, Goto
<1>9. ASSUME NEW h \in Requests, RecheckUser(h) PROVE Drawn'
  BY <1>9 DEF RecheckUser, Goto, UnrevokedRows
<1>10. ASSUME NEW h \in Requests, ApplyRevocation(h) PROVE Drawn'
  BY <1>10, NoneIsNoToken DEF ApplyRevocation, End
<1>11. ASSUME NEW h \in Requests, CacheRevocation(h) PROVE Drawn'
  BY <1>11, NoneIsNoToken DEF CacheRevocation, End
<1>12. ASSUME NEW h \in Requests, ApplyReset(h) PROVE Drawn'
  BY <1>12, NoneIsNoToken DEF ApplyReset, End
<1>13. ASSUME NEW h \in Requests, ApplyDeletion(h) PROVE Drawn'
  BY <1>13, NoneIsNoToken DEF ApplyDeletion, End
<1>14. ASSUME NEW h \in Requests, DeadlockVictim(h) PROVE Drawn'
  BY <1>14, NoneIsNoToken DEF DeadlockVictim, End
<1>15. ASSUME NEW h \in Requests, Register(h) PROVE Drawn'
  BY <1>15 DEF Register, BeginToken
<1>16. ASSUME NEW h \in Requests, ResendVerification(h) PROVE Drawn'
  BY <1>16 DEF ResendVerification, BeginToken
<1>17. ASSUME NEW h \in Requests, ForgotPassword(h) PROVE Drawn'
  BY <1>17 DEF ForgotPassword, BeginToken
<1>18. ASSUME NEW h \in Requests, Login(h) PROVE Drawn'
  BY <1>18 DEF Login, NewToken
<1>19. ASSUME NEW h \in Requests, LogoutAll(h) PROVE Drawn'
  BY <1>19 DEF LogoutAll, UnrevokedRows
<1>20. ASSUME NEW h \in Requests, RequestDeletion(h) PROVE Drawn'
  BY <1>20 DEF RequestDeletion, UnrevokedRows
<1>21. ASSUME NEW h \in Requests, NEW t \in Tokens, Refresh(h, t) PROVE Drawn'
  <2>1. Unused # {} => NewToken \in Unused
    BY DEF NewToken
  <2>2. fresh' = [fresh EXCEPT ![h] = IF Live(t) THEN NewToken ELSE None]
    BY <1>21 DEF Refresh
  <2>3. fresh'[h] \in Tokens => fresh'[h] \in Unused
    BY <1>21, <2>1, <2>2, NoneIsNoToken DEF Refresh
  <2>4. /\ row' = row /\ at' = [at EXCEPT ![h] = "lockSession"]
        /\ \A g \in Requests \ {h} : fresh'[g] = fresh[g]
    BY <1>21, <2>2 DEF Refresh, sessionVars
  <2> QED
    BY <2>3, <2>4
<1>22. ASSUME NEW h \in Requests, NEW t \in Tokens, Logout(h, t) PROVE Drawn'
  BY <1>22 DEF Logout
<1>23. ASSUME NEW h \in Requests, NEW r \in RecoveryTokens, ResetPassword(h, r) PROVE Drawn'
  BY <1>23 DEF ResetPassword, UnrevokedRows
<1>24. ASSUME NEW h \in Requests, Abort(h) PROVE Drawn'
  BY <1>24, NoneIsNoToken DEF Abort, End
<1>25. ASSUME Suspend PROVE Drawn'
  BY <1>25 DEF Suspend
<1>26. ASSUME NEW v \in VerificationTokens, VerifyEmail(v) PROVE Drawn'
  BY <1>26 DEF VerifyEmail
<1> QED
  BY <1>1, <1>2, <1>3, <1>4, <1>5, <1>6, <1>7, <1>8, <1>9, <1>10, <1>11, <1>12, <1>13,
     <1>14, <1>15, <1>16, <1>17, <1>18, <1>19, <1>20, <1>21, <1>22, <1>23, <1>24, <1>25,
     <1>26 DEF Next, HandlerStep, Arrival, Environment

\* A session that is being rotated stays live: no revocation passes its lock.
LEMMA RotatingStep ==
    ASSUME Foundation, Rotating, [Next]_vars
    PROVE  Rotating'
<1> USE DEF TypeOK, Locals, Stored, Drawn, Foundation, OneTime, Steps, ApplySteps,
            GrantSteps, Statuses, Inactive, Replayed, Live, Unused, accountVars,
            sessionVars, clientVars, requestVars, Rotating, SessionLocks, CanUpdate
<1>1. CASE UNCHANGED vars
  BY <1>1 DEF vars
<1>2. ASSUME NEW h \in Requests, Supersede(h) PROVE Rotating'
  BY <1>2 DEF Supersede, KindOf
<1>3. ASSUME NEW h \in Requests, InsertToken(h) PROVE Rotating'
  BY <1>3 DEF InsertToken
<1>4. ASSUME NEW h \in Requests, Publish(h) PROVE Rotating'
  BY <1>4 DEF Publish, End
<1>5. ASSUME NEW h \in Requests, InsertSession(h) PROVE Rotating'
  BY <1>5 DEF InsertSession, Goto
<1>6. ASSUME NEW h \in Requests, Answer(h) PROVE Rotating'
  BY <1>6 DEF Answer, End
<1>7. ASSUME NEW h \in Requests, LockSession(h) PROVE Rotating'
  BY <1>7 DEF LockSession, End, Goto, FamilyRows
<1>8. ASSUME NEW h \in Requests, Rotate(h) PROVE Rotating'
  BY <1>8 DEF Rotate, Goto
<1>9. ASSUME NEW h \in Requests, RecheckUser(h) PROVE Rotating'
  BY <1>9 DEF RecheckUser, Goto, UnrevokedRows
<1>10. ASSUME NEW h \in Requests, ApplyRevocation(h) PROVE Rotating'
  BY <1>10 DEF ApplyRevocation, End
<1>11. ASSUME NEW h \in Requests, CacheRevocation(h) PROVE Rotating'
  BY <1>11 DEF CacheRevocation, End
<1>12. ASSUME NEW h \in Requests, ApplyReset(h) PROVE Rotating'
  BY <1>12 DEF ApplyReset, End
<1>13. ASSUME NEW h \in Requests, ApplyDeletion(h) PROVE Rotating'
  BY <1>13 DEF ApplyDeletion, End
<1>14. ASSUME NEW h \in Requests, DeadlockVictim(h) PROVE Rotating'
  BY <1>14 DEF DeadlockVictim, End
<1>15. ASSUME NEW h \in Requests, Register(h) PROVE Rotating'
  BY <1>15 DEF Register, BeginToken
<1>16. ASSUME NEW h \in Requests, ResendVerification(h) PROVE Rotating'
  BY <1>16 DEF ResendVerification, BeginToken
<1>17. ASSUME NEW h \in Requests, ForgotPassword(h) PROVE Rotating'
  BY <1>17 DEF ForgotPassword, BeginToken
<1>18. ASSUME NEW h \in Requests, Login(h) PROVE Rotating'
  BY <1>18 DEF Login, NewToken
<1>19. ASSUME NEW h \in Requests, LogoutAll(h) PROVE Rotating'
  BY <1>19 DEF LogoutAll, UnrevokedRows
<1>20. ASSUME NEW h \in Requests, RequestDeletion(h) PROVE Rotating'
  BY <1>20 DEF RequestDeletion, UnrevokedRows
<1>21. ASSUME NEW h \in Requests, NEW t \in Tokens, Refresh(h, t) PROVE Rotating'
  BY <1>21 DEF Refresh, NewToken
<1>22. ASSUME NEW h \in Requests, NEW t \in Tokens, Logout(h, t) PROVE Rotating'
  BY <1>22 DEF Logout
<1>23. ASSUME NEW h \in Requests, NEW r \in RecoveryTokens, ResetPassword(h, r) PROVE Rotating'
  BY <1>23 DEF ResetPassword, UnrevokedRows
<1>24. ASSUME NEW h \in Requests, Abort(h) PROVE Rotating'
  BY <1>24 DEF Abort, End
<1>25. ASSUME Suspend PROVE Rotating'
  BY <1>25 DEF Suspend
<1>26. ASSUME NEW v \in VerificationTokens, VerifyEmail(v) PROVE Rotating'
  BY <1>26 DEF VerifyEmail
<1> QED
  BY <1>1, <1>2, <1>3, <1>4, <1>5, <1>6, <1>7, <1>8, <1>9, <1>10, <1>11, <1>12, <1>13,
     <1>14, <1>15, <1>16, <1>17, <1>18, <1>19, <1>20, <1>21, <1>22, <1>23, <1>24, <1>25,
     <1>26 DEF Next, HandlerStep, Arrival, Environment

\* Families keep their names.
LEMMA FamiliesStep ==
    ASSUME Foundation, FamiliesAreStored, Rotating, [Next]_vars
    PROVE  FamiliesAreStored'
<1> USE DEF TypeOK, Locals, Stored, Drawn, Foundation, OneTime, Steps, ApplySteps,
            GrantSteps, Statuses, Inactive, Replayed, Live, Unused, accountVars,
            sessionVars, clientVars, requestVars, FamiliesAreStored, Rotating
<1>1. CASE UNCHANGED vars
  BY <1>1 DEF vars
<1>2. ASSUME NEW h \in Requests, Supersede(h) PROVE FamiliesAreStored'
  BY <1>2 DEF Supersede, KindOf
<1>3. ASSUME NEW h \in Requests, InsertToken(h) PROVE FamiliesAreStored'
  BY <1>3 DEF InsertToken
<1>4. ASSUME NEW h \in Requests, Publish(h) PROVE FamiliesAreStored'
  BY <1>4 DEF Publish, End
<1>5. ASSUME NEW h \in Requests, InsertSession(h) PROVE FamiliesAreStored'
  BY <1>5 DEF InsertSession, Goto
<1>6. ASSUME NEW h \in Requests, Answer(h) PROVE FamiliesAreStored'
  BY <1>6 DEF Answer, End
<1>7. ASSUME NEW h \in Requests, LockSession(h) PROVE FamiliesAreStored'
  BY <1>7 DEF LockSession, End, Goto, FamilyRows
<1>8. ASSUME NEW h \in Requests, Rotate(h) PROVE FamiliesAreStored'
  BY <1>8 DEF Rotate, Goto
<1>9. ASSUME NEW h \in Requests, RecheckUser(h) PROVE FamiliesAreStored'
  BY <1>9 DEF RecheckUser, Goto, UnrevokedRows
<1>10. ASSUME NEW h \in Requests, ApplyRevocation(h) PROVE FamiliesAreStored'
  BY <1>10 DEF ApplyRevocation, End
<1>11. ASSUME NEW h \in Requests, CacheRevocation(h) PROVE FamiliesAreStored'
  BY <1>11 DEF CacheRevocation, End
<1>12. ASSUME NEW h \in Requests, ApplyReset(h) PROVE FamiliesAreStored'
  BY <1>12 DEF ApplyReset, End
<1>13. ASSUME NEW h \in Requests, ApplyDeletion(h) PROVE FamiliesAreStored'
  BY <1>13 DEF ApplyDeletion, End
<1>14. ASSUME NEW h \in Requests, DeadlockVictim(h) PROVE FamiliesAreStored'
  BY <1>14 DEF DeadlockVictim, End
<1>15. ASSUME NEW h \in Requests, Register(h) PROVE FamiliesAreStored'
  BY <1>15 DEF Register, BeginToken
<1>16. ASSUME NEW h \in Requests, ResendVerification(h) PROVE FamiliesAreStored'
  BY <1>16 DEF ResendVerification, BeginToken
<1>17. ASSUME NEW h \in Requests, ForgotPassword(h) PROVE FamiliesAreStored'
  BY <1>17 DEF ForgotPassword, BeginToken
<1>18. ASSUME NEW h \in Requests, Login(h) PROVE FamiliesAreStored'
  BY <1>18 DEF Login, NewToken
<1>19. ASSUME NEW h \in Requests, LogoutAll(h) PROVE FamiliesAreStored'
  BY <1>19 DEF LogoutAll, UnrevokedRows
<1>20. ASSUME NEW h \in Requests, RequestDeletion(h) PROVE FamiliesAreStored'
  BY <1>20 DEF RequestDeletion, UnrevokedRows
<1>21. ASSUME NEW h \in Requests, NEW t \in Tokens, Refresh(h, t) PROVE FamiliesAreStored'
  BY <1>21 DEF Refresh, NewToken
<1>22. ASSUME NEW h \in Requests, NEW t \in Tokens, Logout(h, t) PROVE FamiliesAreStored'
  BY <1>22 DEF Logout
<1>23. ASSUME NEW h \in Requests, NEW r \in RecoveryTokens, ResetPassword(h, r) PROVE FamiliesAreStored'
  BY <1>23 DEF ResetPassword, UnrevokedRows
<1>24. ASSUME NEW h \in Requests, Abort(h) PROVE FamiliesAreStored'
  BY <1>24 DEF Abort, End
<1>25. ASSUME Suspend PROVE FamiliesAreStored'
  BY <1>25 DEF Suspend
<1>26. ASSUME NEW v \in VerificationTokens, VerifyEmail(v) PROVE FamiliesAreStored'
  BY <1>26 DEF VerifyEmail
<1> QED
  BY <1>1, <1>2, <1>3, <1>4, <1>5, <1>6, <1>7, <1>8, <1>9, <1>10, <1>11, <1>12, <1>13,
     <1>14, <1>15, <1>16, <1>17, <1>18, <1>19, <1>20, <1>21, <1>22, <1>23, <1>24, <1>25,
     <1>26 DEF Next, HandlerStep, Arrival, Environment

\* A rotation replaces the one live session of its family.
LEMMA OneLiveStep ==
    ASSUME Foundation, FamiliesAreStored, Rotating, OneLivePerFamily, [Next]_vars
    PROVE  OneLivePerFamily'
<1> USE DEF TypeOK, Locals, Stored, Drawn, Foundation, OneTime, Steps, ApplySteps,
            GrantSteps, Statuses, Inactive, Replayed, Live, Unused, accountVars,
            sessionVars, clientVars, requestVars, FamiliesAreStored, Rotating,
            OneLivePerFamily
<1>1. CASE UNCHANGED vars
  BY <1>1 DEF vars
<1>2. ASSUME NEW h \in Requests, Supersede(h) PROVE OneLivePerFamily'
  BY <1>2 DEF Supersede, KindOf
<1>3. ASSUME NEW h \in Requests, InsertToken(h) PROVE OneLivePerFamily'
  BY <1>3 DEF InsertToken
<1>4. ASSUME NEW h \in Requests, Publish(h) PROVE OneLivePerFamily'
  BY <1>4 DEF Publish, End
<1>5. ASSUME NEW h \in Requests, InsertSession(h) PROVE OneLivePerFamily'
  BY <1>5 DEF InsertSession, Goto
<1>6. ASSUME NEW h \in Requests, Answer(h) PROVE OneLivePerFamily'
  BY <1>6 DEF Answer, End
<1>7. ASSUME NEW h \in Requests, LockSession(h) PROVE OneLivePerFamily'
  BY <1>7 DEF LockSession, End, Goto, FamilyRows
<1>8. ASSUME NEW h \in Requests, Rotate(h) PROVE OneLivePerFamily'
  BY <1>8 DEF Rotate, Goto
<1>9. ASSUME NEW h \in Requests, RecheckUser(h) PROVE OneLivePerFamily'
  BY <1>9 DEF RecheckUser, Goto, UnrevokedRows
<1>10. ASSUME NEW h \in Requests, ApplyRevocation(h) PROVE OneLivePerFamily'
  BY <1>10 DEF ApplyRevocation, End
<1>11. ASSUME NEW h \in Requests, CacheRevocation(h) PROVE OneLivePerFamily'
  BY <1>11 DEF CacheRevocation, End
<1>12. ASSUME NEW h \in Requests, ApplyReset(h) PROVE OneLivePerFamily'
  BY <1>12 DEF ApplyReset, End
<1>13. ASSUME NEW h \in Requests, ApplyDeletion(h) PROVE OneLivePerFamily'
  BY <1>13 DEF ApplyDeletion, End
<1>14. ASSUME NEW h \in Requests, DeadlockVictim(h) PROVE OneLivePerFamily'
  BY <1>14 DEF DeadlockVictim, End
<1>15. ASSUME NEW h \in Requests, Register(h) PROVE OneLivePerFamily'
  BY <1>15 DEF Register, BeginToken
<1>16. ASSUME NEW h \in Requests, ResendVerification(h) PROVE OneLivePerFamily'
  BY <1>16 DEF ResendVerification, BeginToken
<1>17. ASSUME NEW h \in Requests, ForgotPassword(h) PROVE OneLivePerFamily'
  BY <1>17 DEF ForgotPassword, BeginToken
<1>18. ASSUME NEW h \in Requests, Login(h) PROVE OneLivePerFamily'
  BY <1>18 DEF Login, NewToken
<1>19. ASSUME NEW h \in Requests, LogoutAll(h) PROVE OneLivePerFamily'
  BY <1>19 DEF LogoutAll, UnrevokedRows
<1>20. ASSUME NEW h \in Requests, RequestDeletion(h) PROVE OneLivePerFamily'
  BY <1>20 DEF RequestDeletion, UnrevokedRows
<1>21. ASSUME NEW h \in Requests, NEW t \in Tokens, Refresh(h, t) PROVE OneLivePerFamily'
  BY <1>21 DEF Refresh, NewToken
<1>22. ASSUME NEW h \in Requests, NEW t \in Tokens, Logout(h, t) PROVE OneLivePerFamily'
  BY <1>22 DEF Logout
<1>23. ASSUME NEW h \in Requests, NEW r \in RecoveryTokens, ResetPassword(h, r) PROVE OneLivePerFamily'
  BY <1>23 DEF ResetPassword, UnrevokedRows
<1>24. ASSUME NEW h \in Requests, Abort(h) PROVE OneLivePerFamily'
  BY <1>24 DEF Abort, End
<1>25. ASSUME Suspend PROVE OneLivePerFamily'
  BY <1>25 DEF Suspend
<1>26. ASSUME NEW v \in VerificationTokens, VerifyEmail(v) PROVE OneLivePerFamily'
  BY <1>26 DEF VerifyEmail
<1> QED
  BY <1>1, <1>2, <1>3, <1>4, <1>5, <1>6, <1>7, <1>8, <1>9, <1>10, <1>11, <1>12, <1>13,
     <1>14, <1>15, <1>16, <1>17, <1>18, <1>19, <1>20, <1>21, <1>22, <1>23, <1>24, <1>25,
     <1>26 DEF Next, HandlerStep, Arrival, Environment

\* A revocation is cached after it is committed, and none is undone.
LEMMA CacheStep ==
    ASSUME Foundation, CacheFollows, [Next]_vars
    PROVE  CacheFollows'
<1> USE DEF TypeOK, Locals, Stored, Drawn, Foundation, OneTime, Steps, ApplySteps,
            GrantSteps, Statuses, Inactive, Replayed, Live, Unused, accountVars,
            sessionVars, clientVars, requestVars, CacheFollows, CachedIsRevoked
<1>1. CASE UNCHANGED vars
  BY <1>1 DEF vars
<1>2. ASSUME NEW h \in Requests, Supersede(h) PROVE CacheFollows'
  BY <1>2 DEF Supersede, KindOf
<1>3. ASSUME NEW h \in Requests, InsertToken(h) PROVE CacheFollows'
  BY <1>3 DEF InsertToken
<1>4. ASSUME NEW h \in Requests, Publish(h) PROVE CacheFollows'
  BY <1>4 DEF Publish, End
<1>5. ASSUME NEW h \in Requests, InsertSession(h) PROVE CacheFollows'
  BY <1>5 DEF InsertSession, Goto
<1>6. ASSUME NEW h \in Requests, Answer(h) PROVE CacheFollows'
  BY <1>6 DEF Answer, End
<1>7. ASSUME NEW h \in Requests, LockSession(h) PROVE CacheFollows'
  BY <1>7 DEF LockSession, End, Goto, FamilyRows
<1>8. ASSUME NEW h \in Requests, Rotate(h) PROVE CacheFollows'
  BY <1>8 DEF Rotate, Goto
<1>9. ASSUME NEW h \in Requests, RecheckUser(h) PROVE CacheFollows'
  BY <1>9 DEF RecheckUser, Goto, UnrevokedRows
<1>10. ASSUME NEW h \in Requests, ApplyRevocation(h) PROVE CacheFollows'
  BY <1>10 DEF ApplyRevocation, End
<1>11. ASSUME NEW h \in Requests, CacheRevocation(h) PROVE CacheFollows'
  BY <1>11 DEF CacheRevocation, End
<1>12. ASSUME NEW h \in Requests, ApplyReset(h) PROVE CacheFollows'
  BY <1>12 DEF ApplyReset, End
<1>13. ASSUME NEW h \in Requests, ApplyDeletion(h) PROVE CacheFollows'
  BY <1>13 DEF ApplyDeletion, End
<1>14. ASSUME NEW h \in Requests, DeadlockVictim(h) PROVE CacheFollows'
  BY <1>14 DEF DeadlockVictim, End
<1>15. ASSUME NEW h \in Requests, Register(h) PROVE CacheFollows'
  BY <1>15 DEF Register, BeginToken
<1>16. ASSUME NEW h \in Requests, ResendVerification(h) PROVE CacheFollows'
  BY <1>16 DEF ResendVerification, BeginToken
<1>17. ASSUME NEW h \in Requests, ForgotPassword(h) PROVE CacheFollows'
  BY <1>17 DEF ForgotPassword, BeginToken
<1>18. ASSUME NEW h \in Requests, Login(h) PROVE CacheFollows'
  BY <1>18 DEF Login, NewToken
<1>19. ASSUME NEW h \in Requests, LogoutAll(h) PROVE CacheFollows'
  BY <1>19 DEF LogoutAll, UnrevokedRows
<1>20. ASSUME NEW h \in Requests, RequestDeletion(h) PROVE CacheFollows'
  BY <1>20 DEF RequestDeletion, UnrevokedRows
<1>21. ASSUME NEW h \in Requests, NEW t \in Tokens, Refresh(h, t) PROVE CacheFollows'
  BY <1>21 DEF Refresh, NewToken
<1>22. ASSUME NEW h \in Requests, NEW t \in Tokens, Logout(h, t) PROVE CacheFollows'
  BY <1>22 DEF Logout
<1>23. ASSUME NEW h \in Requests, NEW r \in RecoveryTokens, ResetPassword(h, r) PROVE CacheFollows'
  BY <1>23 DEF ResetPassword, UnrevokedRows
<1>24. ASSUME NEW h \in Requests, Abort(h) PROVE CacheFollows'
  BY <1>24 DEF Abort, End
<1>25. ASSUME Suspend PROVE CacheFollows'
  BY <1>25 DEF Suspend
<1>26. ASSUME NEW v \in VerificationTokens, VerifyEmail(v) PROVE CacheFollows'
  BY <1>26 DEF VerifyEmail
<1> QED
  BY <1>1, <1>2, <1>3, <1>4, <1>5, <1>6, <1>7, <1>8, <1>9, <1>10, <1>11, <1>12, <1>13,
     <1>14, <1>15, <1>16, <1>17, <1>18, <1>19, <1>20, <1>21, <1>22, <1>23, <1>24, <1>25,
     <1>26 DEF Next, HandlerStep, Arrival, Environment

\* The account comes first.
LEMMA NothingBeforeStep ==
    ASSUME Foundation, NothingBefore, [Next]_vars
    PROVE  NothingBefore'
<1> USE DEF TypeOK, Locals, Stored, Drawn, Foundation, OneTime, Steps, ApplySteps,
            GrantSteps, Statuses, Inactive, Replayed, Live, Unused, accountVars,
            sessionVars, clientVars, requestVars, NothingBefore
<1>1. CASE UNCHANGED vars
  BY <1>1 DEF vars
<1>2. ASSUME NEW h \in Requests, Supersede(h) PROVE NothingBefore'
  BY <1>2 DEF Supersede, KindOf
<1>3. ASSUME NEW h \in Requests, InsertToken(h) PROVE NothingBefore'
  BY <1>3 DEF InsertToken
<1>4. ASSUME NEW h \in Requests, Publish(h) PROVE NothingBefore'
  BY <1>4 DEF Publish, End
<1>5. ASSUME NEW h \in Requests, InsertSession(h) PROVE NothingBefore'
  BY <1>5 DEF InsertSession, Goto
<1>6. ASSUME NEW h \in Requests, Answer(h) PROVE NothingBefore'
  BY <1>6 DEF Answer, End
<1>7. ASSUME NEW h \in Requests, LockSession(h) PROVE NothingBefore'
  BY <1>7 DEF LockSession, End, Goto, FamilyRows
<1>8. ASSUME NEW h \in Requests, Rotate(h) PROVE NothingBefore'
  BY <1>8 DEF Rotate, Goto
<1>9. ASSUME NEW h \in Requests, RecheckUser(h) PROVE NothingBefore'
  BY <1>9 DEF RecheckUser, Goto, UnrevokedRows
<1>10. ASSUME NEW h \in Requests, ApplyRevocation(h) PROVE NothingBefore'
  BY <1>10 DEF ApplyRevocation, End
<1>11. ASSUME NEW h \in Requests, CacheRevocation(h) PROVE NothingBefore'
  BY <1>11 DEF CacheRevocation, End
<1>12. ASSUME NEW h \in Requests, ApplyReset(h) PROVE NothingBefore'
  BY <1>12 DEF ApplyReset, End
<1>13. ASSUME NEW h \in Requests, ApplyDeletion(h) PROVE NothingBefore'
  BY <1>13 DEF ApplyDeletion, End
<1>14. ASSUME NEW h \in Requests, DeadlockVictim(h) PROVE NothingBefore'
  BY <1>14 DEF DeadlockVictim, End
<1>15. ASSUME NEW h \in Requests, Register(h) PROVE NothingBefore'
  BY <1>15 DEF Register, BeginToken
<1>16. ASSUME NEW h \in Requests, ResendVerification(h) PROVE NothingBefore'
  BY <1>16 DEF ResendVerification, BeginToken
<1>17. ASSUME NEW h \in Requests, ForgotPassword(h) PROVE NothingBefore'
  BY <1>17 DEF ForgotPassword, BeginToken
<1>18. ASSUME NEW h \in Requests, Login(h) PROVE NothingBefore'
  BY <1>18 DEF Login, NewToken
<1>19. ASSUME NEW h \in Requests, LogoutAll(h) PROVE NothingBefore'
  BY <1>19 DEF LogoutAll, UnrevokedRows
<1>20. ASSUME NEW h \in Requests, RequestDeletion(h) PROVE NothingBefore'
  BY <1>20 DEF RequestDeletion, UnrevokedRows
<1>21. ASSUME NEW h \in Requests, NEW t \in Tokens, Refresh(h, t) PROVE NothingBefore'
  BY <1>21 DEF Refresh, NewToken
<1>22. ASSUME NEW h \in Requests, NEW t \in Tokens, Logout(h, t) PROVE NothingBefore'
  BY <1>22 DEF Logout
<1>23. ASSUME NEW h \in Requests, NEW r \in RecoveryTokens, ResetPassword(h, r) PROVE NothingBefore'
  BY <1>23 DEF ResetPassword, UnrevokedRows
<1>24. ASSUME NEW h \in Requests, Abort(h) PROVE NothingBefore'
  BY <1>24 DEF Abort, End
<1>25. ASSUME Suspend PROVE NothingBefore'
  BY <1>25 DEF Suspend
<1>26. ASSUME NEW v \in VerificationTokens, VerifyEmail(v) PROVE NothingBefore'
  BY <1>26 DEF VerifyEmail
<1> QED
  BY <1>1, <1>2, <1>3, <1>4, <1>5, <1>6, <1>7, <1>8, <1>9, <1>10, <1>11, <1>12, <1>13,
     <1>14, <1>15, <1>16, <1>17, <1>18, <1>19, <1>20, <1>21, <1>22, <1>23, <1>24, <1>25,
     <1>26 DEF Next, HandlerStep, Arrival, Environment

\* An inactive account stays inactive, and a late refresh is refused.
LEMMA LateStep ==
    ASSUME Foundation, NothingBefore, LateIsRefused, [Next]_vars
    PROVE  LateIsRefused'
<1> USE DEF TypeOK, Locals, Stored, Drawn, Foundation, OneTime, Steps, ApplySteps,
            GrantSteps, Statuses, Inactive, Replayed, Live, Unused, accountVars,
            sessionVars, clientVars, requestVars, NothingBefore, LateIsRefused
<1>1. CASE UNCHANGED vars
  BY <1>1 DEF vars
<1>2. ASSUME NEW h \in Requests, Supersede(h) PROVE LateIsRefused'
  BY <1>2 DEF Supersede, KindOf
<1>3. ASSUME NEW h \in Requests, InsertToken(h) PROVE LateIsRefused'
  BY <1>3 DEF InsertToken
<1>4. ASSUME NEW h \in Requests, Publish(h) PROVE LateIsRefused'
  BY <1>4 DEF Publish, End
<1>5. ASSUME NEW h \in Requests, InsertSession(h) PROVE LateIsRefused'
  BY <1>5 DEF InsertSession, Goto
<1>6. ASSUME NEW h \in Requests, Answer(h) PROVE LateIsRefused'
  BY <1>6 DEF Answer, End
<1>7. ASSUME NEW h \in Requests, LockSession(h) PROVE LateIsRefused'
  BY <1>7 DEF LockSession, End, Goto, FamilyRows
<1>8. ASSUME NEW h \in Requests, Rotate(h) PROVE LateIsRefused'
  BY <1>8 DEF Rotate, Goto
<1>9. ASSUME NEW h \in Requests, RecheckUser(h) PROVE LateIsRefused'
  BY <1>9 DEF RecheckUser, Goto, UnrevokedRows
<1>10. ASSUME NEW h \in Requests, ApplyRevocation(h) PROVE LateIsRefused'
  BY <1>10 DEF ApplyRevocation, End
<1>11. ASSUME NEW h \in Requests, CacheRevocation(h) PROVE LateIsRefused'
  BY <1>11 DEF CacheRevocation, End
<1>12. ASSUME NEW h \in Requests, ApplyReset(h) PROVE LateIsRefused'
  BY <1>12 DEF ApplyReset, End
<1>13. ASSUME NEW h \in Requests, ApplyDeletion(h) PROVE LateIsRefused'
  BY <1>13 DEF ApplyDeletion, End
<1>14. ASSUME NEW h \in Requests, DeadlockVictim(h) PROVE LateIsRefused'
  BY <1>14 DEF DeadlockVictim, End
<1>15. ASSUME NEW h \in Requests, Register(h) PROVE LateIsRefused'
  BY <1>15 DEF Register, BeginToken
<1>16. ASSUME NEW h \in Requests, ResendVerification(h) PROVE LateIsRefused'
  BY <1>16 DEF ResendVerification, BeginToken
<1>17. ASSUME NEW h \in Requests, ForgotPassword(h) PROVE LateIsRefused'
  BY <1>17 DEF ForgotPassword, BeginToken
<1>18. ASSUME NEW h \in Requests, Login(h) PROVE LateIsRefused'
  BY <1>18 DEF Login, NewToken
<1>19. ASSUME NEW h \in Requests, LogoutAll(h) PROVE LateIsRefused'
  BY <1>19 DEF LogoutAll, UnrevokedRows
<1>20. ASSUME NEW h \in Requests, RequestDeletion(h) PROVE LateIsRefused'
  BY <1>20 DEF RequestDeletion, UnrevokedRows
<1>21. ASSUME NEW h \in Requests, NEW t \in Tokens, Refresh(h, t) PROVE LateIsRefused'
  BY <1>21 DEF Refresh, NewToken
<1>22. ASSUME NEW h \in Requests, NEW t \in Tokens, Logout(h, t) PROVE LateIsRefused'
  BY <1>22 DEF Logout
<1>23. ASSUME NEW h \in Requests, NEW r \in RecoveryTokens, ResetPassword(h, r) PROVE LateIsRefused'
  BY <1>23 DEF ResetPassword, UnrevokedRows
<1>24. ASSUME NEW h \in Requests, Abort(h) PROVE LateIsRefused'
  BY <1>24 DEF Abort, End
<1>25. ASSUME Suspend PROVE LateIsRefused'
  BY <1>25 DEF Suspend
<1>26. ASSUME NEW v \in VerificationTokens, VerifyEmail(v) PROVE LateIsRefused'
  BY <1>26 DEF VerifyEmail
<1> QED
  BY <1>1, <1>2, <1>3, <1>4, <1>5, <1>6, <1>7, <1>8, <1>9, <1>10, <1>11, <1>12, <1>13,
     <1>14, <1>15, <1>16, <1>17, <1>18, <1>19, <1>20, <1>21, <1>22, <1>23, <1>24, <1>25,
     <1>26 DEF Next, HandlerStep, Arrival, Environment

-----------------------------------------------------------------------------

\* The initial state is empty.
LEMMA IInvInit == Init => IInv
BY FaultsAreBounded DEF Init, IInv, Foundation, TypeOK, Locals, Stored, Drawn, Rotating,
    FamiliesAreStored, OneLivePerFamily, CacheFollows, CachedIsRevoked, NothingBefore,
    LateIsRefused, Live, Replayed, Steps, ApplySteps, GrantSteps, Statuses, OneTime

\* Every step keeps the inductive invariant.
LEMMA IInvStep == IInv /\ [Next]_vars => IInv'
BY TypesStep, StoredStep, DrawnStep, RotatingStep, FamiliesStep, OneLiveStep, CacheStep,
   NothingBeforeStep, LateStep DEF IInv, Foundation

\* Every reachable state satisfies it.
THEOREM IdentityInvariant == Spec => []IInv
<1>1. Init => IInv
  BY IInvInit
<1>2. IInv /\ [Next]_vars => IInv'
  BY IInvStep
<1> QED
  BY <1>1, <1>2, PTL DEF Spec

\* Type correctness.
THEOREM IdentityTypes == Spec => []TypeOK
<1>1. IInv => TypeOK
  BY DEF IInv, Foundation
<1> QED
  BY <1>1, IdentityInvariant, PTL

\* No two usable sessions of one family, however many requests present its
\* tokens at once.
THEOREM OneLivePerFamilyHolds == Spec => []OneLivePerFamily
<1>1. IInv => OneLivePerFamily
  BY DEF IInv
<1> QED
  BY <1>1, IdentityInvariant, PTL

\* A refresh that arrives at an inactive account is never granted.
THEOREM InactiveIsRefusedHolds == Spec => []InactiveIsRefused
<1>1. IInv => InactiveIsRefused
  BY DEF IInv, LateIsRefused, InactiveIsRefused, GrantSteps
<1> QED
  BY <1>1, IdentityInvariant, PTL

\* Redis only repeats what PostgreSQL holds.
THEOREM CachedIsRevokedHolds == Spec => []CachedIsRevoked
<1>1. IInv => CachedIsRevoked
  BY DEF IInv, CacheFollows
<1> QED
  BY <1>1, IdentityInvariant, PTL

\* A row only becomes rotated by the request that holds its lock.
LEMMA RotationStep ==
    ASSUME IInv, [Next]_vars, NEW u \in Tokens, row[u] = "live", row'[u] = "rotated"
    PROVE  u \notin revoked
<1> USE DEF IInv, Foundation, TypeOK, Locals, accountVars, sessionVars, clientVars, requestVars
<1>1. ASSUME NEW h \in Requests, Rotate(h) PROVE u \notin revoked
  BY <1>1 DEF Rotate, Goto, Rotating, Live
<1>2. ASSUME NEW h \in Requests, InsertSession(h) PROVE u \notin revoked
  BY <1>2 DEF InsertSession
<1>3. CASE row' = row
  BY <1>3
<1>4. row' = row \/ \E h \in Requests : Rotate(h) \/ InsertSession(h)
  BY DEF Next, HandlerStep, Arrival, Environment, vars, Supersede, InsertToken, Publish, Answer,
     LockSession, RecheckUser, ApplyRevocation, CacheRevocation, ApplyReset, ApplyDeletion,
     DeadlockVictim, Register, ResendVerification, ForgotPassword, Login, LogoutAll,
     RequestDeletion, Refresh, Logout, ResetPassword, Abort, Suspend, VerifyEmail
<1> QED
  BY <1>1, <1>2, <1>3, <1>4

\* A revoked session is never rotated.
THEOREM RevokedIsNotRotated == Spec => RevokedHasNoSuccessor
<1>1. IInv /\ [Next]_vars =>
        [\A t \in Tokens : row[t] = "live" /\ row'[t] = "rotated" => t \notin revoked]_vars
  BY RotationStep
<1> QED
  BY <1>1, IdentityInvariant, PTL DEF Spec, RevokedHasNoSuccessor

\* The status changes in a registration, a verification, a deletion request,
\* which needs an account, and a suspension.
LEMMA StatusStep ==
    ASSUME IInv, [Next]_vars, status' # status
    PROVE  \/ status = "none" /\ status' = "pending_verification"
           \/ status = "pending_verification" /\ status' = "active"
           \/ status # "none" /\ status' \in Inactive
<1> USE DEF Inactive
<1>1. ASSUME NEW h \in Requests, Register(h)
      PROVE  status = "none" /\ status' = "pending_verification"
  BY <1>1 DEF Register
<1>2. ASSUME NEW v \in VerificationTokens, VerifyEmail(v)
      PROVE  status = "pending_verification" /\ status' = "active"
  BY <1>2 DEF VerifyEmail
<1>3. ASSUME NEW h \in Requests, ApplyDeletion(h)
      PROVE  status # "none" /\ status' \in Inactive
  BY <1>3 DEF ApplyDeletion, IInv, NothingBefore
<1>4. ASSUME Suspend PROVE status # "none" /\ status' \in Inactive
  BY <1>4 DEF Suspend
<1>5. \/ Suspend
      \/ \E h \in Requests : Register(h) \/ ApplyDeletion(h)
      \/ \E v \in VerificationTokens : VerifyEmail(v)
  BY DEF Next, HandlerStep, Arrival, Environment, vars, accountVars, Supersede, InsertToken,
     Publish, InsertSession, Answer, LockSession, Rotate, RecheckUser, ApplyRevocation,
     CacheRevocation, ApplyReset, DeadlockVictim, ResendVerification, ForgotPassword, Login,
     LogoutAll, RequestDeletion, Refresh, Logout, ResetPassword, Abort
<1> QED
  BY <1>1, <1>2, <1>3, <1>4, <1>5

\* An account never comes back from a suspension or a deletion request.
THEOREM StatusOnlyAdvances == Spec => StatusAdvances
<1>1. IInv /\ [Next]_vars =>
        [status' # status =>
           \/ status = "none" /\ status' = "pending_verification"
           \/ status = "pending_verification" /\ status' = "active"
           \/ status # "none" /\ status' \in Inactive]_vars
  BY StatusStep
<1> QED
  BY <1>1, IdentityInvariant, PTL DEF Spec, StatusAdvances

=============================================================================
