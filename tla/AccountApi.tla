----------------------------- MODULE AccountApi ------------------------------
(***************************************************************************)
(* Registration, verification, recovery and deletion of the account:       *)
(* AuthService.register, resendVerification, verifyEmail, forgotPassword,  *)
(* resetPassword and requestAccountDeletion with the queries they make.    *)
(***************************************************************************)
EXTENDS IdentityTables

\* A new token of the kind for the handler that begins. A consumed token is
\* never accepted again, so its name serves for another one unless a password
\* was set with it.
BeginToken(h, kind) ==
    \E o \in kind \ (open \cup {password}) :
        /\ \A g \in Requests : subject[g] # o
        /\ \A t \in Tokens : signedIn[t] # o
        /\ subject' = [subject EXCEPT ![h] = o]
        /\ at' = [at EXCEPT ![h] = "supersede"]
        /\ UNCHANGED <<fresh, rows, late>>

\* users.create. An address that is taken is answered alike and nothing more
\* is done, also when its first registration was cut short.
Register(h) ==
    /\ at[h] = "idle"
    /\ status = "none"
    /\ status' = "pending_verification"
    /\ BeginToken(h, VerificationTokens)
    /\ UNCHANGED <<password, open, mailed, sessionVars, clientVars, faults>>

ResendVerification(h) ==
    /\ at[h] = "idle"
    /\ status = "pending_verification"
    /\ BeginToken(h, VerificationTokens)
    /\ UNCHANGED <<accountVars, sessionVars, clientVars, faults>>

\* Also for accounts that are not verified or await deletion.
ForgotPassword(h) ==
    /\ at[h] = "idle"
    /\ status \notin {"none", "suspended"}
    /\ BeginToken(h, RecoveryTokens)
    /\ UNCHANGED <<accountVars, sessionVars, clientVars, faults>>

KindOf(o) == IF o \in VerificationTokens THEN VerificationTokens ELSE RecoveryTokens

\* createVerificationToken and createRecoveryToken first consume the open
\* tokens they see; one that is inserted meanwhile stays open.
Supersede(h) ==
    /\ at[h] = "supersede"
    /\ LET superseded == KindOf(subject[h]) \cap open IN
       /\ \A o \in superseded : TokenUnlocked(o)
       /\ rows' = [rows EXCEPT ![h] = superseded]
    /\ at' = [at EXCEPT ![h] = "insertToken"]
    /\ UNCHANGED <<subject, fresh, late, accountVars, sessionVars, clientVars, faults>>

InsertToken(h) ==
    /\ at[h] = "insertToken"
    /\ open' = (open \ rows[h]) \cup {subject[h]}
    /\ mailed' = mailed \ rows[h]
    /\ at' = [at EXCEPT ![h] = "publish"]
    /\ rows' = [rows EXCEPT ![h] = {}]
    /\ UNCHANGED <<subject, fresh, late, status, password, sessionVars, clientVars, faults>>

\* kafka.publish, of a token that may be superseded already; the audit row
\* that follows decides the answer only.
Publish(h) ==
    /\ at[h] = "publish"
    /\ mailed' = mailed \cup ({subject[h]} \cap open)
    /\ End(h)
    /\ UNCHANGED <<status, password, open, sessionVars, clientVars, faults>>

\* Faulty variant of VerifyEmail: the account becomes active whatever its status.
VerifyEmailRevives(v) ==
    /\ v \in mailed /\ TokenUnlocked(v) /\ ~UserLocked
    /\ open' = open \ {v}
    /\ mailed' = mailed \ {v}
    /\ status' = "active"
    /\ UNCHANGED <<password, sessionVars, clientVars, requestVars, faults>>

\* Faulty variant of VerifyEmail: a consumed token is accepted again.
VerifyEmailRepeats(v) ==
    /\ v \in mailed /\ TokenUnlocked(v) /\ ~UserLocked
    /\ open' = open \ {v}
    /\ status' = IF status = "pending_verification" THEN "active" ELSE status
    /\ UNCHANGED <<password, mailed, sessionVars, clientVars, requestVars, faults>>

\* consumeVerificationToken: token and account in one transaction.
VerifyEmail(v) ==
    /\ v \in mailed /\ TokenUnlocked(v) /\ ~UserLocked
    /\ open' = open \ {v}
    /\ mailed' = mailed \ {v}
    /\ status' = IF status = "pending_verification" THEN "active" ELSE status
    /\ UNCHANGED <<password, sessionVars, clientVars, requestVars, faults>>

\* The rows an UPDATE of the account's sessions selects: its snapshot.
UnrevokedRows == {t \in Tokens : row[t] # "none"} \ revoked

\* consumeRecoveryToken has locked the token and the account and selected the
\* sessions to revoke.
ResetPassword(h, r) ==
    /\ at[h] = "idle"
    /\ r \in mailed /\ TokenUnlocked(r) /\ ~UserLocked
    /\ at' = [at EXCEPT ![h] = "applyReset"]
    /\ subject' = [subject EXCEPT ![h] = r]
    /\ rows' = [rows EXCEPT ![h] = UnrevokedRows]
    /\ UNCHANGED <<fresh, late, accountVars, sessionVars, clientVars, faults>>

ApplyReset(h) ==
    /\ at[h] = "applyReset" /\ CanUpdate(h)
    /\ open' = open \ {subject[h]}
    /\ mailed' = mailed \ {subject[h]}
    /\ password' = subject[h]
    /\ revoked' = revoked \cup rows[h]
    /\ End(h)
    /\ UNCHANGED <<status, row, family, signedIn, clientVars, faults>>

\* requestDeletion, called with an access token, which outlives its session.
RequestDeletion(h) ==
    /\ at[h] = "idle"
    /\ delivered # {} /\ ~UserLocked
    /\ at' = [at EXCEPT ![h] = "applyDeletion"]
    /\ rows' = [rows EXCEPT ![h] = UnrevokedRows]
    /\ UNCHANGED <<subject, fresh, late, accountVars, sessionVars, clientVars, faults>>

ApplyDeletion(h) ==
    /\ at[h] = "applyDeletion" /\ CanUpdate(h)
    /\ status' = "deletion_requested"
    /\ revoked' = revoked \cup rows[h]
    /\ End(h)
    /\ UNCHANGED <<password, open, mailed, row, family, signedIn, clientVars, faults>>

\* An operator suspends the account in the database; nothing in the service does.
Suspend ==
    /\ status \in {"pending_verification", "active"} /\ ~UserLocked
    /\ status' = "suspended"
    /\ UNCHANGED <<password, open, mailed, sessionVars, clientVars, requestVars, faults>>

=============================================================================
