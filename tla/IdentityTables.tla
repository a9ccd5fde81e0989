--------------------------- MODULE IdentityTables ----------------------------
(***************************************************************************)
(* What the handlers of the auth service share: the row of one account,    *)
(* its one-time tokens and refresh sessions in PostgreSQL, the revocations *)
(* cached in Redis and the mails requested over Kafka. No query relates    *)
(* two accounts, so there is one.                                          *)
(*                                                                         *)
(* A handler runs in a request slot, whose locals are declared here. A     *)
(* statement is one step. What a transaction wrote becomes visible with    *)
(* its last statement; until then the rows it locked are those named by    *)
(* SessionLocks, TokenLocks and UserLocked.                                *)
(***************************************************************************)
EXTENDS Naturals

CONSTANTS
    Tokens,              \* refresh tokens, each with its row
    VerificationTokens,  \* email-verification tokens
    RecoveryTokens,      \* password-recovery tokens
    Requests,            \* request slots of the service's processes
    MaxFaults,           \* bound on handlers that are cut short
    None                 \* no token; also the password chosen at registration

OneTime == VerificationTokens \cup RecoveryTokens

ASSUME NoneIsNoToken == None \notin Tokens \cup OneTime
ASSUME KindsAreDisjoint == VerificationTokens \cap RecoveryTokens = {}
ASSUME FaultsAreBounded == MaxFaults \in Nat

VARIABLES
    status,      \* "none", or users.status
    password,    \* users.password_hash: the reset that set it, None at first
    open,        \* one-time tokens that are stored and not consumed
    mailed,      \* those of them that were published in the identity topics
    row,         \* refresh_sessions: "none", "live", or "rotated" (rotated_at)
    revoked,     \* rows with revoked_at
    family,      \* family_id: the token the family began with
    signedIn,    \* history: the password the family was signed in with
    cache,       \* tokens with a revoked-session key in Redis
    delivered,   \* refresh tokens some client was sent
    at, subject, fresh, rows,   \* locals of the requests
    late,        \* history: refreshes that arrived at an inactive account
    faults       \* handlers cut short so far

accountVars == <<status, password, open, mailed>>
sessionVars == <<row, revoked, family, signedIn>>
clientVars == <<cache, delivered>>
requestVars == <<at, subject, fresh, rows, late>>
vars == <<accountVars, sessionVars, clientVars, requestVars, faults>>

Inactive == {"suspended", "deletion_requested"}
Statuses == {"none", "pending_verification", "active"} \cup Inactive

\* Steps that revoke the sessions in rows[h] with one UPDATE.
ApplySteps == {"applyReuse", "applyInactive", "applyLogoutAll", "applyReset", "applyDeletion"}
\* Steps at which the rotation is granted, and those that only remain to answer it.
GrantSteps == {"insertSession", "answer"}
Steps == {"idle", "supersede", "insertToken", "publish", "lockSession", "rotate", "recheckUser",
          "cacheRevocation"} \cup ApplySteps \cup GrantSteps

Live(t) == row[t] = "live" /\ t \notin revoked
Unused == {t \in Tokens : row[t] = "none" /\ \A h \in Requests : fresh[h] # t}
NewToken == CHOOSE t \in Unused : TRUE

Init ==
    /\ status = "none"
    /\ password = None
    /\ open = {}
    /\ mailed = {}
    /\ row = [t \in Tokens |-> "none"]
    /\ revoked = {}
    /\ family = [t \in Tokens |-> None]
    /\ signedIn = [t \in Tokens |-> None]
    /\ cache = {}
    /\ delivered = {}
    /\ at = [h \in Requests |-> "idle"]
    /\ subject = [h \in Requests |-> None]
    /\ fresh = [h \in Requests |-> None]
    /\ rows = [h \in Requests |-> {}]
    /\ late = {}
    /\ faults = 0

-----------------------------------------------------------------------------
(* Locks held until the transaction ends *)

\* Faulty variant of SessionLocks: the row is selected without FOR UPDATE.
SessionLocksNothing(h) == {}

\* SELECT ... FOR UPDATE of rotateSession.
SessionLocks(h) == IF at[h] \in {"rotate", "applyReuse"} THEN {subject[h]} ELSE {}

\* The token rows updated by the transaction of h.
TokenLocks(h) == (IF at[h] = "insertToken" THEN rows[h] ELSE {})
                     \cup (IF at[h] = "applyReset" THEN {subject[h]} ELSE {})

\* consumeRecoveryToken and requestDeletion update the users row first.
UserLocked == \E h \in Requests : at[h] \in {"applyReset", "applyDeletion"}

TokenUnlocked(o) == \A h \in Requests : o \notin TokenLocks(h)

\* The rows an UPDATE selected are locked by nobody else.
CanUpdate(h) == \A g \in Requests \ {h} : SessionLocks(g) \cap rows[h] = {}

-----------------------------------------------------------------------------
(* Moves of a request *)

Goto(h, step) ==
    /\ at' = [at EXCEPT ![h] = step]
    /\ UNCHANGED <<subject, fresh, rows, late>>

\* The handler answers, with a result or an error.
End(h) ==
    /\ at' = [at EXCEPT ![h] = "idle"]
    /\ subject' = [subject EXCEPT ![h] = None]
    /\ fresh' = [fresh EXCEPT ![h] = None]
    /\ rows' = [rows EXCEPT ![h] = {}]
    /\ late' = late \ {h}

\* A statement, Redis or the publication fails, or the process stops: the
\* open transaction is rolled back.
Abort(h) ==
    /\ at[h] # "idle"
    /\ faults < MaxFaults
    /\ faults' = faults + 1
    /\ End(h)
    /\ UNCHANGED <<accountVars, sessionVars, clientVars>>

\* Two revocations that wait for each other's rows: PostgreSQL ends one.
DeadlockVictim(h) ==
    /\ at[h] \in ApplySteps
    /\ \E g \in Requests \ {h} : at[g] \in ApplySteps /\ rows[g] \cap rows[h] # {}
    /\ End(h)
    /\ UNCHANGED <<accountVars, sessionVars, clientVars, faults>>

=============================================================================
