----------------------------- MODULE SessionApi ------------------------------
(***************************************************************************)
(* Refresh sessions: AuthService.login, refresh, logout and logoutAll with *)
(* the queries and Redis commands they make.                               *)
(***************************************************************************)
EXTENDS AccountApi

\* The account was found active and the password right; a failed login has no
\* effect. Checking the password takes a while.
Login(h) ==
    /\ at[h] = "idle"
    /\ status = "active" /\ Unused # {}
    /\ at' = [at EXCEPT ![h] = "insertSession"]
    /\ subject' = [subject EXCEPT ![h] = password]
    /\ fresh' = [fresh EXCEPT ![h] = NewToken]
    /\ UNCHANGED <<rows, late, accountVars, sessionVars, clientVars, faults>>

\* createSession begins a family.
InsertSession(h) ==
    /\ at[h] = "insertSession"
    /\ row' = [row EXCEPT ![fresh[h]] = "live"]
    /\ family' = [family EXCEPT ![fresh[h]] = fresh[h]]
    /\ signedIn' = [signedIn EXCEPT ![fresh[h]] = subject[h]]
    /\ Goto(h, "answer")
    /\ UNCHANGED <<accountVars, revoked, clientVars, faults>>

\* The audit row is written and the tokens are sent.
Answer(h) ==
    /\ at[h] = "answer"
    /\ delivered' = delivered \cup {fresh[h]}
    /\ End(h)
    /\ UNCHANGED <<accountVars, sessionVars, cache, faults>>

\* A client presents a token it was sent, any number of times. A revocation
\* cached in Redis ends the request. The next token is drawn here; only a live
\* session will need it.
Refresh(h, t) ==
    /\ at[h] = "idle"
    /\ t \in delivered \ cache
    /\ Live(t) => Unused # {}
    /\ at' = [at EXCEPT ![h] = "lockSession"]
    /\ subject' = [subject EXCEPT ![h] = t]
    /\ fresh' = [fresh EXCEPT ![h] = IF Live(t) THEN NewToken ELSE None]
    /\ late' = IF status \in Inactive THEN late \cup {h} ELSE late
    /\ UNCHANGED <<rows, accountVars, sessionVars, clientVars, faults>>

FamilyRows(t) == {u \in Tokens : row[u] # "none" /\ family[u] = family[t]}

\* Faulty variant of Replayed: a rotated session is not a replay.
ReplayedRevoked(t) == t \in revoked

Replayed(t) == row[t] = "rotated" \/ t \in revoked

\* rotateSession locks the row and decides. A replay goes on to revoke the
\* rows of the family it sees; a session past its 30 days or
\* idle for too long, which may be any, is refused as it is.
LockSession(h) ==
    LET t == subject[h] IN
    /\ at[h] = "lockSession"
    /\ \A g \in Requests \ {h} : t \notin SessionLocks(g)
    /\ IF Replayed(t)
         THEN /\ at' = [at EXCEPT ![h] = "applyReuse"]
              /\ rows' = [rows EXCEPT ![h] = FamilyRows(t)]
              /\ UNCHANGED <<subject, fresh, late>>
         ELSE End(h) \/ Goto(h, "rotate")
    /\ UNCHANGED <<accountVars, sessionVars, clientVars, faults>>

\* The successor is inserted, the session marked, and both are committed.
Rotate(h) ==
    LET t == subject[h] IN
    /\ at[h] = "rotate"
    /\ row' = [row EXCEPT ![t] = "rotated", ![fresh[h]] = "live"]
    /\ family' = [family EXCEPT ![fresh[h]] = family[t]]
    /\ signedIn' = [signedIn EXCEPT ![fresh[h]] = signedIn[t]]
    /\ Goto(h, "recheckUser")
    /\ UNCHANGED <<accountVars, revoked, clientVars, faults>>

\* Faulty variant of RecheckUser: the status is not looked at again.
RecheckUserTrusts(h) ==
    /\ at[h] = "recheckUser"
    /\ Goto(h, "answer")
    /\ UNCHANGED <<accountVars, sessionVars, clientVars, faults>>

\* findById; for an inactive account every session it sees is revoked.
RecheckUser(h) ==
    /\ at[h] = "recheckUser"
    /\ IF status = "active"
         THEN Goto(h, "answer")
         ELSE /\ at' = [at EXCEPT ![h] = "applyInactive"]
              /\ rows' = [rows EXCEPT ![h] = UnrevokedRows]
              /\ UNCHANGED <<subject, fresh, late>>
    /\ UNCHANGED <<accountVars, sessionVars, clientVars, faults>>

\* The UPDATE of a replay, of an inactive account or of logoutAll.
ApplyRevocation(h) ==
    /\ at[h] \in {"applyReuse", "applyInactive", "applyLogoutAll"} /\ CanUpdate(h)
    /\ revoked' = revoked \cup rows[h]
    /\ End(h)
    /\ UNCHANGED <<accountVars, row, family, signedIn, clientVars, faults>>

\* Faulty variant of Logout: the row is left to a later refresh.
LogoutCachesOnly(h, t) ==
    /\ at[h] = "idle"
    /\ t \in delivered
    /\ at' = [at EXCEPT ![h] = "cacheRevocation"]
    /\ subject' = [subject EXCEPT ![h] = t]
    /\ UNCHANGED <<fresh, rows, late, accountVars, sessionVars, clientVars, faults>>

\* revokeSession: this row only, not the successor of a rotated one.
Logout(h, t) ==
    /\ at[h] = "idle"
    /\ t \in delivered
    /\ \A g \in Requests : t \notin SessionLocks(g)
    /\ revoked' = revoked \cup {t}
    /\ at' = [at EXCEPT ![h] = "cacheRevocation"]
    /\ subject' = [subject EXCEPT ![h] = t]
    /\ UNCHANGED <<fresh, rows, late, accountVars, row, family, signedIn, clientVars, faults>>

CacheRevocation(h) ==
    /\ at[h] = "cacheRevocation"
    /\ cache' = cache \cup {subject[h]}
    /\ End(h)
    /\ UNCHANGED <<accountVars, sessionVars, delivered, faults>>

\* Called with an access token; it sees the sessions there are.
LogoutAll(h) ==
    /\ at[h] = "idle"
    /\ delivered # {}
    /\ at' = [at EXCEPT ![h] = "applyLogoutAll"]
    /\ rows' = [rows EXCEPT ![h] = UnrevokedRows]
    /\ UNCHANGED <<subject, fresh, late, accountVars, sessionVars, clientVars, faults>>

=============================================================================
