------------------------------ MODULE Identity -------------------------------
(***************************************************************************)
(* The account and its sessions under all handlers of the auth service:    *)
(* next-state relation and properties.                                     *)
(***************************************************************************)
EXTENDS SessionApi

\* Steps of a started handler.
HandlerStep(h) ==
    \/ Supersede(h) \/ InsertToken(h) \/ Publish(h)
    \/ InsertSession(h) \/ Answer(h)
    \/ LockSession(h) \/ Rotate(h) \/ RecheckUser(h) \/ ApplyRevocation(h)
    \/ CacheRevocation(h)
    \/ ApplyReset(h) \/ ApplyDeletion(h)
    \/ DeadlockVictim(h)

Arrival(h) ==
    \/ Register(h) \/ ResendVerification(h) \/ ForgotPassword(h)
    \/ Login(h) \/ LogoutAll(h) \/ RequestDeletion(h)
    \/ \E t \in Tokens : Refresh(h, t) \/ Logout(h, t)
    \/ \E r \in RecoveryTokens : ResetPassword(h, r)

Environment ==
    \/ Suspend
    \/ \E v \in VerificationTokens : VerifyEmail(v)

Next ==
    \/ \E h \in Requests : HandlerStep(h) \/ Arrival(h) \/ Abort(h)
    \/ Environment

Spec == Init /\ [][Next]_vars

-----------------------------------------------------------------------------

\* Every row column and every local has one of its values.
TypeOK ==
    /\ status \in Statuses
    /\ password \in RecoveryTokens \cup {None}
    /\ open \subseteq OneTime
    /\ mailed \subseteq open
    /\ row \in [Tokens -> {"none", "live", "rotated"}]
    /\ revoked \subseteq Tokens
    /\ family \in [Tokens -> Tokens \cup {None}]
    /\ signedIn \in [Tokens -> RecoveryTokens \cup {None}]
    /\ cache \subseteq Tokens
    /\ delivered \subseteq Tokens
    /\ at \in [Requests -> Steps]
    /\ subject \in [Requests -> Tokens \cup OneTime \cup {None}]
    /\ fresh \in [Requests -> Tokens \cup {None}]
    /\ rows \in [Requests -> SUBSET (Tokens \cup OneTime)]
    /\ late \subseteq Requests
    /\ faults \in 0 .. MaxFaults

\* Two requests with one refresh token never leave a family with two usable
\* sessions (rotateSession).
OneLivePerFamily ==
    \A t, u \in Tokens : Live(t) /\ Live(u) /\ family[t] = family[u] => t = u

\* A refresh that arrives after the account was suspended or its deletion was
\* requested is never granted, whatever was committed in between
\* (AuthService.refresh).
InactiveIsRefused == \A h \in late : at[h] \notin GrantSteps

\* Redis only repeats revocations that PostgreSQL holds (AuthService.logout).
CachedIsRevoked == cache \subseteq revoked

\* A session that a concurrent request revoked has no successor (rotateSession).
RevokedHasNoSuccessor ==
    [][\A t \in Tokens : row[t] = "live" /\ row'[t] = "rotated" => t \notin revoked]_vars

\* An account is verified once and comes back from no suspension or deletion
\* request, whichever tokens are still open (consumeVerificationToken).
StatusAdvances ==
    [][status' # status =>
          \/ status = "none" /\ status' = "pending_verification"
          \/ status = "pending_verification" /\ status' = "active"
          \/ status # "none" /\ status' \in Inactive]_vars

\* "Password reset. Sign in again on every device." (AuthService.resetPassword)
SignedInWithCurrentPassword ==
    \A t \in Tokens : Live(t) => signedIn[t] = password

=============================================================================
