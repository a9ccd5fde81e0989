----------------------------- MODULE WebSession ------------------------------
(***************************************************************************)
(* One browser's session across the processes of the web application. The  *)
(* browser holds a cookie with the refresh token; every route rotates the  *)
(* token at the identity service before it does its work, and calls of one *)
(* process that present the same token share one rotation (refreshSession).*)
(* Nothing orders the calls of a page: each is sent with the cookie of the *)
(* moment, and its answer stores the cookie when it arrives.               *)
(*                                                                         *)
(* The identity service is taken from the point of view of its clients:    *)
(* it rotates the last token of a live family and ends the family when an  *)
(* older one is presented.                                                 *)
(***************************************************************************)
EXTENDS WebRoutes, Naturals

CONSTANTS
    Calls,          \* requests the browser has open at a time
    Processes,      \* processes (or bundles) with a map of refreshes of their own
    MaxLogins,      \* bound on the families begun
    MaxRotations,   \* bound on the rotations of a family
    None,           \* no cookie
    Keep            \* a response that does not mention the cookie

ASSUME BoundsAreNatural == MaxLogins \in Nat /\ MaxRotations \in Nat

Families == 1 .. MaxLogins
Tokens == [family : Families, turn : 0 .. MaxRotations]

ASSUME NoneIsNothing == None \notin Tokens \cup Calls \cup Processes
ASSUME KeepIsNoCookie == Keep \notin Tokens \cup {None}

VARIABLES
    tip,       \* identity service: turn of the last token of each family
    live,      \* identity service: families that are not revoked
    logins,    \* families begun
    cookie,    \* the browser's cookie: a token or None
    at, route, \* of each call: where it is, and what it called
    token,     \* of each call: the token it was sent with
    process,   \* of each call: the process that serves it
    leader,    \* of each call: the call whose rotation it waits for
    answer,    \* of each call: the rotated token, or what becomes of the cookie
    disturbed  \* history: something happened that may cost the browser its session

serviceVars == <<tip, live, logins>>
callVars == <<at, route, token, process, leader, answer>>
vars == <<serviceVars, cookie, callVars, disturbed>>

Started == {"sent", "asking", "rotated", "failed", "joined", "fetching", "answering"}

TypeOK ==
    /\ tip \in [Families -> 0 .. MaxRotations]
    /\ live \subseteq 1 .. logins
    /\ logins \in 0 .. MaxLogins
    /\ cookie \in Tokens \cup {None}
    /\ at \in [Calls -> {"idle"} \cup Started]
    /\ route \in [Calls -> Routes \cup {SignIn, SignOut, None}]
    /\ token \in [Calls -> Tokens \cup {None}]
    /\ process \in [Calls -> Processes \cup {None}]
    /\ leader \in [Calls -> Calls \cup {None}]
    /\ answer \in [Calls -> Tokens \cup {None, Keep}]
    /\ disturbed \in BOOLEAN
    /\ \A c \in Calls : at[c] = "joined" => at[leader[c]] \in {"asking", "rotated", "failed"}

Init ==
    /\ tip = [f \in Families |-> 0]
    /\ live = {}
    /\ logins = 0
    /\ cookie = None
    /\ at = [c \in Calls |-> "idle"]
    /\ route = [c \in Calls |-> None]
    /\ token = [c \in Calls |-> None]
    /\ process = [c \in Calls |-> None]
    /\ leader = [c \in Calls |-> None]
    /\ answer = [c \in Calls |-> Keep]
    /\ disturbed = FALSE

Tip(t) == t.family \in live /\ t.turn = tip[t.family]
Successor(t) == [t EXCEPT !.turn = t.turn + 1]

Idle == \A c \in Calls : at[c] = "idle"
DisturbIf(holds) == disturbed' = (disturbed \/ holds)

\* What a route's outcome puts into the cookie, after a rotation to next.
CookieFor(outcome, next) ==
    CASE outcome = "next" -> next [] outcome = "clear" -> None [] outcome = "keep" -> Keep

\* The call is answered: res is what its response puts into the cookie.
Respond(c, res) ==
    /\ at' = [at EXCEPT ![c] = "answering"]
    /\ answer' = [answer EXCEPT ![c] = res]

-----------------------------------------------------------------------------
(* The browser *)

\* Bound: after something that may have cost the session, the calls that are
\* open come to their end and no further one is sent.

\* Signing in or out changes the cookie under the calls that are open.
EndsSession(r) == r \in {SignIn, SignOut, DeleteAccount}
Crosses(r) ==
    \E c \in Calls : at[c] # "idle" /\ (EndsSession(r) \/ EndsSession(route[c]))

Send(c, r) ==
    /\ at[c] = "idle" /\ ~disturbed
    /\ cookie # None /\ cookie.turn < MaxRotations
    /\ at' = [at EXCEPT ![c] = "sent"]
    /\ route' = [route EXCEPT ![c] = r]
    /\ token' = [token EXCEPT ![c] = cookie]
    /\ DisturbIf(Crosses(r))
    /\ UNCHANGED <<serviceVars, cookie, process, leader, answer>>

\* The login page is open to a browser that is signed in; its earlier session
\* is then forgotten, not ended.
SendSignIn(c) ==
    /\ at[c] = "idle" /\ ~disturbed
    /\ at' = [at EXCEPT ![c] = "sent"]
    /\ route' = [route EXCEPT ![c] = SignIn]
    /\ DisturbIf(cookie # None \/ Crosses(SignIn))
    /\ UNCHANGED <<serviceVars, cookie, token, process, leader, answer>>

Forget(c) ==
    /\ at' = [at EXCEPT ![c] = "idle"]
    /\ route' = [route EXCEPT ![c] = None]
    /\ token' = [token EXCEPT ![c] = None]
    /\ process' = [process EXCEPT ![c] = None]
    /\ leader' = [leader EXCEPT ![c] = None]
    /\ answer' = [answer EXCEPT ![c] = Keep]

\* The response stores its cookie over whatever is there by now.
Receive(c) ==
    /\ at[c] = "answering"
    /\ cookie' = IF answer[c] = Keep THEN cookie ELSE answer[c]
    /\ DisturbIf(answer[c] \in Tokens /\ cookie \notin {token[c], answer[c]})
    /\ Forget(c)
    /\ UNCHANGED serviceVars

\* The page is left, or the connection breaks, before the response arrives.
LoseResponse(c) ==
    /\ at[c] = "answering"
    /\ DisturbIf(TRUE)
    /\ Forget(c)
    /\ UNCHANGED <<serviceVars, cookie>>

-----------------------------------------------------------------------------
(* The routes *)

\* Rotations under way in the process with this token: the map inFlightRefreshes.
InFlight(p, t) ==
    {d \in Calls : /\ at[d] \in {"asking", "rotated", "failed"}
                   /\ process[d] = p /\ token[d] = t}

\* A route that validates its body answers an invalid one at once.
RejectBody(c) ==
    /\ at[c] = "sent"
    /\ route[c] \in Routes /\ route[c].checksBody
    /\ Respond(c, Keep)
    /\ UNCHANGED <<serviceVars, cookie, route, token, process, leader, disturbed>>

\* Faulty variant of RefreshSession: no call waits for another one's rotation.
RefreshSessionAlone(c, p) ==
    /\ at[c] = "sent" /\ route[c] \in Routes
    /\ process' = [process EXCEPT ![c] = p]
    /\ at' = [at EXCEPT ![c] = "asking"]
    /\ leader' = [leader EXCEPT ![c] = c]
    /\ DisturbIf(~Tip(token[c]))
    /\ UNCHANGED <<serviceVars, cookie, route, token, answer>>

\* refreshSession joins the rotation of its token or begins one.
RefreshSession(c, p) ==
    /\ at[c] = "sent" /\ route[c] \in Routes
    /\ process' = [process EXCEPT ![c] = p]
    /\ LET flights == InFlight(p, token[c]) IN
       \/ /\ flights = {}
          /\ at' = [at EXCEPT ![c] = "asking"]
          /\ leader' = [leader EXCEPT ![c] = c]
          /\ DisturbIf(~Tip(token[c]))
       \/ \E d \in flights :
          /\ at' = [at EXCEPT ![c] = "joined"]
          /\ leader' = [leader EXCEPT ![c] = d]
          /\ UNCHANGED disturbed
    /\ UNCHANGED <<serviceVars, cookie, route, token, answer>>

\* The identity service rotates the token, or refuses it and ends the family.
PerformRefresh(c) ==
    LET t == token[c] IN
    /\ at[c] = "asking"
    /\ IF Tip(t)
         THEN /\ tip' = [tip EXCEPT ![t.family] = t.turn + 1]
              /\ at' = [at EXCEPT ![c] = "rotated"]
              /\ UNCHANGED live
         ELSE /\ live' = live \ {t.family}
              /\ at' = [at EXCEPT ![c] = "failed"]
              /\ UNCHANGED tip
    /\ UNCHANGED <<logins, cookie, route, token, process, leader, answer, disturbed>>

\* The service cannot be reached, fails, or its answer is lost on the way.
RefreshFails(c) ==
    /\ at[c] \in {"asking", "rotated"}
    /\ at' = [at EXCEPT ![c] = "failed"]
    /\ DisturbIf(TRUE)
    /\ UNCHANGED <<serviceVars, cookie, route, token, process, leader, answer>>

\* Faulty variant of Settle: the calls that joined are left waiting.
SettleAlone(c) ==
    LET granted == at[c] = "rotated"
        outcome == IF granted THEN route[c].answered ELSE route[c].failed
    IN
    /\ at[c] \in {"rotated", "failed"}
    /\ at' = [at EXCEPT ![c] = IF granted /\ route[c] \notin Pages THEN "fetching" ELSE "answering"]
    /\ answer' = [answer EXCEPT ![c] = CookieFor(outcome, Successor(token[c]))]
    /\ DisturbIf(granted /\ outcome = "keep")
    /\ UNCHANGED <<serviceVars, cookie, route, token, process, leader>>

\* The promise settles: the map forgets it and every call that awaits it goes
\* on, a page to its answer, another route to the service behind it.
Settle(c) ==
    LET waiting == {d \in Calls : leader[d] = c /\ at[d] \in {"rotated", "failed", "joined"}}
        granted == at[c] = "rotated"
        outcome(d) == IF granted THEN route[d].answered ELSE route[d].failed
    IN
    /\ at[c] \in {"rotated", "failed"}
    /\ at' = [d \in Calls |->
                 IF d \notin waiting THEN at[d]
                 ELSE IF granted /\ route[d] \notin Pages THEN "fetching" ELSE "answering"]
    /\ answer' = [d \in Calls |->
                     IF d \notin waiting THEN answer[d]
                     ELSE CookieFor(outcome(d), Successor(token[c]))]
    /\ DisturbIf(granted /\ \E d \in waiting : route[d].answered = "keep")
    /\ UNCHANGED <<serviceVars, cookie, route, token, process, leader>>

\* authenticatedMediaRequest, or the profile: the service answers, with
\* whatever status, and the response carries the rotated token.
AuthenticatedRequest(c) ==
    /\ at[c] = "fetching" /\ route[c] # DeleteAccount
    /\ Respond(c, answer[c])
    /\ UNCHANGED <<serviceVars, cookie, route, token, process, leader, disturbed>>

\* The deletion request ends every session of the account; if the service
\* refuses it, the cookie is cleared all the same.
AuthenticatedDeletion(c) ==
    /\ at[c] = "fetching" /\ route[c] = DeleteAccount
    /\ \E done \in BOOLEAN :
        /\ live' = IF done THEN {} ELSE live
        /\ DisturbIf(~done)
    /\ Respond(c, answer[c])
    /\ UNCHANGED <<tip, logins, cookie, route, token, process, leader>>

\* The call behind the route throws: the rotated token goes down with it.
RequestFails(c) ==
    /\ at[c] = "fetching"
    /\ Respond(c, CookieFor(route[c].failed, None))
    /\ DisturbIf(TRUE)
    /\ UNCHANGED <<serviceVars, cookie, route, token, process, leader>>

-----------------------------------------------------------------------------
(* Signing in and out *)

LoginSession(c) ==
    /\ at[c] = "sent" /\ route[c] = SignIn
    /\ logins < MaxLogins
    /\ logins' = logins + 1
    /\ live' = live \cup {logins'}
    /\ Respond(c, [family |-> logins', turn |-> 0])
    /\ UNCHANGED <<tip, cookie, route, token, process, leader, disturbed>>

LoginFails(c) ==
    /\ at[c] = "sent" /\ route[c] = SignIn
    /\ Respond(c, Keep)
    /\ UNCHANGED <<serviceVars, cookie, route, token, process, leader, disturbed>>

\* Faulty variant of LogoutSession: only the cookie is removed.
LogoutSessionLocally(c) ==
    /\ at[c] = "sent" /\ route[c] = SignOut
    /\ Respond(c, None)
    /\ UNCHANGED <<serviceVars, cookie, route, token, process, leader, disturbed>>

\* Only the presented token is revoked; one that was rotated ends nothing.
LogoutSession(c) ==
    /\ at[c] = "sent" /\ route[c] = SignOut
    /\ live' = IF Tip(token[c]) THEN live \ {token[c].family} ELSE live
    /\ DisturbIf(~Tip(token[c]))
    /\ Respond(c, None)
    /\ UNCHANGED <<tip, logins, cookie, route, token, process, leader>>

\* The failure is swallowed and the cookie removed.
LogoutFails(c) ==
    /\ at[c] = "sent" /\ route[c] = SignOut
    /\ DisturbIf(TRUE)
    /\ Respond(c, None)
    /\ UNCHANGED <<serviceVars, cookie, route, token, process, leader>>

-----------------------------------------------------------------------------

Next == \E c \in Calls :
    \/ \E r \in Routes \cup {SignOut} : Send(c, r)
    \/ SendSignIn(c) \/ Receive(c) \/ LoseResponse(c)
    \/ RejectBody(c)
    \/ \E p \in Processes : RefreshSession(c, p)
    \/ PerformRefresh(c) \/ RefreshFails(c) \/ Settle(c)
    \/ AuthenticatedRequest(c) \/ AuthenticatedDeletion(c) \/ RequestFails(c)
    \/ LoginSession(c) \/ LoginFails(c)
    \/ LogoutSession(c) \/ LogoutFails(c)

Spec == Init /\ [][Next]_vars

\* Served by one process, which knows of every rotation under way,
\* a browser whose calls may overlap at will keeps its session, unless a call
\* or an answer failed, a page of the other role was asked for, a call reached
\* the server after its token was rotated and settled, an answer arrived after
\* a later one, or signing in or out crossed another call (refreshSession).
QuietSessionIsLive == Idle /\ ~disturbed /\ cookie # None => Tip(cookie)

\* Short of those, a browser without a cookie left no session behind that
\* somebody could still use (the logout route, the profile route).
SignedOutIsEnded == Idle /\ ~disturbed /\ cookie = None => live = {}

=============================================================================
