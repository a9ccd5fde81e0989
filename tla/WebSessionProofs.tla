-------------------------- MODULE WebSessionProofs ---------------------------
(***************************************************************************)
(* Proofs about the browser's session: every variable keeps a value of its *)
(* kind, and, when one process serves the browser, what QuietSessionIsLive *)
(* and SignedOutIsEnded promise holds for every number of calls, logins    *)
(* and rotations.                                                          *)
(***************************************************************************)
EXTENDS WebSession, TLAPS

-----------------------------------------------------------------------------
(* What always holds of a call *)

Leads(c) == at[c] \in {"asking", "rotated", "failed"}

(***************************************************************************)
(* An open call knows its route, its token and, once it asked for a        *)
(* rotation, the call that leads it; a call that waits has the token of    *)
(* its leader, which has not settled.                                      *)
(***************************************************************************)
CallLocals(c) ==
    /\ at[c] = "idle" => token[c] = None
    /\ at[c] # "idle" => route[c] \in Routes \cup {SignIn, SignOut}
    /\ at[c] \notin {"idle", "sent", "answering"} =>
          route[c] \in Routes /\ process[c] \in Processes
    /\ at[c] # "idle" /\ route[c] = SignIn => token[c] = None
    /\ at[c] # "idle" /\ route[c] # SignIn =>
          token[c] \in Tokens /\ token[c].turn < MaxRotations
    /\ Leads(c) => leader[c] = c
    /\ at[c] = "joined" =>
          leader[c] \in Calls /\ Leads(leader[c]) /\ token[c] = token[leader[c]]

\* A family that has not begun has not been rotated.
FreshTips == \A f \in Families : f > logins => tip[f] = 0

TypeInv == TypeOK /\ FreshTips /\ \A c \in Calls : CallLocals(c)

-----------------------------------------------------------------------------
(* What holds while nothing disturbed the session *)

\* The call begins or ends a session.
Ends(c) == at[c] # "idle" /\ EndsSession(route[c])

Alone(c) == \A d \in Calls \ {c} : at[d] = "idle"

\* The browser's session is the only one the service would still rotate.
InSession == cookie # None /\ live = {cookie.family}

\* Signing in begins without a session, and its answer is the only one.
SignInOK(c) ==
    /\ cookie = None
    /\ \/ at[c] = "sent" /\ live = {}
       \/ at[c] = "answering" /\ answer[c] = Keep /\ live = {}
       \/ /\ at[c] = "answering" /\ answer[c] \in Tokens
          /\ Tip(answer[c]) /\ live = {answer[c].family}

\* Signing out presents the last token, and ends its family.
SignOutOK(c) ==
    /\ cookie # None
    /\ \/ at[c] = "sent" /\ token[c] = cookie /\ Tip(cookie) /\ InSession
       \/ at[c] = "answering" /\ answer[c] = None /\ live = {}

\* So does the deletion of the account, which rotates the token first.
DeletionOK(c) ==
    /\ cookie # None
    /\ \/ at[c] \in {"sent", "asking"} /\ token[c] = cookie /\ Tip(cookie) /\ InSession
       \/ at[c] = "rotated" /\ InSession
       \/ at[c] = "fetching" /\ answer[c] = None
       \/ at[c] = "answering" /\ answer[c] = None /\ live = {}

EndingOK(c) ==
    /\ Alone(c)
    /\ route[c] = SignIn => SignInOK(c)
    /\ route[c] = SignOut => SignOutOK(c)
    /\ route[c] = DeleteAccount => DeletionOK(c)

\* The call will bring the browser the token that follows its cookie.
Carries(c) ==
    \/ at[c] = "rotated"
    \/ at[c] \in {"fetching", "answering"} /\ answer[c] = Successor(cookie)

\* A call of another route: its token is the cookie or an earlier one, a
\* rotation under way is of the cookie itself, and an answer is the rotation of
\* the call's token, never one that is still under way.
CallOK(c) ==
    /\ token[c].family = cookie.family /\ token[c].turn <= cookie.turn
    /\ at[c] # "failed"
    /\ at[c] = "asking" => token[c] = cookie /\ tip[cookie.family] = cookie.turn
    /\ at[c] = "rotated" => token[c] = cookie /\ tip[cookie.family] = cookie.turn + 1
    /\ at[c] = "fetching" => answer[c] # Keep
    /\ at[c] \in {"fetching", "answering"} /\ answer[c] # Keep =>
          /\ answer[c] = Successor(token[c])
          /\ answer[c].turn <= tip[cookie.family]
          /\ (\E d \in Calls : at[d] = "rotated") => answer[c].turn <= cookie.turn

\* The cookie is the last token, or one call carries the token after it.
SessionOK ==
    /\ InSession
    /\ tip[cookie.family] \in {cookie.turn, cookie.turn + 1}
    /\ tip[cookie.family] = cookie.turn + 1 => \E c \in Calls : Carries(c)
    /\ \A c \in Calls : at[c] # "idle" => CallOK(c)
    /\ \A c, d \in Calls : Leads(c) /\ Leads(d) => c = d

QuietInv ==
    /\ \A c \in Calls : Ends(c) => EndingOK(c)
    /\ (\A c \in Calls : ~Ends(c)) =>
          IF cookie = None THEN Idle /\ live = {} ELSE SessionOK

SessionInv == disturbed \/ QuietInv

-----------------------------------------------------------------------------
(* Tokens and routes *)

\* The successor of a token is the next turn of its family.
LEMMA SuccessorFollows ==
  ASSUME NEW t \in Tokens
  PROVE  /\ Successor(t).family = t.family /\ Successor(t).turn = t.turn + 1
         /\ t.turn < MaxRotations => Successor(t) \in Tokens
  BY BoundsAreNatural DEF Tokens, Successor, Families

\* A token is neither of the two markers, and is its family and turn.
LEMMA TokensAreRecords ==
  /\ None \notin Tokens /\ Keep \notin Tokens /\ Keep # None
  /\ \A t \in Tokens : t.family \in Families /\ t.turn \in 0 .. MaxRotations
  /\ \A t, u \in Tokens : t.family = u.family /\ t.turn = u.turn => t = u
  BY NoneIsNothing, KeepIsNoCookie DEF Tokens

\* What the proofs need to know of the routes.
LEMMA RouteFacts ==
  /\ \A r \in Routes :
        /\ r.answered \in {"next", "clear", "keep"} /\ r.failed \in {"clear", "keep"}
        /\ r.answered = "clear" => r = DeleteAccount
  /\ DeleteAccount \in Routes \ Pages
  /\ DeleteAccount.answered = "clear" /\ ~DeleteAccount.checksBody
  /\ SignIn \notin Routes /\ SignOut \notin Routes /\ SignIn # SignOut
  <1> USE DEF Route
  <1>1. \A r \in Pages : /\ r.work = "page" /\ r.answered \in {"next", "keep"}
                         /\ r.failed = "clear"
    BY DEF Pages, PageFor
  <1>2. \A r \in MediaRoutes \cup {ReadProfile, UpdateProfile} :
           r.work = "request" /\ r.answered = "next" /\ r.failed = "keep"
    BY DEF MediaRoutes, ReadProfile, UpdateProfile, Forwarded, Validated, ListMedia, GetMedia,
           RetryProcessing, CreateUploadSession, CompleteUpload, UpdateMetadata, ListReleases,
           CreateRelease, CompleteRelease, ListBatches, CreateBatch, AddBatchItem, SubmitBatch,
           ListCollections, CreateCollection, ChangeCollectionItem, ListFavourites,
           ChangeFavourite
  <1>3. /\ DeleteAccount.work = "deletion" /\ DeleteAccount.answered = "clear"
        /\ DeleteAccount.failed = "keep" /\ ~DeleteAccount.checksBody
        /\ SignIn.work = "signIn" /\ SignOut.work = "signOut"
    BY DEF DeleteAccount, SignIn, SignOut
  <1>4. QED
    BY <1>1, <1>2, <1>3 DEF Routes

\* What each outcome puts into the cookie.
LEMMA CookieForKind ==
  ASSUME NEW outcome \in {"next", "clear", "keep"}, NEW next
  PROVE  /\ outcome = "next" => CookieFor(outcome, next) = next
         /\ outcome = "clear" => CookieFor(outcome, next) = None
         /\ outcome = "keep" => CookieFor(outcome, next) = Keep
  BY DEF CookieFor

-----------------------------------------------------------------------------
(* Types *)

\* The calls other than c stay where they are.
OthersStay(c) ==
    \A d \in Calls \ {c} :
        /\ at'[d] = at[d] /\ route'[d] = route[d] /\ token'[d] = token[d]
        /\ process'[d] = process[d] /\ leader'[d] = leader[d] /\ answer'[d] = answer[d]

\* When one call moves, those that wait for it still have their leader.
LEMMA OneCallMoves ==
  ASSUME TypeInv, NEW c \in Calls, OthersStay(c), CallLocals(c)',
         Leads(c) => Leads(c)' /\ token'[c] = token[c]
  PROVE  /\ \A d \in Calls : CallLocals(d)'
         /\ \A d \in Calls : at'[d] = "joined" => at'[leader'[d]] \in {"asking", "rotated", "failed"}
  <1>1. ASSUME NEW d \in Calls \ {c} PROVE CallLocals(d)'
    BY <1>1 DEF TypeInv, CallLocals, OthersStay, Leads
  <1>2. \A d \in Calls : CallLocals(d)'
    BY <1>1
  <1>3. QED
    BY <1>2 DEF CallLocals, Leads

CallTypes ==
    /\ at \in [Calls -> {"idle"} \cup Started]
    /\ route \in [Calls -> Routes \cup {SignIn, SignOut, None}]
    /\ token \in [Calls -> Tokens \cup {None}]
    /\ process \in [Calls -> Processes \cup {None}]
    /\ leader \in [Calls -> Calls \cup {None}]
    /\ answer \in [Calls -> Tokens \cup {None, Keep}]

ServiceTypes ==
    /\ tip \in [Families -> 0 .. MaxRotations]
    /\ live \subseteq 1 .. logins
    /\ logins \in 0 .. MaxLogins
    /\ FreshTips

\* The parts of the type invariant, put together after a step of one call.
LEMMA TypesAfter ==
  ASSUME TypeInv, NEW c \in Calls, CallTypes', ServiceTypes', OthersStay(c), CallLocals(c)',
         cookie' \in Tokens \cup {None}, disturbed' \in BOOLEAN,
         Leads(c) => Leads(c)' /\ token'[c] = token[c]
  PROVE  TypeInv'
  BY OneCallMoves DEF TypeInv, TypeOK, CallTypes, ServiceTypes

\* The parts of the type invariant.
LEMMA TypeParts ==
  ASSUME TypeInv
  PROVE  /\ CallTypes /\ ServiceTypes /\ cookie \in Tokens \cup {None} /\ disturbed \in BOOLEAN
         /\ \A c \in Calls : CallLocals(c)
  BY DEF TypeInv, TypeOK, CallTypes, ServiceTypes

\* The history variable stays a truth value.
LEMMA DisturbIsBoolean ==
  ASSUME NEW holds, TypeInv, DisturbIf(holds)
  PROVE  disturbed' \in BOOLEAN
  BY DEF DisturbIf, TypeInv, TypeOK

\* A call that is answered, while at most some families are ended.
LEMMA RespondTypes ==
  ASSUME TypeInv, NEW c \in Calls, NEW res \in Tokens \cup {None, Keep}, Respond(c, res),
         at[c] \in {"sent", "fetching"}, live' \subseteq live,
         UNCHANGED <<tip, logins, cookie, route, token, process, leader>>,
         disturbed' \in BOOLEAN
  PROVE  TypeInv'
  <1>1. CallTypes /\ ServiceTypes /\ CallLocals(c)
    BY TypeParts
  <1>2. CallTypes' /\ ServiceTypes' /\ OthersStay(c) /\ ~Leads(c)
    BY <1>1 DEF CallTypes, ServiceTypes, FreshTips, Respond, OthersStay, Started, Leads
  <1>3. at'[c] = "answering" /\ CallLocals(c)'
    BY <1>1 DEF Respond, CallTypes, CallLocals, Leads
  <1>4. QED
    BY <1>2, <1>3, TypesAfter, TypeParts

\* A call that is over leaves nothing behind.
LEMMA ForgetTypes ==
  ASSUME TypeInv, NEW c \in Calls, Forget(c), at[c] = "answering",
         cookie' \in Tokens \cup {None}, UNCHANGED serviceVars, disturbed' \in BOOLEAN
  PROVE  TypeInv'
  <1>1. CallTypes /\ ServiceTypes
    BY TypeParts
  <1>2. CallTypes' /\ ServiceTypes' /\ OthersStay(c) /\ ~Leads(c)
    BY <1>1 DEF CallTypes, ServiceTypes, FreshTips, Forget, OthersStay, Started, Leads, serviceVars
  <1>3. CallLocals(c)'
    BY <1>1 DEF Forget, CallTypes, CallLocals, Leads
  <1>4. QED
    BY <1>2, <1>3, TypesAfter

\* A call is sent with the cookie, or to sign in without one.
LEMMA SendTypes ==
  ASSUME TypeInv, NEW c \in Calls,
         (\E r \in Routes \cup {SignOut} : Send(c, r)) \/ SendSignIn(c)
  PROVE  TypeInv'
  <1>1. CallTypes /\ ServiceTypes /\ cookie \in Tokens \cup {None} /\ CallLocals(c)
    BY TypeParts
  <1>2. ASSUME NEW r \in Routes \cup {SignOut}, Send(c, r) PROVE TypeInv'
    <2>1. cookie \in Tokens /\ cookie.turn < MaxRotations
      BY <1>1, <1>2 DEF Send
    <2>2. CallTypes' /\ ServiceTypes' /\ OthersStay(c) /\ ~Leads(c)
      BY <1>1, <1>2, <2>1
         DEF CallTypes, ServiceTypes, FreshTips, Send, OthersStay, Started, Leads, serviceVars
    <2>3. at'[c] = "sent" /\ route'[c] = r /\ token'[c] = cookie
      BY <1>1, <1>2 DEF Send, CallTypes
    <2>4. CallLocals(c)'
      BY <2>1, <2>3, RouteFacts DEF CallLocals, Leads
    <2>5. disturbed' \in BOOLEAN /\ cookie' \in Tokens \cup {None}
      BY <1>1, <1>2, DisturbIsBoolean DEF Send
    <2>6. QED
      BY <2>2, <2>4, <2>5, TypesAfter
  <1>3. CASE SendSignIn(c)
    <2>1. CallTypes' /\ ServiceTypes' /\ OthersStay(c) /\ ~Leads(c)
      BY <1>1, <1>3
         DEF CallTypes, ServiceTypes, FreshTips, SendSignIn, OthersStay, Started, Leads, serviceVars
    <2>2. at'[c] = "sent" /\ route'[c] = SignIn /\ token'[c] = None
      BY <1>1, <1>3 DEF SendSignIn, CallTypes, CallLocals
    <2>3. CallLocals(c)'
      BY <2>2 DEF CallLocals, Leads
    <2>4. disturbed' \in BOOLEAN /\ cookie' \in Tokens \cup {None}
      BY <1>1, <1>3, DisturbIsBoolean DEF SendSignIn
    <2>5. QED
      BY <2>1, <2>3, <2>4, TypesAfter
  <1>4. QED
    BY <1>2, <1>3

\* A call leads a rotation, or joins one that leads.
LEMMA RefreshTypes ==
  ASSUME TypeInv, NEW c \in Calls, NEW p \in Processes, RefreshSession(c, p)
  PROVE  TypeInv'
  <1>1. CallTypes /\ ServiceTypes /\ cookie \in Tokens \cup {None} /\ CallLocals(c)
    BY TypeParts
  <1>2. PICK l \in Calls, step \in {"asking", "joined"} :
            /\ at' = [at EXCEPT ![c] = step]
            /\ leader' = [leader EXCEPT ![c] = l]
            /\ step = "asking" => l = c
            /\ step = "joined" => l # c /\ Leads(l) /\ token[l] = token[c]
    <2>1. CASE InFlight(p, token[c]) = {}
      BY <2>1 DEF RefreshSession
    <2>2. CASE InFlight(p, token[c]) # {}
      <3>1. PICK d \in InFlight(p, token[c]) :
                at' = [at EXCEPT ![c] = "joined"] /\ leader' = [leader EXCEPT ![c] = d]
        BY <2>2 DEF RefreshSession
      <3>2. d \in Calls /\ Leads(d) /\ token[d] = token[c] /\ at[c] = "sent"
        BY <3>1 DEF RefreshSession, InFlight, Leads
      <3>3. d # c
        BY <3>2 DEF Leads
      <3>4. QED
        BY <3>1, <3>2, <3>3
    <2>3. QED
      BY <2>1, <2>2
  <1>3. CallTypes' /\ ServiceTypes' /\ OthersStay(c) /\ ~Leads(c)
    BY <1>1, <1>2 DEF CallTypes, ServiceTypes, FreshTips, RefreshSession, OthersStay, Started,
                      Leads, serviceVars
  <1>4. /\ at'[c] = step /\ leader'[c] = l /\ process'[c] = p
        /\ route'[c] = route[c] /\ token' = token
        /\ at[c] = "sent" /\ route[c] \in Routes
    BY <1>1, <1>2 DEF RefreshSession, CallTypes
  <1>5. step = "joined" => at'[l] = at[l]
    BY <1>2, <1>3 DEF OthersStay
  <1>6. CallLocals(c)'
    BY <1>1, <1>2, <1>4, <1>5, RouteFacts DEF CallLocals, Leads
  <1>7. disturbed' \in BOOLEAN /\ cookie' \in Tokens \cup {None}
    BY <1>1, DisturbIsBoolean, TypeParts DEF RefreshSession
  <1>8. QED
    BY <1>3, <1>6, <1>7, TypesAfter

\* The service rotates a token within the bounds.
LEMMA PerformTypes ==
  ASSUME TypeInv, NEW c \in Calls, PerformRefresh(c)
  PROVE  TypeInv'
  <1> DEFINE t == token[c]
  <1>1. /\ CallTypes /\ ServiceTypes /\ cookie \in Tokens \cup {None} /\ disturbed \in BOOLEAN
        /\ CallLocals(c)
    BY TypeParts
  <1>2. t \in Tokens /\ t.turn < MaxRotations
    BY <1>1, RouteFacts DEF CallLocals, PerformRefresh
  <1>3. PICK step \in {"rotated", "failed"} : at' = [at EXCEPT ![c] = step]
    BY DEF PerformRefresh
  <1>4. CallTypes' /\ OthersStay(c)
    BY <1>1, <1>3 DEF CallTypes, PerformRefresh, OthersStay, Started
  <1>5. CallLocals(c)' /\ Leads(c)' /\ token' = token
    BY <1>1, <1>3 DEF CallTypes, PerformRefresh, CallLocals, Leads
  <1>6. ServiceTypes'
    <2>1. CASE Tip(t)
      <3>1. t.family \in 1 .. logins /\ t.turn + 1 \in 0 .. MaxRotations
        <4>1. t.family \in 1 .. logins
          BY <1>1, <2>1 DEF Tip, ServiceTypes
        <4>2. t.turn \in 0 .. MaxRotations
          BY <1>2, TokensAreRecords
        <4>3. QED
          BY <1>2, <4>1, <4>2, BoundsAreNatural
      <3>2. /\ tip' = [tip EXCEPT ![t.family] = t.turn + 1]
            /\ live' = live /\ logins' = logins
        BY <2>1 DEF PerformRefresh
      <3>3. FreshTips'
        BY <1>1, <3>1, <3>2 DEF ServiceTypes, FreshTips, Families
      <3>4. QED
        BY <1>1, <3>1, <3>2, <3>3 DEF ServiceTypes
    <2>2. CASE ~Tip(t)
      BY <1>1, <2>2 DEF PerformRefresh, ServiceTypes, FreshTips
    <2>3. QED
      BY <2>1, <2>2
  <1>7. QED
    BY <1>1, <1>4, <1>5, <1>6, TypesAfter DEF PerformRefresh

\* A rotation that fails is still waited for.
LEMMA RefreshFailsTypes ==
  ASSUME TypeInv, NEW c \in Calls, RefreshFails(c)
  PROVE  TypeInv'
  <1>1. CallTypes /\ ServiceTypes /\ cookie \in Tokens \cup {None} /\ CallLocals(c)
    BY TypeParts
  <1>2. CallTypes' /\ ServiceTypes' /\ OthersStay(c)
    BY <1>1 DEF CallTypes, ServiceTypes, FreshTips, RefreshFails, OthersStay, Started, serviceVars
  <1>3. CallLocals(c)' /\ Leads(c)' /\ token' = token
    BY <1>1 DEF CallTypes, RefreshFails, CallLocals, Leads
  <1>4. QED
    BY <1>1, <1>2, <1>3, TypesAfter, DisturbIsBoolean DEF RefreshFails

\* The calls that go on when the rotation of c settles.
Waiting(c) == {d \in Calls : leader[d] = c /\ at[d] \in {"rotated", "failed", "joined"}}

(***************************************************************************)
(* They are c itself and the calls that joined it, and all have its token. *)
(***************************************************************************)
LEMMA WaitingShareToken ==
  ASSUME TypeInv, NEW c \in Calls, at[c] \in {"rotated", "failed"}
  PROVE  /\ c \in Waiting(c)
         /\ \A d \in Waiting(c) : d # c => at[d] = "joined"
         /\ \A d \in Waiting(c) : token[d] = token[c] /\ route[d] \in Routes
  BY TypeParts DEF Waiting, CallLocals, Leads

\* Where a call that goes on goes, and what it will put into the cookie.
LEMMA SettleMoves ==
  ASSUME TypeInv, NEW c \in Calls, Settle(c)
  PROVE  /\ at[c] \in {"rotated", "failed"}
         /\ \A d \in Calls \ Waiting(c) : at'[d] = at[d] /\ answer'[d] = answer[d]
         /\ \A d \in Waiting(c) :
               /\ at'[d] = IF at[c] = "rotated" /\ route[d] \notin Pages
                             THEN "fetching" ELSE "answering"
               /\ answer'[d] = CookieFor(IF at[c] = "rotated" THEN route[d].answered
                                           ELSE route[d].failed, Successor(token[c]))
         /\ disturbed' = (disturbed \/ (at[c] = "rotated" /\
                            \E d \in Waiting(c) : route[d].answered = "keep"))
  BY DEF Settle, Waiting, DisturbIf

\* What a settled rotation puts into a cookie.
LEMMA SettledAnswers ==
  ASSUME TypeInv, NEW c \in Calls, Settle(c), NEW d \in Waiting(c)
  PROVE  answer'[d] \in {Successor(token[c]), None, Keep} /\ Successor(token[c]) \in Tokens
  <1>1. c \in Calls /\ d \in Calls /\ route[d] \in Routes /\ at[c] # "idle" /\ route[c] \in Routes
    BY SettleMoves, WaitingShareToken DEF Waiting
  <1>2. token[c] \in Tokens /\ token[c].turn < MaxRotations
    BY <1>1, TypeParts, RouteFacts DEF CallLocals
  <1>3. /\ route[d].answered \in {"next", "clear", "keep"}
        /\ route[d].failed \in {"next", "clear", "keep"}
    BY <1>1, RouteFacts
  <1>4. answer'[d] \in {Successor(token[c]), None, Keep}
    <2>1. CASE at[c] = "rotated"
      <3>1. answer'[d] = CookieFor(route[d].answered, Successor(token[c]))
        BY <2>1, SettleMoves
      <3>2. QED
        BY <1>3, <3>1, CookieForKind
    <2>2. CASE at[c] # "rotated"
      <3>1. answer'[d] = CookieFor(route[d].failed, Successor(token[c]))
        BY <2>2, SettleMoves
      <3>2. QED
        BY <1>3, <3>1, CookieForKind
    <2>3. QED
      BY <2>1, <2>2
  <1>5. QED
    BY <1>2, <1>4, SuccessorFollows

\* Nobody is left waiting for a rotation that settled.
LEMMA SettleTypes ==
  ASSUME TypeInv, NEW c \in Calls, Settle(c)
  PROVE  TypeInv'
  <1>1. /\ CallTypes /\ ServiceTypes /\ cookie \in Tokens \cup {None} /\ disturbed \in BOOLEAN
        /\ \A d \in Calls : CallLocals(d)
    BY TypeParts
  <1>2. UNCHANGED <<serviceVars, cookie, route, token, process, leader>>
    BY DEF Settle
  <1>3. disturbed' \in BOOLEAN
    BY SettleMoves
  <1>4. CallTypes'
    <2>1. \A d \in Calls : answer'[d] \in Tokens \cup {None, Keep}
      BY <1>1, SettleMoves, SettledAnswers DEF CallTypes
    <2>2. \A d \in Calls : at'[d] \in {"idle"} \cup Started
      BY <1>1, SettleMoves DEF CallTypes, Started
    <2>3. /\ at' = [d \in Calls |-> at'[d]] /\ answer' = [d \in Calls |-> answer'[d]]
      BY DEF Settle
    <2>4. at' \in [Calls -> {"idle"} \cup Started]
      BY <2>2, <2>3
    <2>5. answer' \in [Calls -> Tokens \cup {None, Keep}]
      BY <2>1, <2>3
    <2>6. QED
      BY <1>1, <1>2, <2>4, <2>5 DEF CallTypes
  <1>5. ServiceTypes'
    BY <1>1, <1>2 DEF serviceVars, ServiceTypes, FreshTips
  <1>6. ASSUME NEW d \in Calls PROVE CallLocals(d)'
    <2>1. CASE d \in Waiting(c)
      <3>1. at'[d] \in {"fetching", "answering"} /\ at[d] \notin {"idle", "sent", "answering"}
        BY <2>1, SettleMoves DEF Waiting
      <3>2. QED
        BY <1>1, <1>2, <3>1 DEF CallLocals, Leads
    <2>2. CASE d \notin Waiting(c)
      <3>1. at'[d] = at[d]
        BY <2>2, SettleMoves
      <3>2. CASE at[d] = "joined"
        <4>1. leader[d] \in Calls /\ Leads(leader[d]) /\ leader[d] # c
          BY <1>1, <2>2, <3>2 DEF CallLocals, Waiting
        <4>2. leader[d] \notin Waiting(c)
          BY <1>1, <4>1 DEF CallLocals, Waiting
        <4>3. at'[leader[d]] = at[leader[d]]
          BY <4>1, <4>2, SettleMoves
        <4>4. QED
          BY <1>1, <1>2, <3>1, <4>1, <4>3 DEF CallLocals, Leads
      <3>3. CASE at[d] # "joined"
        BY <1>1, <1>2, <3>1, <3>3 DEF CallLocals, Leads
      <3>4. QED
        BY <3>2, <3>3
    <2>3. QED
      BY <2>1, <2>2
  <1>7. \A d \in Calls : at'[d] = "joined" => at'[leader'[d]] \in {"asking", "rotated", "failed"}
    BY <1>6 DEF CallLocals, Leads
  <1>8. QED
    BY <1>1, <1>2, <1>3, <1>4, <1>5, <1>6, <1>7 DEF TypeInv, TypeOK, CallTypes, ServiceTypes

\* A login begins the next family.
LEMMA LoginTypes ==
  ASSUME TypeInv, NEW c \in Calls, LoginSession(c)
  PROVE  TypeInv'
  <1>1. /\ CallTypes /\ ServiceTypes /\ cookie \in Tokens \cup {None} /\ disturbed \in BOOLEAN
        /\ CallLocals(c)
    BY TypeParts
  <1>2. logins' \in 1 .. MaxLogins /\ logins' = logins + 1 /\ logins \in Nat
    BY <1>1, BoundsAreNatural DEF LoginSession, ServiceTypes
  <1>3. [family |-> logins', turn |-> 0] \in Tokens
    BY <1>2, BoundsAreNatural DEF Tokens, Families
  <1>4. CallTypes' /\ OthersStay(c) /\ ~Leads(c)
    BY <1>1, <1>3 DEF CallTypes, LoginSession, Respond, OthersStay, Started, Leads
  <1>5. at'[c] = "answering" /\ CallLocals(c)'
    BY <1>1 DEF LoginSession, Respond, CallTypes, CallLocals, Leads
  <1>6. ServiceTypes'
    <2>1. live' = live \cup {logins'} /\ tip' = tip
      BY DEF LoginSession
    <2>2. live' \subseteq 1 .. logins'
      BY <1>1, <1>2, <2>1 DEF ServiceTypes
    <2>3. FreshTips'
      BY <1>1, <1>2, <2>1 DEF ServiceTypes, FreshTips, Families
    <2>4. QED
      BY <1>1, <1>2, <2>1, <2>2, <2>3 DEF ServiceTypes
  <1>7. QED
    BY <1>1, <1>4, <1>5, <1>6, TypesAfter DEF LoginSession

\* Every step keeps the types.
LEMMA TypeStep == TypeInv /\ [Next]_vars => TypeInv'
  <1> SUFFICES ASSUME TypeInv, [Next]_vars PROVE TypeInv'
    OBVIOUS
  <1>types. /\ CallTypes /\ cookie \in Tokens \cup {None} /\ disturbed \in BOOLEAN
            /\ \A c \in Calls : CallLocals(c)
    BY TypeParts
  <1>1. CASE UNCHANGED vars
    BY <1>1 DEF vars, serviceVars, callVars, TypeInv, TypeOK, FreshTips, CallLocals, Leads
  <1>2. ASSUME NEW c \in Calls, Receive(c) \/ LoseResponse(c) PROVE TypeInv'
    <2>1. disturbed' \in BOOLEAN
      BY <1>2, DisturbIsBoolean DEF Receive, LoseResponse
    <2>2. answer[c] \in Tokens \cup {None, Keep}
      BY <1>types DEF CallTypes
    <2>3. cookie' = cookie \/ (answer[c] # Keep /\ cookie' = answer[c])
      BY <1>2 DEF Receive, LoseResponse
    <2>4. cookie' \in Tokens \cup {None}
      BY <1>types, <2>2, <2>3
    <2>5. QED
      BY <1>2, <2>1, <2>4, ForgetTypes DEF Receive, LoseResponse
  <1>3. ASSUME NEW c \in Calls, RejectBody(c) \/ LoginFails(c) PROVE TypeInv'
    BY <1>3, <1>types, RespondTypes DEF RejectBody, LoginFails, serviceVars
  <1>4. ASSUME NEW c \in Calls, AuthenticatedRequest(c) \/ AuthenticatedDeletion(c)
        PROVE  TypeInv'
    <2>1. answer[c] \in Tokens \cup {None, Keep}
      BY <1>types DEF CallTypes
    <2>2. disturbed' \in BOOLEAN
      BY <1>4, <1>types DEF AuthenticatedRequest, AuthenticatedDeletion, DisturbIf
    <2>3. /\ live' \subseteq live /\ at[c] = "fetching" /\ Respond(c, answer[c])
          /\ UNCHANGED <<tip, logins, cookie, route, token, process, leader>>
      BY <1>4 DEF AuthenticatedRequest, AuthenticatedDeletion, serviceVars
    <2>4. QED
      BY <2>1, <2>2, <2>3, RespondTypes
  <1>5. ASSUME NEW c \in Calls, RequestFails(c) PROVE TypeInv'
    <2>1. route[c] \in Routes
      BY <1>5, <1>types DEF RequestFails, CallLocals
    <2>2. CookieFor(route[c].failed, None) \in Tokens \cup {None, Keep}
      BY <2>1, RouteFacts, CookieForKind
    <2>3. disturbed' \in BOOLEAN
      BY <1>5, DisturbIsBoolean DEF RequestFails
    <2>4. QED
      BY <1>5, <2>2, <2>3, RespondTypes DEF RequestFails, serviceVars
  <1>6. ASSUME NEW c \in Calls, LogoutSession(c) \/ LogoutFails(c) PROVE TypeInv'
    <2>1. disturbed' \in BOOLEAN
      BY <1>6, DisturbIsBoolean DEF LogoutSession, LogoutFails
    <2>2. live' \subseteq live
      BY <1>6 DEF LogoutSession, LogoutFails, serviceVars
    <2>3. QED
      BY <1>6, <2>1, <2>2, RespondTypes DEF LogoutSession, LogoutFails, serviceVars
  <1>7. QED
    BY <1>1, <1>2, <1>3, <1>4, <1>5, <1>6, SendTypes, RefreshTypes, PerformTypes,
       RefreshFailsTypes, SettleTypes, LoginTypes DEF Next

\* The initial state has its types.
LEMMA SessionTypesInit == Init => TypeInv
  <1>1. Init => CallTypes /\ \A c \in Calls : at[c] = "idle" /\ token[c] = None
    BY DEF Init, CallTypes, Started
  <1>2. Init => ServiceTypes /\ FreshTips
    BY BoundsAreNatural DEF Init, ServiceTypes, FreshTips
  <1>3. Init => \A c \in Calls : CallLocals(c)
    BY <1>1 DEF CallLocals, Leads
  <1>4. Init => cookie \in Tokens \cup {None} /\ disturbed \in BOOLEAN
    BY DEF Init
  <1>5. QED
    BY <1>1, <1>2, <1>3, <1>4 DEF TypeInv, TypeOK, CallTypes, ServiceTypes

\* Every variable of the browser's session keeps a value of its kind, and a
\* call that waits for a rotation never waits for one that has settled.
THEOREM SessionTypes == Spec => []TypeOK
  <1>1. TypeInv => TypeOK
    BY DEF TypeInv
  <1>2. QED
    BY <1>1, SessionTypesInit, TypeStep, PTL DEF Spec

-----------------------------------------------------------------------------
(* While a call begins or ends a session *)

\* The call that begins or ends a session goes on, alone.
LEMMA EndingGoesOn ==
  ASSUME NEW e \in Calls, Ends(e)', EndingOK(e)'
  PROVE  QuietInv'
  BY DEF QuietInv, EndingOK, Alone, Ends

\* The call is over, and the browser is signed out or has its session.
LEMMA EverybodyIsIdle ==
  ASSUME TypeInv', Idle',
         \/ cookie' = None /\ live' = {}
         \/ cookie' # None /\ live' = {cookie'.family} /\ tip'[cookie'.family] = cookie'.turn
  PROVE  QuietInv'
  <1>1. cookie' # None => cookie'.turn \in Nat
    BY TokensAreRecords, BoundsAreNatural DEF TypeInv, TypeOK
  <1>2. cookie' # None => cookie'.turn # cookie'.turn + 1
    BY <1>1
  <1>3. \A c \in Calls : ~Ends(c)' /\ ~Leads(c)'
    BY DEF Idle, Ends, Leads
  <1>4. cookie' # None => SessionOK'
    BY <1>2, <1>3 DEF Idle, SessionOK, InSession
  <1>5. QED
    BY <1>3, <1>4 DEF QuietInv

\* A call that stays open keeps its route; the others stay idle.
LEMMA EndingStays ==
  ASSUME TypeInv, NEW e \in Calls, Ends(e), Alone(e), OthersStay(e),
         at'[e] # "idle", route'[e] = route[e]
  PROVE  Ends(e)' /\ Alone(e)'
  BY DEF Ends, EndsSession, Alone, OthersStay

\* Another call would disturb it: nobody else moves.
LEMMA NobodyElseMoves ==
  ASSUME TypeInv, ~disturbed', NEW e \in Calls, Ends(e), Alone(e), NEW c \in Calls, c # e
  PROVE  /\ \A r : ~Send(c, r)
         /\ ~SendSignIn(c) /\ at[c] = "idle"
  BY DEF Alone, Ends, Send, SendSignIn, DisturbIf, Crosses

\* A call that is not open is only ever sent.
LEMMA IdleIsOnlySent ==
  ASSUME NEW c \in Calls, at[c] = "idle"
  PROVE  /\ ~Receive(c) /\ ~LoseResponse(c) /\ ~RejectBody(c) /\ ~PerformRefresh(c)
         /\ \A p \in Processes : ~RefreshSession(c, p)
         /\ ~RefreshFails(c) /\ ~Settle(c) /\ ~AuthenticatedRequest(c)
         /\ ~AuthenticatedDeletion(c) /\ ~RequestFails(c) /\ ~LoginSession(c) /\ ~LoginFails(c)
         /\ ~LogoutSession(c) /\ ~LogoutFails(c)
  <1>1. ~Receive(c) /\ ~LoseResponse(c) /\ ~RejectBody(c) /\ ~PerformRefresh(c)
    BY DEF Receive, LoseResponse, RejectBody, PerformRefresh
  <1>2. /\ \A p \in Processes : ~RefreshSession(c, p)
        /\ ~RefreshFails(c) /\ ~Settle(c) /\ ~AuthenticatedRequest(c)
    BY DEF RefreshSession, RefreshFails, Settle, AuthenticatedRequest
  <1>3. /\ ~AuthenticatedDeletion(c) /\ ~RequestFails(c) /\ ~LoginSession(c) /\ ~LoginFails(c)
        /\ ~LogoutSession(c) /\ ~LogoutFails(c)
    BY DEF AuthenticatedDeletion, RequestFails, LoginSession, LoginFails, LogoutSession, LogoutFails
  <1>4. QED
    BY <1>1, <1>2, <1>3

\* The answer of such a call leaves the browser with its session, or without one.
LEMMA ReceiveEnding ==
  ASSUME TypeInv, TypeInv', NEW e \in Calls, Ends(e), EndingOK(e), Receive(e)
  PROVE  QuietInv'
  <1>1. CallTypes /\ CallLocals(e) /\ at[e] = "answering"
    BY TypeParts DEF Receive
  <1>2. Idle'
    BY <1>1 DEF Receive, Forget, CallTypes, EndingOK, Alone, Idle
  <1>3. UNCHANGED serviceVars /\ cookie' = IF answer[e] = Keep THEN cookie ELSE answer[e]
    BY DEF Receive
  <1>4. CASE route[e] = SignIn
    <2>1. SignInOK(e)
      BY <1>4 DEF EndingOK
    <2>2. CASE answer[e] = Keep /\ live = {}
      BY <1>2, <1>3, <2>1, <2>2, EverybodyIsIdle DEF SignInOK, serviceVars
    <2>3. CASE answer[e] \in Tokens /\ Tip(answer[e]) /\ live = {answer[e].family}
      <3>1. cookie' = answer[e] /\ cookie' # None /\ UNCHANGED <<live, tip>>
        BY <1>3, <2>3, TokensAreRecords DEF serviceVars
      <3>2. QED
        BY <1>2, <2>3, <3>1, EverybodyIsIdle DEF Tip
    <2>4. QED
      BY <1>1, <2>1, <2>2, <2>3 DEF SignInOK
  <1>5. ASSUME route[e] = SignOut \/ route[e] = DeleteAccount PROVE QuietInv'
    <2>1. answer[e] = None /\ live = {}
      BY <1>1, <1>5 DEF EndingOK, SignOutOK, DeletionOK
    <2>2. cookie' = None /\ live' = {}
      BY <1>3, <2>1, TokensAreRecords DEF serviceVars
    <2>3. QED
      BY <1>2, <2>2, EverybodyIsIdle
  <1>6. QED
    BY <1>4, <1>5 DEF Ends, EndsSession

\* The three kinds of calls that begin or end a session differ.
LEMMA EndingRoutes ==
  ASSUME NEW e \in Calls, Ends(e)
  PROVE  /\ route[e] \in {SignIn, SignOut, DeleteAccount}
         /\ route[e] \in Routes => route[e] = DeleteAccount
         /\ SignIn # SignOut /\ SignIn # DeleteAccount /\ SignOut # DeleteAccount
  BY RouteFacts DEF Ends, EndsSession

\* The service answers a login.
LEMMA SignInGoesOn ==
  ASSUME TypeInv, NEW e \in Calls, Ends(e), EndingOK(e), LoginSession(e) \/ LoginFails(e)
  PROVE  QuietInv'
  <1>1. CallTypes /\ ServiceTypes
    BY TypeParts
  <1>2. route[e] = SignIn /\ at[e] = "sent" /\ cookie = None /\ live = {}
    BY DEF LoginSession, LoginFails, EndingOK, SignInOK
  <1>3. /\ OthersStay(e) /\ at'[e] = "answering" /\ route' = route /\ cookie' = cookie
    BY <1>1 DEF LoginSession, LoginFails, Respond, OthersStay, CallTypes
  <1>4. SignInOK(e)'
    <2>1. CASE LoginFails(e)
      BY <1>1, <1>2, <1>3, <2>1 DEF LoginFails, Respond, CallTypes, serviceVars, SignInOK
    <2>2. CASE LoginSession(e)
      <3>1. /\ answer'[e] = [family |-> logins', turn |-> 0]
            /\ live' = {logins'} /\ tip' = tip
        BY <1>1, <1>2, <2>2 DEF LoginSession, Respond, CallTypes
      <3>2. logins' \in Families /\ logins' > logins
        BY <1>1, <2>2, BoundsAreNatural DEF LoginSession, ServiceTypes, Families
      <3>3. tip[logins'] = 0
        BY <1>1, <3>2 DEF ServiceTypes, FreshTips
      <3>4. answer'[e] \in Tokens
        BY <3>1, <3>2, BoundsAreNatural DEF Tokens
      <3>5. answer'[e].family = logins' /\ answer'[e].turn = 0
        BY <3>1
      <3>6. Tip(answer[e])'
        BY <3>1, <3>3, <3>5 DEF Tip
      <3>7. QED
        BY <1>2, <1>3, <3>1, <3>4, <3>5, <3>6 DEF SignInOK
    <2>3. QED
      BY <2>1, <2>2
  <1>5. Ends(e)' /\ Alone(e)'
    BY <1>3, EndingStays DEF EndingOK
  <1>6. EndingOK(e)'
    BY <1>2, <1>3, <1>4, <1>5, EndingRoutes DEF EndingOK
  <1>7. QED
    BY <1>5, <1>6, EndingGoesOn

\* The service ends the family that is signed out.
LEMMA SignOutGoesOn ==
  ASSUME TypeInv, ~disturbed', NEW e \in Calls, Ends(e), EndingOK(e), LogoutSession(e)
  PROVE  QuietInv'
  <1>1. CallTypes
    BY TypeParts
  <1>2. /\ route[e] = SignOut /\ at[e] = "sent"
        /\ cookie # None /\ token[e] = cookie /\ Tip(cookie) /\ live = {cookie.family}
    BY DEF LogoutSession, EndingOK, SignOutOK, InSession
  <1>3. /\ OthersStay(e) /\ at'[e] = "answering" /\ answer'[e] = None
        /\ route' = route /\ cookie' = cookie
    BY <1>1 DEF LogoutSession, Respond, OthersStay, CallTypes
  <1>4. live' = {}
    BY <1>2 DEF LogoutSession
  <1>5. Ends(e)' /\ Alone(e)'
    BY <1>3, EndingStays DEF EndingOK
  <1>6. EndingOK(e)'
    BY <1>2, <1>3, <1>4, <1>5, EndingRoutes DEF EndingOK, SignOutOK
  <1>7. QED
    BY <1>5, <1>6, EndingGoesOn

\* A deletion takes every step of a call alone.
LEMMA DeletionGoesOn ==
  ASSUME TypeInv, ~disturbed', NEW e \in Calls, Ends(e), EndingOK(e), route[e] = DeleteAccount,
         \/ \E p \in Processes : RefreshSession(e, p)
         \/ PerformRefresh(e) \/ Settle(e) \/ AuthenticatedDeletion(e)
  PROVE  QuietInv'
  <1>1. CallTypes /\ CallLocals(e) /\ DeletionOK(e) /\ Alone(e)
    BY TypeParts DEF EndingOK
  <1>2. SUFFICES OthersStay(e) /\ at'[e] # "idle" /\ route' = route /\ DeletionOK(e)'
    <2>1. Ends(e)' /\ Alone(e)'
      BY <1>1, <1>2, EndingStays
    <2>2. EndingOK(e)'
      BY <1>2, <2>1, EndingRoutes DEF EndingOK
    <2>3. QED
      BY <2>1, <2>2, EndingGoesOn
  <1>3. ASSUME NEW p \in Processes, RefreshSession(e, p)
        PROVE  OthersStay(e) /\ at'[e] # "idle" /\ route' = route /\ DeletionOK(e)'
    <2>1. InFlight(p, token[e]) = {}
      BY <1>1, <1>3 DEF InFlight, Alone, RefreshSession
    <2>2. /\ at' = [at EXCEPT ![e] = "asking"]
          /\ UNCHANGED <<serviceVars, cookie, route, token, answer>>
          /\ at[e] = "sent"
      BY <1>3, <2>1 DEF RefreshSession
    <2>3. OthersStay(e) /\ at'[e] = "asking"
      BY <1>1, <1>3, <2>1, <2>2 DEF RefreshSession, OthersStay, CallTypes
    <2>4. QED
      BY <1>1, <2>2, <2>3 DEF DeletionOK, InSession, Tip, serviceVars
  <1>4. CASE PerformRefresh(e)
    <2>1. at[e] = "asking" /\ token[e] = cookie /\ Tip(cookie) /\ InSession /\ cookie # None
      BY <1>1, <1>4 DEF PerformRefresh, DeletionOK
    <2>2. /\ at' = [at EXCEPT ![e] = "rotated"]
          /\ UNCHANGED <<live, cookie, route, token, process, leader, answer>>
      BY <1>4, <2>1 DEF PerformRefresh
    <2>3. OthersStay(e) /\ at'[e] = "rotated"
      BY <1>1, <2>2 DEF OthersStay, CallTypes
    <2>4. QED
      BY <2>1, <2>2, <2>3 DEF DeletionOK, InSession
  <1>5. CASE Settle(e)
    <2>1. at[e] = "rotated" /\ cookie # None
      BY <1>1, <1>5, SettleMoves DEF DeletionOK
    <2>2. Waiting(e) = {e}
      BY <1>1, <2>1, WaitingShareToken DEF Alone, Waiting
    <2>3. at'[e] = "fetching"
      BY <1>5, <2>1, <2>2, SettleMoves, RouteFacts
    <2>4. answer'[e] = None
      BY <1>5, <2>1, <2>2, SettleMoves, RouteFacts, CookieForKind
    <2>5. UNCHANGED <<cookie, route, token, process, leader>>
      BY <1>5 DEF Settle
    <2>6. OthersStay(e)
      BY <1>5, <2>2, <2>5, SettleMoves DEF OthersStay
    <2>7. QED
      BY <2>1, <2>3, <2>4, <2>5, <2>6 DEF DeletionOK
  <1>6. CASE AuthenticatedDeletion(e)
    <2>1. answer[e] = None /\ cookie # None
      BY <1>1, <1>6 DEF AuthenticatedDeletion, DeletionOK
    <2>2. live' = {}
      BY <1>6 DEF AuthenticatedDeletion, DisturbIf
    <2>3. /\ at'[e] = "answering" /\ answer'[e] = None /\ OthersStay(e)
          /\ UNCHANGED <<cookie, route>>
      BY <1>1, <1>6, <2>1 DEF AuthenticatedDeletion, Respond, OthersStay, CallTypes
    <2>4. QED
      BY <2>1, <2>2, <2>3 DEF DeletionOK
  <1>7. QED
    BY <1>3, <1>4, <1>5, <1>6

\* While a call begins or ends a session, every step keeps the invariant.
LEMMA EndingStep ==
  ASSUME TypeInv, TypeInv', QuietInv, Next, ~disturbed', NEW e \in Calls, Ends(e)
  PROVE  QuietInv'
  <1>1. EndingOK(e) /\ Alone(e) /\ CallLocals(e) /\ at[e] # "idle"
    BY TypeParts DEF QuietInv, EndingOK, Ends
  <1>2. \A c \in Calls \ {e} : at[c] = "idle" /\ ~SendSignIn(c) /\ \A r : ~Send(c, r)
    BY <1>1, NobodyElseMoves
  <1>3. /\ ~LoseResponse(e) /\ ~RefreshFails(e) /\ ~RequestFails(e) /\ ~LogoutFails(e)
        /\ ~SendSignIn(e) /\ \A r : ~Send(e, r)
    BY <1>1 DEF LoseResponse, RefreshFails, RequestFails, LogoutFails, DisturbIf, Send, SendSignIn
  <1>4. ~RejectBody(e)
    BY EndingRoutes, RouteFacts DEF RejectBody
  <1>5. ~AuthenticatedRequest(e)
    BY <1>1, EndingRoutes DEF AuthenticatedRequest, CallLocals
  <1>6. ASSUME \/ \E p \in Processes : RefreshSession(e, p)
               \/ PerformRefresh(e) \/ Settle(e) \/ AuthenticatedDeletion(e)
        PROVE  QuietInv'
    <2>1. route[e] \in Routes
      BY <1>1, <1>6, RouteFacts DEF RefreshSession, PerformRefresh, Settle, AuthenticatedDeletion,
                                    CallLocals
    <2>2. QED
      BY <1>1, <1>6, <2>1, EndingRoutes, DeletionGoesOn
  <1>7. \A c \in Calls \ {e} : /\ ~LoseResponse(c) /\ ~RejectBody(c) /\ ~Receive(c)
                               /\ \A p \in Processes : ~RefreshSession(c, p)
                               /\ ~PerformRefresh(c) /\ ~RefreshFails(c) /\ ~Settle(c)
                               /\ ~AuthenticatedRequest(c) /\ ~AuthenticatedDeletion(c)
                               /\ ~RequestFails(c) /\ ~LoginSession(c) /\ ~LoginFails(c)
                               /\ ~LogoutSession(c) /\ ~LogoutFails(c)
    BY <1>2, IdleIsOnlySent
  <1>8. \/ Receive(e) \/ LoginSession(e) \/ LoginFails(e) \/ LogoutSession(e)
        \/ \E p \in Processes : RefreshSession(e, p)
        \/ PerformRefresh(e) \/ Settle(e) \/ AuthenticatedDeletion(e)
    BY <1>2, <1>3, <1>4, <1>5, <1>7 DEF Next
  <1>9. QED
    BY <1>1, <1>6, <1>8, ReceiveEnding, SignInGoesOn, SignOutGoesOn

-----------------------------------------------------------------------------
(* While the browser has its session *)

OneProcess == \A p, q \in Processes : p = q

\* Nobody begins or ends a session.
Steady == \A c \in Calls : ~Ends(c)

\* Turns can be compared.
LEMMA TurnsAreNatural ==
  ASSUME TypeInv, cookie # None
  PROVE  /\ cookie \in Tokens /\ cookie.turn \in Nat /\ cookie.family \in Families
         /\ tip[cookie.family] \in 0 .. MaxRotations
         /\ \A c \in Calls : token[c] \in Tokens => token[c].turn \in Nat
         /\ \A c \in Calls : answer[c] \in Tokens => answer[c].turn \in Nat
  BY TypeParts, TokensAreRecords, BoundsAreNatural DEF ServiceTypes

\* An open call has a route of the steady kind, and a token that has a successor.
LEMMA SteadyCall ==
  ASSUME TypeInv, Steady, NEW c \in Calls, at[c] # "idle"
  PROVE  /\ route[c] \in Routes /\ route[c] # DeleteAccount /\ ~EndsSession(route[c])
         /\ token[c] \in Tokens /\ token[c].turn < MaxRotations
  BY TypeParts, RouteFacts DEF Steady, Ends, EndsSession, CallLocals

\* A step of one call that leaves the service and the cookie alone.
LEMMA OneCallSteps ==
  ASSUME TypeInv, SessionOK, cookie # None, Steady, NEW c \in Calls, OthersStay(c),
         UNCHANGED <<tip, live, cookie>>, ~Ends(c)',
         at[c] # "rotated", at'[c] # "rotated",
         at'[c] # "idle" => CallOK(c)',
         Carries(c) => Carries(c)',
         Leads(c)' => \A d \in Calls : Leads(d) => d = c
  PROVE  QuietInv'
  <1>1. Steady'
    BY DEF Steady, Ends, OthersStay
  <1>2. \A d \in Calls : Carries(d) => Carries(d)'
    BY DEF Carries, OthersStay
  <1>3. \A d \in Calls : at'[d] = "rotated" <=> at[d] = "rotated"
    BY DEF OthersStay
  <1>4. ASSUME NEW d \in Calls \ {c}, at'[d] # "idle" PROVE CallOK(d)'
    BY <1>3, <1>4 DEF SessionOK, CallOK, OthersStay
  <1>5. \A d, b \in Calls : Leads(d)' /\ Leads(b)' => d = b
    BY DEF SessionOK, OthersStay, Leads
  <1>6. SessionOK'
    BY <1>2, <1>4, <1>5 DEF SessionOK, InSession
  <1>7. QED
    BY <1>1, <1>6 DEF QuietInv, Steady

\* A call sent between others takes the cookie with it; one that ends the session is
\* sent when nobody else is under way.
LEMMA SendSteady ==
  ASSUME TypeInv, QuietInv, Steady, ~disturbed', NEW c \in Calls,
         NEW r \in Routes \cup {SignOut}, Send(c, r)
  PROVE  QuietInv'
  <1>1. CallTypes
    BY TypeParts
  <1>2. /\ at[c] = "idle" /\ cookie # None /\ UNCHANGED <<tip, live, cookie>> /\ SessionOK
        /\ OthersStay(c) /\ at'[c] = "sent" /\ route'[c] = r /\ token'[c] = cookie
    BY <1>1 DEF Send, serviceVars, QuietInv, Steady, CallTypes, OthersStay
  <1>3. CASE EndsSession(r)
    <2>1. Idle
      BY <1>3 DEF Send, DisturbIf, Crosses, Idle
    <2>2. Tip(cookie) /\ InSession
      BY <1>2, <2>1 DEF Idle, SessionOK, InSession, Carries, Tip
    <2>3. Ends(c)' /\ Alone(c)'
      BY <1>2, <1>3, <2>1 DEF Ends, EndsSession, Alone, OthersStay, Idle
    <2>4. (r = SignOut \/ r = DeleteAccount) /\ r # SignIn
      BY <1>3, RouteFacts DEF EndsSession
    <2>5. Tip(cookie)' /\ InSession'
      BY <1>2, <2>2 DEF Tip, InSession
    <2>6. EndingOK(c)'
      BY <1>2, <2>3, <2>4, <2>5 DEF EndingOK, SignOutOK, DeletionOK
    <2>7. QED
      BY <2>3, <2>6, EndingGoesOn
  <1>4. CASE ~EndsSession(r)
    <2>1. ~Ends(c)' /\ ~Leads(c)' /\ ~Carries(c)
      BY <1>2, <1>4 DEF Ends, EndsSession, Leads, Carries
    <2>2. cookie.turn \in Nat
      BY <1>2, TurnsAreNatural
    <2>3. CallOK(c)'
      BY <1>2, <2>2 DEF CallOK
    <2>4. QED
      BY <1>2, <2>1, <2>3, OneCallSteps
  <1>5. QED
    BY <1>3, <1>4

\* A login is sent by a browser without a cookie, and alone.
LEMMA SendSignInSteady ==
  ASSUME TypeInv, QuietInv, Steady, ~disturbed', NEW c \in Calls, SendSignIn(c)
  PROVE  QuietInv'
  <1>1. CallTypes /\ CallLocals(c)
    BY TypeParts
  <1>2. cookie = None /\ Idle /\ live = {}
    BY DEF SendSignIn, DisturbIf, QuietInv, Steady
  <1>3. /\ OthersStay(c) /\ at'[c] = "sent" /\ route'[c] = SignIn /\ UNCHANGED <<live, cookie>>
    BY <1>1 DEF SendSignIn, CallTypes, OthersStay, serviceVars
  <1>4. Ends(c)' /\ Alone(c)'
    BY <1>2, <1>3 DEF Ends, EndsSession, Alone, OthersStay, Idle
  <1>5. EndingOK(c)'
    BY <1>2, <1>3, <1>4, RouteFacts DEF EndingOK, SignInOK
  <1>6. QED
    BY <1>4, <1>5, EndingGoesOn

\* A call that is turned away, or answered, keeps what it has.
LEMMA RespondSteady ==
  ASSUME TypeInv, QuietInv, Steady, NEW c \in Calls, RejectBody(c) \/ AuthenticatedRequest(c)
  PROVE  QuietInv'
  <1>1. CallTypes /\ at[c] # "idle"
    BY TypeParts DEF RejectBody, AuthenticatedRequest
  <1>2. cookie # None /\ SessionOK /\ CallOK(c)
    BY <1>1 DEF QuietInv, Steady, Idle, SessionOK
  <1>3. /\ OthersStay(c) /\ UNCHANGED <<tip, live, cookie, token, route>>
        /\ at'[c] = "answering" /\ at[c] # "rotated"
    BY <1>1 DEF RejectBody, AuthenticatedRequest, Respond, CallTypes, OthersStay, serviceVars
  <1>4. ~Ends(c)' /\ ~Leads(c)'
    BY <1>1, <1>3, SteadyCall DEF Ends, EndsSession, Leads
  <1>5. \A d \in Calls : at'[d] = "rotated" => at[d] = "rotated"
    BY <1>3 DEF OthersStay
  <1>6. CASE RejectBody(c)
    <2>1. answer'[c] = Keep /\ at[c] = "sent"
      BY <1>1, <1>6 DEF RejectBody, Respond, CallTypes
    <2>2. CallOK(c)' /\ ~Carries(c)
      BY <1>2, <1>3, <2>1 DEF CallOK, Carries
    <2>3. QED
      BY <1>2, <1>3, <1>4, <2>2, OneCallSteps
  <1>7. CASE AuthenticatedRequest(c)
    <2>1. answer'[c] = answer[c] /\ at[c] = "fetching"
      BY <1>1, <1>7 DEF AuthenticatedRequest, Respond, CallTypes
    <2>2. CallOK(c)'
      BY <1>2, <1>3, <1>5, <2>1 DEF CallOK
    <2>3. Carries(c) => Carries(c)'
      BY <1>3, <2>1 DEF Carries
    <2>4. QED
      BY <1>2, <1>3, <1>4, <2>2, <2>3, OneCallSteps
  <1>8. QED
    BY <1>6, <1>7

(***************************************************************************)
(* A rotation that begins, undisturbed, is of the last token, which is     *)
(* then the cookie; in one process no other rotation of it is under way.   *)
(***************************************************************************)
LEMMA RefreshSteady ==
  ASSUME OneProcess, TypeInv, QuietInv, Steady, ~disturbed', NEW c \in Calls,
         NEW p \in Processes, RefreshSession(c, p)
  PROVE  QuietInv'
  <1>1. CallTypes /\ at[c] = "sent" /\ \A d \in Calls : CallLocals(d)
    BY TypeParts DEF RefreshSession
  <1>2. cookie # None /\ SessionOK /\ CallOK(c)
    BY <1>1 DEF QuietInv, Steady, Idle, SessionOK
  <1>3. OthersStay(c) /\ UNCHANGED <<tip, live, cookie, token, route, answer>>
    <2>1. CASE InFlight(p, token[c]) = {}
      BY <1>1, <2>1 DEF RefreshSession, CallTypes, OthersStay, serviceVars
    <2>2. CASE InFlight(p, token[c]) # {}
      BY <1>1, <2>2 DEF RefreshSession, CallTypes, OthersStay, serviceVars
    <2>3. QED
      BY <2>1, <2>2
  <1>4. ~Ends(c)' /\ ~Carries(c)
    BY <1>1, <1>3, SteadyCall DEF Ends, Carries, EndsSession
  <1>5. CASE InFlight(p, token[c]) = {}
    <2>1. at'[c] = "asking" /\ Tip(token[c])
      BY <1>1, <1>5 DEF RefreshSession, DisturbIf, CallTypes
    <2>2. token[c] = cookie /\ tip[cookie.family] = cookie.turn
      <3>1. /\ token[c] \in Tokens /\ token[c].turn \in Nat /\ cookie \in Tokens
            /\ cookie.turn \in Nat
        BY <1>1, <1>2, SteadyCall, TurnsAreNatural
      <3>2. token[c].family = cookie.family /\ token[c].turn <= cookie.turn
        BY <1>2 DEF CallOK
      <3>3. token[c].turn = tip[cookie.family] /\ tip[cookie.family] >= cookie.turn
        BY <1>2, <2>1, <3>1, <3>2 DEF Tip, SessionOK
      <3>4. token[c].turn = cookie.turn
        BY <3>1, <3>2, <3>3
      <3>5. QED
        BY <3>1, <3>2, <3>3, <3>4, TokensAreRecords
    <2>3. ASSUME NEW d \in Calls, Leads(d) PROVE FALSE
      <3>1. CallOK(d) /\ process[d] \in Processes /\ at[d] # "failed"
        BY <1>1, <1>2, <2>3 DEF SessionOK, CallOK, CallLocals, Leads
      <3>2. token[d] = token[c] /\ process[d] = p
        BY <2>2, <2>3, <3>1 DEF CallOK, Leads, OneProcess
      <3>3. QED
        BY <1>5, <2>3, <3>2 DEF InFlight, Leads
    <2>4. CallOK(c)'
      BY <1>2, <1>3, <2>1, <2>2 DEF CallOK
    <2>5. QED
      BY <1>1, <1>2, <1>3, <1>4, <2>1, <2>3, <2>4, OneCallSteps
  <1>6. CASE InFlight(p, token[c]) # {}
    <2>1. at'[c] = "joined"
      BY <1>1, <1>6 DEF RefreshSession, CallTypes
    <2>2. CallOK(c)' /\ ~Leads(c)'
      BY <1>2, <1>3, <2>1 DEF CallOK, Leads
    <2>3. QED
      BY <1>1, <1>2, <1>3, <1>4, <2>1, <2>2, OneCallSteps
  <1>7. QED
    BY <1>5, <1>6

\* The one rotation under way is of the cookie, and the service grants it.
LEMMA PerformSteady ==
  ASSUME TypeInv, QuietInv, Steady, NEW c \in Calls, PerformRefresh(c)
  PROVE  QuietInv'
  <1>1. CallTypes /\ ServiceTypes /\ at[c] = "asking"
    BY TypeParts DEF PerformRefresh
  <1>2. cookie # None /\ SessionOK /\ CallOK(c)
    BY <1>1 DEF QuietInv, Steady, Idle, SessionOK
  <1>3. cookie.turn \in Nat /\ cookie.family \in Families
    BY <1>2, TurnsAreNatural
  <1>4. token[c] = cookie /\ tip[cookie.family] = cookie.turn /\ Tip(cookie)
    BY <1>1, <1>2 DEF CallOK, SessionOK, InSession, Tip
  <1>5. /\ tip' = [tip EXCEPT ![cookie.family] = cookie.turn + 1]
        /\ at' = [at EXCEPT ![c] = "rotated"]
        /\ UNCHANGED <<live, cookie, route, token, process, leader, answer>>
    BY <1>4 DEF PerformRefresh
  <1>6. tip'[cookie.family] = cookie.turn + 1
    BY <1>1, <1>3, <1>5 DEF ServiceTypes
  <1>7. at'[c] = "rotated" /\ \A d \in Calls \ {c} : at'[d] = at[d] /\ ~Leads(d)
    BY <1>1, <1>2, <1>5 DEF CallTypes, SessionOK, Leads
  <1>8. Steady'
    BY <1>1, <1>5, <1>7 DEF Steady, Ends, EndsSession
  <1>9. ASSUME NEW d \in Calls, at'[d] # "idle" PROVE CallOK(d)'
    <2>1. CASE d = c
      BY <1>2, <1>4, <1>5, <1>6, <1>7, <2>1 DEF CallOK
    <2>2. CASE d # c
      <3>1. CallOK(d) /\ at'[d] = at[d] /\ at[d] \notin {"asking", "rotated", "failed"}
        BY <1>2, <1>7, <1>9, <2>2 DEF SessionOK, Leads
      <3>2. at[d] \in {"fetching", "answering"} /\ answer[d] # Keep =>
                answer[d] = Successor(token[d]) /\ answer[d].turn <= cookie.turn
        BY <1>4, <3>1 DEF CallOK
      <3>3. at[d] \in {"fetching", "answering"} /\ answer[d] # Keep => answer[d].turn \in Nat
        <4>1. at[d] \in {"fetching", "answering"} =>
                  token[d] \in Tokens /\ token[d].turn < MaxRotations
          BY SteadyCall
        <4>2. QED
          BY <3>2, <4>1, SuccessorFollows, TokensAreRecords
      <3>4. \A n \in Nat : n <= cookie.turn => n <= cookie.turn + 1
        BY <1>3
      <3>5. QED
        BY <1>5, <1>6, <3>1, <3>2, <3>3, <3>4 DEF CallOK
    <2>3. QED
      BY <2>1, <2>2
  <1>10. \A d, b \in Calls : Leads(d)' /\ Leads(b)' => d = b
    BY <1>7 DEF Leads
  <1>11. SessionOK'
    BY <1>2, <1>5, <1>6, <1>7, <1>9, <1>10 DEF SessionOK, InSession, Carries
  <1>12. QED
    BY <1>2, <1>5, <1>8, <1>11 DEF QuietInv, Steady

\* Every call that waited for the rotation carries the next token.
LEMMA SettleSteady ==
  ASSUME TypeInv, QuietInv, Steady, ~disturbed', NEW c \in Calls, Settle(c)
  PROVE  QuietInv'
  <1>1. CallTypes /\ at[c] \in {"rotated", "failed"}
    BY TypeParts, SettleMoves
  <1>2. cookie # None /\ SessionOK /\ CallOK(c)
    BY <1>1 DEF QuietInv, Steady, Idle, SessionOK
  <1>3. /\ at[c] = "rotated" /\ token[c] = cookie /\ tip[cookie.family] = cookie.turn + 1
        /\ cookie.turn \in Nat /\ cookie \in Tokens
    BY <1>1, <1>2, TurnsAreNatural DEF CallOK
  <1>4. UNCHANGED <<tip, live, cookie, route, token, process, leader>>
    BY DEF Settle, serviceVars
  <1>5. ASSUME NEW d \in Waiting(c)
        PROVE  /\ d \in Calls /\ at'[d] \in {"fetching", "answering"} /\ token[d] = cookie
               /\ at[d] # "idle" /\ answer'[d] = Successor(cookie)
    <2>1. d \in Calls /\ at[d] # "idle" /\ token[d] = cookie
      BY <1>1, <1>3, WaitingShareToken DEF Waiting
    <2>2. route[d] \in Routes /\ route[d] # DeleteAccount
      BY <2>1, SteadyCall
    <2>3. route[d].answered = "next"
      BY <1>3, <2>2, SettleMoves, RouteFacts
    <2>4. answer'[d] = CookieFor(route[d].answered, Successor(cookie))
      BY <1>3, SettleMoves
    <2>5. answer'[d] = Successor(cookie)
      BY <2>3, <2>4, CookieForKind
    <2>6. at'[d] \in {"fetching", "answering"}
      BY SettleMoves
    <2>7. QED
      BY <2>1, <2>5, <2>6
  <1>6. Successor(cookie).turn = cookie.turn + 1 /\ Successor(cookie) \in Tokens
    <2>1. token[c].turn < MaxRotations
      BY <1>1, SteadyCall
    <2>2. QED
      BY <1>3, <2>1, SuccessorFollows
  <1>7. ASSUME NEW d \in Calls \ Waiting(c)
        PROVE  at'[d] = at[d] /\ answer'[d] = answer[d] /\ ~Leads(d)
    <2>1. d # c
      BY <1>1, WaitingShareToken
    <2>2. ~Leads(d)
      BY <1>2, <1>3, <2>1 DEF SessionOK, Leads
    <2>3. QED
      BY <2>2, SettleMoves
  <1>8. \A d \in Calls : ~Leads(d)'
    BY <1>5, <1>7 DEF Leads
  <1>9. Steady'
    BY <1>4, <1>5, <1>7 DEF Steady, Ends, EndsSession
  <1>10. ASSUME NEW d \in Calls, at'[d] # "idle" PROVE CallOK(d)'
    <2>1. CASE d \in Waiting(c)
      <3>1. at'[d] \in {"fetching", "answering"} /\ token'[d] = cookie' /\ answer'[d] = Successor(cookie)
        BY <1>4, <1>5, <2>1
      <3>2. answer'[d] # Keep /\ answer'[d].turn = cookie.turn + 1
        BY <1>6, <3>1, TokensAreRecords
      <3>3. answer'[d] = Successor(token'[d]) /\ answer'[d].turn <= tip'[cookie'.family]
        BY <1>3, <1>4, <3>1, <3>2
      <3>4. ~ \E b \in Calls : at'[b] = "rotated"
        BY <1>8 DEF Leads
      <3>5. QED
        BY <1>3, <1>4, <3>1, <3>2, <3>3, <3>4 DEF CallOK, Successor
    <2>2. CASE d \notin Waiting(c)
      BY <1>2, <1>3, <1>4, <1>7, <1>8, <1>10, <2>2 DEF SessionOK, CallOK, Leads
    <2>3. QED
      BY <2>1, <2>2
  <1>11. Carries(c)'
    <2>1. c \in Waiting(c)
      BY <1>1, WaitingShareToken
    <2>2. at'[c] \in {"fetching", "answering"} /\ answer'[c] = Successor(cookie)
      BY <1>5, <2>1
    <2>3. QED
      BY <1>4, <2>2 DEF Carries, Successor
  <1>12. SessionOK'
    BY <1>2, <1>4, <1>8, <1>10, <1>11 DEF SessionOK, InSession
  <1>13. QED
    BY <1>2, <1>4, <1>9, <1>12 DEF QuietInv, Steady

(***************************************************************************)
(* An answer that arrives, undisturbed, brings the cookie itself, or the   *)
(* token after it, which is then the last.                                 *)
(***************************************************************************)
LEMMA ReceiveSteady ==
  ASSUME TypeInv, QuietInv, Steady, ~disturbed', NEW c \in Calls, Receive(c)
  PROVE  QuietInv'
  <1>1. CallTypes /\ at[c] = "answering"
    BY TypeParts DEF Receive
  <1>2. cookie # None /\ SessionOK /\ CallOK(c)
    BY <1>1 DEF QuietInv, Steady, Idle, SessionOK
  <1>3. /\ OthersStay(c) /\ at'[c] = "idle" /\ UNCHANGED <<tip, live>>
        /\ cookie' = IF answer[c] = Keep THEN cookie ELSE answer[c]
    BY <1>1 DEF Receive, Forget, CallTypes, OthersStay, serviceVars
  <1>4. /\ cookie \in Tokens /\ cookie.turn \in Nat
        /\ token[c] \in Tokens /\ token[c].turn \in Nat /\ token[c].turn < MaxRotations
        /\ tip[cookie.family] \in 0 .. MaxRotations
    BY <1>1, <1>2, TurnsAreNatural, SteadyCall
  <1>5. ~Ends(c)' /\ ~Leads(c)'
    BY <1>3 DEF Ends, Leads
  <1>6. answer[c] # Keep => /\ answer[c] = Successor(token[c]) /\ answer[c] \in Tokens
                            /\ answer[c].turn = token[c].turn + 1
                            /\ answer[c].family = cookie.family
    BY <1>1, <1>2, <1>4, SuccessorFollows DEF CallOK
  <1>7. CASE cookie' = cookie
    <2>1. CASE tip[cookie.family] = cookie.turn + 1
      <3>1. answer[c] # Successor(cookie)
        <4>1. Successor(cookie) \in Tokens /\ Successor(cookie).turn = cookie.turn + 1
          BY <1>4, <2>1, SuccessorFollows, BoundsAreNatural
        <4>2. CASE answer[c] = Keep
          BY <4>1, <4>2, TokensAreRecords
        <4>3. CASE answer[c] # Keep
          <5>1. answer[c].turn = cookie.turn
            BY <1>3, <1>7, <4>3
          <5>2. QED
            BY <1>4, <4>1, <5>1
        <4>4. QED
          BY <4>2, <4>3
      <3>2. ~Carries(c)
        BY <1>1, <3>1 DEF Carries
      <3>3. QED
        BY <1>1, <1>2, <1>3, <1>5, <1>7, <3>2, OneCallSteps
    <2>2. CASE tip[cookie.family] # cookie.turn + 1
      <3>1. Steady' /\ \A d \in Calls : Leads(d)' => Leads(d)
        BY <1>3, <1>5 DEF Steady, Ends, OthersStay, Leads
      <3>2. \A d \in Calls : at'[d] = "rotated" => at[d] = "rotated"
        BY <1>3 DEF OthersStay
      <3>3. ASSUME NEW d \in Calls \ {c}, at'[d] # "idle" PROVE CallOK(d)'
        BY <1>2, <1>3, <1>7, <3>2, <3>3 DEF SessionOK, CallOK, OthersStay
      <3>4. SessionOK'
        BY <1>2, <1>3, <1>7, <2>2, <3>1, <3>3 DEF SessionOK, InSession
      <3>5. QED
        BY <1>2, <1>7, <3>1, <3>4 DEF QuietInv, Steady
    <2>3. QED
      BY <2>1, <2>2
  <1>8. CASE cookie' # cookie
    <2>1. answer[c] # Keep /\ cookie' = answer[c] /\ answer[c] # cookie
      BY <1>3, <1>8
    <2>2. cookie = token[c]
      BY <1>6, <2>1 DEF Receive, DisturbIf
    <2>3. /\ cookie'.turn = cookie.turn + 1 /\ cookie'.family = cookie.family
          /\ cookie' \in Tokens
      BY <1>6, <2>1, <2>2
    <2>4. answer[c].turn <= tip[cookie.family]
      BY <1>1, <1>2, <2>1 DEF CallOK
    <2>5. tip[cookie.family] = cookie.turn + 1
      BY <1>2, <1>4, <2>1, <2>3, <2>4 DEF SessionOK
    <2>6. ASSUME NEW d \in Calls PROVE ~Leads(d)
      <3>1. at[d] # "rotated"
        BY <1>1, <1>2, <1>4, <2>1, <2>3 DEF CallOK
      <3>2. at[d] # "failed" /\ at[d] # "asking"
        BY <1>2, <1>4, <2>5 DEF SessionOK, CallOK
      <3>3. QED
        BY <3>1, <3>2 DEF Leads
    <2>7. Steady' /\ \A d \in Calls : ~Leads(d)'
      BY <1>3, <1>5, <2>6 DEF Steady, Ends, OthersStay, Leads
    <2>8. ASSUME NEW d \in Calls, at'[d] # "idle" PROVE CallOK(d)'
      <3>1. d # c /\ CallOK(d) /\ at[d] # "idle"
        BY <1>2, <1>3, <2>8 DEF SessionOK, OthersStay
      <3>2. token[d].turn \in Nat
        BY <3>1, SteadyCall, TokensAreRecords
      <3>3. token[d].turn <= cookie'.turn
        BY <1>4, <2>3, <3>1, <3>2 DEF CallOK
      <3>4. QED
        BY <1>3, <2>3, <2>7, <3>1, <3>3 DEF CallOK, OthersStay, Leads
    <2>9. SessionOK'
      <3>1. InSession'
        BY <1>2, <1>3, <2>3, TokensAreRecords DEF SessionOK, InSession
      <3>2. tip'[cookie'.family] = cookie'.turn /\ cookie'.turn # cookie'.turn + 1
        BY <1>3, <1>4, <2>3, <2>5
      <3>3. QED
        BY <2>7, <2>8, <3>1, <3>2 DEF SessionOK
    <2>10. QED
      BY <2>3, <2>7, <2>9, TokensAreRecords DEF QuietInv, Steady
  <1>9. QED
    BY <1>7, <1>8

\* While nobody begins or ends a session, every step keeps the invariant.
LEMMA SteadyStep ==
  ASSUME OneProcess, TypeInv, QuietInv, Steady, Next, ~disturbed'
  PROVE  QuietInv'
  <1>1. ASSUME NEW c \in Calls
        PROVE  ~LoseResponse(c) /\ ~RefreshFails(c) /\ ~RequestFails(c) /\ ~LogoutFails(c)
    BY DEF LoseResponse, RefreshFails, RequestFails, LogoutFails, DisturbIf
  <1>2. ASSUME NEW c \in Calls
        PROVE  ~LoginSession(c) /\ ~LoginFails(c) /\ ~LogoutSession(c) /\ ~AuthenticatedDeletion(c)
    BY DEF LoginSession, LoginFails, LogoutSession, AuthenticatedDeletion, Steady, Ends, EndsSession
  <1>3. QED
    BY <1>1, <1>2, SendSteady, SendSignInSteady, RespondSteady, RefreshSteady, PerformSteady,
       SettleSteady, ReceiveSteady DEF Next

\* What disturbed the session stays on record.
LEMMA DisturbedStays == TypeInv /\ disturbed /\ [Next]_vars => disturbed'
  BY DEF Next, Send, SendSignIn, Receive, LoseResponse, RejectBody, RefreshSession, PerformRefresh,
         RefreshFails, Settle, AuthenticatedRequest, AuthenticatedDeletion, RequestFails,
         LoginSession, LoginFails, LogoutSession, LogoutFails, DisturbIf, vars

\* Every step keeps the invariant of an undisturbed session.
LEMMA SessionStep ==
  ASSUME OneProcess, TypeInv, TypeInv', SessionInv, [Next]_vars
  PROVE  SessionInv'
  <1>1. SUFFICES ASSUME ~disturbed' PROVE QuietInv'
    BY DEF SessionInv
  <1>2. QuietInv
    BY <1>1, DisturbedStays DEF SessionInv
  <1>3. CASE UNCHANGED vars
    <2>1. UNCHANGED <<tip, live, logins, cookie, at, route, token, process, leader, answer>>
      BY <1>3 DEF vars, serviceVars, callVars
    <2>2. QED
      BY <1>2, <2>1 DEF QuietInv, Ends, EndingOK, Alone, SignInOK, SignOutOK, DeletionOK, InSession,
                        Tip, SessionOK, CallOK, Carries, Leads, Idle
  <1>4. CASE Next
    BY <1>1, <1>2, <1>4, EndingStep, SteadyStep DEF Steady
  <1>5. QED
    BY <1>3, <1>4

\* At first nobody is signed in.
LEMMA SessionInit == Init => SessionInv
  BY DEF Init, SessionInv, QuietInv, Ends, Idle

\* Between calls the invariant says what both properties ask for.
LEMMA QuietBetweenCalls ==
  ASSUME TypeInv, SessionInv
  PROVE  QuietSessionIsLive /\ SignedOutIsEnded
  <1>1. ASSUME Idle, ~disturbed
        PROVE  IF cookie = None THEN live = {} ELSE Tip(cookie)
    <2>1. Steady /\ \A c \in Calls : ~Carries(c)
      BY <1>1 DEF Idle, Steady, Ends, Carries
    <2>2. QED
      BY <1>1, <2>1 DEF SessionInv, QuietInv, Steady, SessionOK, InSession, Tip
  <1>2. QED
    BY <1>1 DEF QuietSessionIsLive, SignedOutIsEnded

\* Between calls, a browser whose session nothing disturbed holds the last token
\* of a live family: for every number of overlapping calls, as long as one
\* process serves them and so knows of every rotation under way.
THEOREM QuietSessionsAreLive == OneProcess /\ Spec => []QuietSessionIsLive
  <1>1. Init => TypeInv /\ SessionInv
    BY SessionInit, SessionTypesInit
  <1>2. CASE OneProcess
    <2>1. TypeInv /\ SessionInv /\ [Next]_vars => TypeInv' /\ SessionInv'
      BY <1>2, TypeStep, SessionStep
    <2>2. TypeInv /\ SessionInv => QuietSessionIsLive
      BY QuietBetweenCalls
    <2>3. QED
      BY <1>1, <2>1, <2>2, PTL DEF Spec
  <1>3. QED
    BY <1>2

\* Under the same condition, a browser without a cookie left no session behind
\* that the service would still rotate.
THEOREM SignedOutAreEnded == OneProcess /\ Spec => []SignedOutIsEnded
  <1>1. Init => TypeInv /\ SessionInv
    BY SessionInit, SessionTypesInit
  <1>2. CASE OneProcess
    <2>1. TypeInv /\ SessionInv /\ [Next]_vars => TypeInv' /\ SessionInv'
      BY <1>2, TypeStep, SessionStep
    <2>2. TypeInv /\ SessionInv => SignedOutIsEnded
      BY QuietBetweenCalls
    <2>3. QED
      BY <1>1, <2>1, <2>2, PTL DEF Spec
  <1>3. QED
    BY <1>2

=============================================================================
