------------------------------- MODULE ApiCall -------------------------------
(***************************************************************************)
(* One HTTP call from end to end: the client the web server makes with     *)
(* createApiClient, its timeout and the X-Correlation-ID it sends, and the *)
(* chain a request passes in the service, which files it under an id,      *)
(* answers with a value or a problem, or falls silent at any point. The    *)
(* identity service is also called by others, who send what they like. A   *)
(* handler runs on when nobody waits for it any more.                      *)
(***************************************************************************)
CONSTANTS
    WellFormedIds,   \* ids that both services accept from a caller
    MalformedIds,    \* ids that they replace
    ClientId,        \* the id the client draws
    ServiceId,       \* the id the service draws
    NoId

ASSUME IdsAreDistinct ==
    /\ ClientId \in WellFormedIds /\ ServiceId \notin WellFormedIds
    /\ NoId \notin WellFormedIds \cup MalformedIds \cup {ServiceId}

VARIABLES
    caller,   \* the call: "idle", "waiting" for the headers, "reading" the
              \* body, "ended"; "other": the caller is not the client
    timer,    \* the timeout that aborts the call is set
    sent,     \* the request
    place,    \* where the request is in the service
    filed,    \* the id the service files it under
    answer,   \* what the service answers
    outcome   \* what the client returns or throws

callVars == <<caller, timer, sent, place, filed, answer, outcome>>

Supplied == WellFormedIds \cup MalformedIds \cup {NoId}
Ids == Supplied \cup {ServiceId}

\* parses: the body is JSON within the limit; own: the Origin header names the
\* web application.
Requests(api, routes, parses, own) ==
    [api : {api}, route : routes, parses : parses, own : own, id : Supplied]

\* What the web server asks with the client: to register or log in, and for
\* the liveness; the catalog and media, where a path may not exist.
IdentityCalls ==
    Requests("identity", {"auth"}, BOOLEAN, {FALSE})
        \cup Requests("identity", {"other"}, {TRUE}, {FALSE})
MediaCalls == Requests("media", {"other", "unknown"}, {TRUE}, {FALSE})
ClientCalls == IdentityCalls \cup MediaCalls

\* Whoever calls the identity service without the client, also for a refresh
\* or a logout, which a cookie authenticates.
OtherCalls == Requests("identity", {"auth", "cookie", "other"}, BOOLEAN, BOOLEAN)

Answers == [kind : {"none", "value", "empty", "problem", "text"}, header : Ids, said : Ids]
Outcomes == [kind : {"none", "value", "empty", "failed", "ApiError"}, header : Ids, said : Ids]
Nothing == [kind |-> "none", header |-> NoId, said |-> NoId]

CallTypeOK ==
    /\ caller \in {"idle", "waiting", "reading", "ended", "other"}
    /\ timer \in BOOLEAN /\ (timer => caller \in {"waiting", "reading"})
    /\ sent \in ClientCalls \cup OtherCalls
    /\ place \in {"none", "received", "parsed", "identified", "answered"}
    /\ filed \in Ids
    /\ answer \in Answers /\ outcome \in Outcomes
    /\ answer.kind = "none" <=> place # "answered"
    /\ outcome.kind = "none" <=> caller # "ended"

CallInit ==
    /\ caller = "idle" /\ timer = FALSE
    /\ sent = [api |-> "identity", route |-> "other", parses |-> TRUE, own |-> FALSE, id |-> NoId]
    /\ place = "none" /\ filed = NoId
    /\ answer = Nothing /\ outcome = Nothing

-----------------------------------------------------------------------------
(* The client begins *)

\* call(): an id that is given stays, and the timeout is set.
Call(r) ==
    /\ caller = "idle"
    /\ caller' = "waiting" /\ timer' = TRUE
    /\ sent' = [r EXCEPT !.id = IF r.id = NoId THEN ClientId ELSE r.id]
    /\ place' = "received"
    /\ UNCHANGED <<filed, answer, outcome>>

CallByOther(r) ==
    /\ caller = "idle"
    /\ caller' = "other"
    /\ sent' = r
    /\ place' = "received"
    /\ UNCHANGED <<timer, filed, answer, outcome>>

-----------------------------------------------------------------------------
(* The request in the service *)

\* The headers are sent with the id the request has by now; what a problem
\* says of it is up to the one who writes it.
AnswerWith(kind, said) ==
    /\ answer' = [kind |-> kind, header |-> filed, said |-> said]
    /\ place' = "answered"
    /\ UNCHANGED <<caller, timer, sent, filed, outcome>>

\* createApplication puts the body parsers before every middleware of the
\* module: a body they refuse is answered before the request has an id.
ParseBody ==
    /\ place = "received" /\ sent.api = "identity"
    /\ IF sent.parses
         THEN place' = "parsed" /\ UNCHANGED <<caller, timer, sent, filed, answer, outcome>>
         ELSE AnswerWith("problem", filed)

Unidentified == place = IF sent.api = "identity" THEN "parsed" ELSE "received"

\* Faulty variant of Identify: the caller's id is not looked at.
IdentifyAfresh ==
    /\ Unidentified
    /\ filed' = ServiceId
    /\ place' = "identified"
    /\ UNCHANGED <<caller, timer, sent, answer, outcome>>

\* RequestContextMiddleware.use; requestContext is the outermost handler of
\* the media service and does the same.
Identify ==
    /\ Unidentified
    /\ filed' = IF sent.id \in WellFormedIds THEN sent.id ELSE ServiceId
    /\ place' = "identified"
    /\ UNCHANGED <<caller, timer, sent, answer, outcome>>

\* RateLimitMiddleware guards the routes of AuthController.
Limited ==
    /\ place = "identified" /\ sent.route \in {"auth", "cookie"}
    /\ AnswerWith("problem", filed)

\* SameOriginMiddleware, for the requests that a cookie authenticates.
RefuseOrigin ==
    /\ place = "identified" /\ sent.route = "cookie" /\ ~sent.own
    /\ AnswerWith("problem", NoId)

\* ProblemDetailsFilter.catch, whatever the handler or its guard threw.
Catch ==
    /\ place = "identified" /\ sent.route # "unknown" /\ (sent.route = "cookie" => sent.own)
    /\ AnswerWith("problem", filed)

\* The handler answers, with content or, as the client allows for, without.
\* The router of the media service answers a path it does not have in plain text.
Handle ==
    /\ place = "identified" /\ (sent.route = "cookie" => sent.own)
    /\ IF sent.route = "unknown"
         THEN AnswerWith("text", NoId)
         ELSE AnswerWith("value", NoId) \/ AnswerWith("empty", NoId)

-----------------------------------------------------------------------------
(* The client goes on *)

\* The call returns or throws, and the timeout is cleared (finally).
EndWith(kind, header, said) ==
    /\ outcome' = [kind |-> kind, header |-> header, said |-> said]
    /\ caller' = "ended" /\ timer' = FALSE
    /\ UNCHANGED <<sent, place, filed, answer>>

\* A refusal without a problem that can be read is reported all the same.
EndWithFallback == EndWith("ApiError", answer.header, answer.header)

\* Faulty variant of HeadersArrive: the timeout is cleared with the headers.
HeadersClearTimeout ==
    /\ caller = "waiting" /\ place = "answered" /\ answer.kind # "empty"
    /\ caller' = "reading" /\ timer' = FALSE
    /\ UNCHANGED <<sent, place, filed, answer, outcome>>

\* Without content there is no body to wait for.
HeadersArrive ==
    /\ caller = "waiting" /\ place = "answered"
    /\ IF answer.kind = "empty"
         THEN EndWith("empty", NoId, NoId)
         ELSE caller' = "reading" /\ UNCHANGED <<timer, sent, place, filed, answer, outcome>>

BodyArrives ==
    /\ caller = "reading"
    /\ CASE answer.kind = "value" -> EndWith("value", NoId, NoId)
         [] answer.kind = "problem" -> EndWith("ApiError", answer.header, answer.said)
         [] OTHER -> EndWithFallback

\* fetch or response.json() rejects; once the status is known to be an error,
\* the call still throws an ApiError.
Rejected ==
    \/ /\ caller = "waiting" \/ (caller = "reading" /\ answer.kind = "value")
       /\ EndWith("failed", NoId, NoId)
    \/ /\ caller = "reading" /\ answer.kind # "value"
       /\ EndWithFallback

ConnectionBreaks == Rejected

\* controller.abort(), also while the body is read.
TimeOut == timer /\ Rejected

-----------------------------------------------------------------------------

CallNext ==
    \/ \E r \in ClientCalls : Call(r)
    \/ \E r \in OtherCalls : CallByOther(r)
    \/ ParseBody \/ Identify \/ Limited \/ RefuseOrigin \/ Catch \/ Handle
    \/ HeadersArrive \/ BodyArrives \/ ConnectionBreaks \/ TimeOut

\* Whatever else the call ran into, an ApiError about a body the service can
\* read bears, as its header and in what it says, the id under which the service
\* filed the request, which is the caller's where it is well formed: also when
\* the answer is cut off or is no problem (call, RequestContextMiddleware.use,
\* ProblemDetailsFilter.catch, RateLimitMiddleware.problem).
ErrorNamesTheRequest ==
    outcome.kind = "ApiError" /\ sent.parses =>
        /\ filed # NoId /\ (sent.id \in WellFormedIds => filed = sent.id)
        /\ outcome.header = filed /\ outcome.said = filed

\* docs/PLATFORM_CONTRACTS.md:19 and 23 say of every answer of a service that
\* its problem has the correlation id and that the id returns in the header. A
\* body that is refused is answered before there is one, and a refused origin
\* without naming it (createApplication, SameOriginMiddleware.use).
ProblemsNameTheRequest ==
    answer.kind = "problem" =>
        /\ answer.header # NoId /\ (sent.id \in WellFormedIds => answer.header = sent.id)
        /\ answer.said = answer.header

\* A call ends, also when the service falls silent before the headers or in
\* the middle of the body (createApiClient).
CallsEnd == caller = "waiting" ~> caller = "ended"

=============================================================================
