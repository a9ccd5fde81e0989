------------------------------ MODULE AuthServer -----------------------------
(***************************************************************************)
(* One process of the auth service before a request reaches its handler:   *)
(* the Redis connection that RedisService opens on demand, the limiter     *)
(* that counts each request under its address and its account, and the     *)
(* readiness check. Redis, its key expiry, PostgreSQL and the brokers are  *)
(* taken from the outside. Every request is used once.                     *)
(***************************************************************************)
EXTENDS Naturals, Sequences, FiniteSets, SequencesExt

CONSTANTS
    Attempts,  \* requests to the authentication routes
    KeysOf,    \* of each: the keys it counts under, address first
    Limit,     \* AUTH_RATE_LIMIT_MAX
    Ping       \* the call of the readiness check

Keys == UNION {ToSet(KeysOf[r]) : r \in Attempts}
RedisCalls == (Attempts \X Keys) \cup {Ping}

\* What the readiness check asks besides Redis.
Dependencies == {"postgres", "kafka"}

ASSUME LimitIsPositive == Limit \in Nat \ {0}
ASSUME AttemptsAreFinite == IsFiniteSet(Attempts)
ASSUME PingIsNoAttempt == Ping \notin Attempts \X Keys

VARIABLES
    conn,     \* status of the ioredis client
    redisUp,  \* Redis can be reached
    reachable,\* the dependencies that can be reached
    call,     \* of each call to Redis: where it is
    count,    \* Redis: requests counted under each key
    highest,  \* the highest count a request was told
    reply,    \* of each request: "none", "waiting" or what it got
    window,   \* history: keys whose present window counted the request
    asked,    \* the dependencies the readiness check still waits for
    allUp,    \* those that have answered it are up
    ready     \* it answered "ready" the last time

redisVars == <<conn, redisUp, count, window>>
limiterVars == <<call, highest, reply>>
probeVars == <<reachable, asked, allUp, ready>>
serverVars == <<redisVars, limiterVars, probeVars>>

ServerTypeOK ==
    /\ conn \in {"wait", "connecting", "ready", "end"}
    /\ redisUp \in BOOLEAN /\ reachable \in SUBSET Dependencies
    /\ call \in [RedisCalls -> {"none", "dial", "send", "done", "failed"}]
    /\ count \in [Keys -> 0 .. Cardinality(Attempts)]
    /\ highest \in [Attempts -> 0 .. Cardinality(Attempts)]
    /\ reply \in [Attempts -> {"none", "waiting", "next", "limited", "unavailable"}]
    /\ window \in [Attempts -> SUBSET Keys]
    /\ asked \in SUBSET Dependencies /\ allUp \in BOOLEAN /\ ready \in BOOLEAN
    /\ \A c \in RedisCalls : call[c] = "dial" => conn = "connecting"

ServerInit ==
    /\ conn = "wait" /\ redisUp = TRUE
    /\ reachable = Dependencies
    /\ call = [c \in RedisCalls |-> "none"]
    /\ count = [k \in Keys |-> 0]
    /\ highest = [r \in Attempts |-> 0]
    /\ reply = [r \in Attempts |-> "none"]
    /\ window = [r \in Attempts |-> {}]
    /\ asked = {} /\ allUp = TRUE /\ ready = FALSE

-----------------------------------------------------------------------------
(* RedisService *)

\* Faulty variant of MustConnect: only the first connection is made.
MustConnectOnce == conn = "wait"

\* connect(): only a client that never connected or was cut off connects.
MustConnect == conn \in {"wait", "end"}

\* A call while somebody else connects is not queued (enableOfflineQueue) and
\* fails at once.
Opening(first) ==
    CASE conn = "ready" -> "send"
      [] MustConnect /\ first -> "dial"
      [] OTHER -> "failed"

ConnAfter == IF MustConnect THEN "connecting" ELSE conn

\* The counts decide: the request goes on when no key is over the limit.
Verdict(r, counted) == IF counted <= Limit THEN "next" ELSE "limited"

\* Promise.all of the calls of a request: the first failure answers 503.
Settled(r, calls, counted) ==
    LET mine == {calls[<<r, k>>] : k \in ToSet(KeysOf[r])} IN
    IF reply[r] \notin {"none", "waiting"} THEN reply[r]
    ELSE CASE "failed" \in mine -> "unavailable"
           [] mine = {"done"} -> Verdict(r, counted)
           [] mine = {"none"} /\ reply[r] = "none" -> "none"
           [] OTHER -> "waiting"

SettleAll ==
    reply' = [r \in Attempts |-> Settled(r, call', highest'[r])]

\* RateLimitMiddleware.use: the calls start one after the other, so only the
\* first of them may find a connection to open.
Arrive(r) ==
    /\ reply[r] = "none"
    /\ call' = [c \in RedisCalls |->
         IF \E k \in ToSet(KeysOf[r]) : c = <<r, k>>
           THEN Opening(c = <<r, Head(KeysOf[r])>>) ELSE call[c]]
    /\ conn' = ConnAfter
    /\ UNCHANGED <<redisUp, count, window, highest, probeVars>>
    /\ SettleAll

Connected ==
    /\ conn = "connecting" /\ redisUp
    /\ conn' = "ready"
    /\ call' = [c \in RedisCalls |-> IF call[c] = "dial" THEN "send" ELSE call[c]]
    /\ UNCHANGED <<redisUp, count, window, highest, reply, probeVars>>

\* retryStrategy gives up: the client waits for the next call to connect.
ConnectFails ==
    /\ conn = "connecting" /\ ~redisUp
    /\ conn' = "end"
    /\ call' = [c \in RedisCalls |-> IF call[c] = "dial" THEN "failed" ELSE call[c]]
    /\ UNCHANGED <<redisUp, count, window, highest, probeVars>>
    /\ SettleAll

\* Faulty variant of Told: the lowest count is kept.
ToldLowest(r, n) == IF highest[r] = 0 \/ n < highest[r] THEN n ELSE highest[r]

\* The highest of the counts a request was told so far.
Told(r, n) == IF n > highest[r] THEN n ELSE highest[r]

\* consumeLimit: counting and starting the window are one script.
Count(r, k) ==
    /\ call[<<r, k>>] = "send" /\ conn = "ready"
    /\ count' = [count EXCEPT ![k] = @ + 1]
    /\ window' = [window EXCEPT ![r] = @ \cup {k}]
    /\ call' = [call EXCEPT ![<<r, k>>] = "done"]
    /\ highest' = [highest EXCEPT ![r] = Told(r, count'[k])]
    /\ UNCHANGED <<conn, redisUp, probeVars>>
    /\ SettleAll

\* Redis cannot be reached any more; of the calls under way some were counted.
RedisGoes ==
    /\ redisUp
    /\ redisUp' = FALSE
    /\ conn' = IF conn = "ready" THEN "end" ELSE conn
    /\ call' = [c \in RedisCalls |-> IF call[c] = "send" THEN "failed" ELSE call[c]]
    /\ \E counted \in SUBSET {c \in Attempts \X Keys : call[c] = "send"} :
        /\ count' = [k \in Keys |-> count[k] + Cardinality({c \in counted : c[2] = k})]
        /\ window' = [r \in Attempts |-> window[r] \cup {k \in Keys : <<r, k>> \in counted}]
    /\ UNCHANGED <<highest, probeVars>>
    /\ SettleAll

RedisReturns == ~redisUp /\ redisUp' = TRUE /\ UNCHANGED <<conn, count, window, limiterVars, probeVars>>

\* The key expires: the next request opens a new window.
WindowEnds(k) ==
    /\ count[k] > 0
    /\ count' = [count EXCEPT ![k] = 0]
    /\ window' = [r \in Attempts |-> window[r] \ {k}]
    /\ UNCHANGED <<conn, redisUp, limiterVars, probeVars>>

-----------------------------------------------------------------------------
(* HealthService.readiness *)

\* The three checks start at once.
BeginProbe ==
    /\ call[Ping] = "none"
    /\ asked' = Dependencies
    /\ call' = [call EXCEPT ![Ping] = Opening(TRUE)]
    /\ conn' = ConnAfter
    /\ UNCHANGED <<redisUp, count, window, highest, reply, reachable, allUp, ready>>

Pong ==
    /\ call[Ping] = "send" /\ conn = "ready"
    /\ call' = [call EXCEPT ![Ping] = "done"]
    /\ UNCHANGED <<redisVars, highest, reply, probeVars>>

\* check: what the operation throws makes the dependency "down".
Ask(d) ==
    /\ d \in asked
    /\ asked' = asked \ {d}
    /\ allUp' = (allUp /\ d \in reachable)
    /\ UNCHANGED <<redisVars, limiterVars, reachable, ready>>

\* SELECT 1, which the pool gives up after its connection timeout.
AskDatabase == Ask("postgres")

\* KafkaService.ready: whether it connects first or is connected, the brokers
\* have to answer, and a failure is tried again next time.
AskBrokers == Ask("kafka")

\* Promise.all waits for every check.
EndProbe ==
    /\ asked = {} /\ call[Ping] \in {"done", "failed"}
    /\ ready' = (allUp /\ call[Ping] = "done")
    /\ call' = [call EXCEPT ![Ping] = "none"]
    /\ allUp' = TRUE
    /\ UNCHANGED <<redisVars, highest, reply, reachable, asked>>

DependencyGoes(d) ==
    /\ d \in reachable /\ reachable' = reachable \ {d}
    /\ UNCHANGED <<redisVars, limiterVars, asked, allUp, ready>>

DependencyReturns(d) ==
    /\ d \notin reachable /\ reachable' = reachable \cup {d}
    /\ UNCHANGED <<redisVars, limiterVars, asked, allUp, ready>>

-----------------------------------------------------------------------------

Probing == BeginProbe \/ Pong \/ AskDatabase \/ AskBrokers \/ EndProbe
Dialling == Connected \/ ConnectFails

ServerNext ==
    \/ \E r \in Attempts : Arrive(r) \/ \E k \in Keys : Count(r, k)
    \/ \E k \in Keys : WindowEnds(k)
    \/ \E d \in Dependencies : DependencyGoes(d) \/ DependencyReturns(d)
    \/ Dialling \/ Probing \/ RedisGoes \/ RedisReturns

\* Over both keys, and whatever is answered in which order, no more requests
\* than the limit go on in one window of an address or of an account
\* (RateLimitMiddleware.use, consumeLimit).
LimitHolds ==
    \A k \in Keys :
        Cardinality({r \in Attempts : reply[r] = "next" /\ k \in window[r]}) <= Limit

\* Once Redis, PostgreSQL and the brokers can be reached for good, the
\* readiness check, asked again and again, says so for good (RedisService.connect,
\* KafkaService.ready, HealthService.readiness).
ReadinessRecovers ==
    <>[](redisUp /\ reachable = Dependencies) => <>[]ready

=============================================================================
