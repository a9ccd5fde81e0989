----------------------------- MODULE Environment -----------------------------
(***************************************************************************)
(* validateEnvironment: what the auth service starts with. The variables   *)
(* are given at their defaults except for a few at a time, with the values *)
(* on either side of every bound. Text that only has a shape (URLs,        *)
(* identifiers, brokers) is well formed or not.                            *)
(***************************************************************************)
EXTENDS Integers, Sequences

CONSTANT Unset

\* The bounded numbers: lowest and highest value accepted, and the default.
Numbers ==
    [PORT |-> <<1, 65535, 4000>>,
     AUTH_RATE_LIMIT_MAX |-> <<1, 1000, 10>>,
     AUTH_RATE_LIMIT_WINDOW_MS |-> <<1000, 3600000, 60000>>,
     DATABASE_POOL_MAX |-> <<1, 50, 10>>,
     DATABASE_CONNECT_TIMEOUT_MS |-> <<100, 30000, 3000>>,
     DATABASE_IDLE_TIMEOUT_MS |-> <<1000, 300000, 30000>>,
     REDIS_CONNECT_TIMEOUT_MS |-> <<100, 30000, 2000>>,
     KAFKA_CONNECT_TIMEOUT_MS |-> <<100, 30000, 3000>>,
     KAFKA_REQUEST_TIMEOUT_MS |-> <<500, 60000, 5000>>]

\* Durations are an amount and a unit; the default of each.
Durations ==
    [EMAIL_VERIFICATION_TTL |-> <<30, "m">>,
     PASSWORD_RECOVERY_TTL |-> <<15, "m">>,
     REFRESH_TOKEN_TTL |-> <<30, "d">>,
     REFRESH_IDLE_TTL |-> <<7, "d">>]

Shapes == {"JWT_ISSUER", "JWT_AUDIENCE", "WEB_ORIGIN", "DATABASE_URL", "REDIS_URL", "KAFKA_BROKERS"}
Required == {"DATABASE_URL", "REDIS_URL"}

VARIABLES
    given,    \* the environment of the process
    started   \* "no", "refused" or "running"

environmentVars == <<given, started>>

\* JWT_SECRET and RATE_LIMIT_HMAC_SECRET are given as lengths.
Defaults ==
    [nodeEnv |-> Unset, jwtSecret |-> 32, limiterSecret |-> 32,
     jwtUnit |-> Unset,
     number |-> [n \in DOMAIN Numbers |-> Unset],
     duration |-> [n \in DOMAIN Durations |-> Unset],
     shape |-> [n \in Shapes |-> TRUE]]

Around(n) == {Unset, Numbers[n][1] - 1, Numbers[n][1], Numbers[n][2], Numbers[n][2] + 1}

With(e, j, l) == [Defaults EXCEPT !.nodeEnv = e, !.jwtSecret = j, !.limiterSecret = l]
Secrets ==
    {With(e, j, l) : e \in {Unset, "production", "test", "other"},
                        j \in {Unset, 31, 32}, l \in {Unset, 31, 32}}
Units == {[Defaults EXCEPT !.jwtUnit = u] : u \in {"s", "m", "h", "d", "w"}}
Bounds == UNION {{[Defaults EXCEPT !.number[n] = v] : v \in Around(n)} : n \in DOMAIN Numbers}
Times ==
    {[Defaults EXCEPT !.duration[n] = <<a, u>>] :
        n \in DOMAIN Durations, a \in {0, 1}, u \in {"s", "m", "h", "d", "w"}}
Texts == {[Defaults EXCEPT !.shape[n] = s] : n \in Shapes, s \in {Unset, FALSE}}

Environments == Secrets \cup Units \cup Bounds \cup Times \cup Texts

Or(value, fallback) == IF value = Unset THEN fallback ELSE value

-----------------------------------------------------------------------------

\* Faulty variant of DurationUnits: seconds, as for JWT_TTL.
DurationUnitsWithSeconds == {"s", "m", "h", "d"}

\* duration: the units it lets through.
DurationUnits == {"m", "h", "d"}

\* boundedInteger
Bounded(n, value) == Or(value, Numbers[n][3]) \in Numbers[n][1] .. Numbers[n][2]

\* requiredUrl, boundedIdentifier and the brokers: a default, where there is
\* one, is well formed.
WellFormed(n, value) == Or(value, n \notin Required)

NodeEnv == Or(given.nodeEnv, "development")

\* The limiter's secret falls back to the signing secret in tests only.
LimiterSecret ==
    Or(given.limiterSecret, IF NodeEnv = "test" THEN Or(given.jwtSecret, 0) ELSE 0)

Valid ==
    /\ NodeEnv \in {"development", "test", "staging", "production"}
    /\ NodeEnv # "test" => Or(given.jwtSecret, 0) >= 32
    /\ LimiterSecret >= 32
    /\ Or(given.jwtUnit, "m") \in {"s", "m", "h", "d"}
    /\ \A n \in DOMAIN Durations : Or(given.duration[n], Durations[n])[2] \in DurationUnits
    /\ \A n \in DOMAIN Numbers : Bounded(n, given.number[n])
    /\ \A n \in Shapes : WellFormed(n, given.shape[n])

\* What validateEnvironment returns.
Settings ==
    [jwtSecret |-> Or(given.jwtSecret, 0), limiterSecret |-> LimiterSecret,
     number |-> [n \in DOMAIN Numbers |-> Or(given.number[n], Numbers[n][3])],
     duration |-> [n \in DOMAIN Durations |-> Or(given.duration[n], Durations[n])]]

\* The service starts with the settings, or validateEnvironment throws.
EnvironmentNext ==
    /\ started = "no"
    /\ started' = IF Valid THEN "running" ELSE "refused"
    /\ UNCHANGED given

\* durationMs of the auth service, which throws at any other unit; in minutes.
MinutesPer == [m |-> 1, h |-> 60, d |-> 1440]
Convertible(d) == d[2] \in DOMAIN MinutesPer /\ d[1] * MinutesPer[d[2]] \in Nat

\* What a started service was given works where it is used: secrets are long
\* enough, every time to live can be converted, no limit or pool is empty
\* (validateEnvironment against durationMs).
SettingsWork ==
    started = "running" =>
        /\ NodeEnv # "test" => Settings.jwtSecret >= 32
        /\ Settings.limiterSecret >= 32
        /\ \A n \in DOMAIN Durations : Convertible(Settings.duration[n])
        /\ \A n \in DOMAIN Numbers : Settings.number[n] > 0

=============================================================================
