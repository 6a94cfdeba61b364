------------------------------- MODULE Config -------------------------------
(***************************************************************************)
(* internal/config/config.go, the options that the constructors called by  *)
(* cmd/server accept, and the backoff of internal/retry/retry.go.  An      *)
(* environment is a function from the variables that are set to their      *)
(* parsed values.  Durations are in milliseconds and the failure ratio in  *)
(* thousandths; a value that does not parse is Unparsed, which is refused  *)
(* like a negative number.  A base URL is "absolute" (http or https with a *)
(* host) or "relative".  The value of POSTGRES_DSN is the record of what   *)
(* pgx finds in it; the host "malformed" stands for a host, or a whole     *)
(* DSN, that does not parse.                                               *)
(***************************************************************************)
EXTENDS Integers, Sequences

CONSTANTS
    HalfWord,       \* a time.Duration is in -HalfWord .. HalfWord - 1
    NaN             \* the value strconv.ParseFloat returns for "nan"

ASSUME Words == HalfWord \in Nat \ {0}

Unparsed == -1      \* what ParseDuration, Atoi or ParseFloat refuses
ProviderKinds == {"mock", "deepseek", "openai-compatible"}
Strategies == {"round_robin", "weighted_round_robin"}
LogLevels == {"debug", "info", "warn", "error"}

envOrDefault(env, name, fallback) == IF name \in DOMAIN env THEN env[name] ELSE fallback

\* MODEL_PROVIDERS, an entry per target, or the one target of MODEL_PROVIDER.
providerTargets(env) ==
    LET kind == envOrDefault(env, "MODEL_PROVIDER", "mock")
    IN  envOrDefault(env, "MODEL_PROVIDERS", <<[name |-> kind, kind |-> kind, weight |-> 1]>>)

Ports == 1..65535
postgresPort(env) == envOrDefault(env, "POSTGRES_PORT", 5432)

\* What the connection string says: POSTGRES_DSN as it is, or the parts.
connectionString(env) ==
    LET parts == [host    |-> envOrDefault(env, "POSTGRES_HOST", "127.0.0.1"),
                  port    |-> postgresPort(env),
                  sslmode |-> envOrDefault(env, "POSTGRES_SSLMODE", "disable")]
    IN  [given |-> "POSTGRES_DSN" \in DOMAIN env,
         url   |-> envOrDefault(env, "POSTGRES_DSN", parts)]

\* The Config struct, before its checks.
Config(env) ==
    LET rpm == envOrDefault(env, "RATE_LIMIT_REQUESTS_PER_MINUTE", 60)
    IN  [RoutingStrategy  |-> envOrDefault(env, "ROUTING_STRATEGY", "round_robin"),
         LogLevel         |-> envOrDefault(env, "LOG_LEVEL", "info"),
         RequestTimeout   |-> envOrDefault(env, "REQUEST_TIMEOUT", 30000),
         AttemptTimeout   |-> envOrDefault(env, "UPSTREAM_ATTEMPT_TIMEOUT", 10000),
         RetryMaxAttempts |-> envOrDefault(env, "UPSTREAM_MAX_ATTEMPTS", 3),
         RetryBaseBackoff |-> envOrDefault(env, "RETRY_BASE_BACKOFF", 100),
         RetryMaxBackoff  |-> envOrDefault(env, "RETRY_MAX_BACKOFF", 2000),
         WindowSize       |-> envOrDefault(env, "CIRCUIT_BREAKER_WINDOW_SIZE", 20),
         MinimumRequests  |-> envOrDefault(env, "CIRCUIT_BREAKER_MINIMUM_REQUESTS", 10),
         FailureRatio     |-> envOrDefault(env, "CIRCUIT_BREAKER_FAILURE_RATIO", 500),
         OpenTimeout      |-> envOrDefault(env, "CIRCUIT_BREAKER_OPEN_TIMEOUT", 30000),
         HalfOpenMax      |-> envOrDefault(env, "CIRCUIT_BREAKER_HALF_OPEN_MAX_REQUESTS", 1),
         MaxConcurrency   |-> envOrDefault(env, "PROVIDER_MAX_CONCURRENCY", 50),
         RedisEnabled     |-> envOrDefault(env, "REDIS_ENABLED", FALSE),
         RedisDB          |-> envOrDefault(env, "REDIS_DB", 0),
         RedisTimeout     |-> envOrDefault(env, "REDIS_TIMEOUT", 2000),
         RateLimitRPM     |-> rpm,
         RateLimitBurst   |-> envOrDefault(env, "RATE_LIMIT_BURST", rpm),
         FailOpen         |-> envOrDefault(env, "RATE_LIMIT_FAIL_OPEN", TRUE),
         IdempotencyTTL   |-> envOrDefault(env, "IDEMPOTENCY_TTL", 86400000),
         LockTTL          |-> envOrDefault(env, "IDEMPOTENCY_LOCK_TTL", 30000),
         CacheTTL         |-> envOrDefault(env, "CACHE_TTL", 300000),
         PostgresEnabled  |-> envOrDefault(env, "POSTGRES_ENABLED", FALSE),
         PostgresDSN      |-> connectionString(env),
         PostgresMaxConns |-> envOrDefault(env, "POSTGRES_MAX_CONNS", 10),
         StorageTimeout   |-> envOrDefault(env, "STORAGE_TIMEOUT", 2000),
         Providers        |-> providerTargets(env),
         DeepSeekAPIKey   |-> envOrDefault(env, "DEEPSEEK_API_KEY", ""),
         OpenAIAPIKey     |-> envOrDefault(env, "OPENAI_API_KEY", ""),
         DeepSeekBaseURL  |-> envOrDefault(env, "DEEPSEEK_BASE_URL", "absolute"),
         OpenAIBaseURL    |-> envOrDefault(env, "OPENAI_COMPATIBLE_BASE_URL", "absolute")]

\* The types of the fields that Load compares; what it parses has them.
WellTyped(c) ==
    /\ {c.RequestTimeout, c.AttemptTimeout, c.RetryMaxAttempts, c.RetryBaseBackoff,
        c.RetryMaxBackoff, c.WindowSize, c.MinimumRequests, c.OpenTimeout, c.HalfOpenMax,
        c.MaxConcurrency, c.RedisDB, c.RedisTimeout, c.RateLimitRPM, c.RateLimitBurst,
        c.IdempotencyTTL, c.LockTTL, c.CacheTTL, c.PostgresMaxConns, c.StorageTimeout}
            \subseteq Int
    /\ {c.RequestTimeout, c.AttemptTimeout, c.RetryBaseBackoff, c.RetryMaxBackoff,
        c.OpenTimeout, c.RedisTimeout, c.IdempotencyTTL, c.LockTTL, c.CacheTTL,
        c.StorageTimeout} \subseteq (-HalfWord)..(HalfWord - 1)
    /\ c.FailureRatio \in Int \cup {NaN}
    /\ c.Providers \in Seq([name : STRING, kind : STRING, weight : Int])
    /\ {c.DeepSeekBaseURL, c.OpenAIBaseURL} \subseteq {"absolute", "relative"}

-----------------------------------------------------------------------------
positiveDuration(value) == value > 0
positiveInt(value) == value > 0
nonNegativeInt(value) == value >= 0
boolean(value) == value \in BOOLEAN

\* NaN compares false with both limits.
positiveRatio(ratio) == ratio # NaN => ~(ratio <= 0 \/ ratio > 1000)

\* postgresDSN: a DSN, or a valid port, a user and a database.
postgresDSN(env) ==
    \/ "POSTGRES_DSN" \in DOMAIN env
    \/ /\ postgresPort(env) \in Ports
       /\ envOrDefault(env, "POSTGRES_USER", "") # ""
       /\ envOrDefault(env, "POSTGRES_DB", "") # ""

\* Faulty variant: a name may be used twice.
validTargets_Twice(targets) ==
    /\ targets # <<>>
    /\ \A i \in DOMAIN targets :
        /\ targets[i].name # ""
        /\ targets[i].kind \in ProviderKinds
        /\ targets[i].weight \in 1..100

\* The entries of MODEL_PROVIDERS; an entry that is not name:type:weight has
\* kind "malformed", and the empty name stands for every invalid one.
validTargets(targets) ==
    /\ targets # <<>>
    /\ \A i \in DOMAIN targets :
        /\ targets[i].name # ""
        /\ \A j \in DOMAIN targets : i # j => targets[i].name # targets[j].name
        /\ targets[i].kind \in ProviderKinds
        /\ targets[i].weight \in 1..100

hasKeys(c) ==
    \A i \in DOMAIN c.Providers :
        /\ c.Providers[i].kind = "deepseek" => c.DeepSeekAPIKey # ""
        /\ c.Providers[i].kind = "openai-compatible" => c.OpenAIAPIKey # ""

\* The checks of Load, in the order of the code up to the routing strategy.
acceptsUpstream(c) ==
    /\ positiveDuration(c.RequestTimeout) /\ positiveDuration(c.AttemptTimeout)
    /\ positiveInt(c.RetryMaxAttempts) /\ c.RetryMaxAttempts <= 10
    /\ positiveDuration(c.RetryBaseBackoff) /\ positiveDuration(c.RetryMaxBackoff)
    /\ c.RetryMaxBackoff >= c.RetryBaseBackoff
    /\ c.AttemptTimeout <= c.RequestTimeout

ConcurrencyLimit == 10000

acceptsProtection(c) ==
    /\ positiveInt(c.WindowSize)
    /\ positiveInt(c.MinimumRequests) /\ c.MinimumRequests <= c.WindowSize
    /\ positiveRatio(c.FailureRatio)
    /\ positiveDuration(c.OpenTimeout) /\ positiveInt(c.HalfOpenMax)
    /\ positiveInt(c.MaxConcurrency) /\ c.MaxConcurrency <= ConcurrencyLimit

acceptsRedis(c) ==
    /\ boolean(c.RedisEnabled) /\ nonNegativeInt(c.RedisDB) /\ positiveDuration(c.RedisTimeout)
    /\ positiveInt(c.RateLimitRPM) /\ positiveInt(c.RateLimitBurst) /\ boolean(c.FailOpen)
    /\ positiveDuration(c.IdempotencyTTL) /\ positiveDuration(c.LockTTL)
    /\ positiveDuration(c.CacheTTL)

acceptsPostgres(env, c) ==
    /\ boolean(c.PostgresEnabled)
    /\ positiveInt(c.PostgresMaxConns) /\ c.PostgresMaxConns <= 100
    /\ positiveDuration(c.StorageTimeout)
    /\ c.PostgresEnabled => postgresDSN(env)

Accepts(env, c) ==
    /\ acceptsUpstream(c) /\ acceptsProtection(c)
    /\ acceptsRedis(c) /\ acceptsPostgres(env, c)
    /\ c.RoutingStrategy \in Strategies /\ c.LogLevel \in LogLevels
    /\ validTargets(c.Providers) /\ hasKeys(c)

-----------------------------------------------------------------------------
\* What the constructors ask for, each in its own words.
NewPolicy(c) ==
    /\ ~(c.RetryMaxAttempts <= 0) /\ ~(c.AttemptTimeout <= 0)
    /\ ~(c.RetryBaseBackoff <= 0 \/ c.RetryMaxBackoff < c.RetryBaseBackoff)

NewBreaker(c) ==
    /\ ~(c.WindowSize <= 0)
    /\ ~(c.MinimumRequests <= 0 \/ c.MinimumRequests > c.WindowSize)
    /\ positiveRatio(c.FailureRatio)    \* the same comparison
    /\ ~(c.OpenTimeout <= 0) /\ ~(c.HalfOpenMax <= 0)

NewSemaphore(c) == ~(c.MaxConcurrency <= 0)

NewOpenAICompatibleProvider(name, baseURL, apiKey) ==
    name # "" /\ baseURL = "absolute" /\ apiKey # ""

\* The mock provider asks for nothing.
NewTargetFromConfig(c, target) ==
    \/ target.kind = "mock"
    \/ /\ target.kind = "deepseek"
       /\ NewOpenAICompatibleProvider(target.name, c.DeepSeekBaseURL, c.DeepSeekAPIKey)
    \/ /\ target.kind = "openai-compatible"
       /\ NewOpenAICompatibleProvider(target.name, c.OpenAIBaseURL, c.OpenAIAPIKey)

NewRouter(c) ==
    /\ c.RoutingStrategy \in Strategies
    /\ c.Providers # <<>>
    /\ \A i \in DOMAIN c.Providers :
        /\ c.Providers[i].name # "" /\ ~(c.Providers[i].weight <= 0)
        /\ \A j \in 1..(i - 1) : c.Providers[j].name # c.Providers[i].name

buildProviderRouter(c) ==
    /\ \A i \in DOMAIN c.Providers : NewTargetFromConfig(c, c.Providers[i])
    /\ NewPolicy(c) /\ NewBreaker(c) /\ NewSemaphore(c) /\ NewRouter(c)

NewRedisLimiter(c) == ~(c.RateLimitRPM <= 0 \/ c.RateLimitBurst <= 0)
NewRedisStore(c) == ~(c.LockTTL <= 0 \/ c.IdempotencyTTL <= 0)
NewRedisCache(c) == ~(c.CacheTTL <= 0)
NewRedisPolicies(c) == NewRedisLimiter(c) /\ NewRedisStore(c) /\ NewRedisCache(c)

SSLModes == {"disable", "allow", "prefer", "require", "verify-ca", "verify-full"}

\* pgxpool.ParseConfig of pgx.
ParseConfig(dsn) ==
    dsn.url.host # "malformed" /\ dsn.url.port \in Ports /\ dsn.url.sslmode \in SSLModes

\* What Load puts into a connection string without a look at it.
Unread(dsn) ==
    dsn.given \/ dsn.url.host = "malformed" \/ dsn.url.sslmode \notin SSLModes

-----------------------------------------------------------------------------
\* Two's complement.
Wrap(n) == ((n + HalfWord) % (2 * HalfWord)) - HalfWord

\* Faulty variant: doubles first and compares afterwards.
nextBackoff_Late(delay, max) == Wrap(2 * delay)

\* One round of the loop of Policy.backoff.
nextBackoff(delay, max) == IF delay >= max \div 2 THEN max ELSE Wrap(2 * delay)

\* Policy.backoff(failedAttempt).  A loop that has returned max stays there.
backoff(base, max, failedAttempt) ==
    LET delay[step \in 1..failedAttempt] ==
            IF step = 1 THEN base ELSE nextBackoff(delay[step - 1], max)
    IN  IF delay[failedAttempt] > max THEN max ELSE delay[failedAttempt]
=============================================================================
