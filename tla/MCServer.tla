------------------------------ MODULE MCServer ------------------------------
EXTENDS Server, TLC

CONSTANTS g1, g2, r1, r2

MCEmbedded == (g1 :> 2) @@ (g2 :> 1)

\* PostgreSQL with one connection, so that two requests compete for it.
Stored == ("POSTGRES_ENABLED" :> TRUE) @@ ("POSTGRES_USER" :> "gate")
            @@ ("POSTGRES_DB" :> "gate") @@ ("POSTGRES_MAX_CONNS" :> 1)

DSN(host) == [host |-> host, port |-> 5432, sslmode |-> "require"]

Target(n, k, w) == [name |-> n, kind |-> k, weight |-> w]

\* g1 is also deployed with settings at, and one past, the limits of Load.
Overrides == {
    <<>>,
    ("RETRY_BASE_BACKOFF" :> HalfWord \div 2) @@ ("RETRY_MAX_BACKOFF" :> HalfWord - 1),
    ("RETRY_BASE_BACKOFF" :> 3) @@ ("RETRY_MAX_BACKOFF" :> 13) @@ ("UPSTREAM_MAX_ATTEMPTS" :> 10),
    ("RETRY_BASE_BACKOFF" :> 2001),
    ("CIRCUIT_BREAKER_MINIMUM_REQUESTS" :> 21),
    ("REDIS_ENABLED" :> TRUE) @@ ("RATE_LIMIT_REQUESTS_PER_MINUTE" :> 1)
        @@ ("CIRCUIT_BREAKER_FAILURE_RATIO" :> NaN)
        @@ ("MODEL_PROVIDERS" :> <<Target("a", "mock", 100), Target("b", "deepseek", 1)>>)
        @@ ("DEEPSEEK_API_KEY" :> "key"),
    ("RATE_LIMIT_BURST" :> Unparsed),
    ("MODEL_PROVIDERS" :> <<Target("a", "mock", 1), Target("a", "mock", 100)>>),
    ("MODEL_PROVIDER" :> "openai-compatible"),
    ("MODEL_PROVIDER" :> "openai-compatible") @@ ("OPENAI_API_KEY" :> "key")
        @@ ("OPENAI_COMPATIBLE_BASE_URL" :> "relative"),
    ("POSTGRES_PORT" :> 65536),
    ("POSTGRES_PORT" :> 65536) @@ ("POSTGRES_DSN" :> DSN("db")),
    ("POSTGRES_SSLMODE" :> "on"),
    ("REDIS_ENABLED" :> TRUE) @@ ("POSTGRES_DSN" :> DSN("malformed"))}

MCEnvironments == (g1 :> {o @@ Stored : o \in Overrides} \cup {<<>>}) @@ (g2 :> {Stored})
=============================================================================
