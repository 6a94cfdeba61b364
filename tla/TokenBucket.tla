---------------------------- MODULE TokenBucket ----------------------------
(***************************************************************************)
(* The rate limiter: tokenBucketScript and RedisLimiter.Allow of           *)
(* internal/ratelimit/redis.go, GatewayService.enforceRateLimit around     *)
(* them, and the Retry-After header that the handler computes.  A bucket   *)
(* belongs to one client identity; the requests of that client come from   *)
(* any number of connections and gateways, and the script runs atomically  *)
(* in Redis.                                                               *)
(*                                                                         *)
(* The script's rate_per_ms is Rate / Unit: tokens are counted in units,   *)
(* Unit of them to a token, and Rate units flow in per millisecond.  (The  *)
(* script computes in float64; units make the same quantities exact.)      *)
(*                                                                         *)
(* Time is kept as differences to now_ms.  Redis reads a wall clock, which *)
(* may be set back; its TTLs are deadlines on the same clock.              *)
(***************************************************************************)
EXTENDS Integers

CONSTANTS
    Unit,           \* units per token
    Rate,           \* units that flow in per millisecond
    Burst,          \* capacity, in tokens
    MinTTL,         \* the shortest TTL of a bucket, 1000 ms in the script
    Second,         \* milliseconds per second of the Retry-After header
    FailOpen,       \* RATE_LIMIT_FAIL_OPEN
    MaxStepsBack,   \* bound: how often the clock is set back
    MaxStep         \* bound: by how many milliseconds at a time

ASSUME BucketOptions ==
    /\ Unit \in Nat \ {0} /\ Rate \in Nat \ {0} /\ Burst \in Nat \ {0}
    /\ MinTTL \in Nat \ {0} /\ Second \in Nat \ {0}
    /\ FailOpen \in BOOLEAN
ASSUME ClockBounds == MaxStepsBack \in Nat /\ MaxStep \in Nat

Capacity == Burst * Unit

VARIABLES
    exists,      \* the key exists in Redis
    tokens,      \* its field tokens, in units
    age,         \* now_ms - timestamp_ms; negative after a step back
    ttl,         \* remaining time to live of the key
    answer,      \* what enforceRateLimit returned to the last request
    stepsBack,   \* how often the clock was set back
    ideal,       \* history: level of a bucket that is refilled as time passes
    due          \* history: what is left of the wait that the last refused
                 \* request was told; -1 when it no longer applies

vars == <<exists, tokens, age, ttl, answer, stepsBack, ideal, due>>

TypeOK ==
    /\ exists \in BOOLEAN
    /\ tokens \in 0..Capacity
    /\ age \in Int
    /\ ttl \in Nat
    /\ answer \in {"none", "allowed", "limited", "open", "unavailable"}
    /\ stepsBack \in 0..MaxStepsBack
    /\ ideal \in 0..Capacity
    /\ due \in Nat \union {-1}

Init ==
    /\ exists = FALSE
    /\ tokens = 0 /\ age = 0 /\ ttl = 0
    /\ answer = "none"
    /\ stepsBack = 0
    /\ ideal = Capacity
    /\ due = -1

-----------------------------------------------------------------------------
AtMost(bound, n) == IF n > bound THEN bound ELSE n
AtLeast(bound, n) == IF n < bound THEN bound ELSE n

\* math.ceil(n / d)
CeilDiv(n, d) == (n + d - 1) \div d

\* Faulty variant: the refill is not capped.
refilled_Uncapped ==
    IF exists THEN tokens + AtLeast(0, age) * Rate ELSE Capacity

\* The tokens a script finds: a missing key is a full bucket, and no time has
\* passed when the timestamp is ahead of the clock.
refilled ==
    IF exists THEN AtMost(Capacity, tokens + AtLeast(0, age) * Rate) ELSE Capacity

\* Faulty variant: the key lives as long as filling up takes, rounded down.
expiry_Floor == AtLeast(MinTTL, Capacity \div Rate)

\* The PEXPIRE at the end of the script: twice the time an empty bucket needs.
expiry == AtLeast(MinTTL, 2 * CeilDiv(Capacity, Rate))

\* Faulty variant: the wait is rounded down.
retryAfter_Floor == (Unit - refilled) \div Rate

\* retry_after_ms of a refused request.
retryAfter == CeilDiv(Unit - refilled, Rate)

\* The Retry-After header in whole seconds, here as milliseconds again.
RetryAfterHeader(ms) == AtLeast(1, CeilDiv(ms, Second)) * Second

\* What the script leaves under the key.
Store(left) ==
    /\ exists' = TRUE
    /\ tokens' = left
    /\ age' = 0
    /\ ttl' = expiry

-----------------------------------------------------------------------------
\* The script finds a token, and the request may go on.
Allowed ==
    /\ refilled >= Unit
    /\ Store(refilled - Unit)
    /\ answer' = "allowed"
    /\ ideal' = ideal - Unit
    /\ due' = -1
    /\ UNCHANGED stepsBack

\* It finds less than a token: the request is told when to come back.
Limited ==
    /\ refilled < Unit
    /\ Store(refilled)
    /\ answer' = "limited"
    /\ due' = RetryAfterHeader(retryAfter)
    /\ UNCHANGED <<stepsBack, ideal>>

\* Redis cannot be reached, or its reply is lost after the script has run and
\* may have taken a token.
LimiterFails ==
    /\ answer' = IF FailOpen THEN "open" ELSE "unavailable"
    /\ \/ UNCHANGED <<exists, tokens, age, ttl, ideal, due>>
       \/ refilled >= Unit /\ Store(refilled - Unit) /\ ideal' = ideal - Unit /\ due' = -1
       \/ refilled < Unit /\ Store(refilled) /\ UNCHANGED <<ideal, due>>
    /\ UNCHANGED stepsBack

\* A millisecond passes.  Redis removes the key when its time is up.
Tick ==
    /\ exists' = (exists /\ ttl > 1)
    /\ tokens' = IF exists' THEN tokens ELSE 0
    /\ age' = IF exists' THEN age + 1 ELSE 0
    /\ ttl' = IF exists' THEN ttl - 1 ELSE 0
    /\ ideal' = AtMost(Capacity, ideal + Rate)
    /\ due' = AtLeast(IF due = -1 THEN -1 ELSE 0, due - 1)
    /\ UNCHANGED <<answer, stepsBack>>

\* The clock is set back by d milliseconds while no time passes.
StepBack(d) ==
    /\ stepsBack < MaxStepsBack
    /\ exists
    /\ stepsBack' = stepsBack + 1
    /\ age' = age - d
    /\ ttl' = ttl + d
    /\ due' = -1
    /\ UNCHANGED <<exists, tokens, answer, ideal>>

Next ==
    \/ Allowed \/ Limited \/ LimiterFails
    \/ Tick
    \/ \E d \in 1..MaxStep : StepBack(d)

Spec == Init /\ [][Next]_vars

-----------------------------------------------------------------------------
\* The bucket that the script fills up lazily, from a timestamp, through lost
\* replies, expiry of the key and a clock that is set back, against one that is
\* filled as time passes.  It never holds more, so every request it lets in is
\* covered: in any interval at most Burst plus the refill of that interval.  And
\* it holds as much, but for the refill of the time the clock was set back by.
TracksIdeal ==
    /\ refilled <= ideal
    /\ ideal - refilled <= stepsBack * MaxStep * Rate

\* Retry-After tells the truth: a client that waits for as long as the header
\* said, while no other request of it was let in and the clock was not set
\* back, finds a token, even if the key has expired meanwhile.
WaitIsEnough == due = 0 => refilled >= Unit
=============================================================================
