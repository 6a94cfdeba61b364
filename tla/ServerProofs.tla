---------------------------- MODULE ServerProofs ----------------------------
(***************************************************************************)
(* Proofs about Server, for any number of gateways, requests, migrations   *)
(* and restarts.                                                           *)
(***************************************************************************)
EXTENDS Server, TLAPS

-----------------------------------------------------------------------------
(* Configuration                                                           *)

\* Accepted retry and breaker settings satisfy retry.New, circuitbreaker.New
\* and concurrency.New, which repeat the checks of Load in other words.
LEMMA AcceptedPolicies ==
    ASSUME NEW env, NEW c, WellTyped(c), Accepts(env, c)
    PROVE  NewPolicy(c) /\ NewBreaker(c) /\ NewSemaphore(c) /\ NewRedisPolicies(c)
PROOF
  <1>1. NewPolicy(c)
    <2>1. /\ c.RetryMaxAttempts \in Int /\ c.AttemptTimeout \in Int
          /\ c.RetryBaseBackoff \in Int /\ c.RetryMaxBackoff \in Int
      BY Zenon DEF WellTyped
    <2>2. acceptsUpstream(c)
      BY Zenon DEF Accepts
    <2> QED BY <2>1, <2>2 DEF acceptsUpstream, positiveDuration, positiveInt, NewPolicy
  <1>2. acceptsProtection(c)
    BY Zenon DEF Accepts
  <1>3. NewBreaker(c)
    <2> DEFINE size == c.WindowSize
               min  == c.MinimumRequests
               open == c.OpenTimeout
               half == c.HalfOpenMax
    <2>1. size \in Int /\ min \in Int /\ open \in Int /\ half \in Int
      BY Zenon DEF WellTyped
    <2>2. size > 0 /\ min > 0 /\ min <= size /\ open > 0 /\ half > 0
      BY <1>2, Zenon DEF acceptsProtection, positiveDuration, positiveInt
    <2>3. positiveRatio(c.FailureRatio)
      BY <1>2, Zenon DEF acceptsProtection
    <2> HIDE DEF size, min, open, half
    <2>4. ~(size <= 0) /\ ~(min <= 0 \/ min > size) /\ ~(open <= 0) /\ ~(half <= 0)
      BY <2>1, <2>2
    <2> QED BY <2>3, <2>4, Zenon DEF NewBreaker, size, min, open, half
  <1>5. NewSemaphore(c)
    <2> DEFINE n == c.MaxConcurrency
    <2>1. n > 0
      BY <1>2, Zenon DEF acceptsProtection, positiveInt
    <2>3. n \in Int
      BY Zenon DEF WellTyped
    <2> HIDE DEF n
    <2>2. ~(n <= 0)
      BY <2>1, <2>3
    <2> QED BY <2>2, Zenon DEF NewSemaphore, n
  <1>4. NewRedisPolicies(c)
    <2>1. /\ c.RateLimitRPM \in Int /\ c.RateLimitBurst \in Int
          /\ c.IdempotencyTTL \in Int /\ c.LockTTL \in Int /\ c.CacheTTL \in Int
      BY Zenon DEF WellTyped
    <2>2. acceptsRedis(c)
      BY Zenon DEF Accepts
    <2> QED BY <2>1, <2>2 DEF acceptsRedis, positiveDuration, positiveInt,
              NewRedisLimiter, NewRedisStore, NewRedisCache, NewRedisPolicies
  <1> QED BY Zenon, <1>1, <1>3, <1>4, <1>5

\* Accepted targets satisfy routing.New.
LEMMA AcceptedRouter ==
    ASSUME NEW env, NEW c, WellTyped(c), Accepts(env, c)
    PROVE  NewRouter(c)
PROOF
  <1> DEFINE targets == c.Providers
  <1>1. targets \in Seq([name : STRING, kind : STRING, weight : Int])
    BY Zenon DEF WellTyped
  <1>2. c.RoutingStrategy \in Strategies /\ validTargets(targets)
    BY Zenon DEF Accepts
  <1> HIDE DEF targets
  <1>3. ASSUME NEW i \in DOMAIN targets
        PROVE  /\ targets[i].name # "" /\ ~(targets[i].weight <= 0)
               /\ \A j \in 1..(i - 1) : targets[j].name # targets[i].name
    <2>1. DOMAIN targets = 1..Len(targets) /\ Len(targets) \in Nat
      BY <1>1
    <2>2. targets[i].weight \in 1..100
      BY Zenon, <1>2 DEF validTargets
    <2>3. ~(targets[i].weight <= 0)
      BY <2>2
    <2>4. \A j \in 1..(i - 1) : j \in DOMAIN targets /\ j # i
      BY <2>1
    <2> QED BY Zenon, <1>2, <2>3, <2>4 DEF validTargets
  <1>4. targets # <<>>
    BY Zenon, <1>2 DEF validTargets
  <1> QED BY Zenon, <1>2, <1>3, <1>4 DEF NewRouter, targets

\* Every accepted target has the API key that its provider asks for.
LEMMA AcceptedTargets ==
    ASSUME NEW env, NEW c, WellTyped(c), Accepts(env, c), NEW i \in DOMAIN c.Providers
    PROVE  \/ NewTargetFromConfig(c, c.Providers[i])
           \/ "relative" \in {c.DeepSeekBaseURL, c.OpenAIBaseURL}
PROOF
  <1>1. c.Providers[i].kind \in ProviderKinds /\ c.Providers[i].name # ""
    BY Zenon DEF Accepts, validTargets
  <1>2. hasKeys(c)
    BY Zenon DEF Accepts
  <1>3. {c.DeepSeekBaseURL, c.OpenAIBaseURL} \subseteq {"absolute", "relative"}
    BY Zenon DEF WellTyped
  <1> QED BY Zenon, <1>1, <1>2, <1>3 DEF ProviderKinds, hasKeys,
           NewTargetFromConfig, NewOpenAICompatibleProvider

\* The PostgresDSN of a Config is the connection string of its environment.
LEMMA ConfigDSN == ASSUME NEW env PROVE Config(env).PostgresDSN = connectionString(env)
  BY SMTT(30) DEF Config

\* Without POSTGRES_DSN, Load has checked the port of the connection string.
LEMMA AcceptedDSN ==
    ASSUME NEW env, Accepts(env, Config(env)), Config(env).PostgresEnabled
    PROVE  ParseConfig(Config(env).PostgresDSN) \/ Unread(Config(env).PostgresDSN)
PROOF
  <1> DEFINE dsn == Config(env).PostgresDSN
  <1>1. "POSTGRES_DSN" \in DOMAIN env \/ postgresPort(env) \in Ports
    BY Zenon DEF Accepts, acceptsPostgres, postgresDSN
  <1>2. dsn = connectionString(env)
    BY Zenon, ConfigDSN
  <1>3. CASE "POSTGRES_DSN" \in DOMAIN env
    <2>1. connectionString(env).given
      BY Zenon, <1>3 DEF connectionString
    <2> QED BY Zenon, <1>2, <2>1 DEF Unread
  <1>4. CASE "POSTGRES_DSN" \notin DOMAIN env
    <2>1. dsn.url.port = postgresPort(env)
      BY <1>2, <1>4 DEF connectionString, envOrDefault
    <2>2. dsn.url.port \in Ports
      BY <1>1, <1>4, <2>1, Zenon
    <2> QED BY <2>2, Zenon DEF ParseConfig, Unread
  <1> QED BY <1>3, <1>4, Zenon

\* What Load accepts, run() can build, unless a base URL is relative.
LEMMA AcceptedBuilds ==
    ASSUME NEW env, NEW c, WellTyped(c), Accepts(env, c)
    PROVE  /\ buildProviderRouter(c) \/ "relative" \in {c.DeepSeekBaseURL, c.OpenAIBaseURL}
           /\ NewRedisPolicies(c)
  BY Zenon, AcceptedPolicies, AcceptedRouter, AcceptedTargets DEF buildProviderRouter

-----------------------------------------------------------------------------
(* The backoff                                                             *)

\* Induction on the natural numbers, for a property given as a set.  It follows
\* from the library's theorems, which the last section brings in.
Induction == \A G \in SUBSET Nat : 0 \in G /\ (\A n \in G : n + 1 \in G) => G = Nat

\* One round of the loop: the doubling never overflows a time.Duration.
LEMMA BackoffRound ==
    ASSUME NEW max \in 1..(HalfWord - 1), NEW d \in 1..max
    PROVE  /\ nextBackoff(d, max) \in 1..max
           /\ \/ nextBackoff(d, max) = 2 * d
              \/ nextBackoff(d, max) = max /\ 2 * d + 1 >= max
PROOF
  <1>1. HalfWord \in Nat /\ max \in Nat /\ d \in Nat
    BY Words
  <1>2. CASE d >= max \div 2
    <2>1. 2 * d + 1 >= max
      BY <1>1, <1>2
    <2> QED BY <1>1, <1>2, <2>1 DEF nextBackoff
  <1>3. CASE ~(d >= max \div 2)
    <2>1. 2 * d <= max /\ 2 * d \in 1..max
      BY <1>1, <1>3
    <2>2. (2 * d + HalfWord) \in 0..(2 * HalfWord - 1)
      BY <1>1, <2>1
    <2>3. \A n \in Nat \ {0} : \A x \in 0..(n - 1) : x % n = x
      OBVIOUS
    <2>4. (2 * d + HalfWord) % (2 * HalfWord) = 2 * d + HalfWord
      BY <1>1, <2>2, <2>3
    <2>5. Wrap(2 * d) = 2 * d
      BY <1>1, <2>4 DEF Wrap
    <2> QED BY Zenon, <1>3, <2>1, <2>5 DEF nextBackoff
  <1> QED BY Zenon, <1>2, <1>3

\* The delays of the first n failed attempts, from the one before each.
Unrolled(base, max, n, f) ==
    f = [step \in 1..n |-> IF step = 1 THEN base ELSE nextBackoff(f[step - 1], max)]

\* There is such a function,
LEMMA DelaysExist ==
    ASSUME Induction, NEW base, NEW max, NEW n \in Nat
    PROVE  \E f : Unrolled(base, max, n, f)
PROOF
  <1> DEFINE G == {k \in Nat : \E f : Unrolled(base, max, k, f)}
  <1>1. 0 \in G
    <2> DEFINE f == [step \in 1..0 |-> base]
    <2>1. Unrolled(base, max, 0, f)
      BY DEF Unrolled
    <2> QED BY Zenon, <2>1
  <1>2. ASSUME NEW k \in G PROVE k + 1 \in G
    <2>1. PICK f : Unrolled(base, max, k, f)
      BY Zenon
    <2> DEFINE g == [step \in 1..(k + 1) |->
                        IF step = 1 THEN base ELSE nextBackoff(f[step - 1], max)]
    <2>2. \A step \in 1..k : g[step] = f[step]
      BY <2>1 DEF Unrolled
    <2>3. \A step \in 1..(k + 1) : step # 1 => step - 1 \in 1..k
      OBVIOUS
    <2>4. Unrolled(base, max, k + 1, g)
      BY Zenon, <2>2, <2>3 DEF Unrolled
    <2>5. k + 1 \in Nat
      OBVIOUS
    <2> QED BY Zenon, <2>4, <2>5
  <1> HIDE DEF G
  <1>3. G \in SUBSET Nat
    BY Zenon DEF G
  <1>4. n \in G
    BY Zenon, <1>1, <1>2, <1>3 DEF Induction
  <1> QED BY Zenon, <1>4 DEF G

\* and a longer one begins with a shorter one.
LEMMA DelaysAgree ==
    ASSUME Induction, NEW base, NEW max, NEW m \in Nat, NEW n \in Nat, m <= n,
           NEW f, Unrolled(base, max, m, f), NEW g, Unrolled(base, max, n, g)
    PROVE  \A step \in 1..m : f[step] = g[step]
PROOF
  <1> DEFINE G == {k \in Nat : k \in 1..m => f[k] = g[k]}
  <1>1. 0 \in G /\ G \in SUBSET Nat
    OBVIOUS
  <1>2. ASSUME NEW k \in G PROVE k + 1 \in G
    <2>1. k \in Nat /\ (k \in 1..m => f[k] = g[k])
      BY Zenon
    <2>2. ASSUME k + 1 \in 1..m PROVE f[k + 1] = g[k + 1]
      <3>1. CASE k = 0
        BY <2>2, <3>1 DEF Unrolled
      <3>2. CASE k # 0
        <4>1. k \in 1..m /\ k + 1 \in 1..n /\ k + 1 # 1 /\ (k + 1) - 1 = k
          BY <2>1, <2>2, <3>2
        <4>2. f[k + 1] = nextBackoff(f[(k + 1) - 1], max)
              /\ g[k + 1] = nextBackoff(g[(k + 1) - 1], max)
          BY Zenon, <2>2, <4>1 DEF Unrolled
        <4> QED BY Zenon, <2>1, <4>1, <4>2
      <3> QED BY Zenon, <3>1, <3>2
    <2> QED BY <2>1, <2>2
  <1> HIDE DEF G
  <1>3. Nat = G
    BY Zenon, <1>1, <1>2 DEF Induction
  <1>4. \A step \in 1..m : step \in G
    BY <1>3
  <1> QED BY Zenon, <1>4 DEF G

\* The delays are between one unit and the limit.
LEMMA DelaysBounded ==
    ASSUME Induction, NEW max \in 1..(HalfWord - 1), NEW base \in 1..max, NEW n \in Nat,
           NEW f, Unrolled(base, max, n, f)
    PROVE  \A step \in 1..n : f[step] \in 1..max
PROOF
  <1> DEFINE G == {k \in Nat : k \in 1..n => f[k] \in 1..max}
  <1>1. 0 \in G /\ G \in SUBSET Nat
    OBVIOUS
  <1>2. ASSUME NEW k \in G PROVE k + 1 \in G
    <2>1. k \in Nat /\ (k \in 1..n => f[k] \in 1..max)
      BY Zenon
    <2>2. ASSUME k + 1 \in 1..n PROVE f[k + 1] \in 1..max
      <3>1. CASE k = 0
        BY <2>2, <3>1 DEF Unrolled
      <3>2. CASE k # 0
        <4>1. k \in 1..n /\ k + 1 # 1 /\ (k + 1) - 1 = k
          BY <2>1, <2>2, <3>2
        <4>2. f[k + 1] = nextBackoff(f[(k + 1) - 1], max)
          BY Zenon, <2>2, <4>1 DEF Unrolled
        <4>3. f[k] \in 1..max
          BY Zenon, <2>1, <4>1
        <4>4. nextBackoff(f[k], max) \in 1..max
          BY Zenon, <4>3, BackoffRound
        <4> QED BY Zenon, <4>1, <4>2, <4>4
      <3> QED BY Zenon, <3>1, <3>2
    <2> QED BY <2>1, <2>2
  <1> HIDE DEF G
  <1>3. Nat = G
    BY Zenon, <1>1, <1>2 DEF Induction
  <1>4. \A step \in 1..n : step \in G
    BY <1>3
  <1> QED BY Zenon, <1>4 DEF G

\* What Policy.backoff returns: the delay of the last attempt.
LEMMA BackoffIsDelay ==
    ASSUME Induction, NEW max \in 1..(HalfWord - 1), NEW base \in 1..max, NEW n \in Nat \ {0}
    PROVE  \E f : Unrolled(base, max, n, f) /\ backoff(base, max, n) = f[n]
PROOF
  <1> DEFINE f == CHOOSE g : Unrolled(base, max, n, g)
  <1>1. Unrolled(base, max, n, f)
    BY Zenon, DelaysExist
  <1>2. backoff(base, max, n) = IF f[n] > max THEN max ELSE f[n]
    BY Zenon DEF backoff, Unrolled
  <1> HIDE DEF f
  <1>3. f[n] \in 1..max
    BY <1>1, DelaysBounded
  <1>4. backoff(base, max, n) = f[n]
    BY <1>2, <1>3, Words
  <1> QED BY Zenon, <1>1, <1>4

\* The first retry waits the base delay.
LEMMA BackoffFirst ==
    ASSUME Induction, NEW max \in 1..(HalfWord - 1), NEW base \in 1..max
    PROVE  backoff(base, max, 1) = base
PROOF
  <1>1. PICK f : Unrolled(base, max, 1, f) /\ backoff(base, max, 1) = f[1]
    BY BackoffIsDelay
  <1> QED BY <1>1 DEF Unrolled

\* Each later delay is the previous one doubled up to the maximum, and never
\* leaves 1..max.
LEMMA BackoffNext ==
    ASSUME Induction, NEW max \in 1..(HalfWord - 1), NEW base \in 1..max, NEW n \in Nat \ {0, 1}
    PROVE  LET d == backoff(base, max, n - 1)
           IN  d \in 1..max /\ backoff(base, max, n) = nextBackoff(d, max)
PROOF
  <1>1. n - 1 \in Nat \ {0} /\ n \in Nat \ {0} /\ n - 1 <= n
    OBVIOUS
  <1>2. PICK f : Unrolled(base, max, n - 1, f) /\ backoff(base, max, n - 1) = f[n - 1]
    BY Zenon, <1>1, BackoffIsDelay
  <1>3. PICK g : Unrolled(base, max, n, g) /\ backoff(base, max, n) = g[n]
    BY Zenon, <1>1, BackoffIsDelay
  <1>4. f[n - 1] = g[n - 1]
    <2>1. \A step \in 1..(n - 1) : f[step] = g[step]
      BY <1>1, <1>2, <1>3, DelaysAgree
    <2> QED BY <1>1, <2>1
  <1>5. g[n] = nextBackoff(g[n - 1], max)
    BY <1>1, <1>3 DEF Unrolled
  <1>6. f[n - 1] \in 1..max
    <2>1. \A step \in 1..(n - 1) : f[step] \in 1..max
      BY Zenon, <1>1, <1>2, DelaysBounded
    <2> QED BY <1>1, <2>1
  <1> QED BY Zenon, <1>2, <1>3, <1>4, <1>5, <1>6

-----------------------------------------------------------------------------
(* The process                                                             *)

Loaded(g) == \E env \in Environments[g] : cfg[g] = Config(env) /\ Accepts(env, cfg[g])

ProcInv ==
    /\ pc \in [Gateways -> Stages]
    /\ cfg \in [Gateways -> Configs]
    /\ late \in [Gateways -> BOOLEAN]
    /\ \A g \in Gateways : pc[g] = "build" => Loaded(g)

\* What Load reads from an environment, and the part of it that run() keeps,
\* are configurations.
LEMMA ConfigsLoaded ==
    ASSUME NEW g \in Gateways, NEW env \in Environments[g]
    PROVE  Config(env) \in Configs /\ Deployed(Config(env)) \in Configs
  BY Zenon DEF Configs

\* The absent configuration is one of Configs.
LEMMA NoConfig == None \in Configs
  BY Zenon DEF Configs

\* The steps of a request are no business of the process or its migrations.
LEMMA RequestFrame ==
    ASSUME NEW r \in Requests, Request(r)
    PROVE  UNCHANGED <<process, migration>>
PROOF
  <1>1. CASE \E g \in Gateways : Arrive(r, g)
    BY Zenon, <1>1 DEF Arrive
  <1>2. CASE Outcome(r)
    BY Zenon, <1>2 DEF Outcome
  <1>3. CASE Record(r)
    BY Zenon, <1>3 DEF Record, Begin, BeginFails, InsertProvider, InsertRequest, InsertUsage,
                StatementFails, Rollback, Commit, CommitFails
  <1>4. CASE Resolve(r)
    BY Zenon, <1>4 DEF Resolve
  <1>5. CASE Answer(r)
    BY Zenon, <1>5 DEF Answer
  <1> QED BY Zenon, <1>1, <1>2, <1>3, <1>4, <1>5 DEF Request

\* A process that exits keeps the process invariant.
LEMMA ExitProcess ==
    ASSUME ProcInv, NEW g \in Gateways, Exit(g)
    PROVE  ProcInv'
PROOF
  <1>1. /\ pc' = [pc EXCEPT ![g] = "down"]
        /\ cfg' = [cfg EXCEPT ![g] = None]
        /\ late' = [late EXCEPT ![g] = FALSE]
    BY Zenon DEF Exit, Goto
  <1>2. pc' \in [Gateways -> Stages] /\ cfg' \in [Gateways -> Configs]
          /\ late' \in [Gateways -> BOOLEAN]
    BY Zenon, <1>1, NoConfig DEF ProcInv, Stages
  <1>3. ASSUME NEW h \in Gateways, pc'[h] = "build" PROVE Loaded(h)'
    <2>1. h # g /\ pc[h] = "build" /\ cfg'[h] = cfg[h]
      BY Zenon, <1>1, <1>3 DEF ProcInv
    <2> QED BY Zenon, <2>1 DEF ProcInv, Loaded
  <1> QED BY Zenon, <1>2, <1>3 DEF ProcInv

\* A step that moves g to another stage and keeps its configuration.
LEMMA GotoProcess ==
    ASSUME ProcInv, NEW g \in Gateways, NEW s \in Stages \ {"build"},
           Goto(g, s), UNCHANGED cfg, late' \in [Gateways -> BOOLEAN]
    PROVE  ProcInv'
PROOF
  <1>1. pc' \in [Gateways -> Stages]
    BY Zenon DEF ProcInv, Goto
  <1>2. ASSUME NEW h \in Gateways, pc'[h] = "build" PROVE Loaded(h)'
    <2>1. pc[h] = "build" /\ cfg'[h] = cfg[h]
      BY Zenon, <1>2 DEF ProcInv, Goto
    <2> QED BY Zenon, <2>1 DEF ProcInv, Loaded
  <1> QED BY Zenon, <1>1, <1>2 DEF ProcInv

\* Loading the configuration keeps the process invariant.
LEMMA LoadProcess ==
    ASSUME ProcInv, NEW g \in Gateways, Load(g)
    PROVE  ProcInv'
PROOF
  <1>1. PICK env \in Environments[g] :
            Accepts(env, Config(env)) /\ cfg' = [cfg EXCEPT ![g] = Config(env)]
    BY Zenon DEF Load
  <1> DEFINE c == Config(env)
  <1>2. c \in Configs
    BY Zenon, ConfigsLoaded
  <1>3. Accepts(env, c) /\ cfg' = [cfg EXCEPT ![g] = c] /\ c = Config(env)
    BY Zenon, <1>1
  <1> HIDE DEF c
  <1>4. pc' = [pc EXCEPT ![g] = "build"] /\ late' = late
    BY Zenon DEF Load, Goto
  <1>5. pc' \in [Gateways -> Stages] /\ cfg' \in [Gateways -> Configs]
    BY Zenon, <1>2, <1>3, <1>4 DEF ProcInv, Stages, Starting
  <1>6. ASSUME NEW h \in Gateways, pc'[h] = "build" PROVE Loaded(h)'
    <2>1. CASE h = g
      <3>1. cfg'[g] = c
        BY Zenon, <1>3 DEF ProcInv
      <3> QED BY Zenon, <1>3, <2>1, <3>1 DEF Loaded
    <2>2. CASE h # g
      <3>1. pc[h] = "build" /\ cfg'[h] = cfg[h]
        BY Zenon, <1>3, <1>4, <1>6, <2>2 DEF ProcInv
      <3> QED BY Zenon, <3>1 DEF ProcInv, Loaded
    <2> QED BY Zenon, <2>1, <2>2
  <1> QED BY Zenon, <1>4, <1>5, <1>6 DEF ProcInv

\* Building the providers keeps the process invariant.
LEMMA BuildProcess ==
    ASSUME ProcInv, NEW g \in Gateways, Build(g)
    PROVE  ProcInv'
PROOF
  <1>1. PICK env \in Environments[g] : cfg[g] = Config(env)
    BY Zenon DEF Build, ProcInv, Loaded
  <1> DEFINE c == Deployed(cfg[g])
  <1>2. c \in Configs
    BY Zenon, <1>1, ConfigsLoaded
  <1>3. cfg' = [cfg EXCEPT ![g] = c] /\ late' = late
    BY Zenon DEF Build
  <1> HIDE DEF c
  <1> DEFINE s == IF cfg[g].RedisEnabled THEN "redis"
                  ELSE IF cfg[g].PostgresEnabled THEN "connect" ELSE "serve"
  <1>4. s \in Stages \ {"build"} /\ pc' = [pc EXCEPT ![g] = s]
    <2>1. pc' = [pc EXCEPT ![g] = s]
      BY Zenon DEF Build, Goto
    <2>2. s \in Stages \ {"build"}
      BY Zenon DEF Stages, Starting
    <2> QED BY Zenon, <2>1, <2>2
  <1> HIDE DEF s
  <1>5. pc' \in [Gateways -> Stages] /\ cfg' \in [Gateways -> Configs]
    BY Zenon, <1>2, <1>3, <1>4 DEF ProcInv
  <1>6. ASSUME NEW h \in Gateways, pc'[h] = "build" PROVE Loaded(h)'
    <2>1. h # g /\ pc[h] = "build" /\ cfg'[h] = cfg[h]
      BY Zenon, <1>3, <1>4, <1>6 DEF ProcInv
    <2> QED BY Zenon, <2>1 DEF ProcInv, Loaded
  <1> QED BY Zenon, <1>3, <1>5, <1>6 DEF ProcInv

-----------------------------------------------------------------------------
(* The migrations                                                          *)

Migrating == {"check", "exec", "version", "commit"}

\* Where the loop of ApplyMigrations is: k files are applied on top of the n
\* of the schema, and all but the one being recorded are recorded.
Progress(n, stage, f, done, seen, last) ==
    LET k == Len(done)
    IN  /\ \A i \in 1..k : done[i] = n + i
        /\ seen = (n + 1)..(IF stage = "version" THEN n + k - 1 ELSE n + k)
        /\ stage = "check" => f \in 1..(n + k + 1) /\ (k > 0 => f = n + k + 1)
        /\ stage = "exec" => f = n + k + 1
        /\ stage = "version" => k > 0 /\ f = n + k
        /\ stage = "commit" => f <= n + k + 1 /\ f > last

Mig(g) ==
    IF pc[g] \in Migrating
    THEN Progress(Len(schema), pc[g], file[g], applied[g], noted[g], Embedded[g])
    ELSE applied[g] = <<>> /\ noted[g] = {}

\* A gateway that serves with a database has its schema.
Ready(g) == pc[g] \in {"serve", "drain"} /\ cfg[g].postgres => Len(schema) >= Embedded[g]

MigType ==
    /\ file \in [Gateways -> Nat]
    /\ applied \in [Gateways -> Seq(Nat)]
    /\ noted \in [Gateways -> SUBSET Nat]
    /\ schema \in Seq(Nat)

Ordered ==
    /\ \A i \in 1..Len(schema) : schema[i] = i
    /\ versions = 1..Len(schema)

MigInv ==
    /\ MigType
    /\ Ordered
    /\ \A g \in Gateways : lock = g <=> pc[g] \in Migrating
    /\ \A g \in Gateways : Mig(g)
    /\ \A g \in Gateways : Ready(g)

\* Steps that leave the migrations alone.
LEMMA ElsewhereMigration ==
    ASSUME ProcInv, MigInv, NEW g \in Gateways, NEW s, s \notin Migrating, pc[g] \notin Migrating,
           Goto(g, s), UNCHANGED migration,
           \A h \in Gateways \ {g} : cfg'[h] = cfg[h],
           Ready(g)'
    PROVE  MigInv'
PROOF
  <1>1. \A h \in Gateways : pc'[h] = IF h = g THEN s ELSE pc[h]
    BY Zenon DEF Goto, ProcInv
  <1>2. MigType' /\ Ordered'
    BY Zenon DEF MigInv, MigType, Ordered, migration
  <1>3. \A h \in Gateways : (lock = h <=> pc[h] \in Migrating)'
    BY Zenon, <1>1 DEF MigInv, migration
  <1>4. ASSUME NEW h \in Gateways PROVE Mig(h)'
    <2>1. CASE h = g
      BY Zenon, <1>1, <2>1 DEF MigInv, Mig, migration
    <2>2. CASE h # g
      BY Zenon, <1>1, <2>2 DEF MigInv, Mig, migration
    <2> QED BY Zenon, <2>1, <2>2
  <1>5. ASSUME NEW h \in Gateways \ {g} PROVE Ready(h)'
    <2>1. pc'[h] = pc[h] /\ cfg'[h] = cfg[h] /\ schema' = schema /\ Ready(h)
      BY Zenon, <1>1 DEF MigInv, migration
    <2> QED BY Zenon, <2>1 DEF Ready
  <1> QED BY Zenon, <1>2, <1>3, <1>4, <1>5 DEF MigInv

\* A process that ends takes its open transaction and its lock with it.
LEMMA ExitMigration ==
    ASSUME ProcInv, MigInv, NEW g \in Gateways, Exit(g), UNCHANGED <<schema, versions>>
    PROVE  MigInv'
PROOF
  <1>1. /\ \A h \in Gateways : pc'[h] = IF h = g THEN "down" ELSE pc[h]
        /\ \A h \in Gateways : h # g => cfg'[h] = cfg[h]
        /\ lock' = IF lock = g THEN None ELSE lock
        /\ file' = [file EXCEPT ![g] = 0]
        /\ applied' = [applied EXCEPT ![g] = <<>>] /\ noted' = [noted EXCEPT ![g] = {}]
    BY Zenon DEF Exit, Goto, ProcInv
  <1>2. MigType' /\ Ordered'
    BY <1>1 DEF MigInv, MigType, Ordered
  <1>3. \A h \in Gateways : (lock = h <=> pc[h] \in Migrating)'
    BY Zenon, <1>1, Deployments DEF MigInv, Migrating
  <1>4. ASSUME NEW h \in Gateways PROVE Mig(h)'
    <2>1. CASE h = g
      BY Zenon, <1>1, <2>1 DEF MigInv, MigType, Mig, Migrating
    <2>2. CASE h # g
      <3>1. /\ file'[h] = file[h] /\ applied'[h] = applied[h] /\ noted'[h] = noted[h]
            /\ pc'[h] = pc[h]
        BY Zenon, <1>1, <2>2 DEF MigInv, MigType
      <3> QED BY Zenon, <3>1 DEF MigInv, Mig
    <2> QED BY Zenon, <2>1, <2>2
  <1>5. ASSUME NEW h \in Gateways PROVE Ready(h)'
    <2>1. CASE h = g
      BY Zenon, <1>1, <2>1 DEF Ready
    <2>2. CASE h # g
      <3>1. pc'[h] = pc[h] /\ cfg'[h] = cfg[h] /\ schema' = schema /\ Ready(h)
        BY Zenon, <1>1, <2>2 DEF MigInv
      <3> QED BY Zenon, <3>1 DEF Ready
    <2> QED BY Zenon, <2>1, <2>2
  <1> QED BY Zenon, <1>2, <1>3, <1>4, <1>5 DEF MigInv

\* A step of g in its loop, which nobody else sees before COMMIT.
LEMMA LoopMigration ==
    ASSUME ProcInv, MigInv, NEW g \in Gateways, NEW s \in Migrating,
           Goto(g, s), UNCHANGED <<cfg, schema, versions>>, lock' = g,
           \A h \in Gateways : h # g => pc[h] \notin Migrating,
           MigType', Mig(g)',
           \A h \in Gateways \ {g} : applied'[h] = applied[h] /\ noted'[h] = noted[h]
    PROVE  MigInv'
PROOF
  <1>1. \A h \in Gateways : pc'[h] = IF h = g THEN s ELSE pc[h]
    BY Zenon DEF Goto, ProcInv
  <1>2. Ordered'
    BY Zenon DEF MigInv, Ordered
  <1>3. \A h \in Gateways : (lock = h <=> pc[h] \in Migrating)'
    BY Zenon, <1>1
  <1>4. ASSUME NEW h \in Gateways \ {g} PROVE Mig(h)'
    BY Zenon, <1>1 DEF MigInv, Mig
  <1>5. ASSUME NEW h \in Gateways PROVE Ready(h)'
    <2>1. cfg'[h] = cfg[h] /\ schema' = schema /\ Ready(h)
      BY Zenon DEF MigInv
    <2>2. pc'[h] = pc[h] \/ pc'[h] \notin {"serve", "drain"}
      BY Zenon, <1>1 DEF Migrating
    <2> QED BY Zenon, <2>1, <2>2 DEF Ready
  <1> QED BY Zenon, <1>2, <1>3, <1>4, <1>5 DEF MigInv

\* A gateway inside the migration loop holds the advisory lock, and no other
\* is inside.
LEMMA AloneInLoop ==
    ASSUME MigInv, NEW g \in Gateways, pc[g] \in Migrating
    PROVE  lock = g /\ \A h \in Gateways : h # g => pc[h] \notin Migrating
  BY Zenon DEF MigInv

\* Taking the advisory lock keeps the migration invariant.
LEMMA AcquireLockMigration ==
    ASSUME ProcInv, MigInv, NEW g \in Gateways, AcquireLock(g)
    PROVE  MigInv'
PROOF
  <1>1. /\ pc[g] = "lock" /\ lock = None /\ lock' = g
        /\ Goto(g, "check") /\ UNCHANGED <<cfg, schema, versions, applied, noted>>
        /\ file' = [file EXCEPT ![g] = 1]
    BY Zenon DEF AcquireLock
  <1>2. \A h \in Gateways : pc[h] \notin Migrating
    BY Zenon, <1>1, Deployments DEF MigInv
  <1>3. MigType'
    BY Zenon, <1>1 DEF MigInv, MigType
  <1>4. Mig(g)'
    <2>1. applied[g] = <<>> /\ noted[g] = {}
      BY Zenon, <1>2 DEF MigInv, Mig
    <2>2. pc'[g] = "check" /\ file'[g] = 1 /\ Len(schema) \in Nat
      BY <1>1 DEF Goto, ProcInv, MigInv, MigType
    <2> DEFINE n == Len(schema)
    <2> HIDE DEF n
    <2>3. n \in Nat /\ n = Len(schema)
      BY Zenon, <2>2 DEF n
    <2>4. Progress(n, "check", 1, <<>>, {}, Embedded[g])
      BY <2>3 DEF Progress
    <2> QED BY Zenon, <1>1, <2>1, <2>2, <2>3, <2>4 DEF Mig, Migrating
  <1> QED BY Zenon, <1>1, <1>2, <1>3, <1>4, LoopMigration DEF Migrating

\* Looking a version up keeps the migration invariant.
LEMMA CheckVersionMigration ==
    ASSUME ProcInv, MigInv, NEW g \in Gateways, CheckVersion(g)
    PROVE  MigInv'
PROOF
  <1> DEFINE n == Len(schema)
             k == Len(applied[g])
             f == file[g]
             last == Embedded[g]
  <1>1. pc[g] = "check" /\ UNCHANGED <<cfg, schema, versions, lock, applied, noted>>
    BY Zenon DEF CheckVersion
  <1>2. lock = g /\ \A h \in Gateways : h # g => pc[h] \notin Migrating
    BY Zenon, <1>1, AloneInLoop DEF Migrating
  <1>3. /\ n \in Nat /\ k \in Nat /\ f \in Nat /\ last \in Nat
        /\ applied[g] \in Seq(Nat)
    BY Deployments DEF MigInv, MigType
  <1>4. Progress(n, "check", f, applied[g], noted[g], last)
    BY Zenon, <1>1 DEF MigInv, Mig, Migrating
  <1>5. versions = 1..n
    BY Zenon DEF MigInv, Ordered
  <1>6. CASE f > last /\ Goto(g, "commit") /\ UNCHANGED file
    <2>1. MigType'
      BY Zenon, <1>1, <1>6 DEF MigInv, MigType
    <2>2. pc'[g] = "commit"
      BY Zenon, <1>6 DEF Goto, ProcInv
    <2>3. Progress(n, "commit", f, applied[g], noted[g], last)
      BY <1>3, <1>4, <1>6 DEF Progress
    <2>4. Mig(g)'
      BY Zenon, <1>1, <1>6, <2>2, <2>3 DEF Mig, Migrating
    <2> QED BY Zenon, <1>1, <1>2, <1>6, <2>1, <2>4, LoopMigration DEF Migrating
  <1>7. CASE f <= last /\ f \notin versions /\ Goto(g, "exec") /\ UNCHANGED file
    <2>1. MigType'
      BY Zenon, <1>1, <1>7 DEF MigInv, MigType
    <2>2. pc'[g] = "exec"
      BY Zenon, <1>7 DEF Goto, ProcInv
    <2>3. Progress(n, "exec", f, applied[g], noted[g], last)
      <3>1. f \notin 1..n
        BY Zenon, <1>5, <1>7
      <3> QED BY <1>3, <1>4, <3>1 DEF Progress
    <2>4. Mig(g)'
      BY Zenon, <1>1, <1>7, <2>2, <2>3 DEF Mig, Migrating
    <2> QED BY Zenon, <1>1, <1>2, <1>7, <2>1, <2>4, LoopMigration DEF Migrating
  <1>8. CASE f <= last /\ f \in versions /\ file' = [file EXCEPT ![g] = @ + 1] /\ UNCHANGED pc
    <2>1. MigType'
      BY <1>1, <1>8 DEF MigInv, MigType
    <2>2. pc'[g] = "check" /\ Goto(g, "check") /\ file'[g] = f + 1
      BY Zenon, <1>1, <1>8 DEF Goto, ProcInv, MigInv, MigType
    <2>3. Progress(n, "check", f + 1, applied[g], noted[g], last)
      <3>1. f \in 1..n
        BY Zenon, <1>5, <1>8
      <3> QED BY SMTT(20), <1>3, <1>4, <3>1 DEF Progress
    <2>4. Mig(g)'
      BY Zenon, <1>1, <2>2, <2>3 DEF Mig, Migrating
    <2> QED BY Zenon, <1>1, <1>2, <2>1, <2>2, <2>4, LoopMigration DEF Migrating
  <1> QED BY Zenon, <1>6, <1>7, <1>8 DEF CheckVersion

\* Executing a migration file keeps the migration invariant.
LEMMA ExecuteMigration ==
    ASSUME ProcInv, MigInv, NEW g \in Gateways, Execute(g)
    PROVE  MigInv'
PROOF
  <1> DEFINE n == Len(schema)
             done == applied[g]
             f == file[g]
  <1>1. /\ pc[g] = "exec" /\ Goto(g, "version")
        /\ UNCHANGED <<cfg, schema, versions, lock, file, noted>>
        /\ applied' = [applied EXCEPT ![g] = Append(@, file[g])]
    BY Zenon DEF Execute
  <1>2. lock = g /\ \A h \in Gateways : h # g => pc[h] \notin Migrating
    BY Zenon, <1>1, AloneInLoop DEF Migrating
  <1>3. n \in Nat /\ f \in Nat /\ done \in Seq(Nat) /\ Embedded[g] \in Nat
    BY Deployments DEF MigInv, MigType
  <1>4. Progress(n, "exec", f, done, noted[g], Embedded[g])
    BY Zenon, <1>1 DEF MigInv, Mig, Migrating
  <1>5. Append(done, f) \in Seq(Nat)
    BY <1>3
  <1>6. applied'[g] = Append(done, f) /\ \A h \in Gateways \ {g} : applied'[h] = applied[h]
    BY Zenon, <1>1 DEF MigInv, MigType
  <1>7. MigType'
    BY Zenon, <1>1, <1>5 DEF MigInv, MigType
  <1>8. pc'[g] = "version"
    BY Zenon, <1>1 DEF Goto, ProcInv
  <1>9. Progress(n, "version", f, Append(done, f), noted[g], Embedded[g])
    <2> HIDE DEF n, done, f
    <2>1. /\ Len(Append(done, f)) = Len(done) + 1 /\ Len(done) \in Nat
          /\ \A i \in 1..(Len(done) + 1) :
                 Append(done, f)[i] = IF i = Len(done) + 1 THEN f ELSE done[i]
      BY <1>3
    <2> QED BY <1>3, <1>4, <2>1 DEF Progress
  <1>10. Mig(g)'
    BY Zenon, <1>1, <1>6, <1>8, <1>9 DEF Mig, Migrating
  <1> QED BY Zenon, <1>1, <1>2, <1>6, <1>7, <1>10, LoopMigration DEF Migrating

\* Inserting the version row keeps the migration invariant.
LEMMA NoteVersionMigration ==
    ASSUME ProcInv, MigInv, NEW g \in Gateways, NoteVersion(g)
    PROVE  MigInv'
PROOF
  <1> DEFINE n == Len(schema)
             done == applied[g]
             f == file[g]
  <1>1. /\ pc[g] = "version" /\ Goto(g, "check")
        /\ UNCHANGED <<cfg, schema, versions, lock, applied>>
        /\ noted' = [noted EXCEPT ![g] = @ \cup {f}]
        /\ file' = [file EXCEPT ![g] = @ + 1]
    BY Zenon DEF NoteVersion
  <1>2. lock = g /\ \A h \in Gateways : h # g => pc[h] \notin Migrating
    BY Zenon, <1>1, AloneInLoop DEF Migrating
  <1>3. n \in Nat /\ f \in Nat /\ Len(done) \in Nat /\ Embedded[g] \in Nat
    BY Deployments DEF MigInv, MigType
  <1>4. Progress(n, "version", f, done, noted[g], Embedded[g])
    BY Zenon, <1>1 DEF MigInv, Mig, Migrating
  <1>5. /\ noted'[g] = noted[g] \cup {f} /\ file'[g] = f + 1
        /\ \A h \in Gateways \ {g} : noted'[h] = noted[h]
    BY Zenon, <1>1 DEF MigInv, MigType
  <1>6. MigType'
    BY <1>1, <1>3 DEF MigInv, MigType
  <1>7. pc'[g] = "check"
    BY Zenon, <1>1 DEF Goto, ProcInv
  <1>8. Progress(n, "check", f + 1, done, noted[g] \cup {f}, Embedded[g])
    <2> HIDE DEF n, done, f
    <2> QED BY <1>3, <1>4 DEF Progress
  <1>9. Mig(g)'
    BY Zenon, <1>1, <1>5, <1>7, <1>8 DEF Mig, Migrating
  <1> QED BY Zenon, <1>1, <1>2, <1>5, <1>6, <1>9, LoopMigration DEF Migrating

\* COMMIT: the files applied on top of the schema become its end.
LEMMA CommitExtends ==
    ASSUME MigInv, NEW g \in Gateways, pc[g] = "commit",
           schema' = schema \o applied[g], versions' = versions \cup noted[g]
    PROVE  /\ schema' \in Seq(Nat) /\ Ordered'
           /\ Len(schema') >= Len(schema) /\ Len(schema') >= Embedded[g]
PROOF
  <1> DEFINE n == Len(schema)
             done == applied[g]
             k == Len(done)
  <1>1. /\ n \in Nat /\ k \in Nat /\ file[g] \in Nat /\ Embedded[g] \in Nat
        /\ schema \in Seq(Nat) /\ done \in Seq(Nat)
    BY Deployments DEF MigInv, MigType
  <1>2. Progress(n, "commit", file[g], done, noted[g], Embedded[g])
    BY Zenon DEF MigInv, Mig, Migrating
  <1>3. /\ \A i \in 1..k : done[i] = n + i
        /\ noted[g] = (n + 1)..(n + k) /\ file[g] <= n + k + 1 /\ file[g] > Embedded[g]
    BY Zenon, <1>2 DEF Progress
  <1>4. (\A i \in 1..n : schema[i] = i) /\ versions = 1..n
    BY Zenon DEF MigInv, Ordered
  <1>5. /\ schema' \in Seq(Nat) /\ Len(schema') = n + k
        /\ \A i \in 1..(n + k) : schema'[i] = IF i <= n THEN schema[i] ELSE done[i - n]
    BY <1>1
  <1> HIDE DEF n, k, done
  <1>6. \A i \in 1..(n + k) : schema'[i] = i
    <2> SUFFICES ASSUME NEW i \in 1..(n + k) PROVE schema'[i] = i
      BY Zenon
    <2>1. CASE i <= n
      <3>1. i \in 1..n
        BY <1>1, <2>1
      <3> QED BY Zenon, <1>4, <1>5, <2>1, <3>1
    <2>2. CASE ~(i <= n)
      <3>1. i - n \in 1..k /\ n + (i - n) = i
        BY <1>1, <2>2
      <3>2. done[i - n] = i
        BY Zenon, <1>3, <3>1
      <3> QED BY Zenon, <1>5, <2>2, <3>2
    <2> QED BY Zenon, <2>1, <2>2
  <1>7. versions' = 1..(n + k)
    BY <1>1, <1>3, <1>4
  <1>8. n + k >= n /\ n + k >= Embedded[g]
    BY <1>1, <1>3
  <1> QED BY Zenon, <1>5, <1>6, <1>7, <1>8 DEF Ordered, n

\* Committing the transaction keeps the migration invariant.
LEMMA CommitMigration ==
    ASSUME ProcInv, MigInv, NEW g \in Gateways, CommitMigrations(g)
    PROVE  MigInv'
PROOF
  <1>1. /\ pc[g] = "commit"
        /\ schema' = schema \o applied[g] /\ versions' = versions \cup noted[g]
    BY Zenon DEF CommitMigrations
  <1>2. /\ schema' \in Seq(Nat) /\ Ordered'
        /\ Len(schema') >= Len(schema) /\ Len(schema') >= Embedded[g]
    BY Zenon, <1>1, CommitExtends
  <1>3. lock = g /\ \A h \in Gateways : h # g => pc[h] \notin Migrating
    BY Zenon, <1>1, AloneInLoop DEF Migrating
  <1>4. /\ \A h \in Gateways : pc'[h] = IF h = g THEN pc'[g] ELSE pc[h]
        /\ pc'[g] \in {"serve", "down"}
        /\ \A h \in Gateways \ {g} : cfg'[h] = cfg[h]
        /\ lock' = None
        /\ file' = [file EXCEPT ![g] = 0]
        /\ applied' = [applied EXCEPT ![g] = <<>>] /\ noted' = [noted EXCEPT ![g] = {}]
    BY Zenon, <1>3 DEF CommitMigrations, Exit, Goto, ProcInv
  <1>5. MigType'
    BY <1>2, <1>4 DEF MigInv, MigType
  <1>6. \A h \in Gateways : (lock = h <=> pc[h] \in Migrating)'
    BY Zenon, <1>3, <1>4, Deployments DEF Migrating
  <1>7. ASSUME NEW h \in Gateways PROVE Mig(h)'
    <2>1. pc'[h] \notin Migrating
      BY Zenon, <1>3, <1>4 DEF Migrating
    <2>2. CASE h = g
      BY Zenon, <1>4, <2>1, <2>2 DEF MigInv, MigType, Mig
    <2>3. CASE h # g
      <3>1. applied'[h] = applied[h] /\ noted'[h] = noted[h] /\ pc[h] \notin Migrating
        BY Zenon, <1>3, <1>4, <2>3 DEF MigInv, MigType
      <3> QED BY Zenon, <2>1, <3>1 DEF MigInv, Mig
    <2> QED BY Zenon, <2>2, <2>3
  <1>8. ASSUME NEW h \in Gateways PROVE Ready(h)'
    <2>1. CASE h = g
      BY Zenon, <1>2, <2>1 DEF Ready
    <2>2. CASE h # g
      <3>1. pc'[h] = pc[h] /\ cfg'[h] = cfg[h] /\ Ready(h)
        BY Zenon, <1>4, <2>2 DEF MigInv
      <3>2. Len(schema) \in Nat /\ Len(schema') \in Nat /\ Embedded[h] \in Nat
        BY <1>2, Deployments DEF MigInv, MigType
      <3> DEFINE a == Len(schema)
                 b == Len(schema')
                 c == Embedded[h]
      <3>3. a >= c => b >= c
        <4>1. a \in Nat /\ b \in Nat /\ c \in Nat /\ b >= a
          BY Zenon, <1>2, <3>2
        <4> HIDE DEF a, b, c
        <4> QED BY <4>1
      <3> QED BY Zenon, <3>1, <3>3 DEF Ready
    <2> QED BY Zenon, <2>1, <2>2
  <1> QED BY Zenon, <1>2, <1>5, <1>6, <1>7, <1>8 DEF MigInv

-----------------------------------------------------------------------------
(* Every step keeps both                                                   *)

\* A step that leaves processes and migrations alone keeps both invariants.
LEMMA StayProcess ==
    ASSUME ProcInv, MigInv, UNCHANGED <<process, migration>>
    PROVE  ProcInv' /\ MigInv'
PROOF
  <1>1. ProcInv'
    BY Zenon DEF ProcInv, Loaded, process
  <1>2. MigType' /\ Ordered' /\ \A g \in Gateways : (lock = g <=> pc[g] \in Migrating)'
    BY Zenon DEF MigInv, MigType, Ordered, process, migration
  <1>3. \A g \in Gateways : Mig(g)'
    BY Zenon DEF MigInv, Mig, process, migration
  <1>4. \A g \in Gateways : Ready(g)'
    BY Zenon DEF MigInv, Ready, process, migration
  <1> QED BY Zenon, <1>1, <1>2, <1>3, <1>4 DEF MigInv

\* A process that ends, by itself or not.
LEMMA LeaveStep ==
    ASSUME ProcInv, MigInv, NEW g \in Gateways, StartFails(g) \/ Kill(g) \/ PoolClosed(g)
    PROVE  ProcInv' /\ MigInv'
PROOF
  <1>1. Exit(g) /\ UNCHANGED <<schema, versions>>
    BY Zenon DEF StartFails, Kill, PoolClosed
  <1> QED BY Zenon, <1>1, ExitProcess, ExitMigration

\* A step of run() outside ApplyMigrations that keeps the configuration.
LEMMA MoveStep ==
    ASSUME ProcInv, MigInv, NEW g \in Gateways, NEW s \in Stages \ (Migrating \cup {"build"}),
           pc[g] \notin Migrating, Goto(g, s), UNCHANGED <<cfg, migration>>,
           late' \in [Gateways -> BOOLEAN],
           s \in {"serve", "drain"} => pc[g] = "serve" \/ ~cfg[g].postgres
    PROVE  ProcInv' /\ MigInv'
PROOF
  <1>1. ProcInv'
    BY Zenon, GotoProcess
  <1>2. Ready(g)'
    <2>1. pc'[g] = s /\ cfg'[g] = cfg[g] /\ schema' = schema /\ Ready(g)
      BY Zenon DEF Goto, ProcInv, MigInv, migration
    <2> QED BY Zenon, <2>1 DEF Ready
  <1> QED BY Zenon, <1>1, <1>2, ElsewhereMigration

\* Loading the configuration keeps both invariants.
LEMMA LoadStep ==
    ASSUME ProcInv, MigInv, NEW g \in Gateways, Load(g)
    PROVE  ProcInv' /\ MigInv'
PROOF
  <1>1. /\ pc[g] \notin Migrating /\ "build" \notin Migrating /\ Goto(g, "build")
        /\ UNCHANGED migration
    BY Zenon DEF Load, Migrating
  <1>2. \A h \in Gateways \ {g} : cfg'[h] = cfg[h]
    BY Zenon DEF Load, ProcInv
  <1>3. Ready(g)'
    BY Zenon, <1>1 DEF Goto, ProcInv, Ready
  <1> QED BY Zenon, <1>1, <1>2, <1>3, LoadProcess, ElsewhereMigration

\* Building the providers keeps both invariants.
LEMMA BuildStep ==
    ASSUME ProcInv, MigInv, NEW g \in Gateways, Build(g)
    PROVE  ProcInv' /\ MigInv'
PROOF
  <1> DEFINE s == IF cfg[g].RedisEnabled THEN "redis"
                  ELSE IF cfg[g].PostgresEnabled THEN "connect" ELSE "serve"
  <1>1. pc[g] = "build" /\ Goto(g, s) /\ UNCHANGED migration
    BY Zenon DEF Build
  <1>2. s \notin Migrating /\ s # "drain" /\ (s = "serve" => ~cfg[g].PostgresEnabled)
    BY Zenon DEF Migrating
  <1>3. pc[g] \notin Migrating
    BY Zenon, <1>1 DEF Migrating
  <1>4. \A h \in Gateways \ {g} : cfg'[h] = cfg[h]
    BY Zenon DEF Build, ProcInv
  <1>5. cfg'[g].postgres = cfg[g].PostgresEnabled
    <2>1. cfg'[g] = Deployed(cfg[g])
      BY Zenon DEF Build, ProcInv
    <2> QED BY <2>1 DEF Deployed
  <1> HIDE DEF s
  <1>6. Ready(g)'
    <2>1. pc'[g] = s
      BY Zenon, <1>1 DEF Goto, ProcInv
    <2> QED BY Zenon, <1>2, <1>5, <2>1 DEF Ready
  <1> QED BY Zenon, <1>1, <1>2, <1>3, <1>4, <1>6, BuildProcess, ElsewhereMigration

\* The Redis ping at startup keeps both invariants.
LEMMA PingStep ==
    ASSUME ProcInv, MigInv, NEW g \in Gateways, PingRedis(g)
    PROVE  ProcInv' /\ MigInv'
PROOF
  <1> DEFINE s == IF cfg[g].postgres THEN "connect" ELSE "serve"
  <1>1. pc[g] = "redis" /\ Goto(g, s) /\ UNCHANGED <<cfg, late, migration>>
    BY Zenon DEF PingRedis
  <1>2. /\ s \in Stages \ (Migrating \cup {"build"})
        /\ s \in {"serve", "drain"} => ~cfg[g].postgres
    BY Zenon DEF Stages, Starting, Migrating
  <1> HIDE DEF s
  <1>3. pc[g] \notin Migrating /\ late' \in [Gateways -> BOOLEAN]
    BY Zenon, <1>1 DEF ProcInv, Migrating
  <1> QED BY Zenon, <1>1, <1>2, <1>3, MoveStep

\* Every step of the migration loop keeps both invariants.
LEMMA LoopStep ==
    ASSUME ProcInv, MigInv, NEW g \in Gateways, ApplyMigrations(g)
    PROVE  ProcInv' /\ MigInv'
PROOF
  <1>1. MigInv'
    BY Zenon, AcquireLockMigration, CheckVersionMigration, ExecuteMigration, NoteVersionMigration,
       CommitMigration DEF ApplyMigrations
  <1>2. CASE Exit(g)
    BY Zenon, <1>1, <1>2, ExitProcess
  <1>3. CASE UNCHANGED <<pc, cfg, late>>
    BY Zenon, <1>1, <1>3 DEF ProcInv, Loaded
  <1>4. CASE \E s \in {"check", "exec", "version", "commit", "serve"} :
                 Goto(g, s) /\ UNCHANGED <<cfg, late>>
    <2>1. PICK s \in Stages \ {"build"} : Goto(g, s) /\ UNCHANGED <<cfg, late>>
      BY Zenon, <1>4 DEF Stages, Starting
    <2> QED BY Zenon, <1>1, <2>1, GotoProcess DEF ProcInv
  <1> QED BY Zenon, <1>2, <1>3, <1>4 DEF ApplyMigrations, AcquireLock, CheckVersion, Execute,
                                   NoteVersion, CommitMigrations

\* Every step of the system keeps both invariants.
LEMMA ProcessStep ==
    ASSUME ProcInv, MigInv, [Next]_vars
    PROVE  ProcInv' /\ MigInv'
PROOF
  <1>1. CASE \E r \in Requests : Request(r)
    BY Zenon, <1>1, RequestFrame, StayProcess
  <1>2. CASE UNCHANGED vars
    BY Zenon, <1>2, StayProcess DEF vars
  <1>3. ASSUME NEW g \in Gateways, Load(g) \/ Build(g) \/ PingRedis(g) \/ ApplyMigrations(g)
        PROVE  ProcInv' /\ MigInv'
    BY Zenon, <1>3, LoadStep, BuildStep, PingStep, LoopStep
  <1>4. ASSUME NEW g \in Gateways, StartFails(g) \/ Kill(g) \/ PoolClosed(g)
        PROVE  ProcInv' /\ MigInv'
    BY Zenon, <1>4, LeaveStep
  <1>5. ASSUME NEW g \in Gateways, ConnectPostgres(g) \/ Signal(g) \/ Drained(g) \/ GraceOver(g)
        PROVE  ProcInv' /\ MigInv'
    <2>1. late' \in [Gateways -> BOOLEAN] /\ UNCHANGED <<cfg, migration>>
      BY Zenon, <1>5 DEF ConnectPostgres, Signal, Drained, GraceOver, ProcInv
    <2>2. CASE ConnectPostgres(g)
      <3>1. pc[g] = "connect" /\ Goto(g, "lock")
        BY Zenon, <2>2 DEF ConnectPostgres
      <3> QED BY Zenon, <2>1, <3>1, MoveStep DEF Stages, Starting, Migrating
    <2>3. CASE Signal(g)
      <3>1. pc[g] = "serve" /\ Goto(g, "drain")
        BY Zenon, <2>3 DEF Signal
      <3> QED BY Zenon, <2>1, <3>1, MoveStep DEF Stages, Starting, Migrating
    <2>4. CASE Drained(g) \/ GraceOver(g)
      <3>1. pc[g] \in {"serve", "drain"} /\ Goto(g, "close")
        BY Zenon, <2>4 DEF Drained, GraceOver
      <3> QED BY Zenon, <2>1, <3>1, MoveStep DEF Stages, Starting, Migrating
    <2> QED BY Zenon, <1>5, <2>2, <2>3, <2>4
  <1> QED BY Zenon, <1>1, <1>2, <1>3, <1>4, <1>5 DEF Next, StartUp

\* Both invariants hold before any gateway has started.
LEMMA ProcessInit == Init => ProcInv /\ MigInv
PROOF
  <1> SUFFICES ASSUME Init PROVE ProcInv /\ MigInv
    BY Zenon
  <1>1. ProcInv
    BY Zenon, NoConfig DEF Init, ProcInv, Stages
  <1>2. MigType /\ Ordered
    BY DEF Init, MigType, Ordered
  <1>3. \A g \in Gateways : (lock = g <=> pc[g] \in Migrating) /\ Mig(g) /\ Ready(g)
    BY Zenon, Deployments DEF Init, Migrating, Mig, Ready
  <1> QED BY Zenon, <1>1, <1>2, <1>3 DEF MigInv

\* Both invariants hold in every reachable state.
LEMMA ProcessInvariant == Spec => [](ProcInv /\ MigInv)
  BY ProcessInit, ProcessStep, PTL DEF Spec

\* What config.Load accepts passes every constructor that run() calls, for
\* every environment, but for a base URL that is not absolute and a connection
\* string that POSTGRES_DSN, POSTGRES_HOST or POSTGRES_SSLMODE spoils.
THEOREM LoadedConfigBuilds == Spec => []AcceptedConfigBuilds
PROOF
  <1>1. ProcInv => AcceptedConfigBuilds
    <2> SUFFICES ASSUME ProcInv, NEW g \in Gateways, pc[g] = "build"
                 PROVE  /\ buildProviderRouter(cfg[g])
                           \/ "relative" \in {cfg[g].DeepSeekBaseURL, cfg[g].OpenAIBaseURL}
                        /\ NewRedisPolicies(cfg[g])
                        /\ cfg[g].PostgresEnabled =>
                               ParseConfig(cfg[g].PostgresDSN) \/ Unread(cfg[g].PostgresDSN)
      BY Zenon DEF AcceptedConfigBuilds
    <2>1. PICK env \in Environments[g] : cfg[g] = Config(env) /\ Accepts(env, cfg[g])
      BY Zenon DEF ProcInv, Loaded
    <2>2. WellTyped(cfg[g])
      <3>1. WellTyped(Config(env))
        BY Zenon, Deployments
      <3> QED BY Zenon, <2>1, <3>1
    <2>3. /\ buildProviderRouter(cfg[g])
             \/ "relative" \in {cfg[g].DeepSeekBaseURL, cfg[g].OpenAIBaseURL}
          /\ NewRedisPolicies(cfg[g])
      BY Zenon, <2>1, <2>2, AcceptedBuilds
    <2>4. cfg[g].PostgresEnabled =>
              ParseConfig(cfg[g].PostgresDSN) \/ Unread(cfg[g].PostgresDSN)
      BY Zenon, <2>1, AcceptedDSN
    <2> QED BY Zenon, <2>3, <2>4
  <1> QED BY <1>1, ProcessInvariant, PTL

\* A configuration that Load accepted has delays that double up to its limit.
LEMMA AcceptedBacksOff ==
    ASSUME Induction, ProcInv
    PROVE  BackoffDoubles
PROOF
  <1> SUFFICES ASSUME NEW g \in Gateways, pc[g] = "build"
               PROVE  LET max == cfg[g].RetryMaxBackoff
                          delay(n) == backoff(cfg[g].RetryBaseBackoff, max, n)
                      IN  /\ delay(1) = cfg[g].RetryBaseBackoff
                          /\ \A n \in 2..cfg[g].RetryMaxAttempts :
                                 \/ delay(n) = 2 * delay(n - 1) /\ delay(n) <= max
                                 \/ delay(n) = max /\ 2 * delay(n - 1) + 1 >= max
    BY Zenon DEF BackoffDoubles
  <1>1. PICK env \in Environments[g] : cfg[g] = Config(env) /\ Accepts(env, cfg[g])
    BY Zenon DEF ProcInv, Loaded
  <1> DEFINE c == cfg[g]
             max == c.RetryMaxBackoff
             base == c.RetryBaseBackoff
             last == c.RetryMaxAttempts
  <1>2. WellTyped(c) /\ acceptsUpstream(c)
    BY Zenon, <1>1, Deployments DEF Accepts
  <1>3. /\ max \in Int /\ base \in Int /\ last \in Int
        /\ max \in (-HalfWord)..(HalfWord - 1)
        /\ base > 0 /\ max > 0 /\ max >= base
    BY Zenon, <1>2 DEF WellTyped, acceptsUpstream, positiveDuration
  <1> HIDE DEF max, base, last, c
  <1>4. max \in 1..(HalfWord - 1) /\ base \in 1..max
    BY <1>3, Words
  <1>5. backoff(base, max, 1) = base
    BY Zenon, <1>4, BackoffFirst
  <1>6. ASSUME NEW n \in 2..last
        PROVE  \/ /\ backoff(base, max, n) = 2 * backoff(base, max, n - 1)
                  /\ backoff(base, max, n) <= max
               \/ /\ backoff(base, max, n) = max
                  /\ 2 * backoff(base, max, n - 1) + 1 >= max
    <2> DEFINE d == backoff(base, max, n - 1)
               e == backoff(base, max, n)
    <2>1. n \in Nat \ {0, 1}
      BY <1>3
    <2>2. d \in 1..max /\ e = nextBackoff(d, max)
      BY Zenon, <1>4, <2>1, BackoffNext
    <2> HIDE DEF d, e
    <2>3. e \in 1..max /\ (e = 2 * d \/ (e = max /\ 2 * d + 1 >= max))
      BY Zenon, <1>4, <2>2, BackoffRound
    <2>4. e <= max
      BY <1>3, <2>3
    <2> QED BY Zenon, <2>3, <2>4 DEF d, e
  <1> QED BY Zenon, <1>5, <1>6 DEF max, base, last, c

\* However many gateways start together, with however many migrations each,
\* and whichever of them fail or are killed, ApplyMigrations keeps the schema
\* a prefix of the numbered files, recorded exactly, and no gateway serves
\* with less than it embeds.
THEOREM MigrationsSound == Spec => []SchemaSound
PROOF
  <1>1. MigInv => SchemaSound
    <2> SUFFICES ASSUME MigInv PROVE SchemaSound
      BY Zenon
    <2>1. schema \in Seq(Nat) /\ \A i \in 1..Len(schema) : schema[i] = i
      BY Zenon DEF MigInv, MigType, Ordered
    <2>2. schema = [i \in 1..Len(schema) |-> i]
      BY <2>1
    <2>3. ASSUME NEW g \in Gateways, pc[g] = "exec" PROVE file[g] > Len(schema)
      <3>1. Progress(Len(schema), "exec", file[g], applied[g], noted[g], Embedded[g])
        BY Zenon, <2>3 DEF MigInv, Mig, Migrating
      <3>2. Len(schema) \in Nat /\ Len(applied[g]) \in Nat
        BY DEF MigInv, MigType
      <3>3. file[g] = Len(schema) + Len(applied[g]) + 1
        BY Zenon, <3>1 DEF Progress
      <3> DEFINE n == Len(schema)
                 k == Len(applied[g])
      <3>4. n \in Nat /\ k \in Nat /\ file[g] = n + k + 1
        BY Zenon, <3>2, <3>3
      <3> HIDE DEF n, k
      <3>5. n + k + 1 > n
        BY <3>4
      <3> QED BY Zenon, <3>4, <3>5 DEF n
    <2> QED BY Zenon, <2>2, <2>3 DEF SchemaSound, MigInv, Ordered, Ready
  <1> QED BY <1>1, ProcessInvariant, PTL

-----------------------------------------------------------------------------
(* The usage records: Record implements UsageLog, and a process that ends  *)
(* by itself ends in order.                                                *)

Over == {"answered", "lost"}

\* Record has returned, or the handler is over.
Left == {"reply", "answered", "lost"}

RecType ==
    /\ pc \in [Gateways -> Stages] /\ late \in [Gateways -> BOOLEAN]
    /\ rpc \in [Requests -> RequestStages]
    /\ at \in [Requests -> Gateways \cup {None}]
    /\ report \in [Requests -> {"none", "ok", "failed"}]

\* The rows of r are written once its Record is over, by it or by a COMMIT
\* that nobody waits for, and not by both.
Rec(r) ==
    /\ rpc[r] = "idle" => at[r] = None
    /\ r \in requests \cup doubt => rpc[r] \in Left
    /\ r \in requests => r \notin doubt
    /\ r \in doubt => report[r] # "ok"
    /\ report[r] # "none" => rpc[r] \in Left

\* A gateway that closes its pool after a drain in time has answered.
Closing(g) == pc[g] = "close" /\ ~late[g] => Open(g) = {}

RecInv ==
    /\ RecType
    /\ held = {r \in Requests : rpc[r] \in InTransaction}
    /\ \A r \in Requests : Rec(r)
    /\ \A g \in Gateways : Closing(g)

\* At the start no request has been recorded.
LEMMA RecordInit == Init => RecInv
PROOF
  <1> SUFFICES ASSUME Init PROVE RecInv
    BY Zenon
  <1>1. RecType
    BY Zenon DEF Init, RecType, RequestStages, Stages
  <1>2. held = {r \in Requests : rpc[r] \in InTransaction}
    BY Zenon DEF Init, InTransaction
  <1>3. \A r \in Requests : Rec(r)
    BY Zenon DEF Init, Rec
  <1>4. \A g \in Gateways : Closing(g)
    BY Zenon DEF Init, Closing
  <1> QED BY Zenon, <1>1, <1>2, <1>3, <1>4 DEF RecInv

\* A step of one request.
LEMMA MoveRecord ==
    ASSUME RecInv, NEW r \in Requests, NEW s \in RequestStages \ {"idle"},
           rpc[r] \notin Over, Step(r, s), UNCHANGED <<pc, late>>,
           held' = IF s \in InTransaction THEN held \cup {r} ELSE held \ {r},
           at' \in [Requests -> Gateways \cup {None}],
           report' \in [Requests -> {"none", "ok", "failed"}],
           \A q \in Requests \ {r} : at'[q] = at[q] /\ report'[q] = report[q],
           at'[r] = at[r] \/ pc[at'[r]] = "serve",
           requests' \subseteq requests \cup {r}, doubt' \subseteq doubt \cup {r},
           s \notin Left => rpc[r] \notin Left /\ UNCHANGED <<requests, doubt, report>>,
           r \in requests' => r \notin doubt',
           r \in doubt' => report'[r] # "ok"
    PROVE  RecInv'
PROOF
  <1>1. \A q \in Requests : rpc'[q] = IF q = r THEN s ELSE rpc[q]
    BY Zenon DEF Step, RecInv, RecType
  <1>2. RecType'
    BY Zenon DEF Step, RecInv, RecType
  <1>3. held' = {q \in Requests : rpc'[q] \in InTransaction}
    <2>1. ASSUME NEW q PROVE q \in held' <=> q \in Requests /\ rpc'[q] \in InTransaction
      <3>1. q \in held <=> q \in Requests /\ rpc[q] \in InTransaction
        BY Zenon DEF RecInv
      <3>2. CASE q = r
        BY Zenon, <1>1, <3>2
      <3>3. CASE q # r
        BY Zenon, <1>1, <3>1, <3>3
      <3> QED BY Zenon, <3>2, <3>3
    <2> QED BY Zenon, <2>1
  <1>4. ASSUME NEW q \in Requests PROVE Rec(q)'
    <2>1. CASE q = r
      <3>1. Rec(r) /\ rpc'[r] = s
        BY Zenon, <1>1 DEF RecInv
      <3> QED BY Zenon, <2>1, <3>1 DEF Rec
    <2>2. CASE q # r
      <3>1. Rec(q) /\ rpc'[q] = rpc[q] /\ at'[q] = at[q] /\ report'[q] = report[q]
        BY Zenon, <1>1, <2>2 DEF RecInv
      <3>2. (q \in requests' => q \in requests) /\ (q \in doubt' => q \in doubt)
        BY Zenon, <2>2
      <3> QED BY Zenon, <3>1, <3>2 DEF Rec
    <2> QED BY Zenon, <2>1, <2>2
  <1>5. ASSUME NEW g \in Gateways, pc[g] = "close", ~late[g] PROVE Open(g)' = {}
    <2>1. Open(g) = {}
      BY Zenon, <1>5 DEF RecInv, Closing
    <2>2. ASSUME NEW q \in Requests, at'[q] = g, rpc'[q] \notin Over PROVE FALSE
      <3>1. CASE q = r
        <4>1. at[r] = g
          BY Zenon, <1>5, <2>2, <3>1
        <4> QED BY Zenon, <2>1, <4>1 DEF Open, Over
      <3>2. CASE q # r
        BY Zenon, <1>1, <2>1, <2>2, <3>2 DEF Open, Over
      <3> QED BY Zenon, <3>1, <3>2
    <2> QED BY Zenon, <2>2 DEF Open, Over
  <1> QED BY Zenon, <1>2, <1>3, <1>4, <1>5 DEF RecInv, Closing

\* The end of a process.
LEMMA ExitRecord ==
    ASSUME RecInv, NEW g \in Gateways, Exit(g), UNCHANGED <<requests, at, report>>
    PROVE  RecInv'
PROOF
  <1>1. /\ \A h \in Gateways : pc'[h] = IF h = g THEN "down" ELSE pc[h]
        /\ \A h \in Gateways : h # g => late'[h] = late[h]
        /\ rpc' = [r \in Requests |-> IF r \in Open(g) THEN "lost" ELSE rpc[r]]
        /\ doubt' = doubt \cup {r \in Open(g) : rpc[r] = "commit"}
        /\ held' = {r \in held : at[r] # g}
    BY Zenon DEF Exit, Goto, RecInv, RecType
  <1>2. RecType'
    <2>1. RecType /\ at' = at /\ report' = report
      BY Zenon DEF RecInv
    <2>2. pc' \in [Gateways -> Stages] /\ late' \in [Gateways -> BOOLEAN]
      BY Zenon, <2>1 DEF Exit, Goto, RecType, Stages
    <2>3. rpc' \in [Requests -> RequestStages]
      BY Zenon, <1>1, <2>1 DEF RecType, RequestStages
    <2> QED BY Zenon, <2>1, <2>2, <2>3 DEF RecType
  <1>3. held' = {q \in Requests : rpc'[q] \in InTransaction}
    <2>1. ASSUME NEW q PROVE q \in held' <=> q \in Requests /\ rpc'[q] \in InTransaction
      <3>1. q \in held <=> q \in Requests /\ rpc[q] \in InTransaction
        BY Zenon DEF RecInv
      <3>2. CASE q \in Open(g)
        BY Zenon, <1>1, <3>2 DEF Open, InTransaction
      <3>3. CASE q \notin Open(g)
        BY Zenon, <1>1, <3>1, <3>3 DEF Open, InTransaction
      <3> QED BY Zenon, <3>2, <3>3
    <2> QED BY Zenon, <2>1
  <1>4. ASSUME NEW q \in Requests PROVE Rec(q)'
    <2>1. Rec(q) /\ rpc[q] \in RequestStages
      BY Zenon DEF RecInv, RecType
    <2>2. CASE q \in Open(g)
      <3>1. rpc'[q] = "lost" /\ rpc[q] \notin Over
        BY Zenon, <1>1, <2>2 DEF Open, Over
      <3> QED BY Zenon, <1>1, <2>1, <3>1 DEF Rec, Left
    <2>3. CASE q \notin Open(g)
      <3>1. rpc'[q] = rpc[q] /\ (q \in doubt' <=> q \in doubt)
        BY Zenon, <1>1, <2>3
      <3> QED BY Zenon, <2>1, <3>1 DEF Rec
    <2> QED BY Zenon, <2>2, <2>3
  <1>5. ASSUME NEW h \in Gateways PROVE Closing(h)'
    BY Zenon, <1>1 DEF RecInv, Closing, Open
  <1> QED BY Zenon, <1>2, <1>3, <1>4, <1>5 DEF RecInv

\* Any other step of a process.
LEMMA ProcessRecord ==
    ASSUME RecInv, NEW g \in Gateways, NEW s \in Stages, Goto(g, s),
           late' \in [Gateways -> BOOLEAN],
           \A h \in Gateways \ {g} : late'[h] = late[h],
           s = "close" => late'[g] \/ Open(g) = {},
           UNCHANGED <<tables, record>>
    PROVE  RecInv'
PROOF
  <1>1. \A h \in Gateways : pc'[h] = IF h = g THEN s ELSE pc[h]
    BY Zenon DEF Goto, RecInv, RecType
  <1>2. RecType' /\ held' = {q \in Requests : rpc'[q] \in InTransaction}
    <2>1. UNCHANGED <<rpc, at, report, held>> /\ pc' \in [Gateways -> Stages]
      BY Zenon DEF Goto, RecInv, RecType, record
    <2> QED BY Zenon, <2>1 DEF RecInv, RecType
  <1>3. \A q \in Requests : Rec(q)'
    BY Zenon DEF RecInv, Rec, record, tables
  <1>4. ASSUME NEW h \in Gateways PROVE Closing(h)'
    <2>1. Open(h)' = Open(h) /\ Closing(h)
      BY Zenon DEF Open, RecInv, record
    <2> QED BY Zenon, <1>1, <2>1 DEF Closing
  <1> QED BY Zenon, <1>2, <1>3, <1>4 DEF RecInv

\* The steps of a request up to its last one.
LEMMA BeforeRecord ==
    ASSUME RecInv, NEW r \in Requests,
           \/ \E g \in Gateways : Arrive(r, g)
           \/ Begin(r) \/ InsertProvider(r) \/ InsertRequest(r) \/ InsertUsage(r)
           \/ StatementFails(r)
    PROVE  RecInv' /\ UNCHANGED Log!logVars
PROOF
  <1>1. UNCHANGED <<pc, late, requests, usage, doubt, report>>
    BY Zenon DEF Arrive, Begin, InsertProvider, InsertRequest, InsertUsage, StatementFails,
           process, tables
  <1>2. r \in held <=> rpc[r] \in InTransaction
    BY Zenon DEF RecInv
  <1>3. PICK s \in (RequestStages \ {"idle"}) \ Left :
            /\ rpc[r] \notin Left /\ Step(r, s)
            /\ held' = IF s \in InTransaction THEN held \cup {r} ELSE held \ {r}
    <2>1. CASE \E g \in Gateways : Arrive(r, g)
      <3>1. rpc[r] = "idle" /\ Step(r, "handling") /\ held' = held
        BY Zenon, <2>1 DEF Arrive
      <3> QED BY <1>2, <3>1 DEF RequestStages, InTransaction, Left
    <2>2. CASE Begin(r)
      <3>1. rpc[r] = "begin" /\ Step(r, "provider") /\ held' = held \cup {r}
        BY Zenon, <2>2 DEF Begin
      <3> QED BY Zenon, <3>1 DEF RequestStages, InTransaction, Left
    <2>3. CASE InsertProvider(r) \/ InsertRequest(r) \/ InsertUsage(r) \/ StatementFails(r)
      <3>1. /\ rpc[r] \in InTransaction /\ held' = held
            /\ \E s \in InTransaction : Step(r, s)
        BY Zenon, <2>3 DEF InsertProvider, InsertRequest, InsertUsage, StatementFails, InTransaction
      <3> QED BY Zenon, <1>2, <3>1 DEF RequestStages, InTransaction, Left
    <2> QED BY Zenon, <2>1, <2>2, <2>3
  <1>4. /\ at' \in [Requests -> Gateways \cup {None}]
        /\ \A q \in Requests \ {r} : at'[q] = at[q]
        /\ at'[r] = at[r] \/ pc[at'[r]] = "serve"
    <2>1. CASE \E g \in Gateways : Arrive(r, g)
      BY Zenon, <2>1 DEF Arrive, RecInv, RecType
    <2>2. CASE UNCHANGED at
      BY Zenon, <2>2 DEF RecInv, RecType
    <2> QED BY Zenon, <2>1, <2>2 DEF Begin, InsertProvider, InsertRequest, InsertUsage, StatementFails
  <1>5. r \notin requests /\ r \notin doubt
    BY Zenon, <1>3 DEF RecInv, Rec
  <1>6. report \in [Requests -> {"none", "ok", "failed"}]
    BY Zenon DEF RecInv, RecType
  <1>7. RecInv'
    BY Zenon, <1>1, <1>3, <1>4, <1>5, <1>6, MoveRecord DEF Left, Over
  <1> QED BY Zenon, <1>1, <1>7 DEF Log!logVars

\* Record fails, or the request is answered without it.
LEMMA FailedRecord ==
    ASSUME RecInv, NEW r \in Requests,
           Outcome(r) \/ BeginFails(r) \/ Rollback(r) \/ CommitFails(r)
    PROVE  RecInv' /\ [Log!LogNext]_(Log!logVars)
PROOF
  <1>1. /\ UNCHANGED <<pc, late, requests, usage, at>> /\ rpc[r] \notin Left
        /\ doubt' \subseteq doubt \cup {r}
    BY Zenon DEF Outcome, BeginFails, Rollback, CommitFails, process, tables, Left
  <1>2. (r \in held <=> rpc[r] \in InTransaction) /\ r \notin requests \cup doubt
        /\ report[r] = "none" /\ report \in [Requests -> {"none", "ok", "failed"}]
        /\ at \in [Requests -> Gateways \cup {None}]
    BY Zenon, <1>1 DEF RecInv, RecType, Rec, Left
  <1>3. CASE Step(r, "begin") /\ rpc[r] = "handling" /\ UNCHANGED <<report, held, doubt>>
    <2>1. RecInv'
      BY Zenon, <1>1, <1>2, <1>3, MoveRecord DEF RequestStages, InTransaction, Left, Over
    <2> QED BY Zenon, <1>1, <1>3, <2>1 DEF Log!logVars
  <1>4. CASE /\ Step(r, "reply") /\ held' = held \ {r}
             /\ report' = report \/ report' = [report EXCEPT ![r] = "failed"]
    <2>1. /\ report' \in [Requests -> {"none", "ok", "failed"}] /\ report'[r] # "ok"
          /\ \A q \in Requests \ {r} : report'[q] = report[q]
      BY Zenon, <1>2, <1>4
    <2>2. RecInv'
      BY Zenon, <1>1, <1>2, <1>4, <2>1, MoveRecord DEF RequestStages, InTransaction, Left, Over
    <2>3. [Log!LogNext]_(Log!logVars)
      BY Zenon, <1>1, <1>2, <1>4 DEF Log!logVars, Log!LogNext, Log!Refuse
    <2> QED BY Zenon, <2>2, <2>3
  <1>5. Outcome(r) => rpc[r] = "handling" /\ held' = held /\ doubt' = doubt
    BY Zenon DEF Outcome
  <1>6. BeginFails(r) => rpc[r] = "begin" /\ held' = held
    BY Zenon DEF BeginFails
  <1>7. rpc[r] \in {"handling", "begin"} => held \ {r} = held
    BY Zenon, <1>2 DEF InTransaction
  <1> QED BY Zenon, <1>3, <1>4, <1>5, <1>6, <1>7 DEF Outcome, BeginFails, Rollback, CommitFails

\* COMMIT is acknowledged.
LEMMA CommitRecord ==
    ASSUME RecInv, NEW r \in Requests, Commit(r)
    PROVE  RecInv' /\ [Log!LogNext]_(Log!logVars)
PROOF
  <1>1. /\ UNCHANGED <<pc, late, at, doubt>> /\ rpc[r] \notin Left /\ Step(r, "reply")
        /\ requests' = requests \cup {r} /\ usage' = usage \cup {r}
        /\ report' = [report EXCEPT ![r] = "ok"] /\ held' = held \ {r}
    BY Zenon DEF Commit, Visible, process, Left
  <1>2. /\ r \notin requests \cup doubt /\ report[r] = "none"
        /\ report \in [Requests -> {"none", "ok", "failed"}]
        /\ at \in [Requests -> Gateways \cup {None}]
    BY Zenon, <1>1 DEF RecInv, RecType, Rec, Left
  <1>3. RecInv'
    BY Zenon, <1>1, <1>2, MoveRecord DEF RequestStages, InTransaction, Left, Over
  <1>4. Log!Land(r)
    BY Zenon, <1>1, <1>2 DEF Log!Land
  <1> QED BY Zenon, <1>3, <1>4 DEF Log!LogNext

\* A COMMIT that nobody waits for lands, or is lost with its connection.
LEMMA ResolveRecord ==
    ASSUME RecInv, NEW r \in Requests, Resolve(r)
    PROVE  RecInv' /\ [Log!LogNext]_(Log!logVars)
PROOF
  <1>1. /\ r \in doubt /\ doubt' = doubt \ {r}
        /\ UNCHANGED <<pc, late, rpc, at, held, report>>
        /\ \/ requests' = requests \cup {r} /\ usage' = usage \cup {r}
           \/ UNCHANGED <<requests, usage>>
    BY Zenon DEF Resolve, Visible, process, tables
  <1>2. r \notin requests /\ rpc[r] \in Left /\ report[r] # "ok"
    BY Zenon, <1>1 DEF RecInv, Rec
  <1>3. RecType' /\ held' = {q \in Requests : rpc'[q] \in InTransaction}
    BY Zenon, <1>1 DEF RecInv, RecType
  <1>4. ASSUME NEW q \in Requests PROVE Rec(q)'
    BY Zenon, <1>1, <1>2 DEF RecInv, Rec
  <1>5. \A g \in Gateways : Closing(g)'
    BY Zenon, <1>1 DEF RecInv, Closing, Open
  <1>6. [Log!LogNext]_(Log!logVars)
    BY Zenon, <1>1, <1>2 DEF Log!LogNext, Log!Land, Log!logVars
  <1> QED BY Zenon, <1>3, <1>4, <1>5, <1>6 DEF RecInv

\* The handler answers.
LEMMA AnswerRecord ==
    ASSUME RecInv, NEW r \in Requests, Answer(r)
    PROVE  RecInv' /\ UNCHANGED Log!logVars
PROOF
  <1>1. /\ rpc[r] = "reply" /\ Step(r, "answered")
        /\ UNCHANGED <<pc, late, requests, usage, at, held, doubt, report>>
    BY Zenon DEF Answer, process, tables
  <1>2. Rec(r) /\ RecType /\ (r \in held <=> rpc[r] \in InTransaction)
    BY Zenon DEF RecInv
  <1>3. held \ {r} = held
    BY Zenon, <1>1, <1>2 DEF InTransaction
  <1>4. RecInv'
    BY Zenon, <1>1, <1>2, <1>3, MoveRecord
       DEF Rec, RecType, RequestStages, InTransaction, Left, Over
  <1> QED BY Zenon, <1>1, <1>4 DEF Log!logVars

\* A step of a request keeps the record invariant and is a step, or a
\* stutter, of the usage log.
LEMMA RequestStep ==
    ASSUME RecInv, NEW r \in Requests, Request(r)
    PROVE  RecInv' /\ [Log!LogNext]_(Log!logVars)
  BY Zenon, BeforeRecord, FailedRecord, CommitRecord, ResolveRecord, AnswerRecord
     DEF Request, Record

\* A process that ends, whether it had finished or not.
LEMMA LeaveRecord ==
    ASSUME RecInv, NEW g \in Gateways,
           \/ StartFails(g) \/ Kill(g) \/ PoolClosed(g)
           \/ CommitMigrations(g) /\ Exit(g)
    PROVE  RecInv' /\ UNCHANGED Log!logVars
PROOF
  <1>1. Exit(g) /\ UNCHANGED <<requests, usage, at, report>>
    BY Zenon DEF StartFails, Kill, PoolClosed, CommitMigrations, tables, record
  <1> QED BY Zenon, <1>1, ExitRecord DEF Log!logVars

\* Every other step of a process.
LEMMA OtherRecord ==
    ASSUME RecInv, NEW g \in Gateways,
           \/ Load(g) \/ Build(g) \/ PingRedis(g) \/ ConnectPostgres(g)
           \/ AcquireLock(g) \/ CheckVersion(g) \/ Execute(g) \/ NoteVersion(g)
           \/ CommitMigrations(g) /\ Goto(g, "serve") /\ UNCHANGED <<late, record>>
           \/ Signal(g) \/ Drained(g) \/ GraceOver(g)
    PROVE  RecInv' /\ UNCHANGED Log!logVars
PROOF
  <1>1. UNCHANGED <<tables, record>>
    BY Zenon DEF Load, Build, PingRedis, ConnectPostgres, AcquireLock, CheckVersion, Execute,
           NoteVersion, CommitMigrations, Signal, Drained, GraceOver
  <1>2. /\ late' \in [Gateways -> BOOLEAN]
        /\ \A h \in Gateways \ {g} : late'[h] = late[h]
    <2>1. UNCHANGED late \/ late' = [late EXCEPT ![g] = TRUE]
      BY Zenon DEF Load, Build, PingRedis, ConnectPostgres, AcquireLock, CheckVersion, Execute,
             NoteVersion, CommitMigrations, Signal, Drained, GraceOver
    <2> QED BY Zenon, <2>1 DEF RecInv, RecType
  <1>3. PICK s \in Stages : Goto(g, s) /\ (s = "close" => late'[g] \/ Open(g) = {})
    <2>1. CASE Drained(g) \/ GraceOver(g)
      BY Zenon, <2>1 DEF Drained, GraceOver, RecInv, RecType, Stages
    <2>2. CASE Build(g)
      <3> DEFINE s == IF cfg[g].RedisEnabled THEN "redis"
                      ELSE IF cfg[g].PostgresEnabled THEN "connect" ELSE "serve"
      <3>1. s \in Stages /\ s # "close"
        BY Zenon DEF Stages, Starting
      <3>2. Goto(g, s)
        BY Zenon, <2>2 DEF Build
      <3> HIDE DEF s
      <3> QED BY Zenon, <3>1, <3>2
    <2>3. CASE PingRedis(g)
      <3> DEFINE s == IF cfg[g].postgres THEN "connect" ELSE "serve"
      <3>1. s \in Stages /\ s # "close"
        BY Zenon DEF Stages, Starting
      <3>2. Goto(g, s)
        BY Zenon, <2>3 DEF PingRedis
      <3> HIDE DEF s
      <3> QED BY Zenon, <3>1, <3>2
    <2>4. CASE CheckVersion(g)
      <3>1. Goto(g, "commit") \/ Goto(g, "exec") \/ Goto(g, "check")
        BY Zenon, <2>4 DEF CheckVersion, Goto, RecInv, RecType
      <3> QED BY <3>1 DEF Stages, Starting
    <2>5. CASE Load(g) \/ ConnectPostgres(g) \/ AcquireLock(g) \/ Execute(g) \/ NoteVersion(g)
               \/ Goto(g, "serve") \/ Signal(g)
      <3>1. \E s \in {"build", "lock", "check", "version", "serve", "drain"} : Goto(g, s)
        BY Zenon, <2>5 DEF Load, ConnectPostgres, AcquireLock, Execute, NoteVersion, Signal
      <3> QED BY Zenon, <3>1 DEF Stages, Starting
    <2> QED BY Zenon, <2>1, <2>2, <2>3, <2>4, <2>5
  <1> QED BY Zenon, <1>1, <1>2, <1>3, ProcessRecord DEF Log!logVars, tables, record

\* Every step of the system keeps the record invariant and maps to a step or
\* a stutter of the usage log.
LEMMA RecordStep ==
    ASSUME RecInv, [Next]_vars
    PROVE  RecInv' /\ [Log!LogNext]_(Log!logVars)
PROOF
  <1>1. CASE UNCHANGED vars
    <2>1. UNCHANGED <<pc, late, tables, record>>
      BY Zenon, <1>1 DEF vars, process
    <2>2. RecType' /\ held' = {q \in Requests : rpc'[q] \in InTransaction}
      BY Zenon, <2>1 DEF RecInv, RecType, record
    <2>3. (\A q \in Requests : Rec(q)') /\ \A g \in Gateways : Closing(g)'
      BY Zenon, <2>1 DEF RecInv, Rec, Closing, Open, record, tables
    <2> QED BY Zenon, <2>1, <2>2, <2>3 DEF RecInv, Log!logVars, tables, record
  <1>2. CASE \E r \in Requests : Request(r)
    BY Zenon, <1>2, RequestStep
  <1>3. ASSUME NEW g \in Gateways, CommitMigrations(g)
        PROVE  RecInv' /\ [Log!LogNext]_(Log!logVars)
    <2>1. Exit(g) \/ (Goto(g, "serve") /\ UNCHANGED <<late, record>>)
      BY Zenon, <1>3 DEF CommitMigrations
    <2> QED BY Zenon, <1>3, <2>1, LeaveRecord, OtherRecord
  <1>4. ASSUME NEW g \in Gateways,
               \/ Load(g) \/ StartUp(g) \/ Kill(g) \/ Signal(g) \/ GraceOver(g)
               \/ Drained(g) \/ PoolClosed(g)
        PROVE  RecInv' /\ [Log!LogNext]_(Log!logVars)
    BY Zenon, <1>3, <1>4, LeaveRecord, OtherRecord DEF StartUp, ApplyMigrations
  <1> QED BY Zenon, <1>1, <1>2, <1>4 DEF Next

\* The record invariant holds in every reachable state.
LEMMA RecordInvariant == Spec => []RecInv
  BY RecordInit, RecordStep, PTL DEF Spec

\* UsageRepository.Record implements UsageLog: whatever statement fails,
\* whichever process is killed and whenever a COMMIT lands, both rows of a
\* request appear together, once, and success is only reported of them.
THEOREM RecordImplementsUsageLog == Spec => ImplementsUsageLog
PROOF
  <1>1. Init => Log!LogInit
    BY Zenon DEF Init, Log!LogInit
  <1>2. RecInv /\ [Next]_vars => [Log!LogNext]_(Log!logVars)
    BY Zenon, RecordStep
  <1> QED BY <1>1, <1>2, RecordInvariant, PTL DEF Spec, ImplementsUsageLog, Log!LogSpec

\* A process that ends by itself cuts off no request, unless the grace period
\* was over, and then none with an open transaction: only one that has not begun
\* to write its rows, or one that has left Record and not yet answered.
THEOREM ShutdownOrderly == Spec => OrderlyExit
PROOF
  <1>1. ASSUME RecInv, NEW g \in Gateways, PoolClosed(g), NEW r \in Requests,
               at[r] = g, rpc'[r] # rpc[r]
        PROVE  late[g] /\ rpc[r] \in {"handling", "begin", "reply"}
    <2>1. pc[g] = "close" /\ r \notin held /\ r \in Open(g)
      <3>1. rpc' = [q \in Requests |-> IF q \in Open(g) THEN "lost" ELSE rpc[q]]
        BY Zenon, <1>1 DEF PoolClosed, Exit
      <3> QED BY Zenon, <1>1, <3>1 DEF PoolClosed
    <2>2. late[g]
      BY Zenon, <1>1, <2>1 DEF RecInv, Closing
    <2>3. rpc[r] \in RequestStages \ InTransaction /\ rpc[r] # "idle"
      <3>1. at[r] # None
        BY Zenon, <1>1, Deployments
      <3>2. rpc[r] \in RequestStages /\ Rec(r) /\ (rpc[r] \in InTransaction => r \in held)
        BY Zenon, <1>1 DEF RecInv, RecType
      <3> QED BY Zenon, <2>1, <3>1, <3>2 DEF Rec
    <2>4. rpc[r] \notin Over
      BY Zenon, <2>1 DEF Open, Over
    <2> QED BY Zenon, <2>2, <2>3, <2>4 DEF RequestStages, Over
  <1>2. RecInv => [\A g \in Gateways : PoolClosed(g) =>
                      \A r \in Requests : at[r] = g /\ rpc'[r] # rpc[r] =>
                          late[g] /\ rpc[r] \in {"handling", "begin", "reply"}]_vars
    BY Zenon, <1>1
  <1> QED BY <1>2, RecordInvariant, PTL DEF OrderlyExit

-----------------------------------------------------------------------------
(* The types of the migrations                                             *)

\* The migrations that are applied or recorded are ones that some gateway embeds.
Known ==
    /\ lock \in Gateways \cup {None}
    /\ \A g \in Gateways :
        /\ \A i \in 1..Len(applied[g]) : applied[g][i] \in Files
        /\ noted[g] \subseteq Files
        /\ pc[g] \in {"exec", "version"} => file[g] \in Files
    /\ \A i \in 1..Len(schema) : schema[i] \in Files
    /\ versions \subseteq Files

\* Appending a known version to known versions leaves them all known.
LEMMA AppendKnown ==
    ASSUME NEW S, NEW s \in Seq(Nat), NEW x \in Nat, x \in S, \A i \in 1..Len(s) : s[i] \in S
    PROVE  \A i \in 1..Len(Append(s, x)) : Append(s, x)[i] \in S
  OBVIOUS

\* A file that a gateway embeds is one of the migration files.
LEMMA EmbeddedKnown ==
    ASSUME NEW g \in Gateways, NEW f \in Nat, f >= 1, f <= Embedded[g]
    PROVE  f \in Files
  BY Deployments DEF Files

\* A step of g that leaves the database and the other gateways alone.
LEMMA KnownElsewhere ==
    ASSUME Known, NEW g \in Gateways, UNCHANGED <<schema, versions>>,
           lock' \in Gateways \cup {None},
           \A h \in Gateways \ {g} :
                /\ pc'[h] = pc[h] /\ file'[h] = file[h]
                /\ applied'[h] = applied[h] /\ noted'[h] = noted[h],
           \A i \in 1..Len(applied'[g]) : applied'[g][i] \in Files,
           noted'[g] \subseteq Files,
           pc'[g] \in {"exec", "version"} => file'[g] \in Files
    PROVE  Known'
PROOF
  <1>1. ASSUME NEW h \in Gateways
        PROVE  /\ \A i \in 1..Len(applied'[h]) : applied'[h][i] \in Files
               /\ noted'[h] \subseteq Files
               /\ pc'[h] \in {"exec", "version"} => file'[h] \in Files
    <2>1. CASE h = g
      BY Zenon, <2>1
    <2>2. CASE h # g
      BY Zenon, <2>2 DEF Known
    <2> QED BY Zenon, <2>1, <2>2
  <1> QED BY Zenon, <1>1 DEF Known

\* A process that exits, its transaction rolled back, leaves only known
\* versions.
LEMMA KnownExit ==
    ASSUME ProcInv, MigInv, Known, NEW g \in Gateways, Exit(g), UNCHANGED <<schema, versions>>
    PROVE  Known'
PROOF
  <1>1. /\ \A h \in Gateways : pc'[h] = IF h = g THEN "down" ELSE pc[h]
        /\ lock' \in Gateways \cup {None}
        /\ \A h \in Gateways \ {g} : /\ file'[h] = file[h] /\ applied'[h] = applied[h]
                                     /\ noted'[h] = noted[h]
        /\ applied'[g] = <<>> /\ noted'[g] = {}
    BY Zenon DEF Exit, Goto, ProcInv, MigInv, MigType, Known
  <1> QED BY <1>1, KnownElsewhere

\* A process that moves on without touching the tables leaves only known
\* versions.
LEMMA KnownGoto ==
    ASSUME ProcInv, Known, NEW g \in Gateways, NEW s, s \notin {"exec", "version"}, Goto(g, s),
           UNCHANGED migration
    PROVE  Known'
PROOF
  <1>1. \A h \in Gateways : pc'[h] = IF h = g THEN s ELSE pc[h]
    BY Zenon DEF Goto, ProcInv
  <1>2. UNCHANGED <<lock, file, applied, noted, schema, versions>>
    BY Zenon DEF migration
  <1>3. \A i \in 1..Len(applied[g]) : applied[g][i] \in Files
    BY Zenon DEF Known
  <1>4. noted[g] \subseteq Files /\ lock \in Gateways \cup {None}
    BY Zenon DEF Known
  <1> QED BY Zenon, <1>1, <1>2, <1>3, <1>4, KnownElsewhere

\* Taking the advisory lock leaves only known versions.
LEMMA KnownAcquire ==
    ASSUME ProcInv, MigInv, Known, NEW g \in Gateways, AcquireLock(g)
    PROVE  Known'
PROOF
  <1>1. /\ \A h \in Gateways : pc'[h] = IF h = g THEN "check" ELSE pc[h]
        /\ lock' = g /\ \A h \in Gateways \ {g} : file'[h] = file[h]
        /\ UNCHANGED <<applied, noted, schema, versions>>
    BY Zenon DEF AcquireLock, Goto, ProcInv, MigInv, MigType
  <1>2. (\A i \in 1..Len(applied[g]) : applied[g][i] \in Files) /\ noted[g] \subseteq Files
    BY Zenon DEF Known
  <1> QED BY Zenon, <1>1, <1>2, KnownElsewhere

\* Looking a version up leaves only known versions.
LEMMA KnownCheck ==
    ASSUME ProcInv, MigInv, Known, NEW g \in Gateways, CheckVersion(g)
    PROVE  Known'
PROOF
  <1>1. /\ pc[g] = "check" /\ UNCHANGED <<lock, applied, noted, schema, versions>>
        /\ \A h \in Gateways \ {g} : pc'[h] = pc[h] /\ file'[h] = file[h]
        /\ \/ pc'[g] \in {"commit", "check"}
           \/ pc'[g] = "exec" /\ file'[g] = file[g] /\ file[g] <= Embedded[g]
    BY Zenon DEF CheckVersion, Goto, ProcInv, MigInv, MigType
  <1>2. file[g] \in Nat /\ file[g] >= 1
    <2>1. Progress(Len(schema), "check", file[g], applied[g], noted[g], Embedded[g])
      BY Zenon, <1>1 DEF MigInv, Mig, Migrating
    <2>2. file[g] \in 1..(Len(schema) + Len(applied[g]) + 1)
      BY Zenon, <2>1 DEF Progress
    <2>3. Len(schema) \in Nat /\ Len(applied[g]) \in Nat
      BY DEF MigInv, MigType
    <2> QED BY <2>2, <2>3
  <1>3. pc'[g] \in {"exec", "version"} => file'[g] \in Files
    BY Zenon, <1>1, <1>2, EmbeddedKnown
  <1>4. (\A i \in 1..Len(applied[g]) : applied[g][i] \in Files) /\ noted[g] \subseteq Files
        /\ lock \in Gateways \cup {None}
    BY Zenon DEF Known
  <1> QED BY Zenon, <1>1, <1>3, <1>4, KnownElsewhere

\* Executing a migration file adds a known one.
LEMMA KnownExecute ==
    ASSUME ProcInv, MigInv, Known, NEW g \in Gateways, Execute(g)
    PROVE  Known'
PROOF
  <1>1. /\ pc[g] = "exec" /\ UNCHANGED <<lock, file, noted, schema, versions>>
        /\ applied'[g] = Append(applied[g], file[g])
        /\ \A h \in Gateways \ {g} : pc'[h] = pc[h] /\ applied'[h] = applied[h]
    BY Zenon DEF Execute, Goto, ProcInv, MigInv, MigType
  <1>2. file[g] \in Files /\ noted[g] \subseteq Files /\ lock \in Gateways \cup {None}
        /\ \A i \in 1..Len(applied[g]) : applied[g][i] \in Files
    BY Zenon, <1>1 DEF Known
  <1>3. applied[g] \in Seq(Nat) /\ file[g] \in Nat
    BY Zenon DEF MigInv, MigType
  <1>4. \A i \in 1..Len(applied'[g]) : applied'[g][i] \in Files
    BY Zenon, <1>1, <1>2, <1>3, AppendKnown
  <1> QED BY Zenon, <1>1, <1>2, <1>4, KnownElsewhere

\* Inserting the version row adds a known version.
LEMMA KnownNote ==
    ASSUME ProcInv, MigInv, Known, NEW g \in Gateways, NoteVersion(g)
    PROVE  Known'
PROOF
  <1>1. /\ pc[g] = "version" /\ pc'[g] = "check" /\ UNCHANGED <<lock, applied, schema, versions>>
        /\ noted'[g] = noted[g] \cup {file[g]}
        /\ \A h \in Gateways \ {g} : /\ pc'[h] = pc[h] /\ noted'[h] = noted[h]
                                     /\ file'[h] = file[h]
    BY Zenon DEF NoteVersion, Goto, ProcInv, MigInv, MigType
  <1>2. file[g] \in Files /\ noted[g] \subseteq Files /\ lock \in Gateways \cup {None}
        /\ \A i \in 1..Len(applied[g]) : applied[g][i] \in Files
    BY Zenon, <1>1 DEF Known
  <1> QED BY Zenon, <1>1, <1>2, KnownElsewhere

\* Committing the transaction leaves only known versions.
LEMMA KnownCommit ==
    ASSUME ProcInv, MigInv, Known, NEW g \in Gateways, CommitMigrations(g)
    PROVE  Known'
PROOF
  <1>1. /\ schema' = schema \o applied[g] /\ versions' = versions \cup noted[g]
        /\ pc'[g] \in {"serve", "down"} /\ lock' \in {None, lock}
        /\ \A h \in Gateways \ {g} : /\ pc'[h] = pc[h] /\ file'[h] = file[h]
                                     /\ applied'[h] = applied[h] /\ noted'[h] = noted[h]
        /\ applied'[g] = <<>> /\ noted'[g] = {}
    BY Zenon DEF CommitMigrations, Exit, Goto, ProcInv, MigInv, MigType
  <1>2. schema \in Seq(Nat) /\ applied[g] \in Seq(Nat)
    BY Zenon DEF MigInv, MigType
  <1>3. (\A i \in 1..Len(applied[g]) : applied[g][i] \in Files)
        /\ (\A i \in 1..Len(schema) : schema[i] \in Files)
        /\ versions \subseteq Files /\ noted[g] \subseteq Files /\ lock \in Gateways \cup {None}
    BY Zenon DEF Known
  <1>4. (\A i \in 1..Len(schema') : schema'[i] \in Files) /\ versions' \subseteq Files
    BY <1>1, <1>2, <1>3
  <1>5. ASSUME NEW h \in Gateways
        PROVE  /\ \A i \in 1..Len(applied'[h]) : applied'[h][i] \in Files
               /\ noted'[h] \subseteq Files
               /\ pc'[h] \in {"exec", "version"} => file'[h] \in Files
    <2>1. CASE h = g
      BY <1>1, <2>1
    <2>2. CASE h # g
      BY Zenon, <1>1, <2>2 DEF Known
    <2> QED BY Zenon, <2>1, <2>2
  <1> QED BY Zenon, <1>1, <1>3, <1>4, <1>5 DEF Known

\* Every step leaves only known versions in the tables.
LEMMA KnownStep ==
    ASSUME ProcInv, MigInv, Known, [Next]_vars
    PROVE  Known'
PROOF
  <1>1. CASE (\E r \in Requests : Request(r)) \/ UNCHANGED vars
    <2>1. UNCHANGED <<process, migration>>
      BY Zenon, <1>1, RequestFrame DEF vars
    <2> QED BY Zenon, <2>1 DEF Known, process, migration
  <1>2. ASSUME NEW g \in Gateways, StartFails(g) \/ Kill(g) \/ PoolClosed(g)
        PROVE  Known'
    <2>1. Exit(g) /\ UNCHANGED <<schema, versions>>
      BY Zenon, <1>2 DEF StartFails, Kill, PoolClosed
    <2> QED BY Zenon, <2>1, KnownExit
  <1>3. ASSUME NEW g \in Gateways, ApplyMigrations(g) PROVE Known'
    BY Zenon, <1>3, KnownAcquire, KnownCheck, KnownExecute, KnownNote, KnownCommit DEF ApplyMigrations
  <1>4. ASSUME NEW g \in Gateways,
               \/ Load(g) \/ Build(g) \/ PingRedis(g) \/ ConnectPostgres(g)
               \/ Signal(g) \/ Drained(g) \/ GraceOver(g)
        PROVE  Known'
    <2>1. UNCHANGED migration
      BY Zenon, <1>4 DEF Load, Build, PingRedis, ConnectPostgres, Signal, Drained, GraceOver
    <2>2. \E s \in {"build", "redis", "connect", "serve", "lock", "drain", "close"} : Goto(g, s)
      BY Zenon, <1>4 DEF Load, Build, PingRedis, ConnectPostgres, Signal, Drained, GraceOver
    <2>3. PICK s : s \notin {"exec", "version"} /\ Goto(g, s)
      BY Zenon, <2>2
    <2> QED BY Zenon, <2>1, <2>3, KnownGoto
  <1> QED BY Zenon, <1>1, <1>2, <1>3, <1>4 DEF Next, StartUp

-----------------------------------------------------------------------------
(* The pool                                                                *)

\* What the proofs use of finite sets.  It follows from the library's theorems,
\* which the last section brings in.
Counting ==
    /\ IsFiniteSet({})
    /\ \A S : IsFiniteSet(S) => Cardinality(S) \in Nat
    /\ \A S, x : IsFiniteSet(S) /\ x \notin S =>
           IsFiniteSet(S \cup {x}) /\ Cardinality(S \cup {x}) = Cardinality(S) + 1
    /\ \A S, x : IsFiniteSet(S) /\ x \in S =>
           IsFiniteSet(S \ {x}) /\ Cardinality(S \ {x}) = Cardinality(S) - 1

\* Arithmetic: one less stays below the bound.
LEMMA OneBelow ==
    ASSUME NEW n \in Nat, NEW c \in Int, n <= c
    PROVE  n - 1 <= c
  OBVIOUS

\* Arithmetic: one more than something below the bound stays within it.
LEMMA OneAbove ==
    ASSUME NEW n \in Nat, NEW c \in Int, n < c
    PROVE  n + 1 <= c
  OBVIOUS

\* Arithmetic: a start that the bound allows is counted within it.
LEMMA OneStart ==
    ASSUME NEW n \in 0..MaxStarts, n < MaxStarts
    PROVE  n + 1 \in 0..MaxStarts
  BY Deployments

\* The part of the configuration that run() keeps has the pool size of the
\* whole.
LEMMA DeployedConns == \A c : Deployed(c).conns = c.PostgresMaxConns
  BY Zenon DEF Deployed

Serving == {"serve", "drain", "close"}

\* The requests with a connection of g's pool.
Lent(g) == {q \in held : at[q] = g}

TableType ==
    /\ starts \in 0..MaxStarts
    /\ provider \in BOOLEAN /\ requests \subseteq Requests /\ usage \subseteq Requests
    /\ inserted \in [Requests -> BOOLEAN] /\ doubt \subseteq Requests

\* A process has a configuration, with the size of the pool once it is built.
Configured(g) ==
    /\ pc[g] = "down" <=> cfg[g] = None
    /\ pc[g] \notin {"down", "build"} => cfg[g].conns \in Int

\* Only a process that listens, or did, has requests that are not over.
Served(r) == rpc[r] \notin Over \cup {"idle"} => at[r] \in Gateways /\ pc[at[r]] \in Serving

Pool(g) == IsFiniteSet(Lent(g)) /\ (Lent(g) # {} => Cardinality(Lent(g)) <= cfg[g].conns)

PoolInv ==
    /\ TableType
    /\ \A g \in Gateways : Configured(g) /\ Pool(g)
    /\ \A r \in Requests : Served(r)

\* A connection is lent to a request of a process that serves or did.
LEMMA LentServed ==
    ASSUME RecInv, PoolInv, NEW g \in Gateways, pc[g] \notin Serving
    PROVE  Lent(g) = {}
PROOF
  <1>1. ASSUME NEW q \in held, at[q] = g PROVE FALSE
    <2>1. q \in Requests /\ rpc[q] \in InTransaction /\ Served(q)
      BY Zenon DEF RecInv, PoolInv
    <2>2. pc[at[q]] \in Serving
      BY Zenon, <2>1 DEF Served, InTransaction, Over
    <2> QED BY Zenon, <1>1, <2>2
  <1> QED BY Zenon, <1>1 DEF Lent

\* At the start no connection is in use.
LEMMA PoolInit ==
    ASSUME Counting, Init
    PROVE  PoolInv
PROOF
  <1>1. TableType
    <2>1. starts \in 0..MaxStarts
      BY Deployments DEF Init
    <2> QED BY Zenon, <2>1 DEF Init, TableType
  <1>2. ASSUME NEW g \in Gateways PROVE Configured(g) /\ Pool(g)
    <2>1. Lent(g) = {}
      BY Zenon DEF Init, Lent
    <2> QED BY Zenon, <2>1 DEF Init, Configured, Pool, Counting
  <1>3. \A r \in Requests : Served(r)
    BY Zenon DEF Init, Served
  <1> QED BY Zenon, <1>1, <1>2, <1>3 DEF PoolInv

\* The process of g ends.
LEMMA PoolExit ==
    ASSUME Counting, ProcInv, RecInv, PoolInv, NEW g \in Gateways, Exit(g),
           UNCHANGED <<starts, tables, at>>
    PROVE  PoolInv'
PROOF
  <1>1. /\ \A h \in Gateways : pc'[h] = IF h = g THEN "down" ELSE pc[h]
        /\ \A h \in Gateways : cfg'[h] = IF h = g THEN None ELSE cfg[h]
        /\ rpc' = [r \in Requests |-> IF r \in Open(g) THEN "lost" ELSE rpc[r]]
        /\ held' = {r \in held : at[r] # g}
    BY Zenon DEF Exit, Goto, ProcInv
  <1>2. TableType'
    <2>1. TableType /\ UNCHANGED <<starts, provider, requests, usage>>
      BY Zenon DEF PoolInv, tables
    <2>2. inserted' \in [Requests -> BOOLEAN]
      BY Zenon, <2>1 DEF Exit, TableType
    <2>3. doubt' \subseteq Requests
      BY Zenon, <2>1 DEF Exit, Open, TableType
    <2> QED BY Zenon, <2>1, <2>2, <2>3 DEF TableType
  <1>3. ASSUME NEW h \in Gateways PROVE Configured(h)' /\ Pool(h)'
    <2>1. CASE h = g
      <3>1. Lent(h)' = {}
        BY Zenon, <1>1, <2>1 DEF Lent
      <3>2. pc'[h] = "down" /\ cfg'[h] = None
        BY Zenon, <1>1, <2>1
      <3> QED BY Zenon, <3>1, <3>2 DEF Configured, Pool, Counting
    <2>2. CASE h # g
      <3>1. Lent(h)' = Lent(h)
        BY Zenon, <1>1, <2>2 DEF Lent
      <3>2. pc'[h] = pc[h] /\ cfg'[h] = cfg[h] /\ Configured(h) /\ Pool(h)
        BY Zenon, <1>1, <2>2 DEF PoolInv
      <3> QED BY Zenon, <3>1, <3>2 DEF Configured, Pool
    <2> QED BY Zenon, <2>1, <2>2
  <1>4. ASSUME NEW r \in Requests PROVE Served(r)'
    <2>1. Served(r)
      BY Zenon DEF PoolInv
    <2>2. CASE r \in Open(g)
      BY Zenon, <1>1, <2>2 DEF Served, Over
    <2>3. CASE r \notin Open(g)
      <3>1. rpc'[r] = rpc[r] /\ at'[r] = at[r]
        BY Zenon, <1>1, <2>3
      <3>2. rpc[r] \notin Over => at[r] # g
        BY Zenon, <2>3 DEF Open, Over
      <3> QED BY Zenon, <1>1, <2>1, <3>1, <3>2 DEF Served
    <2> QED BY Zenon, <2>2, <2>3
  <1> QED BY Zenon, <1>2, <1>3, <1>4 DEF PoolInv

\* Any other step of the process of g.
LEMMA PoolProcess ==
    ASSUME ProcInv, RecInv, PoolInv, NEW g \in Gateways, NEW s \in Stages \ {"down"}, Goto(g, s),
           pc[g] \in Serving => s \in Serving /\ cfg'[g] = cfg[g],
           cfg'[g] # None, s # "build" => cfg'[g].conns \in Int,
           \A h \in Gateways \ {g} : cfg'[h] = cfg[h],
           starts' \in 0..MaxStarts, UNCHANGED <<tables, record>>
    PROVE  PoolInv'
PROOF
  <1>1. \A h \in Gateways : pc'[h] = IF h = g THEN s ELSE pc[h]
    BY Zenon DEF Goto, ProcInv
  <1>2. UNCHANGED <<provider, requests, usage, rpc, at, inserted, held, doubt>>
    BY Zenon DEF tables, record
  <1>3. TableType'
    BY Zenon, <1>2 DEF PoolInv, TableType
  <1>4. ASSUME NEW h \in Gateways PROVE Configured(h)' /\ Pool(h)'
    <2>1. Lent(h)' = Lent(h) /\ Pool(h) /\ Configured(h)
      BY Zenon, <1>2 DEF Lent, PoolInv
    <2>2. CASE h = g
      <3>1. Configured(h)'
        BY Zenon, <1>1, <2>2 DEF Configured
      <3>2. Lent(h) = {} \/ cfg'[h] = cfg[h]
        BY Zenon, <2>2, LentServed
      <3> QED BY Zenon, <2>1, <3>1, <3>2 DEF Pool
    <2>3. CASE h # g
      <3>1. pc'[h] = pc[h] /\ cfg'[h] = cfg[h]
        BY Zenon, <1>1, <2>3
      <3> QED BY Zenon, <2>1, <3>1 DEF Configured, Pool
    <2> QED BY Zenon, <2>2, <2>3
  <1>5. ASSUME NEW r \in Requests PROVE Served(r)'
    <2>1. Served(r) /\ rpc' = rpc /\ at' = at
      BY Zenon, <1>2 DEF PoolInv
    <2> QED BY Zenon, <1>1, <2>1 DEF Served
  <1> QED BY Zenon, <1>3, <1>4, <1>5 DEF PoolInv

\* A step of the request r.
LEMMA PoolRequest ==
    ASSUME Counting, RecInv, PoolInv, NEW r \in Requests, UNCHANGED process, TableType',
           \A q \in Requests \ {r} : rpc'[q] = rpc[q] /\ at'[q] = at[q],
           rpc'[r] \notin Over \cup {"idle"} => at'[r] \in Gateways /\ pc[at'[r]] \in Serving,
           \/ held' = held /\ (r \in held => at'[r] = at[r])
           \/ held' = held \ {r} /\ at'[r] = at[r]
           \/ /\ held' = held \cup {r} /\ r \notin held /\ at'[r] = at[r]
              /\ rpc'[r] \in InTransaction
              /\ Cardinality(Lent(at[r])) < cfg[at[r]].conns
    PROVE  PoolInv'
PROOF
  <1>1. UNCHANGED <<pc, cfg>>
    BY Zenon DEF process
  <1>2. ASSUME NEW h \in Gateways PROVE Configured(h)' /\ Pool(h)'
    <2>1. Configured(h) /\ Pool(h) /\ held \subseteq Requests
      BY Zenon DEF PoolInv, RecInv
    <2>2. Configured(h)'
      BY Zenon, <1>1, <2>1 DEF Configured
    <2>3. CASE Lent(h)' = Lent(h)
      BY Zenon, <1>1, <2>1, <2>2, <2>3 DEF Pool
    <2>4. CASE Lent(h)' = Lent(h) \ {r} /\ r \in Lent(h)
      <3>1. IsFiniteSet(Lent(h)') /\ Cardinality(Lent(h)') = Cardinality(Lent(h)) - 1
        <4>1. IsFiniteSet(Lent(h)) /\ r \in Lent(h) /\ Lent(h)' = Lent(h) \ {r}
          BY Zenon, <2>1, <2>4 DEF Pool
        <4>2. \A S, x : IsFiniteSet(S) /\ x \in S =>
                  IsFiniteSet(S \ {x}) /\ Cardinality(S \ {x}) = Cardinality(S) - 1
          BY Zenon DEF Counting
        <4>3. /\ IsFiniteSet(Lent(h) \ {r})
              /\ Cardinality(Lent(h) \ {r}) = Cardinality(Lent(h)) - 1
          BY Zenon, <4>1, <4>2
        <4> QED BY Zenon, <4>1, <4>3
      <3>2. Cardinality(Lent(h)) \in Nat /\ Cardinality(Lent(h)) <= cfg[h].conns
        BY Zenon, <2>1, <2>4 DEF Pool, Counting
      <3>3. pc[h] \in Serving
        BY Zenon, <2>4, LentServed
      <3>4. cfg[h].conns \in Int
        BY Zenon, <2>1, <3>3 DEF Configured, Serving
      <3>5. Cardinality(Lent(h)') <= cfg'[h].conns
        BY Zenon, <1>1, <3>1, <3>2, <3>4, OneBelow
      <3> QED BY Zenon, <2>2, <3>1, <3>5 DEF Pool
    <2>5. CASE h = at[r] /\ Lent(h)' = Lent(h) \cup {r} /\ r \notin Lent(h)
               /\ Cardinality(Lent(h)) < cfg[h].conns /\ rpc'[r] \in InTransaction
               /\ at'[r] = at[r]
      <3>1. IsFiniteSet(Lent(h)') /\ Cardinality(Lent(h)') = Cardinality(Lent(h)) + 1
        <4>1. IsFiniteSet(Lent(h)) /\ r \notin Lent(h) /\ Lent(h)' = Lent(h) \cup {r}
          BY Zenon, <2>1, <2>5 DEF Pool
        <4> QED BY Zenon, <4>1 DEF Counting
      <3>2. Cardinality(Lent(h)) \in Nat
        BY Zenon, <2>1 DEF Pool, Counting
      <3>4. cfg[h].conns \in Int
        <4>1. pc[h] \in Serving
          BY Zenon, <2>5 DEF InTransaction, Over
        <4> QED BY Zenon, <2>1, <4>1 DEF Configured, Serving
      <3>5. Cardinality(Lent(h)') <= cfg'[h].conns
        BY Zenon, <1>1, <2>5, <3>1, <3>2, <3>4, OneAbove
      <3> QED BY Zenon, <2>2, <3>1, <3>5 DEF Pool
    <2>6. CASE held' = held /\ (r \in held => at'[r] = at[r])
      <3>1. Lent(h)' = Lent(h)
        BY Zenon, <2>1, <2>6 DEF Lent
      <3> QED BY Zenon, <2>3, <3>1
    <2>7. CASE held' = held \ {r} /\ at'[r] = at[r]
      <3>1. Lent(h)' = Lent(h) \ {r}
        BY Zenon, <2>1, <2>7 DEF Lent
      <3>2. r \in Lent(h) \/ Lent(h) \ {r} = Lent(h)
        BY Zenon
      <3> QED BY Zenon, <2>3, <2>4, <3>1, <3>2
    <2>8. CASE /\ held' = held \cup {r} /\ r \notin held /\ at'[r] = at[r]
               /\ rpc'[r] \in InTransaction
               /\ Cardinality(Lent(at[r])) < cfg[at[r]].conns
      <3>1. CASE at[r] = h
        <4>1. Lent(h)' = Lent(h) \cup {r} /\ r \notin Lent(h)
          BY Zenon, <2>1, <2>8, <3>1 DEF Lent
        <4> QED BY Zenon, <2>5, <2>8, <3>1, <4>1
      <3>2. CASE at[r] # h
        <4>1. Lent(h)' = Lent(h)
          BY Zenon, <2>1, <2>8, <3>2 DEF Lent
        <4> QED BY Zenon, <2>3, <4>1
      <3> QED BY Zenon, <3>1, <3>2
    <2> QED BY Zenon, <2>6, <2>7, <2>8
  <1>3. ASSUME NEW q \in Requests PROVE Served(q)'
    <2>1. Served(q)
      BY Zenon DEF PoolInv
    <2>2. CASE q = r
      BY Zenon, <1>1, <2>2 DEF Served
    <2>3. CASE q # r
      BY Zenon, <1>1, <2>1, <2>3 DEF Served
    <2> QED BY Zenon, <2>2, <2>3
  <1> QED BY Zenon, <1>2, <1>3 DEF PoolInv

\* The steps of run() that are not its end.
LEMMA PoolRun ==
    ASSUME ProcInv, RecInv, PoolInv, NEW g \in Gateways,
           \/ Load(g) \/ Build(g) \/ PingRedis(g) \/ ConnectPostgres(g)
           \/ AcquireLock(g) \/ CheckVersion(g) \/ Execute(g) \/ NoteVersion(g)
           \/ CommitMigrations(g) /\ Goto(g, "serve") /\ UNCHANGED <<cfg, record>>
           \/ Signal(g) \/ Drained(g) \/ GraceOver(g)
    PROVE  PoolInv'
PROOF
  <1>1. UNCHANGED <<tables, record>> /\ Configured(g) /\ starts \in 0..MaxStarts
        /\ pc[g] \in Stages
    <2>1. UNCHANGED <<tables, record>>
      BY Zenon DEF Load, Build, PingRedis, ConnectPostgres, AcquireLock, CheckVersion, Execute,
             NoteVersion, CommitMigrations, Signal, Drained, GraceOver
    <2> QED BY Zenon, <2>1 DEF PoolInv, TableType, ProcInv
  <1>2. CASE Load(g)
    <2>1. PICK env \in Environments[g] : cfg' = [cfg EXCEPT ![g] = Config(env)]
      BY Zenon, <1>2 DEF Load
    <2>2. pc[g] = "down" /\ Goto(g, "build") /\ starts < MaxStarts /\ starts' = starts + 1
      BY Zenon, <1>2 DEF Load
    <2>3. cfg'[g] = Config(env) /\ \A h \in Gateways \ {g} : cfg'[h] = cfg[h]
      BY Zenon, <2>1 DEF ProcInv
    <2>4. cfg'[g] # None
      BY Zenon, <2>3, NoneIsNoConfig
    <2>5. starts' \in 0..MaxStarts
      BY Zenon, <1>1, <2>2, OneStart
    <2>6. "build" \in Stages \ {"down"} /\ pc[g] \notin Serving
      BY Zenon, <2>2 DEF Stages, Starting, Serving
    <2> QED BY Zenon, <1>1, <2>2, <2>3, <2>4, <2>5, <2>6, PoolProcess
  <1>3. CASE Build(g)
    <2> DEFINE s == IF cfg[g].RedisEnabled THEN "redis"
                    ELSE IF cfg[g].PostgresEnabled THEN "connect" ELSE "serve"
    <2>1. s \in Stages \ {"down"}
      BY Zenon DEF Stages, Starting
    <2>2. /\ pc[g] = "build" /\ Goto(g, s) /\ starts' = starts
          /\ cfg'[g] = Deployed(cfg[g]) /\ \A h \in Gateways \ {g} : cfg'[h] = cfg[h]
      BY Zenon, <1>3 DEF Build, ProcInv
    <2> HIDE DEF s
    <2>3. PICK env \in Environments[g] : cfg[g] = Config(env)
      BY Zenon, <2>2 DEF ProcInv, Loaded
    <2>4. cfg'[g] # None
      BY Zenon, <2>2, <2>3, NoneIsNoConfig
    <2>5. cfg'[g].conns \in Int
      <3>1. WellTyped(cfg[g])
        BY Zenon, <2>3, Deployments
      <3>2. cfg[g].PostgresMaxConns \in Int
        BY Zenon, <3>1 DEF WellTyped
      <3>3. cfg'[g].conns = cfg[g].PostgresMaxConns
        BY Zenon, <2>2, DeployedConns
      <3> QED BY Zenon, <3>2, <3>3
    <2>6. pc[g] \notin Serving
      BY Zenon, <2>2 DEF Serving
    <2> QED BY Zenon, <1>1, <2>1, <2>2, <2>4, <2>5, <2>6, PoolProcess
  <1>4. ASSUME NEW s \in Stages \ {"down", "build"}, Goto(g, s), UNCHANGED <<cfg, starts>>,
               pc[g] \notin {"down", "build"}, pc[g] \in Serving => s \in Serving
        PROVE  PoolInv'
    <2>1. cfg'[g] # None /\ cfg'[g].conns \in Int
      BY Zenon, <1>1, <1>4 DEF Configured
    <2> QED BY Zenon, <1>1, <1>4, <2>1, PoolProcess
  <1>5. CASE PingRedis(g)
    <2> DEFINE s == IF cfg[g].postgres THEN "connect" ELSE "serve"
    <2>1. s \in Stages \ {"down", "build"}
      BY Zenon DEF Stages, Starting
    <2>2. pc[g] = "redis" /\ Goto(g, s) /\ UNCHANGED <<cfg, starts>>
      BY Zenon, <1>5 DEF PingRedis
    <2> HIDE DEF s
    <2> QED BY Zenon, <1>4, <2>1, <2>2 DEF Serving
  <1>6. CASE Signal(g) \/ Drained(g) \/ GraceOver(g)
    <2>1. /\ pc[g] \in Serving /\ \E s \in {"drain", "close"} : Goto(g, s)
          /\ UNCHANGED <<cfg, starts>>
      BY Zenon, <1>6 DEF Signal, Drained, GraceOver, Serving
    <2> QED BY Zenon, <1>4, <2>1 DEF Stages, Serving
  <1>7. CASE ConnectPostgres(g) \/ AcquireLock(g) \/ Execute(g) \/ NoteVersion(g)
             \/ (CommitMigrations(g) /\ Goto(g, "serve") /\ UNCHANGED <<cfg, record>>)
    <2>1. /\ pc[g] \in {"connect", "lock", "exec", "version", "commit"}
          /\ \E s \in {"lock", "check", "version", "serve"} : Goto(g, s)
          /\ UNCHANGED <<cfg, starts>>
      BY Zenon, <1>7 DEF ConnectPostgres, AcquireLock, Execute, NoteVersion, CommitMigrations
    <2> QED BY Zenon, <1>4, <2>1 DEF Stages, Starting, Serving
  <1>8. CASE CheckVersion(g)
    <2>1. /\ pc[g] = "check" /\ UNCHANGED <<cfg, starts>>
          /\ \E s \in {"commit", "exec", "check"} : Goto(g, s)
      BY Zenon, <1>8 DEF CheckVersion, Goto, ProcInv
    <2> QED BY Zenon, <1>4, <2>1 DEF Stages, Starting, Serving
  <1> QED BY Zenon, <1>2, <1>3, <1>5, <1>6, <1>7, <1>8

\* The steps of a handler and its Record.
LEMMA PoolHandler ==
    ASSUME Counting, RecInv, PoolInv, NEW r \in Requests, Request(r)
    PROVE  PoolInv'
PROOF
  <1>1. /\ rpc \in [Requests -> RequestStages] /\ at \in [Requests -> Gateways \cup {None}]
        /\ (r \in held <=> rpc[r] \in InTransaction)
    BY Zenon DEF RecInv, RecType
  <1>2. UNCHANGED process /\ starts' = starts
    BY Zenon, RequestFrame DEF process
  <1>3. TableType'
    <2>1. TableType
      BY Zenon DEF PoolInv
    <2>2. CASE Commit(r) \/ Resolve(r)
      <3>1. /\ provider' \in {provider, provider \/ inserted[r]}
            /\ requests' \subseteq requests \cup {r} /\ usage' \subseteq usage \cup {r}
            /\ inserted' = [inserted EXCEPT ![r] = FALSE] /\ doubt' \subseteq doubt
        BY Zenon, <2>2 DEF Commit, Resolve, Visible, tables
      <3>2. provider' \in BOOLEAN /\ inserted' \in [Requests -> BOOLEAN]
        BY <2>1, <3>1, Zenon DEF TableType
      <3> QED BY Zenon, <1>2, <2>1, <3>1, <3>2 DEF TableType
    <2>3. CASE UNCHANGED tables
      <3>1. /\ UNCHANGED <<provider, requests, usage>>
            /\ doubt' \subseteq doubt \cup {r}
            /\ inserted' \in {inserted, [inserted EXCEPT ![r] = FALSE],
                              [inserted EXCEPT ![r] = ~provider]}
        BY Zenon, <2>3 DEF Request, Record, Arrive, Outcome, Begin, BeginFails, InsertProvider,
             InsertRequest, InsertUsage, StatementFails, Rollback, Commit, CommitFails,
             Resolve, Answer, tables, Visible
      <3>2. inserted' \in [Requests -> BOOLEAN]
        BY Zenon, <2>1, <3>1 DEF TableType
      <3> QED BY Zenon, <1>2, <2>1, <3>1, <3>2 DEF TableType
    <2> QED BY Zenon, <2>2, <2>3 DEF Request, Record, Arrive, Outcome, Begin, BeginFails,
             InsertProvider, InsertRequest, InsertUsage, StatementFails, Rollback, CommitFails,
             Answer
  <1>4. rpc[r] \notin Over \cup {"idle"} => at[r] \in Gateways /\ pc[at[r]] \in Serving
    BY Zenon DEF PoolInv, Served
  <1>5. CASE \E g \in Gateways : Arrive(r, g)
    <2>1. PICK g \in Gateways : Arrive(r, g)
      BY Zenon, <1>5
    <2>2. /\ rpc[r] = "idle" /\ pc[g] \in Serving /\ held' = held /\ at'[r] = g
          /\ \A q \in Requests \ {r} : rpc'[q] = rpc[q] /\ at'[q] = at[q]
      BY Zenon, <1>1, <2>1 DEF Arrive, Step, Serving
    <2>3. r \notin held
      BY Zenon, <1>1, <2>2 DEF InTransaction
    <2> QED BY Zenon, <1>2, <1>3, <2>2, <2>3, PoolRequest
  <1>6. CASE Begin(r)
    <2>1. /\ rpc[r] = "begin" /\ rpc'[r] = "provider" /\ held' = held \cup {r} /\ at' = at
          /\ \A q \in Requests \ {r} : rpc'[q] = rpc[q]
          /\ Cardinality({q \in held : at[q] = at[r]}) < cfg[at[r]].conns
      BY Zenon, <1>1, <1>6 DEF Begin, Step
    <2>2. r \notin held /\ rpc[r] \notin Over \cup {"idle"} /\ rpc'[r] \in InTransaction
      BY Zenon, <1>1, <2>1 DEF InTransaction, Over
    <2>3. Cardinality(Lent(at[r])) < cfg[at[r]].conns
      BY Zenon, <2>1 DEF Lent
    <2> QED BY Zenon, <1>2, <1>3, <1>4, <2>1, <2>2, <2>3, PoolRequest
  <1>7. CASE Resolve(r)
    <2>1. UNCHANGED <<rpc, at, held>>
      BY Zenon, <1>7 DEF Resolve
    <2> QED BY Zenon, <1>2, <1>3, <1>4, <2>1, PoolRequest
  <1>8. CASE Outcome(r) \/ Answer(r) \/ (Record(r) /\ ~Begin(r))
    <2>1. /\ rpc[r] \notin Over \cup {"idle"} /\ at' = at
          /\ held' = held \/ held' = held \ {r}
          /\ \E s : Step(r, s)
      BY Zenon, <1>8 DEF Record, Outcome, Answer, BeginFails, InsertProvider,
             InsertRequest, InsertUsage, StatementFails, Rollback, Commit, CommitFails, Over
    <2>2. \A q \in Requests \ {r} : rpc'[q] = rpc[q]
      BY Zenon, <1>1, <2>1 DEF Step
    <2> QED BY Zenon, <1>2, <1>3, <1>4, <2>1, <2>2, PoolRequest
  <1> QED BY Zenon, <1>5, <1>6, <1>7, <1>8 DEF Request

\* Every step keeps the connections in use counted and within the pool.
LEMMA PoolStep ==
    ASSUME Counting, ProcInv, RecInv, PoolInv, [Next]_vars
    PROVE  PoolInv'
PROOF
  <1>1. CASE UNCHANGED vars
    <2>1. UNCHANGED <<pc, cfg, starts, provider, requests, usage, rpc, at, inserted, held, doubt>>
      BY Zenon, <1>1 DEF vars, process, tables, record
    <2>2. TableType' /\ \A r \in Requests : Served(r)'
      BY Zenon, <2>1 DEF PoolInv, TableType, Served
    <2>3. \A g \in Gateways : Lent(g)' = Lent(g)
      BY Zenon, <2>1 DEF Lent
    <2>4. \A g \in Gateways : Configured(g)' /\ Pool(g)'
      BY Zenon, <2>1, <2>3 DEF PoolInv, Configured, Pool
    <2> QED BY Zenon, <2>2, <2>4 DEF PoolInv
  <1>2. ASSUME NEW g \in Gateways, StartFails(g) \/ Kill(g) \/ PoolClosed(g)
        PROVE  PoolInv'
    <2>1. Exit(g) /\ UNCHANGED <<starts, tables, at>>
      BY Zenon, <1>2 DEF StartFails, Kill, PoolClosed
    <2> QED BY Zenon, <2>1, PoolExit
  <1>3. ASSUME NEW g \in Gateways, CommitMigrations(g) PROVE PoolInv'
    <2>1. /\ UNCHANGED <<starts, tables>>
          /\ \/ Exit(g) /\ UNCHANGED at
             \/ Goto(g, "serve") /\ UNCHANGED <<cfg, record>>
      BY Zenon, <1>3 DEF CommitMigrations
    <2> QED BY Zenon, <1>3, <2>1, PoolExit, PoolRun
  <1>4. ASSUME NEW g \in Gateways,
               \/ Load(g) \/ StartUp(g) \/ Kill(g) \/ Signal(g) \/ GraceOver(g)
               \/ Drained(g) \/ PoolClosed(g)
        PROVE  PoolInv'
    BY Zenon, <1>2, <1>3, <1>4, PoolRun DEF StartUp, ApplyMigrations
  <1>5. ASSUME NEW r \in Requests, Request(r) PROVE PoolInv'
    BY Zenon, <1>5, PoolHandler
  <1> QED BY Zenon, <1>1, <1>4, <1>5 DEF Next

\* The invariants together are more than the types.
LEMMA InvariantTypes ==
    ASSUME ProcInv, MigInv, RecInv, Known, PoolInv
    PROVE  TypeOK
PROOF
  <1>1. /\ pc \in [Gateways -> Stages] /\ late \in [Gateways -> BOOLEAN]
        /\ cfg \in [Gateways -> Configs] /\ lock \in Gateways \cup {None}
        /\ file \in [Gateways -> Nat] /\ versions \subseteq Files
    BY Zenon DEF ProcInv, MigInv, MigType, Known
  <1>2. ASSUME NEW g \in Gateways
        PROVE  /\ Range(applied[g]) \subseteq Files /\ noted[g] \subseteq Files
               /\ pc[g] = "down" <=> cfg[g] = None
    <2>1. applied[g] \in Seq(Nat)
      BY Zenon DEF MigInv, MigType
    <2>2. \A i \in 1..Len(applied[g]) : applied[g][i] \in Files
      BY Zenon DEF Known
    <2>3. Range(applied[g]) \subseteq Files
      BY <2>1, <2>2 DEF Range
    <2> QED BY Zenon, <2>3 DEF Known, PoolInv, Configured
  <1>3. Range(schema) \subseteq Files
    <2>1. schema \in Seq(Nat) /\ \A i \in 1..Len(schema) : schema[i] \in Files
      BY Zenon DEF MigInv, MigType, Known
    <2> QED BY <2>1 DEF Range
  <1>4. /\ rpc \in [Requests -> RequestStages] /\ at \in [Requests -> Gateways \cup {None}]
        /\ report \in [Requests -> {"none", "ok", "failed"}]
        /\ held = {r \in Requests : rpc[r] \in InTransaction}
    BY Zenon DEF RecInv, RecType
  <1>5. ASSUME NEW r \in held
        PROVE  Cardinality({q \in held : at[q] = at[r]}) <= cfg[at[r]].conns
    <2>1. r \in Requests /\ rpc[r] \in InTransaction /\ Served(r)
      BY Zenon, <1>4 DEF PoolInv
    <2>2. at[r] \in Gateways
      BY Zenon, <2>1 DEF Served, InTransaction, Over
    <2>3. Pool(at[r]) /\ r \in Lent(at[r])
      BY Zenon, <2>2 DEF PoolInv, Lent
    <2>4. Cardinality(Lent(at[r])) <= cfg[at[r]].conns
      BY Zenon, <2>3 DEF Pool
    <2> QED BY Zenon, <2>4 DEF Lent
  <1>6. TableType
    BY Zenon DEF PoolInv
  <1> QED BY Zenon, <1>1, <1>2, <1>3, <1>4, <1>5, <1>6 DEF TypeOK, TableType

-----------------------------------------------------------------------------
(* Finite sets and induction, and the theorems that need them              *)

\* The library's copies of the operators on finite sets are the ones the model
\* uses.  (The library comes last to keep it out of the other obligations.)
Sets == INSTANCE FiniteSetTheorems

\* The library instance's finite sets and cardinality are those of the model.
LEMMA SameSets ==
    \A S : (Sets!IsFiniteSet(S) <=> IsFiniteSet(S)) /\ Sets!Cardinality(S) = Cardinality(S)
  BY Zenon DEF Sets!IsFiniteSet, IsFiniteSet, Sets!Cardinality, Cardinality

\* The empty set is finite.
LEMMA NoElement == IsFiniteSet({})
  BY Zenon, SameSets, Sets!FS_EmptySet

\* A finite set has a natural number of elements.
LEMMA CountType ==
    ASSUME NEW S, IsFiniteSet(S)
    PROVE  Cardinality(S) \in Nat
  BY Zenon, SameSets, Sets!FS_CardinalityType

\* A new element adds one to the count.
LEMMA OneMore ==
    ASSUME NEW S, IsFiniteSet(S), NEW x, x \notin S
    PROVE  IsFiniteSet(S \cup {x}) /\ Cardinality(S \cup {x}) = Cardinality(S) + 1
PROOF
  <1>1. Sets!IsFiniteSet(S)
    BY Zenon, SameSets
  <1>2. Sets!IsFiniteSet(S \cup {x}) /\ Sets!Cardinality(S \cup {x}) = Sets!Cardinality(S) + 1
    BY Zenon, <1>1, Sets!FS_AddElement
  <1> QED BY Zenon, <1>2, SameSets

\* An element removed takes one from the count.
LEMMA OneLess ==
    ASSUME NEW S, IsFiniteSet(S), NEW x \in S
    PROVE  IsFiniteSet(S \ {x}) /\ Cardinality(S \ {x}) = Cardinality(S) - 1
PROOF
  <1>1. Sets!IsFiniteSet(S)
    BY Zenon, SameSets
  <1>2. Sets!IsFiniteSet(S \ {x}) /\ Sets!Cardinality(S \ {x}) = Sets!Cardinality(S) - 1
    BY Zenon, <1>1, Sets!FS_RemoveElement
  <1> QED BY Zenon, <1>2, SameSets

\* The facts on counting that the pool lemmas assume do hold.
LEMMA CountingHolds == Counting
  BY Zenon, NoElement, CountType, OneMore, OneLess DEF Counting

\* The induction principle that the backoff lemmas assume does hold.
LEMMA InductionHolds == Induction
PROOF
  <1> SUFFICES ASSUME NEW G \in SUBSET Nat, 0 \in G, \A n \in G : n + 1 \in G,
                      NEW n \in Nat, n \notin G
               PROVE  FALSE
    BY Zenon DEF Induction
  <1> DEFINE R == Sets!OpToRel(<, Nat)
             T == Nat \ G
  <1>1. Sets!IsWellFoundedOn(R, Nat) /\ T \subseteq Nat /\ T # {}
    BY Zenon, Sets!NatLessThanWellFounded
  <1>2. \A x, y \in Nat : <<x, y>> \in R <=> x < y
    BY Zenon DEF Sets!OpToRel
  <1> HIDE DEF R
  <1>3. PICK x \in T : \A y \in T : ~ (<<y, x>> \in R)
    <2> HIDE DEF T
    <2> QED BY Zenon, <1>1, Sets!WFMin
  <1>4. x \in Nat /\ x # 0 /\ x - 1 \in Nat /\ x - 1 < x /\ (x - 1) + 1 = x
    OBVIOUS
  <1> QED BY Zenon, <1>2, <1>3, <1>4

\* The variables of Server have their types, and a pool never lends more
\* connections than POSTGRES_MAX_CONNS, only to a transaction of a live process.
THEOREM ServerTypeCorrect == Spec => []TypeOK
PROOF
  <1> DEFINE Inv == ProcInv /\ MigInv /\ RecInv /\ Known /\ PoolInv
  <1>1. Init => Inv
    <2>1. Init => Known
      BY DEF Init, Known
    <2> QED BY Zenon, <2>1, ProcessInit, RecordInit, PoolInit, CountingHolds
  <1>2. Inv /\ [Next]_vars => Inv'
    BY Zenon, ProcessStep, RecordStep, KnownStep, PoolStep, CountingHolds
  <1>3. Inv => TypeOK
    BY Zenon, InvariantTypes
  <1> QED BY <1>1, <1>2, <1>3, PTL DEF Spec

\* The delays of retry.go double up to the limit, for every configuration
\* that Load accepts and any width of time.Duration.
THEOREM RetriesBackOff == Spec => []BackoffDoubles
PROOF
  <1>1. ProcInv => BackoffDoubles
    BY Zenon, AcceptedBacksOff, InductionHolds
  <1> QED BY <1>1, ProcessInvariant, PTL
=============================================================================
