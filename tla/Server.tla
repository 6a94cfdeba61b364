------------------------------- MODULE Server -------------------------------
(***************************************************************************)
(* cmd/server/main.go with internal/storage: gateways start against one    *)
(* PostgreSQL database, apply the migrations they embed, serve requests,   *)
(* write one usage transaction per request through a bounded pool, and     *)
(* stop on a signal.  Processes are killed, statements fail, and a COMMIT  *)
(* may land after its caller has given up on it.                           *)
(***************************************************************************)
EXTENDS Config, FiniteSets, Functions

CONSTANTS
    Gateways,       \* server processes, or hosts that run one at a time
    Requests,       \* request ids; each is sent once
    Environments,   \* Environments[g]: what g may be deployed with
    Embedded,       \* Embedded[g]: number of .sql files in g's migrations.FS
    MaxStarts,      \* bound on the number of process starts
    None

ASSUME Deployments ==
    /\ None \notin Gateways
    /\ \A g \in Gateways : \A env \in Environments[g] : WellTyped(Config(env))
    /\ Embedded \in [Gateways -> Nat]
    /\ MaxStarts \in Nat

VARIABLES
    pc,         \* pc[g]: where run() is; "down" when there is no process
    cfg,        \* cfg[g]: the Config, cut down once the providers are built
    starts,     \* processes started so far
    late,       \* late[g]: run() left its select or Shutdown with requests open
    \* ApplyMigrations
    lock,       \* holder of the advisory transaction lock
    file,       \* file[g]: the migration the loop is at
    applied,    \* applied[g]: migrations executed in g's open transaction
    noted,      \* noted[g]: versions inserted in g's open transaction
    \* the database, committed
    schema,     \* migrations in the order they took effect
    versions,   \* rows of schema_migrations
    provider,   \* the row of the one provider name exists
    requests,
    usage,
    \* requests
    rpc,        \* rpc[r]: where the handler, or its Record, is
    at,         \* at[r]: the gateway that serves r
    inserted,   \* r's open transaction inserted the provider row
    held,       \* requests that hold a pool connection
    doubt,      \* requests whose COMMIT is on its way and nobody waits for
    report      \* report[r]: what Record returned

migration == <<lock, file, applied, noted, schema, versions>>
process == <<pc, cfg, starts, late>>
tables == <<provider, requests, usage>>
record == <<rpc, at, inserted, held, doubt, report>>
vars == <<migration, process, tables, record>>

Starting == {"build", "redis", "connect", "lock", "check", "exec", "version", "commit"}
InTransaction == {"provider", "request", "usage", "commit", "rollback"}
Files == UNION {1..Embedded[g] : g \in Gateways}

\* The part of a Config that run() still needs once the providers are built.
Deployed(c) == [policies |-> NewRedisPolicies(c), postgres |-> c.PostgresEnabled,
                dsn |-> ParseConfig(c.PostgresDSN), conns |-> c.PostgresMaxConns]

Configs ==
    LET loaded == {Config(env) : env \in UNION {Environments[g] : g \in Gateways}}
    IN  {None} \cup loaded \cup {Deployed(c) : c \in loaded}

ASSUME NoneIsNoConfig ==
    \A g \in Gateways : \A env \in Environments[g] :
        None # Config(env) /\ None # Deployed(Config(env))

Init ==
    /\ pc = [g \in Gateways |-> "down"] /\ cfg = [g \in Gateways |-> None]
    /\ starts = 0 /\ late = [g \in Gateways |-> FALSE]
    /\ lock = None /\ file = [g \in Gateways |-> 0]
    /\ applied = [g \in Gateways |-> <<>>] /\ noted = [g \in Gateways |-> {}]
    /\ schema = <<>> /\ versions = {}
    /\ provider = FALSE /\ requests = {} /\ usage = {}
    /\ rpc = [r \in Requests |-> "idle"] /\ at = [r \in Requests |-> None]
    /\ inserted = [r \in Requests |-> FALSE]
    /\ held = {} /\ doubt = {}
    /\ report = [r \in Requests |-> "none"]

\* The requests that g has not answered.
Open(g) == {r \in Requests : at[r] = g /\ rpc[r] \notin {"answered", "lost"}}

Goto(g, stage) == pc' = [pc EXCEPT ![g] = stage]

-----------------------------------------------------------------------------
(* Process: run().                                                         *)

\* The process ends: its migration transaction is rolled back, its requests
\* are cut off, and a COMMIT that was sent may still land.
Exit(g) ==
    LET mine == Open(g)
    IN  /\ Goto(g, "down") /\ cfg' = [cfg EXCEPT ![g] = None]
        /\ late' = [late EXCEPT ![g] = FALSE]
        /\ lock' = IF lock = g THEN None ELSE lock
        /\ file' = [file EXCEPT ![g] = 0]
        /\ applied' = [applied EXCEPT ![g] = <<>>] /\ noted' = [noted EXCEPT ![g] = {}]
        /\ rpc' = [r \in Requests |-> IF r \in mine THEN "lost" ELSE rpc[r]]
        /\ inserted' = [r \in Requests |->
                            inserted[r] /\ (r \in mine => rpc[r] \in {"commit", "reply"})]
        /\ doubt' = doubt \cup {r \in mine : rpc[r] = "commit"}
        /\ held' = {r \in held : at[r] # g}

\* config.Load accepts the environment; one that it refuses ends the process
\* before it did anything.
Load(g) ==
    /\ pc[g] = "down" /\ starts < MaxStarts
    /\ \E env \in Environments[g] :
        /\ Accepts(env, Config(env))
        /\ cfg' = [cfg EXCEPT ![g] = Config(env)]
    /\ starts' = starts + 1
    /\ Goto(g, "build")
    /\ UNCHANGED <<late, migration, tables, record>>

Build(g) ==
    /\ pc[g] = "build" /\ buildProviderRouter(cfg[g])
    /\ Goto(g, IF cfg[g].RedisEnabled THEN "redis"
               ELSE IF cfg[g].PostgresEnabled THEN "connect" ELSE "serve")
    /\ cfg' = [cfg EXCEPT ![g] = Deployed(cfg[g])]
    /\ UNCHANGED <<starts, late, migration, tables, record>>

\* Redis answers the ping, and the policies built on it accept their options.
PingRedis(g) ==
    /\ pc[g] = "redis" /\ cfg[g].policies
    /\ Goto(g, IF cfg[g].postgres THEN "connect" ELSE "serve")
    /\ UNCHANGED <<cfg, starts, late, migration, tables, record>>

\* The DSN parses, the pool is made and PostgreSQL answers the ping.
ConnectPostgres(g) ==
    /\ pc[g] = "connect" /\ cfg[g].dsn
    /\ Goto(g, "lock")
    /\ UNCHANGED <<cfg, starts, late, migration, tables, record>>

\* run() returns an error before it serves: a constructor, a ping or a
\* statement failed, or storageCtx expired.  ApplyMigrations rolls back.
StartFails(g) ==
    /\ pc[g] \in Starting
    /\ pc[g] = "build" => ~buildProviderRouter(cfg[g])
    /\ Exit(g)
    /\ UNCHANGED <<starts, schema, versions, tables, at, report>>

\* SIGKILL, a crash, or a signal before signal.NotifyContext.
Kill(g) ==
    /\ pc[g] # "down"
    /\ Exit(g)
    /\ UNCHANGED <<starts, schema, versions, tables, at, report>>

\* The signal ends the select; Shutdown stops accepting.
Signal(g) ==
    /\ pc[g] = "serve"
    /\ Goto(g, "drain")
    /\ UNCHANGED <<cfg, starts, late, migration, tables, record>>

\* Shutdown returns nil: every connection is idle.
Drained(g) ==
    /\ pc[g] = "drain" /\ Open(g) = {}
    /\ Goto(g, "close")
    /\ UNCHANGED <<cfg, starts, late, migration, tables, record>>

\* ShutdownGracePeriod is over, or ListenAndServe failed.
GraceOver(g) ==
    /\ pc[g] \in {"serve", "drain"}
    /\ Goto(g, "close")
    /\ late' = [late EXCEPT ![g] = TRUE]
    /\ UNCHANGED <<cfg, starts, migration, tables, record>>

\* Faulty variant: main returns without waiting for pool.Close.
PoolClosed_AtOnce(g) ==
    /\ pc[g] = "close"
    /\ Exit(g)
    /\ UNCHANGED <<starts, schema, versions, tables, at, report>>

\* The deferred pool.Close returns once every connection is back, then
\* redisClient.Close, and main ends.
PoolClosed(g) ==
    /\ pc[g] = "close" /\ \A r \in held : at[r] # g
    /\ Exit(g)
    /\ UNCHANGED <<starts, schema, versions, tables, at, report>>

-----------------------------------------------------------------------------
(* storage.ApplyMigrations                                                 *)

\* Faulty variant: no advisory lock.
AcquireLock_Shared(g) ==
    /\ pc[g] = "lock"
    /\ lock' = g /\ file' = [file EXCEPT ![g] = 1]
    /\ Goto(g, "check")
    /\ UNCHANGED <<cfg, starts, late, applied, noted, schema, versions, tables, record>>

\* Begin, pg_advisory_xact_lock, CREATE TABLE IF NOT EXISTS.
AcquireLock(g) ==
    /\ pc[g] = "lock" /\ lock = None
    /\ lock' = g /\ file' = [file EXCEPT ![g] = 1]
    /\ Goto(g, "check")
    /\ UNCHANGED <<cfg, starts, late, applied, noted, schema, versions, tables, record>>

\* The head of the loop: is there another file, and is it recorded already?
CheckVersion(g) ==
    /\ pc[g] = "check"
    /\ \/ file[g] > Embedded[g] /\ Goto(g, "commit") /\ UNCHANGED file
       \/ /\ file[g] <= Embedded[g] /\ file[g] \notin versions
          /\ Goto(g, "exec") /\ UNCHANGED file
       \/ /\ file[g] <= Embedded[g] /\ file[g] \in versions
          /\ file' = [file EXCEPT ![g] = @ + 1] /\ UNCHANGED pc
    /\ UNCHANGED <<cfg, starts, late, lock, applied, noted, schema, versions, tables, record>>

\* The file's statements; CREATE TABLE fails where the table is there already
\* and waits for another transaction that is creating it.
Execute(g) ==
    /\ pc[g] = "exec"
    /\ file[g] \notin Range(schema)
    /\ \A h \in Gateways \ {g} : file[g] \notin Range(applied[h])
    /\ applied' = [applied EXCEPT ![g] = Append(@, file[g])]
    /\ Goto(g, "version")
    /\ UNCHANGED <<cfg, starts, late, lock, file, noted, schema, versions, tables, record>>

NoteVersion(g) ==
    /\ pc[g] = "version"
    /\ noted' = [noted EXCEPT ![g] = @ \cup {file[g]}]
    /\ file' = [file EXCEPT ![g] = @ + 1]
    /\ Goto(g, "check")
    /\ UNCHANGED <<cfg, starts, late, lock, applied, schema, versions, tables, record>>

\* COMMIT takes effect.  The gateway serves, or never learns of it and exits.
CommitMigrations(g) ==
    /\ pc[g] = "commit"
    /\ schema' = schema \o applied[g] /\ versions' = versions \cup noted[g]
    /\ \/ /\ Goto(g, "serve")
          /\ lock' = None /\ file' = [file EXCEPT ![g] = 0]
          /\ applied' = [applied EXCEPT ![g] = <<>>] /\ noted' = [noted EXCEPT ![g] = {}]
          /\ UNCHANGED <<cfg, late, record>>
       \/ Exit(g) /\ UNCHANGED <<at, report>>
    /\ UNCHANGED <<starts, tables>>

-----------------------------------------------------------------------------
(* Requests, and UsageRepository.Record under GatewayService.record.       *)

Step(r, stage) == rpc' = [rpc EXCEPT ![r] = stage]

Arrive(r, g) ==
    /\ rpc[r] = "idle" /\ pc[g] = "serve"
    /\ Step(r, "handling") /\ at' = [at EXCEPT ![r] = g]
    /\ UNCHANGED <<process, migration, tables, inserted, held, doubt, report>>

\* The handler has its outcome and records it before it answers.  An invalid
\* request has no row, like every request of a server without a recorder, and
\* Record refuses the negative token counts an upstream may have sent.
Outcome(r) ==
    /\ rpc[r] = "handling"
    /\ \/ Step(r, "reply") /\ UNCHANGED report
       \/ cfg[at[r]].postgres /\ Step(r, "begin") /\ UNCHANGED report
       \/ /\ cfg[at[r]].postgres /\ Step(r, "reply")
          /\ report' = [report EXCEPT ![r] = "failed"]
    /\ UNCHANGED <<process, migration, tables, at, inserted, held, doubt>>

\* pool.Begin waits for a connection and refuses once the pool is closing.
Begin(r) ==
    LET g == at[r]
    IN  /\ rpc[r] = "begin" /\ pc[g] # "close"
        /\ Cardinality({q \in held : at[q] = g}) < cfg[g].conns
        /\ Step(r, "provider") /\ held' = held \cup {r}
        /\ UNCHANGED <<process, migration, tables, at, inserted, doubt, report>>

BeginFails(r) ==
    /\ rpc[r] = "begin"
    /\ Step(r, "reply") /\ report' = [report EXCEPT ![r] = "failed"]
    /\ UNCHANGED <<process, migration, tables, at, inserted, held, doubt>>

\* INSERT INTO providers ... ON CONFLICT DO NOTHING waits while another open
\* transaction has inserted the same name.
InsertProvider(r) ==
    /\ rpc[r] = "provider" /\ \A q \in Requests : ~inserted[q]
    /\ inserted' = [inserted EXCEPT ![r] = ~provider]
    /\ Step(r, "request")
    /\ UNCHANGED <<process, migration, tables, at, held, doubt, report>>

\* Faulty variant: the row of requests is committed on its own.
InsertRequest_Alone(r) ==
    /\ rpc[r] = "request" /\ (provider \/ inserted[r])
    /\ Step(r, "usage")
    /\ requests' = requests \cup {r}
    /\ UNCHANGED <<process, migration, provider, usage, at, inserted, held, doubt, report>>

InsertRequest(r) ==
    /\ rpc[r] = "request" /\ (provider \/ inserted[r])
    /\ Step(r, "usage")
    /\ UNCHANGED <<process, migration, tables, at, inserted, held, doubt, report>>

InsertUsage(r) ==
    /\ rpc[r] = "usage"
    /\ Step(r, "commit")
    /\ UNCHANGED <<process, migration, tables, at, inserted, held, doubt, report>>

\* The rows of r's transaction become visible.
Visible(r) ==
    /\ provider' = (provider \/ inserted[r])
    /\ requests' = requests \cup {r} /\ usage' = usage \cup {r}
    /\ inserted' = [inserted EXCEPT ![r] = FALSE]

Commit(r) ==
    /\ rpc[r] = "commit"
    /\ Visible(r)
    /\ Step(r, "reply") /\ report' = [report EXCEPT ![r] = "ok"]
    /\ held' = held \ {r}
    /\ UNCHANGED <<process, migration, at, doubt>>

\* recordCtx expires, or the connection breaks, while COMMIT is on its way.
CommitFails(r) ==
    /\ rpc[r] = "commit"
    /\ Step(r, "reply") /\ report' = [report EXCEPT ![r] = "failed"]
    /\ held' = held \ {r} /\ doubt' = doubt \cup {r}
    /\ UNCHANGED <<process, migration, tables, at, inserted>>

\* PostgreSQL reaches the COMMIT, or finds the connection gone before it.
Resolve(r) ==
    /\ r \in doubt
    /\ doubt' = doubt \ {r}
    /\ \/ Visible(r)
       \/ inserted' = [inserted EXCEPT ![r] = FALSE] /\ UNCHANGED tables
    /\ UNCHANGED <<process, migration, rpc, at, held, report>>

\* Faulty variant: without the deferred Rollback the connection stays out.
StatementFails_Leaks(r) ==
    /\ rpc[r] \in {"provider", "request", "usage"}
    /\ Step(r, "reply") /\ report' = [report EXCEPT ![r] = "failed"]
    /\ UNCHANGED <<process, migration, tables, at, inserted, held, doubt>>

StatementFails(r) ==
    /\ rpc[r] \in {"provider", "request", "usage"}
    /\ Step(r, "rollback")
    /\ UNCHANGED <<process, migration, tables, at, inserted, held, doubt, report>>

\* The deferred Rollback, under context.Background().
Rollback(r) ==
    /\ rpc[r] = "rollback"
    /\ Step(r, "reply") /\ report' = [report EXCEPT ![r] = "failed"]
    /\ held' = held \ {r} /\ inserted' = [inserted EXCEPT ![r] = FALSE]
    /\ UNCHANGED <<process, migration, tables, at, doubt>>

\* The handler writes its answer, for which it has no deadline, and returns.
Answer(r) ==
    /\ rpc[r] = "reply"
    /\ Step(r, "answered")
    /\ UNCHANGED <<process, migration, tables, at, inserted, held, doubt, report>>

-----------------------------------------------------------------------------
Record(r) ==
    \/ Begin(r) \/ BeginFails(r)
    \/ InsertProvider(r) \/ InsertRequest(r) \/ InsertUsage(r)
    \/ StatementFails(r) \/ Rollback(r)
    \/ Commit(r) \/ CommitFails(r)

Request(r) ==
    (\E g \in Gateways : Arrive(r, g)) \/ Outcome(r) \/ Record(r) \/ Resolve(r) \/ Answer(r)

ApplyMigrations(g) ==
    AcquireLock(g) \/ CheckVersion(g) \/ Execute(g) \/ NoteVersion(g) \/ CommitMigrations(g)

\* run() from a loaded configuration to the listening server, or to an error.
StartUp(g) ==
    Build(g) \/ PingRedis(g) \/ ConnectPostgres(g) \/ ApplyMigrations(g) \/ StartFails(g)

ShutDown(g) == Drained(g) \/ (pc[g] = "drain" /\ GraceOver(g)) \/ PoolClosed(g)

Next ==
    \/ \E g \in Gateways :
        Load(g) \/ StartUp(g) \/ Kill(g) \/ Signal(g) \/ GraceOver(g)
        \/ Drained(g) \/ PoolClosed(g)
    \/ \E r \in Requests : Request(r)

Spec == Init /\ [][Next]_vars

\* storageCtx and recordCtx end every statement, the grace period ends the
\* drain, and PostgreSQL answers a Rollback, which has no deadline.
Fairness ==
    /\ \A g \in Gateways : WF_vars(StartUp(g)) /\ WF_vars(ShutDown(g))
    /\ \A r \in Requests : WF_vars(Record(r))

FairSpec == Spec /\ Fairness
-----------------------------------------------------------------------------
Stages == {"down", "serve", "drain", "close"} \cup Starting
RequestStages == {"idle", "handling", "begin", "reply", "answered", "lost"} \cup InTransaction

\* The variables have their types; a pool never lends more connections than
\* POSTGRES_MAX_CONNS, and only to a transaction of a live process.
TypeOK ==
    /\ pc \in [Gateways -> Stages] /\ starts \in 0..MaxStarts /\ late \in [Gateways -> BOOLEAN]
    /\ cfg \in [Gateways -> Configs] /\ lock \in Gateways \cup {None}
    /\ file \in [Gateways -> Nat]
    /\ \A g \in Gateways : /\ Range(applied[g]) \subseteq Files /\ noted[g] \subseteq Files
                           /\ pc[g] = "down" <=> cfg[g] = None
    /\ Range(schema) \subseteq Files /\ versions \subseteq Files
    /\ provider \in BOOLEAN /\ requests \subseteq Requests /\ usage \subseteq Requests
    /\ rpc \in [Requests -> RequestStages] /\ at \in [Requests -> Gateways \cup {None}]
    /\ inserted \in [Requests -> BOOLEAN]
    /\ doubt \subseteq Requests /\ report \in [Requests -> {"none", "ok", "failed"}]
    /\ held = {r \in Requests : rpc[r] \in InTransaction}
    /\ \A r \in held : Cardinality({q \in held : at[q] = at[r]}) <= cfg[at[r]].conns

\* A configuration that Load accepts passes every constructor that run() calls
\* with it, but for the strings that Load hands on unread: a base URL that is not
\* absolute, which ends run() at once, and POSTGRES_DSN, POSTGRES_HOST and
\* POSTGRES_SSLMODE, which pgxpool.ParseConfig refuses after Redis was reached.
AcceptedConfigBuilds ==
    \A g \in Gateways : pc[g] = "build" =>
        /\ buildProviderRouter(cfg[g])
           \/ "relative" \in {cfg[g].DeepSeekBaseURL, cfg[g].OpenAIBaseURL}
        /\ NewRedisPolicies(cfg[g])
        /\ cfg[g].PostgresEnabled =>
               ParseConfig(cfg[g].PostgresDSN) \/ Unread(cfg[g].PostgresDSN)

\* The delay before a retry starts at RETRY_BASE_BACKOFF and doubles until it
\* is RETRY_MAX_BACKOFF, for every accepted pair and attempt, up to the longest
\* time.Duration: the doubling never overflows, and the limit is not reached
\* before doubling would come within one unit of it.
BackoffDoubles ==
    \A g \in Gateways : pc[g] = "build" =>
        LET max == cfg[g].RetryMaxBackoff
            delay(n) == backoff(cfg[g].RetryBaseBackoff, max, n)
        IN  /\ delay(1) = cfg[g].RetryBaseBackoff
            /\ \A n \in 2..cfg[g].RetryMaxAttempts :
                   \/ delay(n) = 2 * delay(n - 1) /\ delay(n) <= max
                   \/ delay(n) = max /\ 2 * delay(n - 1) + 1 >= max

\* However many gateways start, fail or die together, of one version or of
\* two, the migrations take effect in order, once each, recorded exactly when
\* they did; no start is about to apply one that is there already, which would
\* fail it; and a gateway that serves has the schema it was built for.
SchemaSound ==
    /\ schema = [i \in 1..Len(schema) |-> i]
    /\ versions = 1..Len(schema)
    /\ \A g \in Gateways :
        /\ pc[g] = "exec" => file[g] > Len(schema)
        /\ pc[g] \in {"serve", "drain"} /\ cfg[g].postgres => Len(schema) >= Embedded[g]

Log == INSTANCE UsageLog

\* Record keeps the promise of UsageLog: the two rows of a request appear
\* together, once, and stay, and nil is returned only for rows that are there.
ImplementsUsageLog == Log!LogSpec

\* main ends by itself only between transactions, and after a drain in time
\* without cutting off any request.  What is cut off after the grace period has
\* either written no row or has left Record, with its rows committed, and lacks
\* only its answer, which the handler writes last.
OrderlyExit ==
    [][\A g \in Gateways : PoolClosed(g) =>
        \A r \in Requests : at[r] = g /\ rpc'[r] # rpc[r] =>
            late[g] /\ rpc[r] \in {"handling", "begin", "reply"}]_vars

\* A process that starts serves or exits, and one that stops does exit: no
\* gateway waits for ever for the migration lock, a connection or the pool.
Settles ==
    \A g \in Gateways : pc[g] \notin {"serve", "down"} ~> pc[g] \in {"serve", "down"}
=============================================================================
