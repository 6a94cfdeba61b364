# ModelGate: TLA+ models, checks and proofs

ModelGate is an LLM gateway in Go: an HTTP server that validates chat requests,
applies per-client policies kept in Redis (rate limit, idempotency keys,
response cache), routes each request to one of several upstream providers, and
writes one row per request to PostgreSQL. Every provider is *governed*: a
semaphore bounds its concurrent calls, a circuit breaker takes it out of
rotation when it fails, and a retry policy repeats failed attempts. These
modules model the gateway from the environment it is started with to its exit:
requests, streams, the policies, the providers, and the processes around them.

    handler -> GatewayService -> ChatService -> Router -> governed provider
                 |  rate limiter, idempotency, cache      |  semaphore
                 |  (Redis scripts)                       |  circuit breaker
                 |  usage rows (PostgreSQL)               |  retry -> upstream

## Modules

| Module | Models | State and actions |
|---|---|---|
| `CircuitBreaker` | `internal/circuitbreaker/breaker.go` | The breaker as a record; each method that runs under `b.mu` is an operator from the breaker before to the breaker after. Used by `Breaker`, `BreakerGauge`, `Governance` and `Router`. |
| `Breaker` | concurrent users of one breaker | `Allow`, `Done` (`Permit.Done`), `Observe` (`State`, `Available`), `Tick`. History variables remember which permits belong to the current period and which outcomes were counted. |
| `Circuit` | what `Breaker` promises | An abstract three-state circuit without window, counters, generations or permits: only a call that counts changes the state. |
| `BreakerGauge` | the `OnStateChange` callback of `cmd/server/main.go` | `Breaker` plus a stack of callbacks per caller: `ReadState` and `SetCircuitState` are separate steps, as in the code. |
| `ProviderErrors` | `internal/provider/error.go` and the errors the providers build | An error is its kind, status, retry flag and root cause. |
| `GatewayErrors` | `gatewayErrorCode` (`internal/service`) and `writeMappedError` (`internal/api`) | The code in the row and the status and code in the answer, as operators on errors. |
| `Governance` | `internal/governance/provider.go`, `internal/retry`, `internal/concurrency`, and how an upstream stream ends | One program counter per logical call; one action per branch of `Acquire`, `Allow`, the retry loop, `Recv`, `Close`, `Done` and `Release`. Contexts end at any time. |
| `Router` | `internal/routing/router.go` with the breakers of its targets | The scan of `selectTarget` is one step per target, under the mutex `mu`, because breakers change while it runs. |
| `TokenBucket` | the Lua script of `internal/ratelimit/redis.go`, `enforceRateLimit`, the `Retry-After` header | One client's bucket; a script is one step (`Allowed`, `Limited`), its reply may be lost (`LimiterFails`), time passes and the key expires (`Tick`), the clock is set back (`StepBack`). |
| `IdempotencyStore` | the Lua scripts of `internal/idempotency/redis.go` | Operators on the hash under a key. |
| `GatewayChat` | `GatewayService.Chat` in `internal/service/gateway.go` | Stages limit, begin, lookup, call, store, complete, release; shared state is the idempotency entries and the cache. With `Faults`, Redis and database calls fail before or after they took effect, Redis runs a command again or late (`copies` holds the commands of which a copy may still run, any number of times), and processes die. |
| `StreamLifecycle` | `GatewayService.ChatStream`, `meteredStream`, the handler's SSE loop, the managed stream, and `sseStream` or `mockStream` below | One streaming request. `sseStream.Recv` reads line by line, the two wrappers end in separate steps, each by its own `sync.Once`. The row is written (`Meter`) before the client gets `[DONE]` or an error (`Reply`), and a connection may break without the handler seeing it (`client` is `"gone"`). |
| `Config` | `internal/config/config.go`, the checks of the constructors, `Policy.backoff` | Operators: the `Config` of an environment, what `Load` accepts, what each constructor and `pgxpool.ParseConfig` accept, the delay before a retry. |
| `Server` | `run` in `cmd/server/main.go`, `internal/storage` | Processes load, build, migrate, serve, drain and close; requests write their rows statement by statement through the process's pool, and then answer. Everything may fail, processes may be killed, a `COMMIT` may land late. |
| `UsageLog` | what `UsageRepository.Record` promises | The two rows of a request appear together, once, and stay. |
| `*Proofs` | theorems | see below |
| `MC*` | | symmetry sets, environments and model values for TLC |

Operators named `X_Something` are faulty variants of `X`: what a plausible bug
would turn it into. Nothing uses them in a run; each shows that some property
notices that bug.

Abstractions. Time is counted in ticks or left free; `openedAt` is kept as the
time since then; the failure ratio is a fraction, not a `float64`. A request
body is a model value and hashes (fingerprints, scoped keys, cache keys) are
injective; a response is named after the request whose upstream call produced
it. In `Governance` timers are unrelated, so any may fire first. `TokenBucket`
counts tokens in units so small that the script's fractions are whole numbers,
and keeps times as differences to the present. A line of an SSE body is what its
data decodes to, and the size of an event is its number of lines. In `Config` a
value is what its string parses to, `Unparsed` when it does not, and a
connection string is its host, port and ssl mode, with a `malformed` host for
one that pgx cannot parse; durations are
in milliseconds and wrap at `HalfWord`, the word of `time.Duration` scaled down
to TLC's integers. In `Server` all requests use one provider name (the only row
that transactions contend for), and a migration transaction whose process dies
is rolled back, or was committed, at that moment: it holds the advisory lock
until then, so nobody can tell the difference.

## What the runs check

| Run | Configuration | Result |
|---|---|---|
| `breaker` | 3 callers, window 3, 2 probes, at most `MaxBad` = 4 outcomes other than success | The ring is the last outcomes and its counter counts them (`WindowIsRecent`), a breaker over the ratio is never closed (`ClosedBelowRatio`), probe slots are exact (`ProbeSlots`), late outcomes are dropped (`LateOutcomesDropped`), and all of it implements `Circuit` (`ImplementsCircuit`). |
| `breaker_gauge` | 2 callers | **Violated.** Finding 1. |
| `governance` | 1 stream and 2 chats, 2 slots, 2 attempts | Slots and probes are given back once on every path (`SlotsBalanced`, `ProbesBalanced`); a cancelled chat is not blamed on the provider (`CancelNotBlamed`); every call ends (`CallsEnd`). |
| `governance_stream` | 1 stream | **Violated.** Finding 2. |
| `stream` | 1 streaming request, up to 3 chunks, events of up to 3 lines, failing database | Everything is given back and one row is asked for (`AllReturned`), row and breaker agree (`RowMatchesOutcome`), row and client are told the same error (`ToldAsRecorded`), the last usage is recorded and observed once (`UsageKept`), `[DONE]` means served and cut means not recorded as served (`DoneMeansServed`), and the request ends unless a write to its client blocks for ever (`StreamEnds`). |
| `gateway_faults` | 2 requests, 2 payloads, 1 key, faults and crashes, lock TTL 4 > 1 + 2 | One execution per key unless a repeated script robbed a holder (`OneRunner`, `LockOutlives`), no answer for another payload (`AnswersMatchPayload`), rows agree with answers (`RecordMatchesAnswer`), reservations end (`KeyFreed`). |
| `gateway_replay` | 3 requests, no faults, lock TTL 4 > 1 + 2 | A completed answer is replayed (`CompletedReplayed`). |
| `gateway_default` | 2 requests, no faults, lock TTL = request timeout | **Violated.** Finding 3. |
| `router_weighted` | 2 requests, 3 targets, weights 3:1:1 and 1:2:2 | Weights sum to zero between selections and stay below the heaviest weight for each other target (`WeightsSettle`); while no call fails every target gets exactly its share of a cycle and is never a whole selection ahead (`FairShare`). |
| `router_round_robin` | 2 requests, 2 targets | Nobody is turned away who did not find every target unavailable (`TurnedAwayHonestly`), and every target returns to rotation (`AllRecover`). |
| `rate_limit` | 2 tokens of 7 units, 3 units a millisecond, 2 steps back of up to 3 ms | The lazily filled bucket follows one filled as time passes (`TracksIdeal`), and `Retry-After` is long enough (`WaitIsEnough`). |
| `server` | 2 gateways with 2 and 1 migrations, 3 starts, 2 requests, 1 connection per pool, 15 environments | What `Load` accepts can be built, but for a relative base URL and a connection string that Load hands on unread (`AcceptedConfigBuilds`), the backoff doubles up to its limit (`BackoffDoubles`), migrations take effect once and in order (`SchemaSound`), `Record` implements `UsageLog` (`ImplementsUsageLog`), a process that ends by itself cuts nobody off before its grace period is over and no transaction ever (`OrderlyExit`), and starts and stops come to an end (`Settles`). |

Bounds. A window of 3 is filled and evicted from; `MaxBad` of 4 opens the
breaker, fails a probe and opens it again with outcomes of several periods
outstanding. Three calls on two slots make one queue. Three requests on a key
are one that answers, one that retries and one that interferes. With faults two
requests are one whose script runs again and one that it robs; that a third then
gets in is left to the proof, which is for any number of requests. Three chunks
are a first, a middle and a last one; three lines are two data lines and a
comment that fill an event. Two requests and two targets produce lost `Allow`
races and exhausted reselection; three targets are needed for a weighted cycle
in which one drops out while the two others keep their shares. In the router,
one failure opens a breaker (window 1), since the window itself is the subject
of `breaker`. The numbers of `rate_limit` do not divide each other, so every
rounding in the script and the header happens. Three starts are two gateways
and the restart of one of them; two versions make one gateway find migrations
it does not know; one connection makes the two requests of a process queue.
The environments of `server` are the defaults and settings at, and one past,
the limits of `Load`; the proofs quantify over all of them.

Fairness. `Governance`: goroutines run, both timers fire, and the handler goes
on reading its stream; nothing is assumed of the provider or of who gets a
slot. A client that stops reading without closing its connection is outside
this assumption (the server sets no write timeout). `StreamLifecycle` assumes
that the deadline comes and that the handler runs on outside its writes; the
upstream may stall, or send comments, until then, and a write may block for
ever, which `StreamEnds` has as its second case. `GatewayChat`: time passes and
handlers run on, since every call they make has a timeout. `Router`: time
passes, requests keep coming, calls end by their deadline, and `sync.Mutex` lets every waiter in
eventually (its starvation mode), hence strong fairness of selection. `Server`:
`storageCtx` and `recordCtx` end every statement, the grace period ends a
drain, and PostgreSQL answers a `Rollback`; the last one is an assumption about
PostgreSQL alone, since the code gives `Rollback` no deadline. Nobody has to
start, signal or kill a process, and no handler has to finish. In that run a
deadlock is no error: all starts may be used up and all processes down.

## Findings

1. *The gauge can stay at an older state* (`cmd/server/main.go:217`). The
   comment above the line says that it cannot. Reading the state and setting
   the gauge are two steps, and two callbacks may interleave between them.
2. *A stream ends with its attempt's timeout* (`internal/retry/retry.go:89`).
   `DoRetained` keeps the context with `UPSTREAM_ATTEMPT_TIMEOUT` (10s) for the
   stream, whereas README.md:137 gives streams `REQUEST_TIMEOUT` (30s). The cut
   also counts as a circuit failure.
3. *An answer may not be replayed under the default TTLs*
   (`internal/service/gateway.go:408`). `IDEMPOTENCY_LOCK_TTL` and
   `REQUEST_TIMEOUT` are both 30s and Complete runs after the deadline; a
   reservation that has expired by then stores nothing, although the client
   got its answer (README.md:213).

## What is proved

For every value of the constants that the named assumptions allow. Every
invariant and action property of a passing run has its theorem, and so have the
two refinements.

- `OperatorProofs` has no specification. It holds the lemmas about the
  operators of `CircuitBreaker` that three components use, and what the library
  lacks: induction over finite sets and over the natural numbers in a form the
  provers can use, and sums over finite sets.
- `BreakerProofs`. From `BreakerOptions` (what `New` validates), finitely many
  callers and `MaxBad \in Nat`: `TypeCorrect`, `ProbeLimit`, `LateOutcomes`,
  `BreakerImplementsCircuit`, `RingIsSlidingWindow` and `ClosedIsBelowRatio`.
  `ProbeSlots` is not inductive: it says nothing of permits of earlier periods,
  which may still be reported. The inductive invariant adds `PermitsTracked`:
  generations only grow, and a permit of the current generation carries the
  current state. Then `complete` acts exactly on permits in `outstanding`, and
  the count moves with the set. `LateOutcomes` and the refinement follow from
  the same invariant; the mapping takes `outstanding` for the calls inside the
  circuit, so that the outcome of any other call must be a stutter. For the ring,
  `WindowInv` relates every slot to a position of the sequence of recent
  outcomes, whether or not the ring is full yet; an eviction takes away exactly
  the oldest one, so the counter stays the number of failures.
- `GovernanceProofs`, for any number of calls, slots and attempts:
  `SlotsAlwaysBalanced` (the program counters inside the semaphore determine
  its length, `SlotInv`), `ProbesAlwaysBalanced` (a permit that is not reported
  and is of the breaker's generation has its state, and `halfOpenActive` counts
  them, `ProbeInv`), `CancelNeverBlamed`, and `GovernanceTypeCorrect`, which
  needs that a call backs off only while it has attempts left.
- `StreamProofs`, for any number of chunks and any size of events:
  `StreamReturnsAll`, `StreamTellsOneStory`, `StreamKeepsUsage`,
  `StreamErrorsNamedAlike`, `StreamDoneMeansServed` and `StreamTypeCorrect`. The
  invariant `StreamInv` says for each stage which of the two wrappers has ended
  and what it has told; the lemmas on codes compare `gatewayErrorCode` with
  `writeMappedError` error by error. After `Meter` the row is final (`Recorded`)
  while the client's part is still open, so what `Reply` tells a client is
  compared with a row that is already there; as long as the connection is not
  lost unseen, the client has got every chunk but the one being written. `DataInv`
  adds that an event that carries a chunk was begun while there was one left to send.
- `RouterProofs`, for any targets, weights, requests and breaker options, and
  either strategy: `RouterTypeCorrect`, `HonestRefusals`, `SmoothWeightsSettle`
  and `SharesAreFair`. `Honest` says that what a scan has passed, counted back
  from the round robin index across target 0, was found unavailable. A bound on
  each current weight is not inductive, since the next candidates may be any
  targets. `Settled` bounds the sum over every set of targets, by the heaviest
  weight for each pair of a target inside and one outside; it survives targets
  that drop out in the middle of a scan, and `WeightsSettle` is its case for a
  single target and for all but one. With
  no failed call so far every breaker is closed (`Healthy`), every target is a
  candidate, and the current weight is what a target is owed (`FairInv`); this
  gives the exact shares at the end of a cycle.
- `TokenBucketProofs`, for any rate, burst and clock: `TypeCorrect`,
  `LazyRefillTracks` and `RetryAfterSuffices`. The invariant adds that age and
  TTL of a key sum up to the expiry it was given, so a key that expires was full
  (`KeyLife`), that the lag behind the ideal bucket includes the refill still to
  be missed while the timestamp is ahead of the clock (`Behind`), and that the
  rest of a wait covers what the bucket lacks (`Waiting`).
- `GatewayChatProofs`, from `StoreOptions` and `GatewayOptions`. `TypeCorrect`,
  `AnswersAreForThePayload` and `RowsMatchAnswers` need nothing else: with any
  TTLs, faults and crashes every copy of a response, in the cache, in a hash or
  on its way, comes from a call for the payload it is filed under (`AnswerInv`);
  a command that may run again is one that its request has sent, with the
  payload and response it still has.
  `ReservationOutlivesWork` and `OneExecution` are under `LockLongEnough`, that
  is `LockTTL > RequestTimeout + 2 * OpTimeout`: cache.Set and Complete (or
  Release) each take up to one operation timeout after the request's deadline.
  `LockInv` says that a holder's reservation is pending with its fingerprint and
  that its remaining TTL exceeds the time the holder may still take; a tick
  lowers both sides by one, so the reservation cannot expire under its holder
  and nobody else can acquire the key. Both theorems leave out the requests in
  `robbed`, and `OneExecution` bounds those: the first to be robbed of a key is so
  by a copy of a Complete or Release of another request with its key and payload,
  since a script in its own time ends the reservation of its own request, unless
  that one was robbed before. The exception is real: a Release that runs twice,
  because go-redis sends a command again whose reply is lost (`redisstore.New`
  leaves that on), frees the reservation of the next request with that key and
  payload, and a third one may start beside it instead of getting the `409` of
  README.md:219. `AnswersAreReplayed` also excludes faults:
  then everybody who passes Begin under a key holds it, and a key is completed
  exactly when a client has been answered under it (`ReplayInv`). Finding 3 is
  what happens without the assumption. `OpTimeout` bounds one Redis call; the
  time of Begin and of the cache lookup is part of the request timeout.
- `ServerProofs`, for any gateways, environments of the right types and numbers
  of migrations (`Deployments`, `NoneIsNoConfig`) and any width of a duration
  (`Words`). `LoadedConfigBuilds`: the checks of `Load` imply those of every
  constructor and, for a connection string put together from its parts, the one
  of the port in `pgxpool.ParseConfig`; host, ssl mode and a given DSN are not
  looked at. `RetriesBackOff`: by induction over the attempts the delay stays
  between one unit and the limit, which fits the word, so the doubling that
  `nextBackoff` performs never wraps. `MigrationsSound`: `MigInv` says that only
  the holder of the lock is inside the loop, and that its transaction is the
  files that follow the schema, up to the one it is at.
  `RecordImplementsUsageLog` and `ShutdownOrderly`: `RecInv` says that the rows
  of a request are there only after its `Record` is over, that a `COMMIT` in
  doubt is of such a request and has not landed, and that a gateway which closes
  in time has no open request. A request that has left `Record` is open until it
  has answered, so after the grace period it may be cut off with its rows there.
  `ServerTypeCorrect` has the bound of the pool:
  `PoolInv` says that a request that is not over is at a process that serves or
  did, so the size of the pool cannot change under a connection that is lent.

The proofs corrected two properties. `WeightsSettle` used to bound the current
weights by the sum of all weights, and `FairShare` used to keep every target
within one selection of its share on both sides. TLC agreed for three targets;
both are false for larger sets of targets (the weights 5, 1, 1, 1 break the
first), and the induction showed the bounds that hold.

Only model-checked. Liveness (`CallsEnd`, `KeyFreed`, `AllRecover`,
`StreamEnds`, `Settles`), which the prover does not handle, and the three
findings, which are counterexamples. No module with theorems reaches a recursive
operator. The library's induction theorems take a predicate as a parameter,
which the provers do not instantiate; the inductions here are over a set
instead, by way of the theorem that a well-founded relation has minimal
elements.

## Not modelled

- The contents of requests, responses and rows: JSON binding and encoding, the
  validation rules, the texts of the mock provider, SQL beyond which rows a
  statement leaves. No property here tells them apart.
- Connection handling inside `net/http`, go-redis and pgx. What the gateway sees
  of it (failures, lost replies, repeated and delayed commands, late commits,
  connections that break unseen) is modelled.
- Logging, request ids, the route table, and the metrics other than the circuit
  gauge and the tokens of a stream; nothing reads them back.
- `float64` rounding in the token bucket script and in the failure ratio, and
  the overflow of the jitter's upper bound for the longest `time.Duration`.
- `provider.NewFromConfig`, which only tests call.

`PROJECT.json` lists every part with what is left out of it, and the hazards of
the code with the properties that cover them.
