----------------------------- MODULE GatewayChat -----------------------------
(***************************************************************************)
(* internal/service/gateway.go, GatewayService.Chat: non-streaming         *)
(* requests of one client, served concurrently by any number of gateway    *)
(* processes that share Redis.  A request goes through                     *)
(*   limit -> begin -> lookup -> call -> store -> complete -> done         *)
(* with the early returns and the error paths of the code (release).       *)
(*                                                                         *)
(* The response an upstream call produces is named after the request that  *)
(* made the call.  Time is counted in ticks: every request has to leave    *)
(* the stage it is in before its timeout (REQUEST_TIMEOUT up to the end of *)
(* the upstream call, then the operation timeout for each Redis call), and *)
(* a reservation disappears when its lock TTL is over.                     *)
(*                                                                         *)
(* The Redis client sends a command again when its reply is lost           *)
(* (redisstore.New leaves the retries of go-redis on), and Redis may reach *)
(* a command after its caller has given up: a copy of a command may run    *)
(* at any time after the one that was waited for.                          *)
(***************************************************************************)
EXTENDS IdempotencyStore

CONSTANTS
    Requests,
    Keys,             \* scoped idempotency keys; None for a request without
    Cacheable,        \* payloads with temperature explicitly 0
    RequestTimeout,   \* REQUEST_TIMEOUT, in ticks
    OpTimeout,        \* longest time one Redis call takes, in ticks
    Faults            \* Redis calls may fail and processes may crash

ASSUME GatewayOptions ==
    /\ Responses = Requests
    /\ Cacheable \subseteq Payloads
    /\ None \notin Keys
    /\ RequestTimeout \in Nat \ {0}
    /\ OpTimeout \in Nat
    /\ Faults \in BOOLEAN

VARIABLES
    entry,      \* the idempotency hash of each key
    cached,     \* the response cache, by payload
    pc,         \* the stage of each request
    key,        \* its Idempotency-Key
    payload,    \* its body
    acquired,   \* acquiredIdempotency
    response,   \* what it will answer with, or None for an error
    left,       \* time left in its stage
    copies,     \* <<r, op>>: Redis may still run a copy of r's command op
    recorded,   \* the status in its row of the requests table
    answered,   \* history: per key, the first successful answer
    expected,   \* history: answered[key] when the request arrived
    robbed      \* history: requests whose reservation another one's script ended

store == <<entry, cached>>
vars == <<store, pc, key, payload, acquired, response, left, copies, recorded, answered, expected,
          robbed>>

Stages == {"limit", "begin", "lookup", "call", "store", "complete", "release"}

Commands == {"begin", "store", "complete", "release"}

Statuses == {"succeeded", "failed", "rejected", "rate_limited", "cache_hit",
             "idempotency_replay"}

Answer == [payload : Payloads \union {None}, response : Requests \union {None}]
NoAnswer == [payload |-> None, response |-> None]

TypeOK ==
    /\ entry \in [Keys -> EntryType]
    /\ cached \in [Payloads -> Requests \union {None}]
    /\ pc \in [Requests -> Stages \union {"idle", "done", "crashed"}]
    /\ key \in [Requests -> Keys \union {None}]
    /\ payload \in [Requests -> Payloads \union {None}]
    /\ acquired \in [Requests -> BOOLEAN]
    /\ response \in [Requests -> Requests \union {None}]
    /\ left \in [Requests -> 0..(RequestTimeout + OpTimeout)]
    /\ copies \subseteq Requests \X Commands
    /\ recorded \in [Requests -> Statuses \union {None}]
    /\ answered \in [Keys -> Answer]
    /\ expected \in [Requests -> Answer]
    /\ robbed \subseteq Requests

Init ==
    /\ entry = [k \in Keys |-> NoEntry]
    /\ cached = [p \in Payloads |-> None]
    /\ pc = [r \in Requests |-> "idle"]
    /\ key = [r \in Requests |-> None]
    /\ payload = [r \in Requests |-> None]
    /\ acquired = [r \in Requests |-> FALSE]
    /\ response = [r \in Requests |-> None]
    /\ left = [r \in Requests |-> 0]
    /\ copies = {} /\ robbed = {}
    /\ recorded = [r \in Requests |-> None]
    /\ answered = [k \in Keys |-> NoAnswer]
    /\ expected = [r \in Requests |-> NoAnswer]

-----------------------------------------------------------------------------
\* Moves r on within the time it has, or into a stage with a timeout of its own.
Go(r, from, to) ==
    /\ pc[r] = from
    /\ pc' = [pc EXCEPT ![r] = to]
    /\ left' = [left EXCEPT ![r] =
          CASE to \in {"store", "complete", "release"} -> OpTimeout
            [] to = "limit"                            -> RequestTimeout
            [] to = "done"                             -> 0
            [] OTHER                                   -> @]

Respond(r, with) == response' = [response EXCEPT ![r] = with]

\* The row of the request; an error of the database is only logged.
record(r, statuses) ==
    \/ \E status \in statuses : recorded' = [recorded EXCEPT ![r] = status]
    \/ Faults /\ UNCHANGED recorded

\* History: the first success a client sees under a key is its answer.
Answers(r, with) ==
    answered' =
        IF key[r] # None /\ with # None /\ answered[key[r]] = NoAnswer
        THEN [answered EXCEPT ![key[r]] = [payload |-> payload[r], response |-> with]]
        ELSE answered

request == <<key, payload, expected>>   \* fixed once the request has arrived
wire == <<copies, robbed>>

\* The reply of a command may be lost, and a copy of it may run later.
MayRepeat(r, op) ==
    \/ UNCHANGED copies
    \/ Faults /\ copies' = copies \union {<<r, op>>}

\* The requests that hold a reservation of key k: after Begin said "acquired"
\* (gateway.go:171) and before Complete or Release.
Holders(k) == {r \in Requests : acquired[r] /\ key[r] = k}

\* A script of r that ends the reservation of its key, whose ever it is now.
Ends(r, script) ==
    /\ entry' = [entry EXCEPT ![key[r]] = script]
    /\ robbed' = IF reservedFor(entry[key[r]], payload[r])
                 THEN robbed \union (Holders(key[r]) \ {r})
                 ELSE robbed

Completes(r) == Ends(r, completeScript(entry[key[r]], payload[r], response[r]))
Releases(r) == Ends(r, releaseScript(entry[key[r]], payload[r]))

Start(r) ==
    /\ Go(r, "idle", "limit")
    /\ \E k \in Keys \union {None}, p \in Payloads :
         /\ key' = [key EXCEPT ![r] = k]
         /\ payload' = [payload EXCEPT ![r] = p]
         /\ expected' = IF k = None \/ answered[k].payload # p THEN expected
                        ELSE [expected EXCEPT ![r] = answered[k]]
    /\ UNCHANGED <<store, acquired, response, recorded, answered, wire>>

\* enforceRateLimit lets the request pass (or fails open) ...
RateLimitPassed(r) ==
    /\ Go(r, "limit", IF key[r] = None THEN "lookup" ELSE "begin")
    /\ UNCHANGED <<store, request, acquired, response, recorded, answered, wire>>

\* ... or the request ends with 429, or with 503 when the limiter fails closed.
RateLimitRejected(r) ==
    /\ Go(r, "limit", "done")
    /\ record(r, {"rate_limited"} \union (IF Faults THEN {"failed"} ELSE {}))
    /\ UNCHANGED <<store, request, acquired, response, answered, wire>>

Reserve(r) ==
    entry' = [entry EXCEPT ![key[r]] = beginScript(@, payload[r])]

Status(r) == beginStatus(entry[key[r]], payload[r])

BeginAcquired(r) ==
    /\ Go(r, "begin", "lookup")
    /\ Status(r) = "acquired"
    /\ Reserve(r)
    /\ acquired' = [acquired EXCEPT ![r] = TRUE]
    /\ MayRepeat(r, "begin")
    /\ UNCHANGED <<cached, request, response, recorded, answered, robbed>>

\* 409: another payload has the key, or the key is in progress.
BeginRefused(r) ==
    /\ Go(r, "begin", "done")
    /\ Status(r) \in {"conflict", "pending"}
    /\ record(r, {"rejected"})
    /\ MayRepeat(r, "begin")
    /\ UNCHANGED <<store, request, acquired, response, answered, robbed>>

BeginReplays(r) ==
    /\ Go(r, "begin", "done")
    /\ Status(r) = "completed"
    /\ Respond(r, entry[key[r]].response)
    /\ Answers(r, entry[key[r]].response)
    /\ record(r, {"idempotency_replay"})
    /\ MayRepeat(r, "begin")
    /\ UNCHANGED <<store, request, acquired, robbed>>

\* Eval returns an error, before or after the script ran: 503 and no row.  When
\* the Redis client resends a script whose reply was lost, its second run
\* finds its own reservation: 409.
BeginFails(r) ==
    /\ Faults
    /\ Go(r, "begin", "done")
    /\ \/ UNCHANGED <<entry, recorded>>
       \/ Reserve(r) /\ UNCHANGED recorded
       \/ Status(r) = "acquired" /\ Reserve(r) /\ record(r, {"rejected"})
    /\ MayRepeat(r, "begin")
    /\ UNCHANGED <<cached, request, acquired, response, answered, robbed>>

\* Faulty variant: a cache hit does not complete the reservation.
LookupHit_NotCompleted(r) ==
    /\ Go(r, "lookup", "complete")
    /\ payload[r] \in Cacheable
    /\ cached[payload[r]] # None
    /\ Respond(r, cached[payload[r]])
    /\ acquired' = [acquired EXCEPT ![r] = FALSE]
    /\ UNCHANGED <<store, request, recorded, answered, wire>>

LookupHit(r) ==
    /\ Go(r, "lookup", "complete")
    /\ payload[r] \in Cacheable
    /\ cached[payload[r]] # None
    /\ Respond(r, cached[payload[r]])
    /\ UNCHANGED <<store, request, acquired, recorded, answered, wire>>

\* A read error acts as a miss.
LookupMiss(r) ==
    /\ Go(r, "lookup", "call")
    /\ payload[r] \notin Cacheable \/ cached[payload[r]] = None \/ Faults
    /\ UNCHANGED <<store, request, acquired, response, recorded, answered, wire>>

CallSucceeds(r) ==
    /\ Go(r, "call", IF payload[r] \in Cacheable THEN "store" ELSE "complete")
    /\ Respond(r, r)
    /\ UNCHANGED <<store, request, acquired, recorded, answered, wire>>

CallFails(r) ==
    /\ Go(r, "call", "release")
    /\ UNCHANGED <<store, request, acquired, response, recorded, answered, wire>>

StoreCached(r) ==
    /\ Go(r, "store", "complete")
    /\ \/ cached' = [cached EXCEPT ![payload[r]] = response[r]]
       \/ Faults /\ UNCHANGED cached
    /\ MayRepeat(r, "store")
    /\ UNCHANGED <<entry, request, acquired, response, recorded, answered, robbed>>

\* completeIdempotency: nothing without a reservation; an error is only logged.
completeIdempotency(r) ==
    \/ acquired[r] /\ Completes(r) /\ MayRepeat(r, "complete")
    \/ acquired[r] /\ Faults /\ UNCHANGED <<entry, robbed>> /\ MayRepeat(r, "complete")
    \/ ~acquired[r] /\ UNCHANGED <<entry, wire>>

\* releaseIdempotency, in the same way.
releaseIdempotency(r) ==
    \/ acquired[r] /\ Releases(r) /\ MayRepeat(r, "release")
    \/ acquired[r] /\ Faults /\ UNCHANGED <<entry, robbed>> /\ MayRepeat(r, "release")
    \/ ~acquired[r] /\ UNCHANGED <<entry, wire>>

\* Faulty variant: a cache hit is recorded, and billed, as an upstream success.
Complete_BillsHits(r) ==
    /\ Go(r, "complete", "done")
    /\ completeIdempotency(r)
    /\ acquired' = [acquired EXCEPT ![r] = FALSE]
    /\ Answers(r, response[r])
    /\ record(r, {"succeeded"})
    /\ UNCHANGED <<cached, request, response>>

\* completeIdempotency, the row and the 200 answer,
\* which is lost when the client is gone or the process dies after the script.
Complete(r) ==
    /\ Go(r, "complete", "done")
    /\ completeIdempotency(r)
    /\ acquired' = [acquired EXCEPT ![r] = FALSE]
    /\ Answers(r, response[r]) \/ (Faults /\ UNCHANGED answered)
    /\ record(r, IF response[r] = r THEN {"succeeded"} ELSE {"cache_hit"})
    /\ UNCHANGED <<cached, request, response>>

\* releaseIdempotency after a failed upstream call, the row and the error answer.
Release(r) ==
    /\ Go(r, "release", "done")
    /\ releaseIdempotency(r)
    /\ acquired' = [acquired EXCEPT ![r] = FALSE]
    /\ record(r, {"failed"})
    /\ UNCHANGED <<cached, request, response, answered>>

-----------------------------------------------------------------------------
Active(r) == pc[r] \in Stages

\* The process serving r dies; what it wrote to Redis stays.
Crash(r) ==
    /\ Faults
    /\ Active(r)
    /\ pc' = [pc EXCEPT ![r] = "crashed"]
    /\ acquired' = [acquired EXCEPT ![r] = FALSE]
    /\ left' = [left EXCEPT ![r] = 0]
    /\ UNCHANGED <<store, request, response, recorded, answered, wire>>

\* Redis runs a copy of a command of r: one that was sent again after its reply
\* was lost, or that was delayed.  Nobody waits for the result.
Later(r, op) ==
    /\ <<r, op>> \in copies
    /\ UNCHANGED <<pc, request, acquired, response, left, copies, recorded, answered>>

BeginAgain(r) ==
    /\ Later(r, "begin")
    /\ Reserve(r)
    /\ UNCHANGED <<cached, robbed>>

StoreAgain(r) ==
    /\ Later(r, "store")
    /\ cached' = [cached EXCEPT ![payload[r]] = response[r]]
    /\ UNCHANGED <<entry, robbed>>

CompleteAgain(r) ==
    /\ Later(r, "complete")
    /\ Completes(r)
    /\ UNCHANGED cached

ReleaseAgain(r) ==
    /\ Later(r, "release")
    /\ Releases(r)
    /\ UNCHANGED cached

Again(r) == BeginAgain(r) \/ StoreAgain(r) \/ CompleteAgain(r) \/ ReleaseAgain(r)

\* A completed response reaches IDEMPOTENCY_TTL: its key is free again.
ResultExpires(k) ==
    /\ entry[k].state = "completed"
    /\ entry' = [entry EXCEPT ![k] = NoEntry]
    /\ answered' = [answered EXCEPT ![k] = NoAnswer]
    /\ expected' = [r \in Requests |-> IF key[r] = k THEN NoAnswer ELSE expected[r]]
    /\ UNCHANGED <<cached, pc, key, payload, acquired, response, left, recorded, wire>>

CacheExpires(p) ==
    /\ cached[p] # None
    /\ cached' = [cached EXCEPT ![p] = None]
    /\ UNCHANGED <<entry, pc, request, acquired, response, left, recorded, answered, wire>>

\* No request stays in a stage longer than its timeout.
Tick ==
    /\ \A r \in Requests : Active(r) => left[r] > 0
    /\ left' = [r \in Requests |-> IF Active(r) THEN left[r] - 1 ELSE 0]
    /\ entry' = [k \in Keys |-> expire(entry[k])]
    /\ UNCHANGED <<cached, pc, request, acquired, response, recorded, answered, wire>>

Serve(r) ==
    \/ RateLimitPassed(r) \/ RateLimitRejected(r)
    \/ BeginAcquired(r) \/ BeginRefused(r) \/ BeginReplays(r) \/ BeginFails(r)
    \/ LookupHit(r) \/ LookupMiss(r)
    \/ CallSucceeds(r) \/ CallFails(r)
    \/ StoreCached(r) \/ Complete(r) \/ Release(r)

Next ==
    \/ \E r \in Requests : Start(r) \/ Serve(r) \/ Crash(r) \/ Again(r)
    \/ \E k \in Keys : ResultExpires(k)
    \/ \E p \in Payloads : CacheExpires(p)
    \/ Tick

Spec == Init /\ [][Next]_vars

\* Time passes, and handlers run to their end: every call they make has a timeout.
Fairness == WF_vars(Tick) /\ \A r \in Requests : WF_vars(Serve(r))

FairSpec == Spec /\ Fairness

-----------------------------------------------------------------------------
\* A copy of the command that ended the reservation of r may still run.
EndRepeats(r) == copies \intersect {<<r, "complete">>, <<r, "release">>} # {}

\* At most one request at a time executes under an idempotency key, whatever
\* Redis calls fail and processes crash (Begin in redis.go:90), but for requests
\* whose reservation was taken from them; and that happens only where an earlier
\* request with the same key and payload has a Complete or Release that Redis may
\* run once more, for the scripts know a reservation by its fingerprint and not
\* by its owner (redis.go:27,39).  It needs LockTTL > RequestTimeout +
\* 2 * OpTimeout: cache.Set and Complete run after the request's own deadline.
OneRunner ==
    /\ \A k \in Keys : \A r, s \in Holders(k) \ robbed : r = s
    /\ \A r \in robbed : \E s \in Requests \ {r} :
          EndRepeats(s) /\ key[s] = key[r] /\ payload[s] = payload[r]

\* The longest a holder still needs its reservation after its current stage:
\* cache.Set and Complete (or Release) each get the operation timeout.
TimeAfter(stage) ==
    CASE stage \in {"lookup", "call"}      -> 2 * OpTimeout
      [] stage = "store"                   -> OpTimeout
      [] stage \notin {"lookup", "call", "store"} -> 0

\* The reservation of a request that executes, unless a repeated script took it,
\* is still its own and outlives all the work the request has left, up to
\* Complete or Release.
LockOutlives ==
    \A r \in Requests : acquired[r] =>
        /\ Active(r)
        /\ key[r] \in Keys
        /\ r \notin robbed =>
             /\ reservedFor(entry[key[r]], payload[r])
             /\ entry[key[r]].ttl > left[r] + TimeAfter(pc[r])

\* No answer, be it called for, cached or replayed, was produced for another
\* payload (the fingerprint comparison of beginScript, Policy.Key).
AnswersMatchPayload ==
    \A r \in Requests : response[r] # None => payload[response[r]] = payload[r]

\* README.md:213, "same key and payload replays the completed response": a
\* request that arrives after the client got an answer under its key, and
\* succeeds before that answer expires, gets the same answer.
CompletedReplayed ==
    \A r \in Requests :
        pc[r] = "done" /\ response[r] # None /\ expected[r] # NoAnswer
            => response[r] = expected[r].response

\* The row of a finished request says what its client saw, and only the request
\* that made the upstream call is billed for it (Chat's calls of record).
RecordMatchesAnswer ==
    \A r \in Requests : recorded[r] # None =>
        /\ response[r] = None <=> recorded[r] \in {"failed", "rejected", "rate_limited"}
        /\ response[r] = r    <=> recorded[r] = "succeeded"

\* A reservation whose request died, or whose Complete or Release was lost, does
\* not block its key for ever (PEXPIRE in beginScript).
KeyFreed ==
    \A k \in Keys : entry[k].state = "pending" ~> entry[k].state # "pending"
=============================================================================
