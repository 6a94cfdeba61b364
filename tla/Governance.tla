----------------------------- MODULE Governance -----------------------------
(***************************************************************************)
(* internal/governance/provider.go: one upstream provider behind its       *)
(* concurrency semaphore, circuit breaker and retry policy, used by        *)
(* concurrent logical calls.  A call in Streams is a ChatStream whose      *)
(* managedStream is then read by the HTTP handler; the others are Chat.    *)
(*                                                                         *)
(* A call goes through                                                     *)
(*   start     in Semaphore.Acquire                                        *)
(*   allow     holds a slot, before Breaker.Allow                          *)
(*   loop      at the head of the retry loop                               *)
(*   attempt   in the upstream call                                        *)
(*   backoff   waiting before the next attempt                             *)
(*   streaming the stream is open                                          *)
(*   settle    before Permit.Done of the breaker                           *)
(*   release   before Permit.Release of the semaphore                      *)
(*   closing   stream ended, the handler's deferred Close is still to run  *)
(*   done                                                                  *)
(* Timers are not related to each other: any of them may fire first.       *)
(***************************************************************************)
EXTENDS CircuitBreaker, ProviderErrors

CONSTANTS
    Calls,           \* logical calls
    Streams,         \* those that are ChatStream calls
    MaxConcurrent,   \* capacity of the semaphore
    MaxAttempts,     \* retry.Options.MaxAttempts
    UpstreamErrors   \* errors the provider itself returns from an attempt

ASSUME CallsFinite == IsFiniteSet(Calls) /\ Streams \subseteq Calls
ASSUME GovernanceOptions ==
    /\ MaxConcurrent \in Nat \ {0}
    /\ MaxAttempts \in Nat \ {0}
    /\ UpstreamErrors \subseteq ErrorType

VARIABLES
    breaker,      \* the provider's circuit breaker
    inFlight,     \* len(semaphore.slots)
    pc,           \* where each call is
    ctx,          \* the call's context: live, canceled or past its deadline
    attemptCtx,   \* context of the current attempt (kept by an open stream)
    attempt,      \* number of the current attempt
    permit,       \* the call's circuit permit
    outcome,      \* the outcome to be reported to the breaker
    closeOwed     \* the stream ended in Recv; Close is still to be called

circuit == <<breaker, permit>>
contexts == <<ctx, attemptCtx>>
ending == <<outcome, closeOwed>>
vars == <<circuit, inFlight, pc, contexts, attempt, ending>>

PCs == {"start", "allow", "loop", "attempt", "backoff", "streaming",
        "settle", "release", "closing", "done"}

TypeOK ==
    /\ breaker \in BreakerType
    /\ inFlight \in 0..MaxConcurrent
    /\ pc \in [Calls -> PCs]
    /\ ctx \in [Calls -> {"live", "canceled", "deadline"}]
    /\ attemptCtx \in [Calls -> {"none", "live", "canceled", "deadline"}]
    /\ attempt \in [Calls -> 0..MaxAttempts]
    /\ permit \in [Calls -> PermitType]
    /\ outcome \in [Calls -> Outcomes]
    /\ closeOwed \in [Calls -> BOOLEAN]

\* No permit, or one that has been reported.
Spent == [permitOf(New) EXCEPT !.done = TRUE]

Init ==
    /\ breaker = New
    /\ inFlight = 0
    /\ pc = [c \in Calls |-> "start"]
    /\ ctx = [c \in Calls |-> "live"]
    /\ attemptCtx = [c \in Calls |-> "none"]
    /\ attempt = [c \in Calls |-> 0]
    /\ permit = [c \in Calls |-> Spent]
    /\ outcome = [c \in Calls |-> "ignored"]
    /\ closeOwed = [c \in Calls |-> FALSE]

Go(c, from, to) == pc[c] = from /\ pc' = [pc EXCEPT ![c] = to]
CtxErr(c) == PlainError(ctx[c])

\* The error e is returned once the breaker has been told about it.
Settle(c, e) == outcome' = [outcome EXCEPT ![c] = circuitOutcome(e)]

-----------------------------------------------------------------------------
\* Semaphore.Acquire sends on the slots channel ...
AcquireSlot(c) ==
    /\ Go(c, "start", "allow")
    /\ inFlight < MaxConcurrent
    /\ inFlight' = inFlight + 1
    /\ UNCHANGED <<circuit, contexts, attempt, ending>>

\* ... or sees the context end; with both ready, either case is taken.
AcquireCanceled(c) ==
    /\ Go(c, "start", "done")
    /\ ctx[c] # "live"
    /\ ctx' = [ctx EXCEPT ![c] = "live"]
    /\ UNCHANGED <<circuit, inFlight, attemptCtx, attempt, ending>>

AllowAdmitted(c) ==
    LET b == advanceLocked(breaker)
    IN  /\ Go(c, "allow", "loop")
        /\ available(b)
        /\ breaker' = admit(b)
        /\ permit' = [permit EXCEPT ![c] = permitOf(b)]
        /\ attempt' = [attempt EXCEPT ![c] = 1]
        /\ UNCHANGED <<inFlight, contexts, ending>>

\* Faulty variant: ErrOpen is returned without giving the slot back.
AllowRefused_KeepsSlot(c) ==
    LET b == advanceLocked(breaker)
    IN  /\ Go(c, "allow", "done")
        /\ ~available(b)
        /\ breaker' = b
        /\ UNCHANGED <<inFlight, contexts, attempt, permit, ending>>

AllowRefused(c) ==
    LET b == advanceLocked(breaker)
    IN  /\ Go(c, "allow", "release")
        /\ ~available(b)
        /\ breaker' = b
        /\ UNCHANGED <<inFlight, contexts, attempt, permit, ending>>

\* retry.do: the head of the loop, with a live parent context ...
StartAttempt(c) ==
    /\ Go(c, "loop", "attempt")
    /\ ctx[c] = "live"
    /\ attemptCtx' = [attemptCtx EXCEPT ![c] = "live"]
    /\ UNCHANGED <<circuit, inFlight, ctx, attempt, ending>>

\* Faulty variant: only a canceled context is noticed.
LoopCanceled_NoDeadline(c) ==
    /\ Go(c, "loop", "settle")
    /\ ctx[c] = "canceled"
    /\ Settle(c, CtxErr(c))
    /\ UNCHANGED <<circuit, inFlight, contexts, attempt, closeOwed>>

\* ... or after it ended.
LoopCanceled(c) ==
    /\ Go(c, "loop", "settle")
    /\ ctx[c] # "live"
    /\ Settle(c, CtxErr(c))
    /\ UNCHANGED <<circuit, inFlight, contexts, attempt, closeOwed>>

\* The operation succeeds: a Chat drops its attempt context ...
ChatSucceeds(c) ==
    /\ c \notin Streams
    /\ Go(c, "attempt", "settle")
    /\ Settle(c, Nil)
    /\ attemptCtx' = [attemptCtx EXCEPT ![c] = "none"]
    /\ UNCHANGED <<circuit, inFlight, ctx, attempt, closeOwed>>

\* ... and a ChatStream keeps it for as long as the stream is open.
StreamOpens(c) ==
    /\ c \in Streams
    /\ Go(c, "attempt", "streaming")
    /\ UNCHANGED <<circuit, inFlight, contexts, attempt, ending>>

\* What an attempt can fail with: an answer of the provider or, once its
\* context is done, the transport's error or ctx.Err() itself.
AttemptErrors(c) ==
    UpstreamErrors \union
        (IF attemptCtx[c] = "live" THEN {}
         ELSE {NetworkError(attemptCtx[c]), PlainError(attemptCtx[c])})

\* Faulty variant: the attempt's own error is returned, not the parent's.
AttemptGivesUp_OwnError(c) ==
    /\ Go(c, "attempt", "settle")
    /\ \E e \in AttemptErrors(c) :
         /\ ctx[c] # "live" \/ attempt[c] = MaxAttempts \/ ~IsRetryable(e)
         /\ Settle(c, e)
    /\ attemptCtx' = [attemptCtx EXCEPT ![c] = "none"]
    /\ UNCHANGED <<circuit, inFlight, ctx, attempt, closeOwed>>

\* The operation fails for good; an ended parent context decides the error.
AttemptGivesUp(c) ==
    /\ Go(c, "attempt", "settle")
    /\ \E e \in AttemptErrors(c) :
         /\ ctx[c] # "live" \/ attempt[c] = MaxAttempts \/ ~IsRetryable(e)
         /\ Settle(c, IF ctx[c] # "live" THEN CtxErr(c) ELSE e)
    /\ attemptCtx' = [attemptCtx EXCEPT ![c] = "none"]
    /\ UNCHANGED <<circuit, inFlight, ctx, attempt, closeOwed>>

\* Faulty variant: the number of attempts is not limited.
AttemptWillRetry_NoLimit(c) ==
    /\ Go(c, "attempt", "backoff")
    /\ ctx[c] = "live"
    /\ \E e \in AttemptErrors(c) : IsRetryable(e)
    /\ attemptCtx' = [attemptCtx EXCEPT ![c] = "none"]
    /\ UNCHANGED <<circuit, inFlight, ctx, attempt, ending>>

AttemptWillRetry(c) ==
    /\ Go(c, "attempt", "backoff")
    /\ ctx[c] = "live"
    /\ attempt[c] < MaxAttempts
    /\ \E e \in AttemptErrors(c) : IsRetryable(e)
    /\ attemptCtx' = [attemptCtx EXCEPT ![c] = "none"]
    /\ UNCHANGED <<circuit, inFlight, ctx, attempt, ending>>

\* The backoff timer fires (at once when the jittered delay is zero) ...
BackoffOver(c) ==
    /\ Go(c, "backoff", "loop")
    /\ attempt' = [attempt EXCEPT ![c] = @ + 1]
    /\ UNCHANGED <<circuit, inFlight, contexts, ending>>

\* ... or the parent context ends first.
BackoffCanceled(c) ==
    /\ Go(c, "backoff", "settle")
    /\ ctx[c] # "live"
    /\ Settle(c, CtxErr(c))
    /\ UNCHANGED <<circuit, inFlight, contexts, attempt, closeOwed>>

-----------------------------------------------------------------------------
\* What sseStream.Recv can fail with: a malformed or oversized event, a read
\* error, or the error of the retained attempt context once it is done.
StreamErrors(c) ==
    {PlainError("other")} \union
        (IF attemptCtx[c] = "live" THEN {} ELSE {PlainError(attemptCtx[c])})

\* managedStream.Recv at the end of the stream: the first call of finish
\* cancels the attempt context, then reports, then releases the slot.
RecvEOF(c) ==
    /\ Go(c, "streaming", "settle")
    /\ Settle(c, Nil)
    /\ attemptCtx' = [attemptCtx EXCEPT ![c] = "none"]
    /\ closeOwed' = [closeOwed EXCEPT ![c] = TRUE]
    /\ UNCHANGED <<circuit, inFlight, ctx, attempt>>

RecvError(c) ==
    /\ Go(c, "streaming", "settle")
    /\ \E e \in StreamErrors(c) : Settle(c, e)
    /\ attemptCtx' = [attemptCtx EXCEPT ![c] = "none"]
    /\ closeOwed' = [closeOwed EXCEPT ![c] = TRUE]
    /\ UNCHANGED <<circuit, inFlight, ctx, attempt>>

\* managedStream.Close of an open stream, when the handler could not write
\* to its client; closing the body may fail.
CloseOpen(c) ==
    /\ Go(c, "streaming", "settle")
    /\ \E reported \in {"ignored", "failure"} :
           outcome' = [outcome EXCEPT ![c] = reported]
    /\ attemptCtx' = [attemptCtx EXCEPT ![c] = "none"]
    /\ UNCHANGED <<circuit, inFlight, ctx, attempt, closeOwed>>

\* The deferred Close of a stream that has ended: finish has already run.
CloseEnded(c) ==
    /\ Go(c, "closing", "done")
    /\ closeOwed' = [closeOwed EXCEPT ![c] = FALSE]
    /\ UNCHANGED <<circuit, inFlight, contexts, attempt, outcome>>

\* circuitPermit.Done(outcome)
ReportOutcome(c) ==
    /\ Go(c, "settle", "release")
    /\ breaker' = complete(breaker, permit[c], outcome[c])
    /\ permit' = [permit EXCEPT ![c].done = TRUE]
    /\ UNCHANGED <<inFlight, contexts, attempt, ending>>

\* concurrencyPermit.Release(), and the end of the call's local variables.
ReleaseSlot(c) ==
    /\ Go(c, "release", IF closeOwed[c] THEN "closing" ELSE "done")
    /\ inFlight' = inFlight - 1
    /\ permit' = [permit EXCEPT ![c] = Spent]
    /\ ctx' = [ctx EXCEPT ![c] = "live"]
    /\ attempt' = [attempt EXCEPT ![c] = 0]
    /\ outcome' = [outcome EXCEPT ![c] = "ignored"]
    /\ UNCHANGED <<breaker, attemptCtx, closeOwed>>

-----------------------------------------------------------------------------
\* The call's context ends: its client goes away, or REQUEST_TIMEOUT passes.
\* A live attempt context ends with it.
ContextEnds(c, why) ==
    /\ pc[c] \notin {"release", "closing", "done"}
    /\ ctx[c] = "live"
    /\ ctx' = [ctx EXCEPT ![c] = why]
    /\ attemptCtx' = [attemptCtx EXCEPT ![c] = IF @ = "live" THEN why ELSE @]
    /\ UNCHANGED <<circuit, inFlight, pc, attempt, ending>>

\* UPSTREAM_ATTEMPT_TIMEOUT passes for the current attempt context.
AttemptTimeout(c) ==
    /\ attemptCtx[c] = "live"
    /\ attemptCtx' = [attemptCtx EXCEPT ![c] = "deadline"]
    /\ UNCHANGED <<circuit, inFlight, pc, ctx, attempt, ending>>

\* The router asks Available; the clock moves on.
Observe == breaker' = advanceLocked(breaker)
Tick == breaker' = elapse(breaker)

Environment ==
    /\ Observe \/ Tick
    /\ UNCHANGED <<inFlight, pc, contexts, attempt, permit, ending>>

Step(c) ==
    \/ AcquireSlot(c) \/ AcquireCanceled(c)
    \/ AllowAdmitted(c) \/ AllowRefused(c)
    \/ StartAttempt(c) \/ LoopCanceled(c)
    \/ ChatSucceeds(c) \/ StreamOpens(c) \/ AttemptGivesUp(c) \/ AttemptWillRetry(c)
    \/ BackoffOver(c) \/ BackoffCanceled(c)
    \/ RecvEOF(c) \/ RecvError(c) \/ CloseOpen(c) \/ CloseEnded(c)
    \/ ReportOutcome(c) \/ ReleaseSlot(c)

Next ==
    \/ \E c \in Calls : Step(c)
    \/ \E c \in Calls, why \in {"canceled", "deadline"} : ContextEnds(c, why)
    \/ \E c \in Calls : AttemptTimeout(c)
    \/ Environment

Spec == Init /\ [][Next]_vars

\* The steps a call takes by itself.  An upstream call or an open stream may
\* go on as it likes until its context is done; then it must return.
Runs(c) ==
    /\ Step(c)
    /\ pc[c] \in {"attempt", "streaming"} => attemptCtx[c] \in {"canceled", "deadline"}

\* Goroutines keep running, both timers fire, and the handler keeps reading
\* its stream.  Nothing is assumed of the provider or of the order in which
\* slots are handed out.
Fairness ==
    \A c \in Calls :
        /\ WF_vars(Runs(c))
        /\ WF_vars(ContextEnds(c, "deadline"))
        /\ WF_vars(AttemptTimeout(c))

FairSpec == Spec /\ Fairness
-----------------------------------------------------------------------------
Holding(pcs) == {c \in Calls : pc[c] \in pcs}

\* Every path through Chat, ChatStream, managedStream.Recv and Close gives
\* its slot back exactly once: the semaphore's count is the number of calls
\* between Acquire and Release, and never exceeds its capacity.
SlotsBalanced ==
    /\ inFlight = Cardinality(Holding({"allow", "loop", "attempt", "backoff",
                                       "streaming", "settle", "release"}))
    /\ inFlight <= MaxConcurrent

\* The probe slots in use are those of the calls that were admitted in this
\* HALF_OPEN period and have not reported yet, open streams included: no path
\* of the governed provider forgets to report or reports twice.
ProbesBalanced ==
    LET probes == {c \in Holding({"loop", "attempt", "backoff", "streaming", "settle"}) :
                      /\ permit[c].state = "half_open"
                      /\ permit[c].generation = breaker.generation}
    IN  breaker.state = "half_open" =>
            /\ breaker.halfOpenActive = Cardinality(probes)
            /\ breaker.halfOpenActive <= HalfOpenMaxRequests

\* A Chat whose client has gone away before the retry loop returned is never
\* reported as a provider failure, whatever the last attempt answered.
CancelNotBlamed ==
    [][\A c \in Calls \ Streams :
         pc'[c] = "settle" /\ pc[c] # "settle" /\ ctx[c] = "canceled"
            => outcome'[c] # "failure"]_vars

\* No call waits for ever: not for a slot, not upstream, not in backoff, not
\* on a stream.
CallsEnd == <>(\A c \in Calls : pc[c] = "done")

\* REQUEST_TIMEOUT is the "Overall logical request/stream deadline"
\* (README.md:137): an open stream is not ended for lack of time, and reported
\* as a failure, before the deadline of its request has passed.
StreamLastsToDeadline ==
    [][\A c \in Streams :
         pc[c] = "streaming" /\ outcome'[c] = "failure" /\ attemptCtx[c] = "deadline"
            => ctx[c] = "deadline"]_vars
=============================================================================
