--------------------------- MODULE CircuitBreaker ---------------------------
(***************************************************************************)
(* internal/circuitbreaker/breaker.go as functions on a breaker value.     *)
(* Every method of Breaker runs under b.mu, so each one is a single step   *)
(* from the breaker before it to the breaker after it.  The state machines *)
(* that call these methods are in Breaker, BreakerGauge, Governance and    *)
(* Router.                                                                 *)
(*                                                                         *)
(* openedAt is only ever compared with Now(), as                           *)
(* Now() - openedAt < OpenTimeout while OPEN.  The model keeps that        *)
(* difference instead: openFor, the time since openedAt, saturated at      *)
(* OpenTimeout.  FailureRatio is the fraction RatioNum / RatioDen.         *)
(***************************************************************************)
EXTENDS Integers, Sequences, FiniteSets

CONSTANTS
    WindowSize,            \* outcomes kept in the sliding window
    MinimumRequests,       \* outcomes needed before the ratio counts
    RatioNum, RatioDen,    \* FailureRatio = RatioNum / RatioDen
    OpenTimeout,           \* cooldown before a probe, in ticks
    HalfOpenMaxRequests    \* concurrent probes, and successes needed to close

\* The options New accepts.
ASSUME BreakerOptions ==
    /\ WindowSize \in Nat \ {0}
    /\ MinimumRequests \in 1..WindowSize
    /\ RatioDen \in Nat \ {0}
    /\ RatioNum \in 1..RatioDen
    /\ OpenTimeout \in Nat \ {0}
    /\ HalfOpenMaxRequests \in Nat \ {0}

States == {"closed", "open", "half_open"}
Outcomes == {"ignored", "success", "failure"}

\* The Breaker struct.  outcomes[i] is TRUE for a success; next is the
\* 0-based index of the oldest outcome once the window is full.
BreakerType ==
    [state          : States,
     outcomes       : Seq(BOOLEAN),
     next           : Nat,
     failures       : Int,
     openFor        : 0..OpenTimeout,
     halfOpenActive : Nat,
     halfOpenPassed : Nat,
     generation     : Nat]

\* The Permit struct; done is its sync.Once.
PermitType == [state : States, generation : Nat, done : BOOLEAN]

New ==
    [state |-> "closed", outcomes |-> <<>>, next |-> 0, failures |-> 0,
     openFor |-> 0, halfOpenActive |-> 0, halfOpenPassed |-> 0,
     generation |-> 0]

-----------------------------------------------------------------------------
\* Only closing forgets the window; only opening restarts the cooldown.
transitionLocked(b, s) ==
    [state          |-> s,
     outcomes       |-> IF s = "closed" THEN <<>> ELSE b.outcomes,
     next           |-> IF s = "closed" THEN 0 ELSE b.next,
     failures       |-> IF s = "closed" THEN 0 ELSE b.failures,
     openFor        |-> IF s = "open" THEN 0 ELSE b.openFor,
     halfOpenActive |-> 0,
     halfOpenPassed |-> 0,
     generation     |-> b.generation + 1]

advanceLocked(b) ==
    IF b.state # "open" \/ b.openFor < OpenTimeout
    THEN b
    ELSE transitionLocked(b, "half_open")

Miss(success) == IF success THEN 0 ELSE 1

\* Faulty variant: the evicted outcome stays in the failure count.
recordLocked_NoEviction(b, success) ==
    IF Len(b.outcomes) < WindowSize
    THEN [b EXCEPT !.outcomes = Append(@, success),
                   !.failures = @ + Miss(success)]
    ELSE [b EXCEPT !.outcomes[b.next + 1] = success,
                   !.failures = @ + Miss(success),
                   !.next = (@ + 1) % WindowSize]

\* Faulty variant: next runs past the end of the ring.
recordLocked_NoWrap(b, success) ==
    IF Len(b.outcomes) < WindowSize
    THEN [b EXCEPT !.outcomes = Append(@, success),
                   !.failures = @ + Miss(success)]
    ELSE [b EXCEPT !.outcomes[b.next + 1] = success,
                   !.failures = @ - Miss(b.outcomes[b.next + 1]) + Miss(success),
                   !.next = @ + 1]

\* Slides the window by one outcome, evicting the oldest when it is full.
recordLocked(b, success) ==
    IF Len(b.outcomes) < WindowSize
    THEN [b EXCEPT !.outcomes = Append(@, success),
                   !.failures = @ + Miss(success)]
    ELSE [b EXCEPT !.outcomes[b.next + 1] = success,
                   !.failures = @ - Miss(b.outcomes[b.next + 1]) + Miss(success),
                   !.next = (@ + 1) % WindowSize]

\* The window holds enough outcomes and the failure ratio is reached.
Tripped(outcomeCount, failureCount) ==
    /\ outcomeCount >= MinimumRequests
    /\ failureCount * RatioDen >= RatioNum * outcomeCount

\* Faulty variant: a success never trips the breaker.
completeClosed_OnlyFailures(b, outcome) ==
    IF outcome = "ignored" THEN b
    ELSE LET r == recordLocked(b, outcome = "success")
         IN  IF outcome = "failure" /\ Tripped(Len(r.outcomes), r.failures)
             THEN transitionLocked(r, "open")
             ELSE r

completeClosed(b, outcome) ==
    IF outcome = "ignored" THEN b
    ELSE LET r == recordLocked(b, outcome = "success")
         IN  IF Tripped(Len(r.outcomes), r.failures)
             THEN transitionLocked(r, "open")
             ELSE r

\* Faulty variant: an ignored outcome does not give the probe slot back.
completeHalfOpen_LeaksIgnored(b, outcome) ==
    LET freed  == IF b.halfOpenActive > 0 THEN b.halfOpenActive - 1 ELSE 0
        passed == b.halfOpenPassed + 1
    IN  CASE outcome = "failure" -> transitionLocked(b, "open")
          [] outcome = "success" /\ passed >= HalfOpenMaxRequests ->
                transitionLocked(b, "closed")
          [] outcome = "success" /\ passed < HalfOpenMaxRequests ->
                [b EXCEPT !.halfOpenActive = freed, !.halfOpenPassed = passed]
          [] outcome = "ignored" -> b

\* Faulty variant: the circuit closes one successful probe too early.
completeHalfOpen_ClosesEarly(b, outcome) ==
    LET freed  == IF b.halfOpenActive > 0 THEN b.halfOpenActive - 1 ELSE 0
        passed == b.halfOpenPassed + 1
    IN  CASE outcome = "failure" -> transitionLocked(b, "open")
          [] outcome = "success" /\ passed + 1 >= HalfOpenMaxRequests ->
                transitionLocked(b, "closed")
          [] outcome = "success" /\ passed + 1 < HalfOpenMaxRequests ->
                [b EXCEPT !.halfOpenActive = freed, !.halfOpenPassed = passed]
          [] outcome = "ignored" -> [b EXCEPT !.halfOpenActive = freed]

completeHalfOpen(b, outcome) ==
    LET freed  == IF b.halfOpenActive > 0 THEN b.halfOpenActive - 1 ELSE 0
        passed == b.halfOpenPassed + 1
    IN  CASE outcome = "failure" -> transitionLocked(b, "open")
          [] outcome = "success" /\ passed >= HalfOpenMaxRequests ->
                transitionLocked(b, "closed")
          [] outcome = "success" /\ passed < HalfOpenMaxRequests ->
                [b EXCEPT !.halfOpenActive = freed, !.halfOpenPassed = passed]
          [] outcome = "ignored" -> [b EXCEPT !.halfOpenActive = freed]

\* Faulty variant: only the state of a permit is compared.
complete_IgnoresGeneration(b, permit, outcome) ==
    IF permit.state # b.state THEN b
    ELSE CASE b.state = "closed"    -> completeClosed(b, outcome)
           [] b.state = "half_open" -> completeHalfOpen(b, outcome)
           [] OTHER                 -> b

\* A permit of another generation, or of another state, is dropped.
complete(b, permit, outcome) ==
    IF permit.generation # b.generation \/ permit.state # b.state THEN b
    ELSE CASE b.state = "closed"    -> completeClosed(b, outcome)
           [] b.state = "half_open" -> completeHalfOpen(b, outcome)
           [] OTHER                 -> b

\* What Available reports, and what Allow requires, of an advanced breaker.
available(b) ==
    \/ b.state = "closed"
    \/ b.state = "half_open" /\ b.halfOpenActive < HalfOpenMaxRequests

\* The breaker after Allow has issued a permit.
admit(b) ==
    IF b.state = "half_open" THEN [b EXCEPT !.halfOpenActive = @ + 1] ELSE b

permitOf(b) == [state |-> b.state, generation |-> b.generation, done |-> FALSE]

\* One tick of the clock; the time since openedAt only matters while OPEN.
elapse(b) ==
    IF b.state = "open" /\ b.openFor < OpenTimeout
    THEN [b EXCEPT !.openFor = @ + 1]
    ELSE b
=============================================================================
