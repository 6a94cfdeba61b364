------------------------------ MODULE Breaker ------------------------------
(***************************************************************************)
(* One circuit breaker shared by concurrent callers.  A caller asks for a  *)
(* permit (Allow), makes its call, and reports the outcome once (Done),    *)
(* possibly long after the breaker has moved on; anyone may also read the  *)
(* breaker (State, Available), which advances an OPEN breaker whose        *)
(* cooldown is over.  The state-change callback is the no-op that New      *)
(* installs by default; BreakerGauge models the one cmd/server wires in.   *)
(***************************************************************************)
EXTENDS CircuitBreaker

CONSTANTS
    Callers,      \* goroutines that use the breaker
    MaxBad        \* bound: outcomes other than success that callers report

ASSUME CallersFinite == IsFiniteSet(Callers)
ASSUME MaxBadNat == MaxBad \in Nat

VARIABLES
    breaker,      \* the Breaker struct
    permit,       \* the permit each caller holds; done when it has none
    bad,          \* outcomes other than success reported so far (for MaxBad)
    outstanding,  \* history: callers with an open permit issued since the
                  \* breaker last changed state
    recent        \* history: the last WindowSize outcomes that callers in
                  \* outstanding reported since the breaker last closed

vars == <<breaker, permit, bad, outstanding, recent>>

TypeOK ==
    /\ breaker \in BreakerType
    /\ breaker.next \in 0..(WindowSize - 1)
    /\ Len(breaker.outcomes) <= WindowSize
    /\ permit \in [Callers -> PermitType]
    /\ bad \in 0..MaxBad
    /\ outstanding \in SUBSET Callers
    /\ recent \in Seq(BOOLEAN)

Init ==
    /\ breaker = New
    /\ permit = [c \in Callers |-> [permitOf(New) EXCEPT !.done = TRUE]]
    /\ bad = 0
    /\ outstanding = {}
    /\ recent = <<>>

-----------------------------------------------------------------------------
\* History: a state change leaves every open permit in the past.
Forget(callers) ==
    outstanding' = IF breaker'.state # breaker.state THEN {} ELSE callers

\* The last WindowSize elements of s.
LastOutcomes(s) ==
    IF Len(s) <= WindowSize THEN s ELSE Tail(s)

\* Breaker.Allow with room: the advanced breaker issues a permit.
Admitted(c) ==
    LET b == advanceLocked(breaker)
    IN  /\ available(b)
        /\ breaker' = admit(b)
        /\ permit' = [permit EXCEPT ![c] = permitOf(b)]
        /\ outstanding' = {c} \union
               (IF b.state # breaker.state THEN {} ELSE outstanding)

\* Breaker.Allow returning ErrOpen.
Refused(c) ==
    LET b == advanceLocked(breaker)
    IN  /\ ~available(b)
        /\ breaker' = b
        /\ Forget(outstanding)
        /\ UNCHANGED permit

Allow(c) ==
    /\ permit[c].done
    /\ Admitted(c) \/ Refused(c)
    /\ UNCHANGED <<bad, recent>>

\* Permit.Done: the first call completes the permit, later calls do nothing.
Done(c, outcome) ==
    /\ ~permit[c].done
    /\ outcome # "success" => bad < MaxBad
    /\ breaker' = complete(breaker, permit[c], outcome)
    /\ permit' = [permit EXCEPT ![c].done = TRUE]
    /\ bad' = IF outcome # "success" THEN bad + 1 ELSE bad
    /\ Forget(outstanding \ {c})
    /\ recent' =
         IF breaker'.state = "closed" /\ breaker.state # "closed" THEN <<>>
         ELSE IF breaker.state = "closed" /\ c \in outstanding /\ outcome # "ignored"
              THEN LastOutcomes(Append(recent, outcome = "success"))
              ELSE recent

\* Breaker.State and Breaker.Available: reading advances the breaker.
Observe ==
    /\ breaker' = advanceLocked(breaker)
    /\ Forget(outstanding)
    /\ UNCHANGED <<permit, bad, recent>>

\* The clock that Options.Now reads.
Tick ==
    /\ breaker' = elapse(breaker)
    /\ UNCHANGED <<permit, bad, outstanding, recent>>

Next ==
    \/ \E c \in Callers : Allow(c)
    \/ \E c \in Callers, outcome \in Outcomes : Done(c, outcome)
    \/ Observe
    \/ Tick

Spec == Init /\ [][Next]_vars

-----------------------------------------------------------------------------
\* recordLocked's ring buffer is a sliding window: read from next, it is
\* exactly the last outcomes that were counted since the breaker closed, and
\* the failures counter, adjusted step by step, is the number of failures
\* among them.  Evictions, late outcomes and transitions never leave either
\* out of step.
WindowIsRecent ==
    LET n == Len(breaker.outcomes)
    IN  /\ Len(recent) = n
        /\ \A i \in 1..n :
               recent[i] = breaker.outcomes[((breaker.next + i - 1) % n) + 1]
        /\ breaker.failures = Cardinality({i \in 1..n : ~recent[i]})

\* complete never leaves a breaker CLOSED whose last outcomes reach the
\* failure ratio.
ClosedBelowRatio ==
    breaker.state = "closed" =>
        ~Tripped(Len(recent), Cardinality({i \in DOMAIN recent : ~recent[i]}))

\* halfOpenActive, which Allow counts up and complete counts down, is exactly
\* the number of open probe permits of this HALF_OPEN period, so a probe slot
\* is neither lost nor given out twice, and at most HalfOpenMaxRequests
\* probes are in flight.
ProbeSlots ==
    /\ breaker.halfOpenActive =
           IF breaker.state = "half_open" THEN Cardinality(outstanding) ELSE 0
    /\ breaker.halfOpenActive <= HalfOpenMaxRequests

\* The outcome of a call that was admitted before the breaker last changed
\* state has no effect on the breaker, however late it is reported.
LateOutcomesDropped ==
    [][\A c \in Callers :
         ~permit[c].done /\ permit'[c].done /\ c \notin outstanding
            => breaker' = breaker]_vars

\* Through all of its bookkeeping the breaker is the circuit of module Circuit:
\* it opens only on the outcome of a call let in since its last state change,
\* admits a probe only after the cooldown and with fewer than
\* HalfOpenMaxRequests in flight, and closes only after that many of this
\* period's probes succeeded.
Promise == INSTANCE Circuit
    WITH Probes <- HalfOpenMaxRequests,
         state <- breaker.state,
         cooled <- (breaker.state = "open" /\ breaker.openFor = OpenTimeout),
         inside <- outstanding,
         passed <- breaker.halfOpenPassed
ImplementsCircuit == Promise!Spec
=============================================================================
