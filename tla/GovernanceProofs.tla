-------------------------- MODULE GovernanceProofs --------------------------
(***************************************************************************)
(* Theorems about Governance, for any number of calls, attempts and slots, *)
(* and every choice of the breaker's options.                              *)
(***************************************************************************)
EXTENDS Governance, OperatorProofs

\* The stages in which a call holds a slot, and a permit it has not reported.
Slot == {"allow", "loop", "attempt", "backoff", "streaming", "settle", "release"}
Asking == {"loop", "attempt", "backoff", "streaming", "settle"}

-----------------------------------------------------------------------------
(* The slots of the semaphore                                              *)

SlotInv ==
    /\ pc \in [Calls -> PCs]
    /\ inFlight \in Nat
    /\ \A c \in Calls : pc[c] = "streaming" => c \in Streams
    /\ SlotsBalanced

\* The calls that hold a concurrency slot are finitely many, so they have a
\* count.
LEMMA HoldingFinite ==
    ASSUME NEW pcs
    PROVE  IsFiniteSet(Holding(pcs)) /\ Cardinality(Holding(pcs)) \in Nat
PROOF
  <1>1. Holding(pcs) \subseteq Calls
    BY Zenon DEF Holding
  <1> QED BY Zenon, <1>1, CallsFinite, FS_Subset, FS_CardinalityType

\* A step inside the slot, or outside of it.
LEMMA SlotKept ==
    ASSUME SlotInv, NEW c \in Calls, NEW s \in PCs, pc' = [pc EXCEPT ![c] = s],
           s \in Slot <=> pc[c] \in Slot, s = "streaming" => c \in Streams,
           UNCHANGED inFlight
    PROVE  SlotInv'
PROOF
  <1>1. \A d \in Calls : pc'[d] = IF d = c THEN s ELSE pc[d]
    BY Zenon DEF SlotInv
  <1>2. Holding(Slot)' = Holding(Slot)
    BY Zenon, <1>1 DEF Holding
  <1>3. pc' \in [Calls -> PCs] /\ \A d \in Calls : pc'[d] = "streaming" => d \in Streams
    BY Zenon, <1>1 DEF SlotInv
  <1> QED BY Zenon, <1>2, <1>3 DEF SlotInv, SlotsBalanced, Slot

\* Taking a slot raises the semaphore and the set of holders together.
LEMMA SlotTaken ==
    ASSUME SlotInv, NEW c \in Calls, AcquireSlot(c)
    PROVE  SlotInv'
PROOF
  <1>1. /\ pc[c] = "start" /\ pc' = [pc EXCEPT ![c] = "allow"]
        /\ inFlight < MaxConcurrent /\ inFlight' = inFlight + 1
    BY Zenon DEF AcquireSlot, Go
  <1>2. \A d \in Calls : pc'[d] = IF d = c THEN "allow" ELSE pc[d]
    BY Zenon, <1>1 DEF SlotInv
  <1>3. Holding(Slot)' = Holding(Slot) \cup {c} /\ c \notin Holding(Slot)
    BY Zenon, <1>1, <1>2 DEF Holding, Slot
  <1>4. Cardinality(Holding(Slot) \cup {c}) = Cardinality(Holding(Slot)) + 1
    BY Zenon, <1>3, HoldingFinite, FS_AddElement
  <1>5. inFlight = Cardinality(Holding(Slot)) /\ inFlight \in Nat /\ inFlight <= MaxConcurrent
    BY Zenon DEF SlotInv, SlotsBalanced, Slot
  <1>6. Cardinality(Holding(Slot))' = Cardinality(Holding(Slot)) + 1
    BY Zenon, <1>3, <1>4
  <1>7. inFlight' = Cardinality(Holding(Slot))' /\ inFlight' \in Nat /\ inFlight' <= MaxConcurrent
    BY <1>1, <1>5, <1>6, GovernanceOptions
  <1>8. pc' \in [Calls -> PCs] /\ \A d \in Calls : pc'[d] = "streaming" => d \in Streams
    BY Zenon, <1>1, <1>2 DEF SlotInv, PCs
  <1> QED BY Zenon, <1>7, <1>8 DEF SlotInv, SlotsBalanced, Slot

\* Returning a slot lowers the semaphore and the set of holders together.
LEMMA SlotReturned ==
    ASSUME SlotInv, NEW c \in Calls, ReleaseSlot(c)
    PROVE  SlotInv'
PROOF
  <1>1. PICK s \in {"closing", "done"} :
            pc[c] = "release" /\ pc' = [pc EXCEPT ![c] = s] /\ inFlight' = inFlight - 1
    BY Zenon DEF ReleaseSlot, Go
  <1>2. \A d \in Calls : pc'[d] = IF d = c THEN s ELSE pc[d]
    BY Zenon, <1>1 DEF SlotInv
  <1>3. Holding(Slot)' = Holding(Slot) \ {c} /\ c \in Holding(Slot)
    BY Zenon, <1>1, <1>2 DEF Holding, Slot
  <1>4. /\ Cardinality(Holding(Slot) \ {c}) = Cardinality(Holding(Slot)) - 1
        /\ Cardinality(Holding(Slot)) \in Nat \ {0}
    BY Zenon, <1>3, HoldingFinite, FS_RemoveElement, FS_EmptySet
  <1>5. inFlight = Cardinality(Holding(Slot)) /\ inFlight <= MaxConcurrent
    BY Zenon DEF SlotInv, SlotsBalanced, Slot
  <1>6. Cardinality(Holding(Slot))' = Cardinality(Holding(Slot)) - 1
    BY Zenon, <1>3, <1>4
  <1>7. inFlight' = Cardinality(Holding(Slot))' /\ inFlight' \in Nat /\ inFlight' <= MaxConcurrent
    BY <1>1, <1>4, <1>5, <1>6, GovernanceOptions
  <1>8. pc' \in [Calls -> PCs] /\ \A d \in Calls : pc'[d] = "streaming" => d \in Streams
    BY Zenon, <1>1, <1>2 DEF SlotInv, PCs
  <1> QED BY Zenon, <1>7, <1>8 DEF SlotInv, SlotsBalanced, Slot

\* Every step keeps the slot invariant.
LEMMA SlotStep ==
    ASSUME SlotInv, [Next]_vars
    PROVE  SlotInv'
PROOF
  <1>1. CASE UNCHANGED <<pc, inFlight>>
    <2>1. Holding(Slot)' = Holding(Slot)
      BY Zenon, <1>1 DEF Holding
    <2> QED BY Zenon, <1>1, <2>1 DEF SlotInv, SlotsBalanced, Slot
  <1>2. ASSUME NEW c \in Calls, Step(c) PROVE SlotInv'
    <2>1. CASE AcquireSlot(c)
      BY Zenon, <2>1, SlotTaken
    <2>2. CASE ReleaseSlot(c)
      BY Zenon, <2>2, SlotReturned
    <2>3. CASE AcquireCanceled(c) \/ CloseEnded(c)
      <3>1. /\ pc[c] \in {"start", "closing"} /\ pc' = [pc EXCEPT ![c] = "done"]
            /\ UNCHANGED inFlight
        BY Zenon, <2>3 DEF AcquireCanceled, CloseEnded, Go
      <3> QED BY Zenon, <3>1, SlotKept DEF Slot, PCs
    <2>4. CASE StreamOpens(c)
      <3>1. /\ pc[c] = "attempt" /\ pc' = [pc EXCEPT ![c] = "streaming"] /\ c \in Streams
            /\ UNCHANGED inFlight
        BY Zenon, <2>4 DEF StreamOpens, Go
      <3> QED BY Zenon, <3>1, SlotKept DEF Slot, PCs
    <2>5. CASE \/ AllowAdmitted(c) \/ AllowRefused(c) \/ StartAttempt(c) \/ LoopCanceled(c)
               \/ ChatSucceeds(c) \/ AttemptGivesUp(c) \/ AttemptWillRetry(c)
               \/ BackoffOver(c) \/ BackoffCanceled(c)
               \/ RecvEOF(c) \/ RecvError(c) \/ CloseOpen(c) \/ ReportOutcome(c)
      <3>1. PICK s \in Slot \ {"streaming"} :
                pc[c] \in Slot /\ pc' = [pc EXCEPT ![c] = s]
        BY Zenon, <2>5 DEF AllowAdmitted, AllowRefused, StartAttempt, LoopCanceled, ChatSucceeds,
             AttemptGivesUp, AttemptWillRetry, BackoffOver, BackoffCanceled, RecvEOF,
             RecvError, CloseOpen, ReportOutcome, Go, Slot
      <3>2. UNCHANGED inFlight
        BY Zenon, <2>5 DEF AllowAdmitted, AllowRefused, StartAttempt, LoopCanceled, ChatSucceeds,
             AttemptGivesUp, AttemptWillRetry, BackoffOver, BackoffCanceled, RecvEOF,
             RecvError, CloseOpen, ReportOutcome
      <3> QED BY Zenon, <3>1, <3>2, SlotKept DEF Slot, PCs
    <2> QED BY Zenon, <1>2, <2>1, <2>2, <2>3, <2>4, <2>5 DEF Step
  <1> QED BY Zenon, <1>1, <1>2 DEF Next, ContextEnds, AttemptTimeout, Environment, vars

\* The semaphore counts exactly the calls that hold a slot, in every
\* reachable state.
LEMMA SlotInvariant == Spec => []SlotInv
PROOF
  <1>1. Init => SlotInv
    <2> SUFFICES ASSUME Init PROVE SlotInv
      BY Zenon
    <2>1. Holding(Slot) = {} /\ pc \in [Calls -> PCs] /\ inFlight = 0
          /\ \A c \in Calls : pc[c] # "streaming"
      BY Zenon DEF Init, Holding, Slot, PCs
    <2> QED BY <2>1, FS_EmptySet, GovernanceOptions DEF SlotInv, SlotsBalanced, Slot
  <1> QED BY <1>1, SlotStep, PTL DEF Spec

\* On every path of a governed call, however its contexts end, the slot of the
\* semaphore is given back once, and there are never more calls than slots.
THEOREM SlotsAlwaysBalanced == Spec => []SlotsBalanced
  BY SlotInvariant, PTL DEF SlotInv
-----------------------------------------------------------------------------
(* The probes of the circuit breaker                                       *)

\* The probes that calls at these stages, with these permits, hold of b.
Probes(b, at, permits) ==
    {c \in Calls : /\ at[c] \in Asking
                   /\ permits[c].state = "half_open" /\ permits[c].generation = b.generation}

\* A permit that is not reported yet and of the breaker's generation has its
\* state; halfOpenActive counts the probes.
Counted(b, at, permits) ==
    /\ \A c \in Calls : at[c] \in Asking =>
        /\ permits[c].generation <= b.generation
        /\ permits[c].generation = b.generation => permits[c].state = b.state
    /\ b.state = "half_open" =>
        /\ b.halfOpenActive = Cardinality(Probes(b, at, permits))
        /\ b.halfOpenActive <= HalfOpenMaxRequests

ProbeType ==
    /\ WellFormed(breaker)
    /\ permit \in [Calls -> PermitType]
    /\ outcome \in [Calls -> Outcomes]
    /\ pc \in [Calls -> PCs]

ProbeInv == ProbeType /\ Counted(breaker, pc, permit)

\* The half-open probes of the current generation are finitely many, so they
\* have a count.
LEMMA ProbesFinite ==
    ASSUME NEW b, NEW at, NEW permits
    PROVE  IsFiniteSet(Probes(b, at, permits)) /\ Cardinality(Probes(b, at, permits)) \in Nat
PROOF
  <1>1. Probes(b, at, permits) \subseteq Calls
    BY Zenon DEF Probes
  <1> QED BY Zenon, <1>1, CallsFinite, FS_Subset, FS_CardinalityType

\* Advancing the breaker keeps the count, or starts one with no probe.
LEMMA AdvanceCounted ==
    ASSUME ProbeInv
    PROVE  WellFormed(advanceLocked(breaker)) /\ Counted(advanceLocked(breaker), pc, permit)
PROOF
  <1> DEFINE b == advanceLocked(breaker)
  <1>1. WellFormed(breaker) /\ WellFormed(b)
    BY Zenon, AdvanceFacts DEF ProbeInv, ProbeType
  <1>2. CASE b = breaker
    BY Zenon, <1>1, <1>2 DEF ProbeInv
  <1>3. CASE b # breaker
    <2>1. b.generation = breaker.generation + 1 /\ b.halfOpenActive = 0 /\ b.state = "half_open"
      BY Zenon, <1>1, <1>3, AdvanceFacts
    <2>2. \A c \in Calls : permit[c].generation \in Nat
      BY Zenon DEF ProbeInv, ProbeType, PermitType
    <2>3. breaker.generation \in Nat
      BY Zenon, <1>1 DEF WellFormed, BreakerType
    <2> HIDE DEF b
    <2>4. \A c \in Calls : pc[c] \in Asking => permit[c].generation < b.generation
      BY <2>1, <2>2, <2>3 DEF ProbeInv, Counted
    <2>5. Probes(b, pc, permit) = {}
      BY <2>1, <2>2, <2>3, <2>4 DEF Probes
    <2>6. \A c \in Calls : pc[c] \in Asking =>
              permit[c].generation <= b.generation /\ permit[c].generation # b.generation
      BY <2>1, <2>2, <2>3, <2>4
    <2>7. Counted(b, pc, permit)
      BY <2>1, <2>5, <2>6, FS_EmptySet, BreakerOptions DEF Counted
    <2> QED BY Zenon, <1>1, <2>7 DEF b
  <1> QED BY Zenon, <1>2, <1>3

\* A step that leaves the breaker and the permits alone, and does not report.
LEMMA ProbeKept ==
    ASSUME ProbeInv, ProbeType', NEW c \in Calls, UNCHANGED breaker,
           \A d \in Calls \ {c} : pc'[d] = pc[d] /\ permit'[d] = permit[d],
           pc'[c] \in Asking <=> pc[c] \in Asking,
           pc[c] \in Asking => permit'[c] = permit[c]
    PROVE  ProbeInv'
PROOF
  <1>1. Probes(breaker, pc', permit') = Probes(breaker, pc, permit)
    BY Zenon DEF Probes
  <1>2. \A d \in Calls : pc'[d] \in Asking => pc[d] \in Asking /\ permit'[d] = permit[d]
    BY Zenon
  <1>3. Counted(breaker, pc', permit')
    BY Zenon, <1>1, <1>2 DEF ProbeInv, Counted
  <1>4. Counted(breaker, pc, permit)'
    BY Zenon, <1>3
  <1> QED BY Zenon, <1>4 DEF ProbeInv

\* Breaker.Allow admits a call.
LEMMA AdmittedProbe ==
    ASSUME ProbeInv, NEW c \in Calls, AllowAdmitted(c)
    PROVE  ProbeInv'
PROOF
  <1> DEFINE b == advanceLocked(breaker)
             issued == permitOf(b)
  <1>1. WellFormed(b) /\ Counted(b, pc, permit)
    BY Zenon, AdvanceCounted
  <1>2. /\ pc[c] = "allow" /\ pc' = [pc EXCEPT ![c] = "loop"]
        /\ available(b) /\ breaker' = admit(b) /\ permit' = [permit EXCEPT ![c] = issued]
        /\ UNCHANGED outcome
    BY Zenon DEF AllowAdmitted, Go, ending
  <1>3. /\ WellFormed(breaker') /\ breaker'.state = b.state /\ breaker'.generation = b.generation
        /\ b.state = "half_open" => breaker'.halfOpenActive = b.halfOpenActive + 1
        /\ issued \in PermitType /\ issued.state = b.state /\ issued.generation = b.generation
        /\ b.generation \in Nat /\ b.halfOpenActive \in Nat
    BY Zenon, <1>1, <1>2, AdmitFacts DEF WellFormed, BreakerType
  <1> HIDE DEF b, issued
  <1>4. ProbeType'
    BY Zenon, <1>2, <1>3 DEF ProbeInv, ProbeType, PCs
  <1>5. \A d \in Calls : /\ pc'[d] = IF d = c THEN "loop" ELSE pc[d]
                         /\ permit'[d] = IF d = c THEN issued ELSE permit[d]
    BY Zenon, <1>2 DEF ProbeInv, ProbeType
  <1>6. \A d \in Calls : pc'[d] \in Asking =>
            /\ permit'[d].generation <= b.generation
            /\ permit'[d].generation = b.generation => permit'[d].state = b.state
    BY <1>1, <1>3, <1>5 DEF Counted
  <1>7. CASE b.state = "half_open"
    <2> DEFINE before == Probes(b, pc, permit)
    <2>1. c \notin before
      BY Zenon, <1>2 DEF Probes, Asking
    <2>2. Probes(breaker', pc', permit') = before \cup {c}
      BY Zenon, <1>3, <1>5, <1>7 DEF Probes, Asking
    <2>3. Cardinality(before \cup {c}) = Cardinality(before) + 1
      BY Zenon, <2>1, ProbesFinite, FS_AddElement
    <2>4. b.halfOpenActive = Cardinality(before)
      BY Zenon, <1>1, <1>7 DEF Counted
    <2>5. b.halfOpenActive < HalfOpenMaxRequests
      BY Zenon, <1>2, <1>7 DEF available
    <2> HIDE DEF before
    <2>6. /\ breaker'.halfOpenActive = Cardinality(Probes(breaker', pc', permit'))
          /\ breaker'.halfOpenActive <= HalfOpenMaxRequests
      BY <1>3, <1>7, <2>2, <2>3, <2>4, <2>5, BreakerOptions
    <2> QED BY Zenon, <1>3, <1>4, <1>6, <2>6 DEF ProbeInv, Counted
  <1>8. CASE b.state # "half_open"
    BY Zenon, <1>3, <1>4, <1>6, <1>8 DEF ProbeInv, Counted
  <1> QED BY Zenon, <1>7, <1>8

\* The call reports to the breaker.
LEMMA ReportedProbe ==
    ASSUME ProbeInv, NEW c \in Calls, ReportOutcome(c)
    PROVE  ProbeInv'
PROOF
  <1>1. /\ pc[c] = "settle" /\ pc' = [pc EXCEPT ![c] = "release"]
        /\ breaker' = complete(breaker, permit[c], outcome[c])
        /\ permit' = [permit EXCEPT ![c].done = TRUE] /\ UNCHANGED outcome
    BY Zenon DEF ReportOutcome, Go, ending
  <1>2. /\ WellFormed(breaker) /\ outcome[c] \in Outcomes
        /\ breaker.generation \in Nat /\ breaker.halfOpenActive \in Nat
        /\ \A d \in Calls : permit[d].generation \in Nat
    BY Zenon DEF ProbeInv, ProbeType, WellFormed, BreakerType, PermitType
  <1>3. WellFormed(breaker')
    BY Zenon, <1>1, <1>2, CompleteFacts
  <1>4. /\ pc' \in [Calls -> PCs] /\ permit' \in [Calls -> PermitType]
        /\ pc'[c] \notin Asking
        /\ \A d \in Calls : pc'[d] \in Asking => d # c /\ pc[d] \in Asking /\ permit'[d] = permit[d]
        /\ \A d \in Calls : d # c => pc'[d] = pc[d] /\ permit'[d] = permit[d]
    BY Zenon, <1>1 DEF ProbeInv, ProbeType, PCs, PermitType, Asking
  <1>5. ProbeType'
    BY Zenon, <1>1, <1>3, <1>4 DEF ProbeInv, ProbeType
  <1>6. CASE breaker' = breaker
    <2>1. ASSUME breaker.state = "half_open"
          PROVE  Probes(breaker, pc', permit') = Probes(breaker, pc, permit)
      <3>1. CASE permit[c].generation # breaker.generation
        BY Zenon, <1>4, <3>1 DEF Probes
      <3>2. CASE permit[c].generation = breaker.generation
        <4>1. permit[c].state = breaker.state
          BY Zenon, <1>1, <3>2 DEF ProbeInv, Counted, Asking
        <4>2. breaker' = completeHalfOpen(breaker, outcome[c])
          BY Zenon, <1>1, <1>2, <2>1, <3>2, <4>1, CompleteFacts
        <4>3. breaker'.halfOpenActive =
                  IF breaker.halfOpenActive > 0 THEN breaker.halfOpenActive - 1 ELSE 0
          BY <1>2, <1>6, <2>1, <4>2, CompleteHalfOpenFacts
        <4>4. breaker.halfOpenActive = 0
          <5> DEFINE a == breaker.halfOpenActive
          <5>1. a \in Nat /\ a = IF a > 0 THEN a - 1 ELSE 0
            BY <1>2, <1>6, <4>3, Zenon
          <5> HIDE DEF a
          <5>2. a = 0
            BY <5>1
          <5> QED BY Zenon, <5>2 DEF a
        <4>5. Probes(breaker, pc, permit) = {}
          <5>1. Cardinality(Probes(breaker, pc, permit)) = 0
            BY Zenon, <2>1, <4>4 DEF ProbeInv, Counted
          <5> QED BY Zenon, <5>1, ProbesFinite, FS_EmptySet
        <4>6. c \in Probes(breaker, pc, permit)
          BY Zenon, <1>1, <2>1, <3>2, <4>1 DEF Probes, Asking
        <4> QED BY Zenon, <4>5, <4>6
      <3> QED BY Zenon, <3>1, <3>2
    <2>2. Counted(breaker, pc', permit')
      BY Zenon, <1>4, <2>1 DEF ProbeInv, Counted
    <2> QED BY Zenon, <1>5, <1>6, <2>2 DEF ProbeInv
  <1>7. CASE breaker'.generation = breaker.generation + 1 /\ breaker'.state # "half_open"
    <2>1. \A d \in Calls : pc'[d] \in Asking => permit'[d].generation < breaker'.generation
      BY <1>2, <1>4, <1>7 DEF ProbeInv, Counted
    <2>2. \A d \in Calls : pc'[d] \in Asking =>
              /\ permit'[d].generation <= breaker'.generation
              /\ permit'[d].generation # breaker'.generation
      BY <1>2, <1>4, <1>7, <2>1
    <2> QED BY Zenon, <1>5, <1>7, <2>2 DEF ProbeInv, Counted
  <1>8. CASE /\ breaker'.generation = breaker.generation
             /\ breaker'.state = "closed" /\ breaker.state = "closed"
    BY Zenon, <1>4, <1>5, <1>8 DEF ProbeInv, Counted
  <1>9. CASE /\ breaker.state = "half_open" /\ breaker'.state = "half_open"
             /\ breaker'.generation = breaker.generation /\ breaker' # breaker
    <2>1. permit[c].generation = breaker.generation
      BY Zenon, <1>1, <1>2, <1>9, CompleteFacts
    <2>2. permit[c].state = "half_open"
      BY Zenon, <1>1, <1>9, <2>1 DEF ProbeInv, Counted, Asking
    <2>3. breaker' = completeHalfOpen(breaker, outcome[c])
      BY Zenon, <1>1, <1>2, <1>9, CompleteFacts
    <2>4. breaker'.halfOpenActive =
              IF breaker.halfOpenActive > 0 THEN breaker.halfOpenActive - 1 ELSE 0
      BY Zenon, <1>2, <1>9, <2>3, CompleteHalfOpenFacts
    <2> DEFINE before == Probes(breaker, pc, permit)
    <2>5. c \in before
      BY Zenon, <1>1, <2>1, <2>2 DEF Probes, Asking
    <2>6. Probes(breaker', pc', permit') = before \ {c}
      BY Zenon, <1>4, <1>9 DEF Probes
    <2>7. Cardinality(before \ {c}) = Cardinality(before) - 1 /\ Cardinality(before) # 0
      BY Zenon, <2>5, ProbesFinite, FS_RemoveElement, FS_EmptySet
    <2>8. breaker.halfOpenActive = Cardinality(before)
          /\ breaker.halfOpenActive <= HalfOpenMaxRequests
      BY Zenon, <1>9 DEF ProbeInv, Counted
    <2> HIDE DEF before
    <2>9. /\ breaker'.halfOpenActive = Cardinality(Probes(breaker', pc', permit'))
          /\ breaker'.halfOpenActive <= HalfOpenMaxRequests
      BY <1>2, <2>4, <2>6, <2>7, <2>8, BreakerOptions
    <2>10. \A d \in Calls : pc'[d] \in Asking =>
              /\ permit'[d].generation <= breaker'.generation
              /\ permit'[d].generation = breaker'.generation => permit'[d].state = breaker'.state
      BY Zenon, <1>4, <1>9 DEF ProbeInv, Counted
    <2> QED BY Zenon, <1>5, <2>9, <2>10 DEF ProbeInv, Counted
  <1> QED
    BY <1>1, <1>2, <1>6, <1>7, <1>8, <1>9, CompleteFacts, CompleteClosedFacts,
       CompleteHalfOpenFacts
\* Every step keeps the probe invariant.
LEMMA ProbeStep ==
    ASSUME ProbeInv, [Next]_vars
    PROVE  ProbeInv'
PROOF
  <1>1. CASE UNCHANGED vars
    BY Zenon, <1>1 DEF vars, circuit, ending, ProbeInv, ProbeType, Counted, Probes
  <1>2. CASE Environment
    <2>1. UNCHANGED <<pc, permit, outcome>>
      BY Zenon, <1>2 DEF Environment, ending
    <2>2. WellFormed(breaker') /\ Counted(breaker', pc, permit)
      <3>1. CASE Observe
        BY Zenon, <3>1, AdvanceCounted DEF Observe
      <3>2. CASE Tick
        <4>1. /\ WellFormed(breaker') /\ breaker'.state = breaker.state
              /\ breaker'.generation = breaker.generation
              /\ breaker'.halfOpenActive = breaker.halfOpenActive
          BY Zenon, <3>2, ElapseFacts DEF Tick, ProbeInv, ProbeType
        <4>2. Probes(breaker', pc, permit) = Probes(breaker, pc, permit)
          BY Zenon, <4>1 DEF Probes
        <4> QED BY Zenon, <4>1, <4>2 DEF ProbeInv, Counted
      <3> QED BY Zenon, <1>2, <3>1, <3>2 DEF Environment
    <2>3. Counted(breaker', pc', permit')
      BY Zenon, <2>1, <2>2
    <2> QED BY Zenon, <2>1, <2>2, <2>3 DEF ProbeInv, ProbeType
  <1>3. ASSUME NEW c \in Calls,
               AttemptTimeout(c) \/ \E why \in {"canceled", "deadline"} : ContextEnds(c, why)
        PROVE  ProbeInv'
    <2>1. UNCHANGED <<breaker, pc, permit, outcome>>
      BY Zenon, <1>3 DEF AttemptTimeout, ContextEnds, circuit, ending
    <2> QED BY Zenon, <2>1 DEF ProbeInv, ProbeType, Counted, Probes
  <1>4. ASSUME NEW c \in Calls, Step(c) PROVE ProbeInv'
    <2>1. CASE AllowAdmitted(c)
      BY Zenon, <2>1, AdmittedProbe
    <2>2. CASE ReportOutcome(c)
      BY Zenon, <2>2, ReportedProbe
    <2>3. CASE AllowRefused(c)
      <3>1. /\ pc[c] = "allow" /\ pc' = [pc EXCEPT ![c] = "release"]
            /\ breaker' = advanceLocked(breaker) /\ UNCHANGED <<permit, outcome>>
        BY Zenon, <2>3 DEF AllowRefused, Go, ending
      <3>2. WellFormed(breaker') /\ Counted(breaker', pc, permit)
        BY Zenon, <3>1, AdvanceCounted
      <3>3. /\ pc' \in [Calls -> PCs]
            /\ \A d \in Calls : pc'[d] \in Asking <=> pc[d] \in Asking
        BY Zenon, <3>1 DEF ProbeInv, ProbeType, PCs, Asking
      <3>4. Probes(breaker', pc', permit) = Probes(breaker', pc, permit)
        BY Zenon, <3>3 DEF Probes
      <3>5. Counted(breaker', pc', permit')
        BY Zenon, <3>1, <3>2, <3>3, <3>4 DEF Counted
      <3> QED BY Zenon, <3>1, <3>2, <3>3, <3>5 DEF ProbeInv, ProbeType
    <2>4. CASE ReleaseSlot(c)
      <3>1. PICK s \in {"closing", "done"} :
                /\ pc[c] = "release" /\ pc' = [pc EXCEPT ![c] = s]
                /\ permit' = [permit EXCEPT ![c] = Spent]
                /\ outcome' = [outcome EXCEPT ![c] = "ignored"] /\ UNCHANGED breaker
        BY Zenon, <2>4 DEF ReleaseSlot, Go
      <3>2. Spent \in PermitType
        BY Zenon DEF Spent, permitOf, New, PermitType, States
      <3>3. ProbeType'
        BY Zenon, <3>1, <3>2 DEF ProbeInv, ProbeType, PCs, Outcomes
      <3>4. /\ \A d \in Calls \ {c} : pc'[d] = pc[d] /\ permit'[d] = permit[d]
            /\ pc'[c] \notin Asking /\ pc[c] \notin Asking
        BY Zenon, <3>1 DEF ProbeInv, ProbeType, Asking
      <3> QED BY Zenon, <3>1, <3>3, <3>4, ProbeKept
    <2>5. CASE \/ AcquireSlot(c) \/ AcquireCanceled(c) \/ StartAttempt(c) \/ LoopCanceled(c)
               \/ ChatSucceeds(c) \/ StreamOpens(c) \/ AttemptGivesUp(c)
               \/ AttemptWillRetry(c) \/ BackoffOver(c) \/ BackoffCanceled(c)
               \/ RecvEOF(c) \/ RecvError(c) \/ CloseOpen(c) \/ CloseEnded(c)
      <3>1. PICK s \in PCs : pc' = [pc EXCEPT ![c] = s] /\ (s \in Asking <=> pc[c] \in Asking)
        BY Zenon, <2>5 DEF AcquireSlot, AcquireCanceled, StartAttempt, LoopCanceled, ChatSucceeds,
             StreamOpens, AttemptGivesUp, AttemptWillRetry, BackoffOver, BackoffCanceled,
             RecvEOF, RecvError, CloseOpen, CloseEnded, Go, Asking, PCs
      <3>2. UNCHANGED <<breaker, permit>>
        BY Zenon, <2>5 DEF AcquireSlot, AcquireCanceled, StartAttempt, LoopCanceled, ChatSucceeds,
             StreamOpens, AttemptGivesUp, AttemptWillRetry, BackoffOver, BackoffCanceled,
             RecvEOF, RecvError, CloseOpen, CloseEnded, circuit
      <3>3. outcome' = outcome \/ \E o \in Outcomes : outcome' = [outcome EXCEPT ![c] = o]
        <4>1. \A e : circuitOutcome(e) \in Outcomes
          BY Zenon DEF circuitOutcome, Outcomes
        <4> QED
          BY Zenon, <2>5, <4>1 DEF AcquireSlot, AcquireCanceled, StartAttempt, LoopCanceled,
             ChatSucceeds, StreamOpens, AttemptGivesUp, AttemptWillRetry, BackoffOver,
             BackoffCanceled, RecvEOF, RecvError, CloseOpen, CloseEnded, Settle, ending, Outcomes
      <3>4. ProbeType'
        BY Zenon, <3>1, <3>2, <3>3 DEF ProbeInv, ProbeType
      <3>5. /\ \A d \in Calls \ {c} : pc'[d] = pc[d] /\ permit'[d] = permit[d]
            /\ pc'[c] \in Asking <=> pc[c] \in Asking
        BY Zenon, <3>1, <3>2 DEF ProbeInv, ProbeType
      <3> QED BY Zenon, <3>2, <3>4, <3>5, ProbeKept
    <2> QED BY Zenon, <1>4, <2>1, <2>2, <2>3, <2>4, <2>5 DEF Step
  <1> QED BY Zenon, <1>1, <1>2, <1>3, <1>4 DEF Next

\* The breaker counts exactly its outstanding probes, in every reachable
\* state.
LEMMA ProbeInvariant == Spec => []ProbeInv
PROOF
  <1>1. Init => ProbeInv
    <2> SUFFICES ASSUME Init PROVE ProbeInv
      BY Zenon
    <2>1. Spent \in PermitType
      BY Zenon DEF Spent, permitOf, New, PermitType, States
    <2>2. WellFormed(breaker) /\ breaker.state = "closed"
      BY Zenon, NewFacts DEF Init
    <2>3. ProbeType /\ \A c \in Calls : pc[c] \notin Asking
      BY Zenon, <2>1, <2>2 DEF Init, ProbeType, PCs, Outcomes, Asking
    <2> QED BY Zenon, <2>2, <2>3 DEF ProbeInv, Counted
  <1> QED BY <1>1, ProbeStep, PTL DEF Spec

\* halfOpenActive counts the calls that were admitted as probes and have not
\* reported, whatever path they take through Chat, ChatStream and the stream:
\* no probe slot is lost or given out twice.
THEOREM ProbesAlwaysBalanced == Spec => []ProbesBalanced
PROOF
  <1>1. ProbeInv => ProbesBalanced
    <2> SUFFICES ASSUME ProbeInv, breaker.state = "half_open"
                 PROVE  LET probes == {c \in Holding(Asking) :
                                          /\ permit[c].state = "half_open"
                                          /\ permit[c].generation = breaker.generation}
                        IN  /\ breaker.halfOpenActive = Cardinality(probes)
                            /\ breaker.halfOpenActive <= HalfOpenMaxRequests
      BY Zenon DEF ProbesBalanced, Asking
    <2>1. Probes(breaker, pc, permit) =
              {c \in Holding(Asking) : /\ permit[c].state = "half_open"
                                       /\ permit[c].generation = breaker.generation}
      BY Zenon DEF Probes, Holding
    <2> QED BY Zenon, <2>1 DEF ProbeInv, Counted
  <1> QED BY <1>1, ProbeInvariant, PTL

-----------------------------------------------------------------------------
\* A Chat whose client went away is not held against the provider: the error
\* of the parent context decides, whatever the last attempt returned.
THEOREM CancelNeverBlamed == Spec => CancelNotBlamed
PROOF
  <1>1. ASSUME SlotInv, outcome \in [Calls -> Outcomes], Next, NEW c \in Calls \ Streams,
               pc'[c] = "settle", pc[c] # "settle", ctx[c] = "canceled"
        PROVE  outcome'[c] # "failure"
    <2>1. PICK d \in Calls : Step(d)
      BY Zenon, <1>1 DEF Next, ContextEnds, AttemptTimeout, Environment
    <2>2. d = c
      BY Zenon, <1>1, <2>1 DEF SlotInv, Step, AcquireSlot, AcquireCanceled, AllowAdmitted,
         AllowRefused, StartAttempt, LoopCanceled, ChatSucceeds, StreamOpens, AttemptGivesUp,
         AttemptWillRetry, BackoffOver, BackoffCanceled, RecvEOF, RecvError, CloseOpen,
         CloseEnded, ReportOutcome, ReleaseSlot, Go
    <2>3. circuitOutcome(PlainError("canceled")) # "failure" /\ circuitOutcome(Nil) # "failure"
      BY Zenon DEF circuitOutcome, IsCircuitFailure, PlainError, Nil
    <2>4. CtxErr(c) = PlainError("canceled")
      BY Zenon, <1>1 DEF CtxErr
    <2>5. ASSUME NEW e, Settle(c, e), e \in {CtxErr(c), Nil} PROVE outcome'[c] # "failure"
      <3>1. outcome'[c] = circuitOutcome(e)
        BY Zenon, <1>1, <2>5 DEF Settle
      <3> QED BY Zenon, <2>3, <2>4, <2>5, <3>1
    <2>6. CASE LoopCanceled(c) \/ BackoffCanceled(c)
      BY Zenon, <2>5, <2>6 DEF LoopCanceled, BackoffCanceled
    <2>7. CASE ChatSucceeds(c)
      BY Zenon, <2>5, <2>7 DEF ChatSucceeds
    <2>8. CASE AttemptGivesUp(c)
      <3>1. ctx[c] # "live"
        BY Zenon, <1>1
      <3>2. Settle(c, CtxErr(c))
        BY Zenon, <2>8, <3>1 DEF AttemptGivesUp
      <3> QED BY Zenon, <2>5, <3>2
    <2>9. pc[c] # "streaming"
      BY Zenon, <1>1 DEF SlotInv
    <2>10. LoopCanceled(c) \/ BackoffCanceled(c) \/ ChatSucceeds(c) \/ AttemptGivesUp(c)
      <3>1. \A s \in PCs : pc' = [pc EXCEPT ![c] = s] => s = "settle"
        BY Zenon, <1>1 DEF SlotInv
      <3> QED
        BY Zenon, <2>1, <2>2, <2>9, <3>1 DEF Step, AcquireSlot, AcquireCanceled, AllowAdmitted,
           AllowRefused, StartAttempt, StreamOpens, AttemptWillRetry, BackoffOver,
           RecvEOF, RecvError, CloseOpen, CloseEnded, ReportOutcome, ReleaseSlot, Go, PCs
    <2> QED BY Zenon, <2>6, <2>7, <2>8, <2>10
  <1>2. SlotInv /\ ProbeInv /\ [Next]_vars =>
            [\A c \in Calls \ Streams :
                pc'[c] = "settle" /\ pc[c] # "settle" /\ ctx[c] = "canceled"
                    => outcome'[c] # "failure"]_vars
    BY Zenon, <1>1 DEF ProbeInv, ProbeType
  <1> QED BY <1>2, SlotInvariant, ProbeInvariant, PTL DEF Spec, CancelNotBlamed

-----------------------------------------------------------------------------
(* Types                                                                   *)

\* A call backs off only while it has attempts left: that bounds the attempts.
AttemptsLeft == \A c \in Calls : pc[c] = "backoff" => attempt[c] < MaxAttempts

CallType ==
    /\ ctx \in [Calls -> {"live", "canceled", "deadline"}]
    /\ attemptCtx \in [Calls -> {"none", "live", "canceled", "deadline"}]
    /\ attempt \in [Calls -> 0..MaxAttempts]
    /\ closeOwed \in [Calls -> BOOLEAN]

CallInv == CallType /\ AttemptsLeft

\* The contexts of a call, and whether its stream is still to be closed.
LEMMA ContextStep ==
    ASSUME CallInv, NEW c \in Calls, Step(c)
    PROVE  /\ ctx' \in [Calls -> {"live", "canceled", "deadline"}]
           /\ attemptCtx' \in [Calls -> {"none", "live", "canceled", "deadline"}]
           /\ closeOwed' \in [Calls -> BOOLEAN]
PROOF
  <1>1. ctx' = ctx \/ ctx' = [ctx EXCEPT ![c] = "live"]
    BY Zenon DEF Step, AcquireSlot, AcquireCanceled, AllowAdmitted, AllowRefused, StartAttempt,
           LoopCanceled, ChatSucceeds, StreamOpens, AttemptGivesUp, AttemptWillRetry,
           BackoffOver, BackoffCanceled, RecvEOF, RecvError, CloseOpen, CloseEnded,
           ReportOutcome, ReleaseSlot, contexts
  <1>2. \/ attemptCtx' = attemptCtx
        \/ \E v \in {"none", "live"} : attemptCtx' = [attemptCtx EXCEPT ![c] = v]
    BY Zenon DEF Step, AcquireSlot, AcquireCanceled, AllowAdmitted, AllowRefused, StartAttempt,
           LoopCanceled, ChatSucceeds, StreamOpens, AttemptGivesUp, AttemptWillRetry,
           BackoffOver, BackoffCanceled, RecvEOF, RecvError, CloseOpen, CloseEnded,
           ReportOutcome, ReleaseSlot, contexts
  <1>3. \/ closeOwed' = closeOwed
        \/ \E v \in BOOLEAN : closeOwed' = [closeOwed EXCEPT ![c] = v]
    BY Zenon DEF Step, AcquireSlot, AcquireCanceled, AllowAdmitted, AllowRefused, StartAttempt,
           LoopCanceled, ChatSucceeds, StreamOpens, AttemptGivesUp, AttemptWillRetry,
           BackoffOver, BackoffCanceled, RecvEOF, RecvError, CloseOpen, CloseEnded,
           ReportOutcome, ReleaseSlot, ending
  <1>4. ctx' \in [Calls -> {"live", "canceled", "deadline"}]
    BY Zenon, <1>1 DEF CallInv, CallType
  <1>5. attemptCtx' \in [Calls -> {"none", "live", "canceled", "deadline"}]
    BY Zenon, <1>2 DEF CallInv, CallType
  <1>6. closeOwed' \in [Calls -> BOOLEAN]
    BY <1>3, Zenon DEF CallInv, CallType
  <1> QED BY Zenon, <1>4, <1>5, <1>6

\* The number of the attempt: it starts at one, and the backoff adds one.
LEMMA AttemptStep ==
    ASSUME CallInv, pc \in [Calls -> PCs], NEW c \in Calls, Step(c)
    PROVE  attempt' \in [Calls -> 0..MaxAttempts] /\ AttemptsLeft'
PROOF
  <1>0. attempt \in [Calls -> 0..MaxAttempts] /\ AttemptsLeft
    BY Zenon DEF CallInv, CallType
  <1>1. CASE AllowAdmitted(c)
    <2>1. attempt' = [attempt EXCEPT ![c] = 1] /\ pc' = [pc EXCEPT ![c] = "loop"]
      BY Zenon, <1>1 DEF AllowAdmitted, Go
    <2> QED BY <1>0, <2>1, GovernanceOptions DEF AttemptsLeft
  <1>2. CASE BackoffOver(c)
    <2>1. /\ pc[c] = "backoff" /\ pc' = [pc EXCEPT ![c] = "loop"]
          /\ attempt' = [attempt EXCEPT ![c] = @ + 1]
      BY Zenon, <1>2 DEF BackoffOver, Go
    <2> QED BY <1>0, <2>1, GovernanceOptions DEF AttemptsLeft
  <1>3. CASE ReleaseSlot(c)
    <2>1. PICK to \in {"closing", "done"} : pc' = [pc EXCEPT ![c] = to]
      BY Zenon, <1>3 DEF ReleaseSlot, Go
    <2>2. attempt' = [attempt EXCEPT ![c] = 0]
      BY Zenon, <1>3 DEF ReleaseSlot
    <2> QED BY <1>0, <2>1, <2>2, GovernanceOptions DEF AttemptsLeft
  <1>4. CASE AttemptWillRetry(c)
    <2>1. /\ attempt[c] < MaxAttempts /\ pc' = [pc EXCEPT ![c] = "backoff"]
          /\ attempt' = attempt
      BY Zenon, <1>4 DEF AttemptWillRetry, Go
    <2> QED BY Zenon, <1>0, <2>1 DEF AttemptsLeft
  <1>5. CASE \/ AcquireSlot(c) \/ AcquireCanceled(c) \/ AllowRefused(c) \/ StartAttempt(c)
             \/ LoopCanceled(c) \/ ChatSucceeds(c) \/ StreamOpens(c) \/ AttemptGivesUp(c)
             \/ BackoffCanceled(c) \/ RecvEOF(c) \/ RecvError(c) \/ CloseOpen(c)
             \/ CloseEnded(c) \/ ReportOutcome(c)
    <2>1. attempt' = attempt
      BY Zenon, <1>5 DEF AcquireSlot, AcquireCanceled, AllowRefused, StartAttempt, LoopCanceled,
           ChatSucceeds, StreamOpens, AttemptGivesUp, BackoffCanceled, RecvEOF, RecvError,
           CloseOpen, CloseEnded, ReportOutcome
    <2>2. \E to : to # "backoff" /\ pc' = [pc EXCEPT ![c] = to]
      BY Zenon, <1>5 DEF AcquireSlot, AcquireCanceled, AllowRefused, StartAttempt, LoopCanceled,
           ChatSucceeds, StreamOpens, AttemptGivesUp, BackoffCanceled, RecvEOF, RecvError,
           CloseOpen, CloseEnded, ReportOutcome, Go
    <2> QED BY Zenon, <1>0, <2>1, <2>2 DEF AttemptsLeft
  <1> QED BY Zenon, <1>1, <1>2, <1>3, <1>4, <1>5 DEF Step

\* Every step keeps the types of the calls and the attempts they have left.
LEMMA CallStep ==
    ASSUME CallInv, pc \in [Calls -> PCs], [Next]_vars
    PROVE  CallInv'
PROOF
  <1>1. CASE Environment \/ UNCHANGED vars
    BY Zenon, <1>1 DEF CallInv, CallType, AttemptsLeft, Environment, vars, contexts, ending
  <1>2. ASSUME NEW c \in Calls, NEW why \in {"canceled", "deadline"}, ContextEnds(c, why)
        PROVE  CallInv'
    BY Zenon, <1>2 DEF CallInv, CallType, AttemptsLeft, ContextEnds, ending
  <1>3. ASSUME NEW c \in Calls, AttemptTimeout(c)
        PROVE  CallInv'
    BY Zenon, <1>3 DEF CallInv, CallType, AttemptsLeft, AttemptTimeout, ending
  <1>4. ASSUME NEW c \in Calls, Step(c)
        PROVE  CallInv'
    BY Zenon, <1>4, ContextStep, AttemptStep DEF CallInv, CallType
  <1> QED BY Zenon, <1>1, <1>2, <1>3, <1>4 DEF Next

\* A call never makes more than MaxAttempts attempts, the semaphore never counts
\* past its capacity or below zero, and the breaker, permits and outcomes that
\* the calls hand to each other are of their types.
THEOREM GovernanceTypeCorrect == Spec => []TypeOK
PROOF
  <1>1. Init => CallInv
    BY GovernanceOptions DEF Init, CallInv, CallType, AttemptsLeft
  <1>2. SlotInv /\ CallInv /\ [Next]_vars => CallInv'
    BY Zenon, CallStep DEF SlotInv
  <1>3. SlotInv /\ ProbeInv /\ CallInv => TypeOK
    <2> SUFFICES ASSUME SlotInv, ProbeInv, CallInv PROVE TypeOK
      BY Zenon
    <2>1. inFlight \in 0..MaxConcurrent
      BY GovernanceOptions DEF SlotInv, SlotsBalanced
    <2>2. breaker \in BreakerType
      BY Zenon DEF ProbeInv, ProbeType, WellFormed
    <2> QED BY Zenon, <2>1, <2>2 DEF TypeOK, SlotInv, ProbeInv, ProbeType, CallInv, CallType
  <1> QED BY <1>1, <1>2, <1>3, SlotInvariant, ProbeInvariant, PTL DEF Spec
=============================================================================
