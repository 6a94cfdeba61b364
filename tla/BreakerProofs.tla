--------------------------- MODULE BreakerProofs ---------------------------
(***************************************************************************)
(* Theorems about Breaker, for every number of callers and every choice of *)
(* the breaker's options.                                                  *)
(***************************************************************************)
EXTENDS Breaker, OperatorProofs

-----------------------------------------------------------------------------
\* The history of outcomes stays a sequence of Booleans.
LEMMA LastOutcomesType ==
    ASSUME NEW s \in Seq(BOOLEAN), NEW x \in BOOLEAN
    PROVE  LastOutcomes(Append(s, x)) \in Seq(BOOLEAN)
  <1>1. Append(s, x) \in Seq(BOOLEAN) /\ Append(s, x) # <<>>
    OBVIOUS
  <1>2. Tail(Append(s, x)) \in Seq(BOOLEAN)
    BY <1>1
  <1> QED
    BY Zenon, <1>1, <1>2 DEF LastOutcomes

\* A new breaker is well formed.
LEMMA TypeCorrectInit == Init => TypeOK
  <1> SUFFICES ASSUME Init PROVE TypeOK
    BY Zenon
  <1>1. <<>> \in Seq(BOOLEAN) /\ Len(<<>>) = 0
    OBVIOUS
  <1>2. WellFormed(New)
    BY <1>1, BreakerOptions DEF WellFormed, BreakerType, New, States
  <1>3. [permitOf(New) EXCEPT !.done = TRUE] \in PermitType
    BY Zenon DEF permitOf, New, PermitType, States
  <1> QED
    BY <1>1, <1>2, <1>3, MaxBadNat DEF Init, TypeOK, WellFormed

\* Every reachable breaker is well formed: the ring index is in the ring, the
\* window is never longer than WindowSize and no counter goes below zero.
THEOREM TypeCorrect == Spec => []TypeOK
  <1>1. Init => TypeOK
    BY Zenon, TypeCorrectInit
  <1>2. TypeOK /\ [Next]_vars => TypeOK'
    <2> SUFFICES ASSUME TypeOK, [Next]_vars PROVE TypeOK'
      BY Zenon
    <2>w. WellFormed(breaker)
      BY Zenon DEF TypeOK, WellFormed
    <2>a. WellFormed(advanceLocked(breaker))
      BY Zenon, <2>w, AdvanceFacts
    <2>1. ASSUME NEW c \in Callers, Allow(c) PROVE TypeOK'
      <3>1. CASE Admitted(c)
        <4>1. WellFormed(admit(advanceLocked(breaker)))
          BY <2>a DEF admit, WellFormed, BreakerType
        <4>2. permitOf(advanceLocked(breaker)) \in PermitType
          BY Zenon, <2>a DEF permitOf, PermitType, WellFormed, BreakerType
        <4> QED
          BY Zenon, <2>1, <3>1, <4>1, <4>2 DEF TypeOK, Allow, Admitted, WellFormed
      <3>2. CASE Refused(c)
        BY Zenon, <2>1, <2>a, <3>2 DEF TypeOK, Allow, Refused, Forget, WellFormed
      <3> QED
        BY Zenon, <2>1, <3>1, <3>2 DEF Allow
    <2>2. ASSUME NEW c \in Callers, NEW outcome \in Outcomes, Done(c, outcome)
          PROVE  TypeOK'
      <3>1. WellFormed(breaker')
        BY Zenon, <2>2, <2>w, CompleteFacts DEF Done
      <3>2. permit' \in [Callers -> PermitType]
        <4>1. permit[c] \in PermitType
          BY Zenon DEF TypeOK
        <4>2. [permit[c] EXCEPT !.done = TRUE] \in PermitType
          BY Zenon, <4>1 DEF PermitType
        <4>3. permit' = [permit EXCEPT ![c] = [permit[c] EXCEPT !.done = TRUE]]
          BY Zenon, <2>2 DEF Done
        <4> QED
          BY Zenon, <4>2, <4>3 DEF TypeOK
      <3>3. bad' \in 0..MaxBad
        BY <2>2, MaxBadNat DEF Done, TypeOK
      <3>4. outstanding' \in SUBSET Callers
        BY Zenon, <2>2 DEF Done, Forget, TypeOK
      <3>5. recent' \in Seq(BOOLEAN)
        <4> DEFINE longer == LastOutcomes(Append(recent, outcome = "success"))
        <4>1. longer \in Seq(BOOLEAN)
          BY Zenon, LastOutcomesType DEF TypeOK
        <4>2. recent' = <<>> \/ recent' = recent \/ recent' = longer
          BY Zenon, <2>2 DEF Done
        <4>3. <<>> \in Seq(BOOLEAN)
          OBVIOUS
        <4> HIDE DEF longer
        <4> QED
          BY Zenon, <4>1, <4>2, <4>3 DEF TypeOK
      <3> QED
        BY Zenon, <3>1, <3>2, <3>3, <3>4, <3>5 DEF TypeOK, WellFormed
    <2>3. CASE Observe
      BY Zenon, <2>3, <2>a DEF TypeOK, Observe, Forget, WellFormed
    <2>4. CASE Tick
      <3>1. WellFormed(elapse(breaker))
        BY Zenon, <2>w, ElapseFacts
      <3> QED
        BY Zenon, <2>4, <3>1 DEF TypeOK, Tick, WellFormed
    <2>5. CASE UNCHANGED vars
      BY Zenon, <2>5 DEF TypeOK, vars
    <2> QED
      BY Zenon, <2>1, <2>2, <2>3, <2>4, <2>5 DEF Next
  <1> QED
    BY <1>1, <1>2, PTL DEF Spec

\* A permit carries the state of its generation, and the open permits of the
\* current generation are the ones issued since the last state change.  With
\* TypeOK it makes ProbeSlots inductive.
PermitsTracked ==
    \A c \in Callers :
        /\ permit[c].generation <= breaker.generation
        /\ permit[c].generation = breaker.generation => permit[c].state = breaker.state
        /\ c \in outstanding <=>
               ~permit[c].done /\ permit[c].generation = breaker.generation

-----------------------------------------------------------------------------
\* The inductive invariant behind the probe limit.
IInv == TypeOK /\ PermitsTracked /\ ProbeSlots

\* outstanding is finite, so adding and removing a caller counts by one.
LEMMA OutstandingFinite ==
    ASSUME TypeOK
    PROVE  IsFiniteSet(outstanding) /\ Cardinality(outstanding) \in Nat
  BY Zenon, CallersFinite, FS_Subset, FS_CardinalityType DEF TypeOK

\* Generations are numbers.
LEMMA GenerationType ==
    ASSUME TypeOK
    PROVE  /\ breaker.generation \in Nat
           /\ \A d \in Callers : permit[d].generation \in Nat
  BY Zenon DEF TypeOK, BreakerType, PermitType

\* A step that only advances the breaker keeps the invariant.
LEMMA AdvanceKeeps ==
    ASSUME IInv, TypeOK', breaker' = advanceLocked(breaker),
           Forget(outstanding), UNCHANGED permit
    PROVE  PermitsTracked' /\ ProbeSlots'
  <1>1. WellFormed(breaker)
    BY Zenon DEF IInv, TypeOK, WellFormed
  <1>2. CASE breaker' = breaker
    BY Zenon, <1>2 DEF IInv, Forget, PermitsTracked, ProbeSlots
  <1>3. CASE breaker' # breaker
    <2>1. /\ breaker.state = "open"
          /\ breaker'.state = "half_open"
          /\ breaker'.generation = breaker.generation + 1
          /\ breaker'.halfOpenActive = 0
      BY Zenon, <1>1, <1>3, AdvanceFacts
    <2>2. outstanding' = {}
      BY Zenon, <2>1 DEF Forget
    <2>3. PermitsTracked'
      BY <2>1, <2>2, GenerationType DEF IInv, PermitsTracked
    <2>4. ProbeSlots'
      BY <2>1, <2>2, FS_EmptySet, BreakerOptions DEF ProbeSlots
    <2> QED
      BY Zenon, <2>3, <2>4
  <1> QED
    BY Zenon, <1>2, <1>3

\* Allow hands out a probe slot only while one is free.
LEMMA AdmittedKeeps ==
    ASSUME IInv, TypeOK', NEW c \in Callers, permit[c].done, Admitted(c)
    PROVE  PermitsTracked' /\ ProbeSlots'
  <1> DEFINE b == advanceLocked(breaker)
             before == IF b.state # breaker.state THEN {} ELSE outstanding
  <1>1. /\ WellFormed(b)
        /\ \/ b = breaker
           \/ /\ breaker.state = "open"
              /\ b.state = "half_open"
              /\ b.generation = breaker.generation + 1
              /\ b.halfOpenActive = 0
    BY Zenon, AdvanceFacts DEF IInv, TypeOK, WellFormed
  <1>2. /\ available(b)
        /\ breaker' = admit(b)
        /\ permit' = [permit EXCEPT ![c] = permitOf(b)]
        /\ outstanding' = {c} \union before
    BY Zenon DEF Admitted
  <1>3. /\ breaker'.state = b.state
        /\ breaker'.generation = b.generation
        /\ breaker'.halfOpenActive =
               IF b.state = "half_open" THEN b.halfOpenActive + 1 ELSE b.halfOpenActive
    BY Zenon, <1>1, <1>2 DEF admit, WellFormed, BreakerType
  <1>4. /\ c \notin before
        /\ \A d \in Callers : d \in before <=>
               ~permit[d].done /\ permit[d].generation = b.generation
        /\ \A d \in Callers :
               /\ permit[d].generation <= b.generation
               /\ permit[d].generation = b.generation => permit[d].state = b.state
    <2>1. CASE b = breaker
      BY Zenon, <2>1 DEF IInv, PermitsTracked
    <2>2. CASE b # breaker
      <3>1. b.generation = breaker.generation + 1 /\ before = {}
        BY Zenon, <1>1, <2>2
      <3> QED
        BY <3>1, GenerationType DEF IInv, PermitsTracked
    <2> QED
      BY Zenon, <2>1, <2>2
  <1>5. /\ IsFiniteSet(before)
        /\ b.halfOpenActive = IF b.state = "half_open" THEN Cardinality(before) ELSE 0
    <2>1. CASE b = breaker
      BY Zenon, <2>1, OutstandingFinite DEF IInv, ProbeSlots
    <2>2. CASE b # breaker
      <3>1. b.halfOpenActive = 0 /\ before = {}
        BY Zenon, <1>1, <2>2
      <3> QED
        BY Zenon, <3>1, FS_EmptySet
    <2> QED
      BY Zenon, <2>1, <2>2
  <1> HIDE DEF b, before
  <1>6. Cardinality(outstanding') = Cardinality(before) + 1
    <2>1. Cardinality(before \union {c}) = Cardinality(before) + 1
      BY Zenon, <1>4, <1>5, FS_AddElement
    <2>2. outstanding' = before \union {c}
      BY Zenon, <1>2
    <2> QED
      BY Zenon, <2>1, <2>2
  <1>7. PermitsTracked'
    <2>1. permitOf(b).state = b.state /\ permitOf(b).generation = b.generation
          /\ ~permitOf(b).done
      BY Zenon DEF permitOf
    <2>2. permit'[c] = permitOf(b) /\ \A d \in Callers \ {c} : permit'[d] = permit[d]
      BY Zenon, <1>2 DEF IInv, TypeOK
    <2>3. b.generation \in Nat
      BY Zenon, <1>1 DEF WellFormed, BreakerType
    <2> QED
      BY <1>2, <1>3, <1>4, <2>1, <2>2, <2>3 DEF PermitsTracked
  <1>8. ProbeSlots'
    <2>1. b.halfOpenActive \in Nat
      BY Zenon, <1>1 DEF WellFormed, BreakerType
    <2> QED
      BY <1>2, <1>3, <1>5, <1>6, <2>1, BreakerOptions DEF ProbeSlots, available
  <1> QED
    BY Zenon, <1>7, <1>8

\* Done frees the slot of a probe of this generation and of no other.
LEMMA DoneKeeps ==
    ASSUME IInv, TypeOK', NEW c \in Callers, NEW outcome \in Outcomes, Done(c, outcome)
    PROVE  PermitsTracked' /\ ProbeSlots'
  <1>0. WellFormed(breaker)
    BY Zenon DEF IInv, TypeOK, WellFormed
  <1>1. /\ ~permit[c].done
        /\ breaker' = complete(breaker, permit[c], outcome)
        /\ permit' = [permit EXCEPT ![c].done = TRUE]
        /\ outstanding' = IF breaker'.state # breaker.state THEN {} ELSE outstanding \ {c}
    BY Zenon DEF Done, Forget
  <1>2. /\ permit'[c].done
        /\ \A d \in Callers : /\ permit'[d].generation = permit[d].generation
                              /\ permit'[d].state = permit[d].state
                              /\ d # c => permit'[d].done = permit[d].done
    BY Zenon, <1>1 DEF IInv, TypeOK, PermitType
  <1>3. CASE breaker'.state # breaker.state
    <2>1. /\ breaker'.generation = breaker.generation + 1
          /\ breaker'.halfOpenActive = 0
      BY <1>0, <1>1, <1>3, CompleteFacts, CompleteClosedFacts, CompleteHalfOpenFacts
    <2>2. outstanding' = {}
      BY Zenon, <1>1, <1>3
    <2>3. PermitsTracked'
      BY <1>2, <2>1, <2>2, GenerationType DEF IInv, PermitsTracked
    <2>4. ProbeSlots'
      BY <2>1, <2>2, FS_EmptySet, BreakerOptions DEF ProbeSlots
    <2> QED
      BY Zenon, <2>3, <2>4
  <1>4. CASE breaker'.state = breaker.state
    <2>1. outstanding' = outstanding \ {c}
      BY Zenon, <1>1, <1>4
    <2>2. breaker'.generation = breaker.generation
      BY <1>0, <1>1, <1>4, CompleteFacts, CompleteClosedFacts, CompleteHalfOpenFacts
    <2>3. PermitsTracked'
      BY <1>1, <1>2, <1>4, <2>1, <2>2 DEF IInv, PermitsTracked
    <2>4. CASE c \notin outstanding
      <3>1. breaker' = breaker
        BY Zenon, <1>0, <1>1, <2>4, CompleteFacts DEF IInv, PermitsTracked
      <3>2. outstanding' = outstanding
        BY Zenon, <2>1, <2>4
      <3> QED
        BY Zenon, <2>3, <3>1, <3>2 DEF IInv, ProbeSlots
    <2>5. CASE c \in outstanding
      <3>1. permit[c].generation = breaker.generation /\ permit[c].state = breaker.state
        BY Zenon, <2>5 DEF IInv, PermitsTracked
      <3>2. Cardinality(outstanding') = Cardinality(outstanding) - 1
        BY Zenon, <2>1, <2>5, OutstandingFinite, FS_RemoveElement DEF IInv
      <3>3. Cardinality(outstanding) \in Nat /\ Cardinality(outstanding) # 0
        BY Zenon, <2>5, OutstandingFinite, FS_EmptySet DEF IInv
      <3>4. CASE breaker.state = "half_open"
        <4>1. breaker'.halfOpenActive =
                IF breaker.halfOpenActive > 0 THEN breaker.halfOpenActive - 1 ELSE 0
          BY <1>0, <1>1, <1>4, <3>1, <3>4, CompleteFacts, CompleteHalfOpenFacts
        <4> QED
          BY <1>4, <2>3, <3>2, <3>3, <3>4, <4>1, BreakerOptions DEF IInv, ProbeSlots
      <3>5. CASE breaker.state # "half_open"
        <4>1. breaker'.halfOpenActive = breaker.halfOpenActive
          BY <1>0, <1>1, <1>4, <3>5, CompleteFacts, CompleteClosedFacts
        <4> QED
          BY Zenon, <1>4, <2>3, <3>5, <4>1 DEF IInv, ProbeSlots
      <3> QED
        BY Zenon, <3>4, <3>5
    <2> QED
      BY Zenon, <2>4, <2>5
  <1> QED
    BY Zenon, <1>3, <1>4

-----------------------------------------------------------------------------
\* The invariant is inductive.
LEMMA Inductive == Spec => []IInv
  <1>1. Init => IInv
    <2> SUFFICES ASSUME Init, TypeOK PROVE PermitsTracked /\ ProbeSlots
      BY Zenon, TypeCorrectInit DEF IInv
    <2>1. \A c \in Callers : permit[c].done /\ permit[c].generation = 0
                             /\ permit[c].state = "closed"
      <3> DEFINE p == [permitOf(New) EXCEPT !.done = TRUE]
      <3>1. p.done /\ p.generation = 0 /\ p.state = "closed"
        BY Zenon DEF permitOf, New
      <3>2. permit = [c \in Callers |-> p]
        BY Zenon DEF Init
      <3> HIDE DEF p
      <3> QED
        BY Zenon, <3>1, <3>2
    <2>2. breaker.generation = 0 /\ breaker.state = "closed" /\ breaker.halfOpenActive = 0
      BY Zenon DEF Init, New
    <2>3. outstanding = {}
      BY Zenon DEF Init
    <2> QED
      BY <2>1, <2>2, <2>3, BreakerOptions DEF PermitsTracked, ProbeSlots
  <1>2. IInv /\ TypeOK' /\ [Next]_vars => IInv'
    <2> SUFFICES ASSUME IInv, TypeOK', [Next]_vars PROVE PermitsTracked' /\ ProbeSlots'
      BY Zenon DEF IInv
    <2>1. ASSUME NEW c \in Callers, Allow(c) PROVE PermitsTracked' /\ ProbeSlots'
      <3>1. CASE Admitted(c)
        BY Zenon, <2>1, <3>1, AdmittedKeeps DEF Allow
      <3>2. CASE Refused(c)
        BY Zenon, <3>2, AdvanceKeeps DEF Refused
      <3> QED
        BY Zenon, <2>1, <3>1, <3>2 DEF Allow
    <2>2. ASSUME NEW c \in Callers, NEW outcome \in Outcomes, Done(c, outcome)
          PROVE  PermitsTracked' /\ ProbeSlots'
      BY Zenon, <2>2, DoneKeeps
    <2>3. CASE Observe
      BY Zenon, <2>3, AdvanceKeeps DEF Observe
    <2>4. CASE Tick
      <3>1. /\ breaker'.state = breaker.state
            /\ breaker'.generation = breaker.generation
            /\ breaker'.halfOpenActive = breaker.halfOpenActive
        BY Zenon, <2>4 DEF Tick, elapse, IInv, TypeOK, BreakerType
      <3> QED
        BY Zenon, <2>4, <3>1 DEF Tick, IInv, PermitsTracked, ProbeSlots
    <2>5. CASE UNCHANGED vars
      BY Zenon, <2>5 DEF vars, IInv, PermitsTracked, ProbeSlots
    <2> QED
      BY Zenon, <2>1, <2>2, <2>3, <2>4, <2>5 DEF Next
  <1> QED
    BY <1>1, <1>2, TypeCorrect, PTL DEF Spec

\* In every reachable state halfOpenActive counts exactly the open probes of
\* this HALF_OPEN period, and there are at most HalfOpenMaxRequests of them
\* (Allow and complete in breaker.go).
THEOREM ProbeLimit == Spec => []ProbeSlots
  BY Inductive, PTL DEF IInv

\* An outcome that is reported after the breaker has changed state leaves the
\* breaker alone, for any number of callers and any delay (complete's
\* generation check in breaker.go).
THEOREM LateOutcomes == Spec => LateOutcomesDropped
  <1> DEFINE Dropped == \A c \in Callers :
                 ~permit[c].done /\ permit'[c].done /\ c \notin outstanding
                    => breaker' = breaker
  <1>1. IInv /\ [Next]_vars => [Dropped]_vars
    <2> SUFFICES ASSUME IInv, Next, NEW c \in Callers, ~permit[c].done,
                        permit'[c].done, c \notin outstanding
                 PROVE  breaker' = breaker
      BY Zenon
    <2>1. permit[c].generation # breaker.generation
      BY Zenon DEF IInv, PermitsTracked
    <2>2. ASSUME NEW d \in Callers, Allow(d) PROVE breaker' = breaker
      <3>1. permit'[c] = permit[c]
        <4>1. c # d
          BY Zenon, <2>2 DEF Allow
        <4> QED
          BY Zenon, <2>2, <4>1 DEF Allow, Admitted, Refused, IInv, TypeOK
      <3> QED
        BY Zenon, <3>1
    <2>3. ASSUME NEW d \in Callers, NEW outcome \in Outcomes, Done(d, outcome)
          PROVE  breaker' = breaker
      <3>1. d = c
        BY Zenon, <2>3 DEF Done, IInv, TypeOK
      <3> QED
        BY <2>1, <2>3, <3>1, CompleteFacts DEF Done, IInv, TypeOK, WellFormed
    <2>4. CASE Observe \/ Tick
      BY Zenon, <2>4 DEF Observe, Tick
    <2> QED
      BY Zenon, <2>2, <2>3, <2>4 DEF Next
  <1> QED
    BY <1>1, Inductive, PTL DEF Spec, LateOutcomesDropped
-----------------------------------------------------------------------------
(* Breaker implements Circuit: one lemma per kind of step.                 *)

\* The instance counts with the same Cardinality.
LEMMA SameCardinality == \A S : Promise!Cardinality(S) = Cardinality(S)
  BY Zenon DEF Promise!Cardinality, Cardinality

\* Advancing the breaker is a stutter, or the circuit becomes half open.
LEMMA AdvanceRefines ==
    ASSUME IInv, breaker' = advanceLocked(breaker), Forget(outstanding)
    PROVE  [Promise!Next]_(Promise!vars)
  <1>1. CASE breaker' = breaker
    BY Zenon, <1>1 DEF Forget, Promise!vars
  <1>2. CASE breaker' # breaker
    <2>1. /\ breaker.state = "open" /\ breaker.openFor = OpenTimeout
          /\ breaker'.state = "half_open" /\ breaker'.halfOpenPassed = 0
      BY Zenon, <1>2, AdvanceFacts DEF IInv, TypeOK, WellFormed
    <2>2. outstanding' = {}
      BY Zenon, <2>1 DEF Forget
    <2>3. Promise!HalfOpen
      BY Zenon, <2>1, <2>2 DEF Promise!HalfOpen, Promise!Become
    <2> QED
      BY Zenon, <2>3 DEF Promise!Next
  <1> QED
    BY Zenon, <1>1, <1>2

\* Allow with room lets the caller in, as a probe if the circuit was open.
LEMMA AdmittedRefines ==
    ASSUME IInv, NEW c \in Callers, permit[c].done, Admitted(c)
    PROVE  Promise!Next
  <1> DEFINE b == advanceLocked(breaker)
  <1>1. /\ WellFormed(b)
        /\ \/ b = breaker
           \/ /\ breaker.state = "open" /\ breaker.openFor = OpenTimeout
              /\ b.state = "half_open" /\ b.halfOpenPassed = 0
    BY Zenon, AdvanceFacts DEF IInv, TypeOK, WellFormed
  <1>2. /\ available(b) /\ breaker' = admit(b)
        /\ outstanding' = {c} \union (IF b.state # breaker.state THEN {} ELSE outstanding)
    BY Zenon DEF Admitted
  <1>3. /\ breaker'.state = b.state /\ breaker'.openFor = b.openFor
        /\ breaker'.halfOpenPassed = b.halfOpenPassed
    BY Zenon, <1>1, <1>2 DEF admit, WellFormed, BreakerType
  <1> HIDE DEF b
  <1>4. CASE b = breaker
    <2>1. c \notin outstanding /\ outstanding' = outstanding \union {c}
      BY Zenon, <1>2, <1>4 DEF IInv, PermitsTracked
    <2>2. \/ breaker.state = "closed"
          \/ breaker.state = "half_open" /\ Cardinality(outstanding) < HalfOpenMaxRequests
      <3>1. available(breaker) /\ ProbeSlots
        BY Zenon, <1>2, <1>4 DEF IInv
      <3> QED
        BY Zenon, <3>1 DEF available, ProbeSlots
    <2>3. Promise!Enter(c)
      <3>1. /\ breaker'.state = breaker.state /\ breaker'.openFor = breaker.openFor
            /\ breaker'.halfOpenPassed = breaker.halfOpenPassed
        BY Zenon, <1>3, <1>4
      <3> QED
        BY Zenon, <2>1, <2>2, <3>1, SameCardinality DEF Promise!Enter
    <2> QED
      BY Zenon, <2>3 DEF Promise!Next
  <1>5. CASE b # breaker
    <2>1. outstanding' = {c}
      BY Zenon, <1>1, <1>2, <1>5
    <2>2. Promise!Probe(c)
      BY Zenon, <1>1, <1>3, <1>5, <2>1 DEF Promise!Probe, Promise!Become
    <2> QED
      BY Zenon, <2>2 DEF Promise!Next
  <1> QED
    BY Zenon, <1>4, <1>5

\* The outcome of a call that does not count is a stutter; the outcome of one
\* that counts makes it leave, opens the circuit or closes it.
LEMMA DoneRefines ==
    ASSUME IInv, NEW c \in Callers, NEW outcome \in Outcomes, Done(c, outcome)
    PROVE  [Promise!Next]_(Promise!vars)
  <1>1. /\ WellFormed(breaker)
        /\ ~permit[c].done
        /\ breaker' = complete(breaker, permit[c], outcome)
        /\ outstanding' = IF breaker'.state # breaker.state THEN {} ELSE outstanding \ {c}
    BY Zenon DEF Done, Forget, IInv, TypeOK, WellFormed
  <1>2. CASE c \notin outstanding
    <2>1. breaker' = breaker
      BY Zenon, <1>1, <1>2, CompleteFacts DEF IInv, PermitsTracked
    <2>2. outstanding' = outstanding
      BY Zenon, <1>1, <1>2, <2>1
    <2> QED
      BY Zenon, <2>1, <2>2 DEF Promise!vars
  <1>3. CASE c \in outstanding /\ breaker' = breaker
    <2>1. Promise!Leave(c)
      BY Zenon, <1>1, <1>3 DEF Promise!Leave
    <2> QED
      BY Zenon, <2>1 DEF Promise!Next
  <1>4. CASE c \in outstanding /\ breaker.state = "closed" /\ breaker' # breaker
    <2>1. breaker' = completeClosed(breaker, outcome)
      BY Zenon, <1>1, <1>4, CompleteFacts
    <2>2. CASE breaker'.state = "closed" /\ breaker'.halfOpenPassed = breaker.halfOpenPassed
      <3>1. Promise!Leave(c)
        BY Zenon, <1>1, <1>4, <2>2 DEF Promise!Leave
      <3> QED
        BY Zenon, <3>1 DEF Promise!Next
    <2>3. CASE /\ breaker'.state = "open" /\ breaker'.halfOpenPassed = 0
               /\ breaker'.openFor = 0
      <3>1. Promise!Trip(c)
        BY Zenon, <1>1, <1>4, <2>3, BreakerOptions DEF Promise!Trip, Promise!Become
      <3> QED
        BY Zenon, <3>1 DEF Promise!Next
    <2> QED
      BY <1>1, <1>4, <2>1, <2>2, <2>3, CompleteClosedFacts
  <1>5. CASE c \in outstanding /\ breaker.state = "half_open" /\ breaker' # breaker
    <2>1. breaker' = completeHalfOpen(breaker, outcome)
      BY Zenon, <1>1, <1>5, CompleteFacts
    <2>2. CASE /\ breaker'.state = "half_open"
               /\ \/ breaker'.halfOpenPassed = breaker.halfOpenPassed
                  \/ /\ breaker.halfOpenPassed + 1 < HalfOpenMaxRequests
                     /\ breaker'.halfOpenPassed = breaker.halfOpenPassed + 1
      <3>1. Promise!Leave(c)
        BY Zenon, <1>1, <1>5, <2>2 DEF Promise!Leave
      <3> QED
        BY Zenon, <3>1 DEF Promise!Next
    <2>3. CASE /\ breaker'.state = "open" /\ breaker'.openFor = 0
               /\ breaker'.halfOpenPassed = 0
      <3>1. Promise!Trip(c)
        BY Zenon, <1>1, <1>5, <2>3, BreakerOptions DEF Promise!Trip, Promise!Become
      <3> QED
        BY Zenon, <3>1 DEF Promise!Next
    <2>4. CASE /\ breaker'.state = "closed" /\ breaker'.halfOpenPassed = 0
               /\ breaker.halfOpenPassed + 1 >= HalfOpenMaxRequests
      <3>1. Promise!Recover(c)
        BY Zenon, <1>1, <1>5, <2>4 DEF Promise!Recover, Promise!Become
      <3> QED
        BY Zenon, <3>1 DEF Promise!Next
    <2> QED
      BY Zenon, <1>1, <1>5, <2>1, <2>2, <2>3, <2>4, CompleteHalfOpenFacts
  <1> QED
    BY Zenon, <1>1, <1>2, <1>3, <1>4, <1>5, CompleteFacts

\* A tick cools an open circuit or changes nothing the circuit shows.
LEMMA TickRefines ==
    ASSUME IInv, Tick
    PROVE  [Promise!Next]_(Promise!vars)
  <1>1. CASE breaker.state = "open" /\ breaker.openFor < OpenTimeout
    <2>1. /\ breaker'.state = "open" /\ breaker'.halfOpenPassed = breaker.halfOpenPassed
          /\ breaker'.openFor = breaker.openFor + 1 /\ outstanding' = outstanding
          /\ breaker.openFor \in Nat
      BY <1>1, BreakerOptions DEF Tick, elapse, IInv, TypeOK, BreakerType
    <2>2. CASE breaker'.openFor = OpenTimeout
      <3>1. Promise!Cool
        BY Zenon, <1>1, <2>1, <2>2 DEF Promise!Cool
      <3> QED
        BY Zenon, <3>1 DEF Promise!Next
    <2>3. CASE breaker'.openFor # OpenTimeout
      BY <1>1, <2>1, <2>3, BreakerOptions DEF Promise!vars
    <2> QED
      BY Zenon, <2>2, <2>3
  <1>2. CASE ~(breaker.state = "open" /\ breaker.openFor < OpenTimeout)
    BY Zenon, <1>2 DEF Tick, elapse, Promise!vars
  <1> QED
    BY Zenon, <1>1, <1>2

\* The breaker of breaker.go keeps every promise of module Circuit, for any
\* number of callers, any options and any delay between a permit and its Done.
THEOREM BreakerImplementsCircuit == Spec => ImplementsCircuit
  <1>1. Init => Promise!Init
    BY DEF Init, New, Promise!Init
  <1>2. IInv /\ [Next]_vars => [Promise!Next]_(Promise!vars)
    <2> SUFFICES ASSUME IInv, [Next]_vars PROVE [Promise!Next]_(Promise!vars)
      BY Zenon
    <2>1. ASSUME NEW c \in Callers, Allow(c) PROVE [Promise!Next]_(Promise!vars)
      BY Zenon, <2>1, AdmittedRefines, AdvanceRefines DEF Allow, Refused
    <2>2. ASSUME NEW c \in Callers, NEW outcome \in Outcomes, Done(c, outcome)
          PROVE  [Promise!Next]_(Promise!vars)
      BY Zenon, <2>2, DoneRefines
    <2>3. CASE Observe
      BY Zenon, <2>3, AdvanceRefines DEF Observe
    <2>4. CASE Tick
      BY Zenon, <2>4, TickRefines
    <2>5. CASE UNCHANGED vars
      BY Zenon, <2>5 DEF vars, Promise!vars
    <2> QED
      BY Zenon, <2>1, <2>2, <2>3, <2>4, <2>5 DEF Next
  <1> QED
    BY <1>1, <1>2, Inductive, PTL DEF Spec, ImplementsCircuit, Promise!Spec

-----------------------------------------------------------------------------
(* The sliding window.                                                     *)

\* The positions of the failures among the outcomes s.
Misses(s) == {i \in 1..Len(s) : ~s[i]}

\* The failures in a history of outcomes are finitely many, so they have a
\* count.
LEMMA MissesFinite ==
    ASSUME NEW s \in Seq(BOOLEAN)
    PROVE  /\ Misses(s) \subseteq 1..Len(s) /\ IsFiniteSet(Misses(s))
           /\ Cardinality(Misses(s)) \in Nat
  <1>1. Misses(s) \in SUBSET (1..Len(s)) /\ IsFiniteSet(1..Len(s))
    BY FS_Interval DEF Misses
  <1> QED
    BY Zenon, <1>1, FS_Subset, FS_CardinalityType

\* One more outcome adds its miss.
LEMMA MissesAppend ==
    ASSUME NEW s \in Seq(BOOLEAN), NEW x \in BOOLEAN
    PROVE  Cardinality(Misses(Append(s, x))) = Cardinality(Misses(s)) + Miss(x)
  <1> DEFINE n == Len(s) + 1
  <1>0. n \in Nat /\ n \notin Misses(s)
    BY DEF Misses
  <1>a. /\ Len(Append(s, x)) = n /\ Append(s, x)[n] = x
        /\ \A i \in 1..Len(s) : Append(s, x)[i] = s[i]
        /\ 1..n = 1..Len(s) \union {n}
    OBVIOUS
  <1>1. CASE x
    <2>1. ASSUME NEW i PROVE i \in Misses(Append(s, x)) <=> i \in Misses(s)
      BY Zenon, <1>1, <1>a DEF Misses
    <2>2. Misses(Append(s, x)) = Misses(s)
      BY Zenon, <2>1
    <2>3. Miss(x) = 0 /\ Cardinality(Misses(s)) \in Nat
      BY Zenon, <1>1, MissesFinite DEF Miss
    <2> QED
      BY <2>2, <2>3
  <1>2. CASE ~x
    <2>1. Misses(Append(s, x)) = Misses(s) \union {n}
      BY <1>2 DEF Misses
    <2> HIDE DEF n
    <2>2. Cardinality(Misses(s) \union {n}) = Cardinality(Misses(s)) + 1
      BY Zenon, <1>0, MissesFinite, FS_AddElement
    <2> QED
      BY Zenon, <1>2, <2>1, <2>2 DEF Miss
  <1> QED
    BY Zenon, <1>1, <1>2

\* Dropping the oldest outcome takes its miss away.
LEMMA MissesTail ==
    ASSUME NEW s \in Seq(BOOLEAN), s # <<>>
    PROVE  Cardinality(Misses(Tail(s))) = Cardinality(Misses(s)) - Miss(s[1])
  <1> DEFINE rest == Misses(s) \ {1}
             tail == Misses(Tail(s))
             f == [i \in tail |-> i + 1]
  <1>0. /\ Tail(s) \in Seq(BOOLEAN) /\ Len(Tail(s)) = Len(s) - 1 /\ Len(s) \in Nat
        /\ \A i \in 1..(Len(s) - 1) : Tail(s)[i] = s[i + 1]
    OBVIOUS
  <1>1. tail \subseteq 1..(Len(s) - 1) /\ \A i \in 1..(Len(s) - 1) : i \in tail <=> i + 1 \in rest
    BY <1>0 DEF Misses
  <1>2. rest \subseteq 2..Len(s)
    BY DEF Misses
  <1>3. IsFiniteSet(tail) /\ IsFiniteSet(rest)
    BY Zenon, <1>0, MissesFinite, FS_RemoveElement
  <1> HIDE DEF rest, tail
  <1>4. f \in Bijection(tail, rest)
    <2>1. f \in [tail -> rest]
      BY Zenon, <1>1
    <2>2. \A a, b \in tail : f[a] = f[b] => a = b
      BY <1>0, <1>1
    <2>3. \A y \in rest : \E a \in tail : f[a] = y
      <3> SUFFICES ASSUME NEW y \in rest PROVE \E a \in tail : f[a] = y
        BY Zenon
      <3>1. y - 1 \in tail /\ f[y - 1] = y
        BY <1>0, <1>1, <1>2
      <3> QED
        BY Zenon, <3>1
    <2> QED
      BY Zenon, <2>1, <2>2, <2>3 DEF Bijection, Injection, Surjection, IsInjective
  <1>5. Cardinality(rest) = Cardinality(tail)
    <2>1. ExistsBijection(tail, rest)
      BY Zenon, <1>4 DEF ExistsBijection
    <2> QED
      BY Zenon, <1>3, <2>1, FS_Bijection
  <1>6. Cardinality(rest) = Cardinality(Misses(s)) - Miss(s[1])
    <2>1. 1 \in Misses(s) <=> ~s[1]
      BY <1>0 DEF Misses
    <2>2. Cardinality(rest) = IF 1 \in Misses(s) THEN Cardinality(Misses(s)) - 1
                              ELSE Cardinality(Misses(s))
      BY Zenon, MissesFinite, FS_RemoveElement DEF rest
    <2> QED
      BY <2>1, <2>2, MissesFinite DEF Miss
  <1> QED
    BY Zenon, <1>5, <1>6 DEF tail

\* What the ring of b must be for the outcomes s: s, starting at next.
Window(b, s) ==
    LET n == Len(b.outcomes)
    IN  /\ Len(s) = n
        /\ n < WindowSize => b.next = 0
        /\ \A i \in 1..n : s[i] = b.outcomes[((b.next + i - 1) % n) + 1]
        /\ b.failures = Cardinality(Misses(s))

\* Arithmetic of the ring index.
LEMMA RingIndex ==
    ASSUME NEW n \in Nat \ {0}, NEW a \in 0..(n - 1)
    PROVE  a % n = a /\ (a + n) % n = a
  OBVIOUS

\* Modular arithmetic of the ring: after the cursor moves on one slot, the
\* i-th oldest is the old (i+1)-th, and only the newest sits where the cursor
\* was.
LEMMA RingStep ==
    ASSUME NEW n \in Nat \ {0}, NEW a \in 0..(n - 1), NEW i \in 1..n
    PROVE  /\ (((a + 1) % n) + i - 1) % n = (a + i) % n
           /\ (a + i) % n \in 0..(n - 1)
           /\ (a + i) % n = a <=> i = n
  OBVIOUS

\* recordLocked slides the window by one outcome.
LEMMA RecordSlides ==
    ASSUME NEW b, WellFormed(b), NEW s \in Seq(BOOLEAN), Window(b, s), NEW x \in BOOLEAN
    PROVE  Window(recordLocked(b, x), LastOutcomes(Append(s, x)))
  <1> DEFINE n == Len(b.outcomes)
             t == Append(s, x)
             r == recordLocked(b, x)
             gained == Miss(x)
             lost == Miss(b.outcomes[b.next + 1])
  <1>1. /\ b.outcomes \in Seq(BOOLEAN) /\ n \in Nat /\ b.failures \in Int
        /\ b.next \in 0..(WindowSize - 1) /\ n <= WindowSize
        /\ WindowSize \in Nat \ {0}
    BY BreakerOptions DEF WellFormed, BreakerType
  <1>2. /\ Len(s) = n /\ b.failures = Cardinality(Misses(s))
        /\ n < WindowSize => b.next = 0
        /\ \A i \in 1..n : s[i] = b.outcomes[((b.next + i - 1) % n) + 1]
    BY Zenon DEF Window
  <1>3. /\ t \in Seq(BOOLEAN) /\ Len(t) = n + 1 /\ t[n + 1] = x
        /\ \A i \in 1..n : t[i] = s[i]
    BY <1>2
  <1>4. Cardinality(Misses(t)) = b.failures + gained /\ gained \in Int /\ lost \in Int
    BY <1>2, MissesAppend DEF Miss
  <1>5. CASE n < WindowSize
    <2>1. r.outcomes = Append(b.outcomes, x) /\ r.failures = b.failures + gained /\ r.next = 0
      BY Zenon, <1>2, <1>5 DEF recordLocked, WellFormed, BreakerType
    <2>2. LastOutcomes(t) = t
      BY <1>1, <1>3, <1>5 DEF LastOutcomes
    <2>3. /\ Len(r.outcomes) = n + 1 /\ r.outcomes[n + 1] = x
          /\ \A i \in 1..n : r.outcomes[i] = b.outcomes[i]
      BY <1>1, <2>1
    <2> HIDE DEF t, r, n, gained, lost
    <2>4. ASSUME NEW i \in 1..(n + 1)
          PROVE  t[i] = r.outcomes[((r.next + i - 1) % (n + 1)) + 1]
      <3>1. ((r.next + i - 1) % (n + 1)) + 1 = i
        <4>1. i - 1 \in 0..((n + 1) - 1) /\ n + 1 \in Nat \ {0}
          BY <1>1
        <4>2. (i - 1) % (n + 1) = i - 1
          BY Zenon, <4>1, RingIndex
        <4>3. r.next + i - 1 = i - 1 /\ i \in Int
          BY <2>1
        <4> QED
          BY <4>2, <4>3
      <3>2. CASE i = n + 1
        BY Zenon, <1>3, <2>3, <3>1, <3>2
      <3>3. CASE i # n + 1
        <4>1. i \in 1..n /\ i - 1 \in 0..(n - 1) /\ n \in Nat \ {0}
          BY <1>1, <3>3
        <4>2. (i - 1) % n = i - 1
          BY Zenon, <4>1, RingIndex
        <4>3. ((b.next + i - 1) % n) + 1 = i
          BY <1>2, <1>5, <4>1, <4>2
        <4>4. s[i] = b.outcomes[i]
          BY Zenon, <1>2, <4>1, <4>3
        <4> QED
          BY Zenon, <1>3, <2>3, <3>1, <4>1, <4>4
      <3> QED
        BY Zenon, <3>2, <3>3
    <2> QED
      BY Zenon, <1>1, <1>3, <1>4, <2>1, <2>2, <2>3, <2>4 DEF Window, t, r
  <1>6. CASE ~(n < WindowSize)
    <2>1. n = WindowSize /\ n \in Nat \ {0} /\ b.next \in 0..(n - 1)
      BY <1>1, <1>6
    <2>2. /\ r.outcomes = [b.outcomes EXCEPT ![b.next + 1] = x]
          /\ r.failures = b.failures - lost + gained
          /\ r.next = (b.next + 1) % n
      BY Zenon, <1>6, <2>1 DEF recordLocked, WellFormed, BreakerType
    <2>3. /\ Len(r.outcomes) = n /\ r.outcomes[b.next + 1] = x
          /\ \A k \in 1..n : k # b.next + 1 => r.outcomes[k] = b.outcomes[k]
      BY <1>1, <2>1, <2>2
    <2> HIDE DEF t, r, n, gained, lost
    <2>4. /\ LastOutcomes(t) = Tail(t) /\ t # <<>> /\ t[1] = s[1] /\ Len(Tail(t)) = n
          /\ \A i \in 1..n : Tail(t)[i] = t[i + 1]
      BY <1>1, <1>3, <2>1 DEF LastOutcomes
    <2>5. s[1] = b.outcomes[b.next + 1]
      <3>1. 1 \in 1..n /\ b.next + 1 - 1 = b.next /\ b.next % n = b.next
        BY <2>1, RingIndex
      <3> QED
        BY Zenon, <1>2, <3>1
    <2>6. Cardinality(Misses(Tail(t))) = r.failures
      <3>1. Cardinality(Misses(Tail(t))) = Cardinality(Misses(t)) - Miss(t[1])
        BY Zenon, <1>3, <2>4, MissesTail
      <3>2. Miss(t[1]) = lost
        BY Zenon, <2>4, <2>5 DEF lost
      <3> QED
        BY <1>1, <1>4, <2>2, <3>1, <3>2
    <2>7. ASSUME NEW i \in 1..n
          PROVE  Tail(t)[i] = r.outcomes[((r.next + i - 1) % n) + 1]
      <3> DEFINE j == (b.next + i) % n
      <3>1. (r.next + i - 1) % n = j /\ j \in 0..(n - 1) /\ (j = b.next <=> i = n)
        <4>1. /\ (((b.next + 1) % n) + i - 1) % n = (b.next + i) % n
              /\ (b.next + i) % n \in 0..(n - 1)
              /\ (b.next + i) % n = b.next <=> i = n
          <5>1. n \in Nat \ {0} /\ b.next \in 0..(n - 1) /\ i \in 1..n
            BY Zenon, <2>1
          <5> QED
            BY Zenon, <5>1, RingStep
        <4> QED
          BY Zenon, <2>2, <4>1
      <3> HIDE DEF j
      <3>2. CASE i = n
        BY Zenon, <1>3, <2>3, <2>4, <3>1, <3>2
      <3>3. CASE i # n
        <4>1. i + 1 \in 1..n /\ b.next + (i + 1) - 1 = b.next + i
          BY <2>1, <3>3
        <4>2. s[i + 1] = b.outcomes[j + 1]
          BY Zenon, <1>2, <4>1 DEF j
        <4>3. r.outcomes[j + 1] = b.outcomes[j + 1]
          <5>1. j + 1 \in 1..n /\ j + 1 # b.next + 1
            BY <2>1, <3>1, <3>3
          <5> QED
            BY Zenon, <2>3, <5>1
        <4> QED
          BY Zenon, <1>3, <2>4, <3>1, <4>1, <4>2, <4>3
      <3> QED
        BY Zenon, <3>2, <3>3
    <2>8. Window(r, Tail(t))
      BY <2>1, <2>3, <2>4, <2>6, <2>7 DEF Window
    <2> QED
      BY Zenon, <2>4, <2>8 DEF t, r
  <1> QED
    BY Zenon, <1>5, <1>6

\* Only recordLocked and a transition to CLOSED touch the ring.
SameRing(b, d) == b.outcomes = d.outcomes /\ b.next = d.next /\ b.failures = d.failures

\* Whether a ring holds a history depends only on its outcomes, cursor and
\* failure count.
LEMMA WindowKept ==
    ASSUME NEW b, NEW d, NEW s, SameRing(b, d), Window(b, s)
    PROVE  Window(d, s)
  BY Zenon DEF SameRing, Window

\* Advancing the clock, admitting a call and opening the circuit leave the
\* ring of outcomes alone.
LEMMA RingKept ==
    ASSUME NEW b, WellFormed(b)
    PROVE  /\ SameRing(b, advanceLocked(b)) /\ SameRing(b, elapse(b)) /\ SameRing(b, admit(b))
           /\ SameRing(b, transitionLocked(b, "open"))
  BY Zenon DEF SameRing, advanceLocked, elapse, admit, transitionLocked, WellFormed, BreakerType

\* A reset ring holds the empty history, and an empty ring never trips.
LEMMA EmptyWindow ==
    ASSUME NEW b, b.outcomes = <<>>, b.next = 0, b.failures = 0
    PROVE  Window(b, <<>>) /\ ~Tripped(Len(b.outcomes), b.failures)
  <1>1. Len(b.outcomes) = 0 /\ Len(<<>>) = 0
    BY Zenon
  <1>2. Misses(<<>>) = {}
    BY <1>1 DEF Misses
  <1>3. Cardinality(Misses(<<>>)) = 0
    BY Zenon, <1>2, FS_EmptySet
  <1>4. ~Tripped(0, 0)
    BY BreakerOptions DEF Tripped
  <1> QED
    BY <1>1, <1>3, <1>4 DEF Window

\* A probe's outcome leaves the ring alone, or closes the breaker and empties it.
LEMMA HalfOpenRing ==
    ASSUME NEW b, WellFormed(b), NEW outcome \in Outcomes
    PROVE  LET d == completeHalfOpen(b, outcome)
           IN  \/ SameRing(b, d) /\ d.state \in {b.state, "open"}
               \/ d.state = "closed" /\ d.outcomes = <<>> /\ d.next = 0 /\ d.failures = 0
  <1> DEFINE freed == IF b.halfOpenActive > 0 THEN b.halfOpenActive - 1 ELSE 0
             passed == b.halfOpenPassed + 1
             d == completeHalfOpen(b, outcome)
  <1>1. CASE outcome = "failure"
    <2>1. d = transitionLocked(b, "open")
      BY Zenon, <1>1 DEF completeHalfOpen
    <2> QED
      BY <2>1, RingKept DEF transitionLocked
  <1>2. CASE outcome = "success" /\ passed >= HalfOpenMaxRequests
    <2>1. d = transitionLocked(b, "closed")
      <3>1. ~(passed < HalfOpenMaxRequests)
        BY <1>2, BreakerOptions DEF WellFormed, BreakerType
      <3> QED
        BY Zenon, <1>2, <3>1 DEF completeHalfOpen
    <2> QED
      BY <2>1 DEF transitionLocked
  <1>3. CASE outcome = "success" /\ passed < HalfOpenMaxRequests
    <2>1. d = [b EXCEPT !.halfOpenActive = freed, !.halfOpenPassed = passed]
      <3>1. ~(passed >= HalfOpenMaxRequests)
        BY SMTT(20), <1>3, BreakerOptions DEF WellFormed, BreakerType
      <3> QED
        BY Zenon, <1>3, <3>1 DEF completeHalfOpen
    <2> HIDE DEF freed, passed, d
    <2>2. SameRing(b, d) /\ d.state = b.state
      BY Zenon, <2>1 DEF SameRing, WellFormed, BreakerType
    <2> QED
      BY Zenon, <2>2 DEF d
  <1>4. CASE outcome = "ignored"
    <2>1. d = [b EXCEPT !.halfOpenActive = freed]
      BY Zenon, <1>4 DEF completeHalfOpen
    <2> HIDE DEF freed, d
    <2>2. SameRing(b, d) /\ d.state = b.state
      BY Zenon, <2>1 DEF SameRing, WellFormed, BreakerType
    <2> QED
      BY Zenon, <2>2 DEF d
  <1>5. passed >= HalfOpenMaxRequests \/ passed < HalfOpenMaxRequests
    BY BreakerOptions DEF WellFormed, BreakerType
  <1> QED
    BY Zenon, <1>1, <1>2, <1>3, <1>4, <1>5 DEF Outcomes

\* The ring holds the recent outcomes, and a CLOSED breaker has not tripped.
WindowInv ==
    /\ Window(breaker, recent)
    /\ breaker.state = "closed" => ~Tripped(Len(breaker.outcomes), breaker.failures)

\* A step that touches neither the ring nor the history, and does not close
\* the circuit, keeps the invariant.
LEMMA WindowFrame ==
    ASSUME WindowInv, recent' = recent, SameRing(breaker, breaker'),
           breaker'.state = "closed" => breaker.state = "closed"
    PROVE  WindowInv'
  <1>1. Window(breaker', recent)
    BY Zenon, WindowKept DEF WindowInv
  <1>2. Window(breaker, recent)'
    BY Zenon, <1>1
  <1> QED
    BY Zenon, <1>2 DEF WindowInv, SameRing

\* The outcome of a call slides the window, exactly when it counts.
LEMMA DoneWindow ==
    ASSUME IInv, WindowInv, NEW c \in Callers, NEW outcome \in Outcomes, Done(c, outcome)
    PROVE  WindowInv'
  <1> DEFINE x == outcome = "success"
             r == recordLocked(breaker, x)
  <1>1. /\ WellFormed(breaker) /\ recent \in Seq(BOOLEAN) /\ x \in BOOLEAN
        /\ breaker' = complete(breaker, permit[c], outcome)
    BY Zenon DEF IInv, TypeOK, WellFormed, Done
  <1>2. recent' = IF breaker'.state = "closed" /\ breaker.state # "closed" THEN <<>>
                  ELSE IF breaker.state = "closed" /\ c \in outstanding /\ outcome # "ignored"
                       THEN LastOutcomes(Append(recent, x)) ELSE recent
    BY Zenon DEF Done
  <1>3. CASE c \notin outstanding
    <2>1. permit[c].generation # breaker.generation
      BY Zenon, <1>3 DEF IInv, PermitsTracked, Done
    <2>2. breaker' = breaker
      BY Zenon, <1>1, <2>1, CompleteFacts
    <2>3. recent' = recent
      BY Zenon, <1>2, <1>3, <2>2
    <2> QED
      BY Zenon, <2>2, <2>3, WindowFrame DEF SameRing
  <1>4. CASE c \in outstanding /\ breaker.state = "half_open"
    <2>1. breaker' = completeHalfOpen(breaker, outcome)
      BY Zenon, <1>1, <1>4, CompleteFacts DEF IInv, PermitsTracked
    <2>2. \/ SameRing(breaker, breaker') /\ breaker'.state \in {breaker.state, "open"}
          \/ /\ breaker'.state = "closed" /\ breaker'.outcomes = <<>>
             /\ breaker'.next = 0 /\ breaker'.failures = 0
      BY Zenon, <1>1, <2>1, HalfOpenRing
    <2>3. CASE SameRing(breaker, breaker') /\ breaker'.state \in {breaker.state, "open"}
      BY Zenon, <1>2, <1>4, <2>3, WindowFrame
    <2>4. CASE /\ breaker'.state = "closed" /\ breaker'.outcomes = <<>>
               /\ breaker'.next = 0 /\ breaker'.failures = 0
      <3>1. recent' = <<>>
        BY Zenon, <1>2, <1>4, <2>4
      <3>2. Window(breaker', <<>>) /\ ~Tripped(Len(breaker'.outcomes), breaker'.failures)
        BY Zenon, <2>4, EmptyWindow
      <3> QED
        BY Zenon, <3>1, <3>2 DEF WindowInv
    <2> QED
      BY Zenon, <2>2, <2>3, <2>4
  <1>5. CASE c \in outstanding /\ breaker.state = "closed"
    <2>1. breaker' = completeClosed(breaker, outcome)
      BY Zenon, <1>1, <1>5 DEF complete, IInv, PermitsTracked
    <2>2. CASE outcome = "ignored"
      <3>1. breaker' = breaker /\ recent' = recent
        BY Zenon, <1>2, <1>5, <2>1, <2>2 DEF completeClosed
      <3> QED
        BY Zenon, <3>1, WindowFrame DEF SameRing
    <2>3. CASE outcome # "ignored"
      <3>1. Window(r, recent') /\ WellFormed(r)
        <4>1. recent' = LastOutcomes(Append(recent, x))
          BY Zenon, <1>2, <1>5, <2>3
        <4>2. Window(r, LastOutcomes(Append(recent, x))) /\ WellFormed(r)
          BY Zenon, <1>1, RecordSlides, RecordFacts DEF WindowInv
        <4> QED
          BY Zenon, <4>1, <4>2
      <3>2. breaker' = IF Tripped(Len(r.outcomes), r.failures)
                       THEN transitionLocked(r, "open") ELSE r
        BY Zenon, <2>1, <2>3 DEF completeClosed
      <3> HIDE DEF r
      <3>3. CASE Tripped(Len(r.outcomes), r.failures)
        <4>1. breaker' = transitionLocked(r, "open") /\ breaker'.state = "open"
          BY Zenon, <3>2, <3>3 DEF transitionLocked
        <4>2. Window(breaker', recent')
          BY Zenon, <3>1, <4>1, RingKept, WindowKept
        <4> QED
          BY Zenon, <4>1, <4>2 DEF WindowInv
      <3>4. CASE ~Tripped(Len(r.outcomes), r.failures)
        <4>1. breaker' = r
          BY Zenon, <3>2, <3>4
        <4> QED
          BY Zenon, <3>1, <3>4, <4>1 DEF WindowInv
      <3> QED
        BY Zenon, <3>3, <3>4
    <2> QED
      BY Zenon, <2>2, <2>3
  <1>6. CASE c \in outstanding /\ breaker.state = "open"
    <2>1. breaker' = breaker
      BY Zenon, <1>1, <1>6, CompleteFacts
    <2>2. recent' = recent
      BY Zenon, <1>2, <1>6, <2>1
    <2> QED
      BY Zenon, <2>1, <2>2, WindowFrame DEF SameRing
  <1> QED
    BY Zenon, <1>1, <1>3, <1>4, <1>5, <1>6 DEF WellFormed, BreakerType, States

\* The window invariant holds in every reachable state of the breaker.
LEMMA WindowInductive == Spec => []WindowInv
  <1>1. Init => WindowInv
    <2> SUFFICES ASSUME Init PROVE WindowInv
      BY Zenon
    <2>1. recent = <<>> /\ breaker.outcomes = <<>> /\ breaker.next = 0 /\ breaker.failures = 0
      BY Zenon DEF Init, New
    <2> QED
      BY Zenon, <2>1, EmptyWindow DEF WindowInv
  <1>2. IInv /\ WindowInv /\ [Next]_vars => WindowInv'
    <2> SUFFICES ASSUME IInv, WindowInv, [Next]_vars PROVE WindowInv'
      BY Zenon
    <2>0. WellFormed(breaker)
      BY Zenon DEF IInv, TypeOK, WellFormed
    <2> DEFINE b == advanceLocked(breaker)
    <2>a. /\ SameRing(breaker, b) /\ SameRing(breaker, admit(b)) /\ admit(b).state = b.state
          /\ b.state = "closed" => breaker.state = "closed"
      <3>1. /\ WellFormed(b) /\ SameRing(breaker, b)
            /\ b.state = "closed" => breaker.state = "closed"
        BY Zenon, <2>0, AdvanceFacts, RingKept
      <3> HIDE DEF b
      <3>2. SameRing(b, admit(b)) /\ admit(b).state = b.state
        BY Zenon, <3>1, RingKept, AdmitFacts
      <3> QED
        BY Zenon, <3>1, <3>2 DEF SameRing
    <2>1. ASSUME NEW c \in Callers, Allow(c) PROVE WindowInv'
      <3>1. recent' = recent /\ (breaker' = admit(b) \/ breaker' = b)
        BY Zenon, <2>1 DEF Allow, Admitted, Refused
      <3> HIDE DEF b
      <3> QED
        BY Zenon, <2>a, <3>1, WindowFrame
    <2>2. ASSUME NEW c \in Callers, NEW outcome \in Outcomes, Done(c, outcome)
          PROVE  WindowInv'
      BY Zenon, <2>2, DoneWindow
    <2>3. CASE Observe
      <3>1. recent' = recent /\ breaker' = b
        BY Zenon, <2>3 DEF Observe
      <3> HIDE DEF b
      <3> QED
        BY Zenon, <2>a, <3>1, WindowFrame
    <2>4. CASE Tick
      <3>1. recent' = recent /\ breaker' = elapse(breaker)
        BY Zenon, <2>4 DEF Tick
      <3> QED
        BY Zenon, <2>0, <3>1, RingKept, ElapseFacts, WindowFrame
    <2>5. CASE UNCHANGED vars
      BY Zenon, <2>5, WindowFrame DEF vars, SameRing
    <2> QED
      BY Zenon, <2>1, <2>2, <2>3, <2>4, <2>5 DEF Next
  <1> QED
    BY <1>1, <1>2, Inductive, PTL DEF Spec

\* recordLocked's ring buffer is the sliding window of the last outcomes that
\* count, and failures is the number of failures in it, for every window size
\* and however evictions, late outcomes and transitions interleave.
THEOREM RingIsSlidingWindow == Spec => []WindowIsRecent
  <1>1. WindowInv => WindowIsRecent
    <2> SUFFICES ASSUME WindowInv PROVE WindowIsRecent
      BY Zenon
    <2>1. Misses(recent) = {i \in 1..Len(breaker.outcomes) : ~recent[i]}
      BY Zenon DEF WindowInv, Window, Misses
    <2> QED
      BY Zenon, <2>1 DEF WindowInv, Window, WindowIsRecent
  <1> QED
    BY <1>1, WindowInductive, PTL

\* A CLOSED breaker's last outcomes are always below the failure ratio
\* (completeClosed in breaker.go), for every window size and ratio.
THEOREM ClosedIsBelowRatio == Spec => []ClosedBelowRatio
  <1>1. TypeOK /\ WindowInv => ClosedBelowRatio
    <2> SUFFICES ASSUME TypeOK, WindowInv, breaker.state = "closed"
                 PROVE  ~Tripped(Len(recent), Cardinality({i \in DOMAIN recent : ~recent[i]}))
      BY Zenon DEF ClosedBelowRatio
    <2>1. Misses(recent) = {i \in DOMAIN recent : ~recent[i]}
      BY DEF TypeOK, Misses
    <2> QED
      BY Zenon, <2>1 DEF WindowInv, Window
  <1> QED
    BY <1>1, TypeCorrect, WindowInductive, PTL
=============================================================================
