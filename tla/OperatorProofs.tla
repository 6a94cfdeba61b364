---------------------------- MODULE OperatorProofs ----------------------------
(***************************************************************************)
(* What the operators of the models return, for every value of their       *)
(* arguments: the methods of breaker.go for every choice of the options,   *)
(* sums over finite sets, and the arithmetic of a smooth weighted round    *)
(* robin selection.  The proofs about Breaker, Governance and Router rest  *)
(* on these lemmas.                                                        *)
(***************************************************************************)
EXTENDS CircuitBreaker, Functions, FiniteSetTheorems, TLAPS

\* A breaker value whose ring buffer is in bounds.
WellFormed(b) ==
    /\ b \in BreakerType
    /\ b.next \in 0..(WindowSize - 1)
    /\ Len(b.outcomes) <= WindowSize

-----------------------------------------------------------------------------
(* What the methods of the breaker return.                                 *)

\* transitionLocked starts a new generation without probes.
LEMMA TransitionFacts ==
    ASSUME NEW b, WellFormed(b), NEW s \in States
    PROVE  /\ WellFormed(transitionLocked(b, s))
           /\ transitionLocked(b, s).state = s
           /\ transitionLocked(b, s).generation = b.generation + 1
           /\ transitionLocked(b, s).halfOpenActive = 0
           /\ transitionLocked(b, s).halfOpenPassed = 0
           /\ s = "open" => transitionLocked(b, s).openFor = 0
  <1>1. CASE s = "closed"
    <2>1. <<>> \in Seq(BOOLEAN) /\ Len(<<>>) = 0
      OBVIOUS
    <2> QED
      BY <1>1, <2>1, BreakerOptions DEF WellFormed, BreakerType, transitionLocked
  <1>2. CASE s # "closed"
    BY <1>2, BreakerOptions DEF WellFormed, BreakerType, transitionLocked
  <1> QED
    BY Zenon, <1>1, <1>2

\* advanceLocked either changes nothing or opens a HALF_OPEN generation.
LEMMA AdvanceFacts ==
    ASSUME NEW b, WellFormed(b)
    PROVE  /\ WellFormed(advanceLocked(b))
           /\ \/ advanceLocked(b) = b
              \/ /\ b.state = "open" /\ b.openFor = OpenTimeout
                 /\ advanceLocked(b).state = "half_open"
                 /\ advanceLocked(b).generation = b.generation + 1
                 /\ advanceLocked(b).halfOpenActive = 0
                 /\ advanceLocked(b).halfOpenPassed = 0
  <1>1. CASE b.state # "open" \/ b.openFor < OpenTimeout
    BY Zenon, <1>1 DEF advanceLocked
  <1>2. CASE ~(b.state # "open" \/ b.openFor < OpenTimeout)
    <2>1. b.openFor = OpenTimeout
      BY <1>2, BreakerOptions DEF WellFormed, BreakerType
    <2>2. advanceLocked(b) = transitionLocked(b, "half_open") /\ "half_open" \in States
      BY Zenon, <1>2 DEF advanceLocked, States
    <2> QED
      BY <1>2, <2>1, <2>2, TransitionFacts
  <1> QED
    BY Zenon, <1>1, <1>2

\* The write index of the ring stays in the ring.
LEMMA NextInRing ==
    ASSUME NEW n \in 0..(WindowSize - 1)
    PROVE  (n + 1) % WindowSize \in 0..(WindowSize - 1)
  BY BreakerOptions

\* recordLocked touches only the window, and keeps it in bounds.
LEMMA RecordFacts ==
    ASSUME NEW b, WellFormed(b), NEW success \in BOOLEAN
    PROVE  /\ WellFormed(recordLocked(b, success))
           /\ recordLocked(b, success).state = b.state
           /\ recordLocked(b, success).generation = b.generation
           /\ recordLocked(b, success).halfOpenActive = b.halfOpenActive
           /\ recordLocked(b, success).halfOpenPassed = b.halfOpenPassed
  <1>m. Miss(success) \in Int
    BY DEF Miss
  <1>1. CASE Len(b.outcomes) < WindowSize
    <2>1. Append(b.outcomes, success) \in Seq(BOOLEAN)
          /\ Len(Append(b.outcomes, success)) <= WindowSize
      BY <1>1, BreakerOptions DEF WellFormed, BreakerType
    <2>2. recordLocked(b, success) =
            [b EXCEPT !.outcomes = Append(b.outcomes, success),
                      !.failures = b.failures + Miss(success)]
      BY Zenon, <1>1 DEF recordLocked, WellFormed, BreakerType
    <2> DEFINE o == Append(b.outcomes, success)
               f == b.failures + Miss(success)
    <2>3. o \in Seq(BOOLEAN) /\ Len(o) <= WindowSize /\ f \in Int
      BY <1>m, <2>1 DEF WellFormed, BreakerType
    <2>4. recordLocked(b, success) = [b EXCEPT !.outcomes = o, !.failures = f]
      BY Zenon, <2>2
    <2> HIDE DEF o, f
    <2> QED
      BY Zenon, <2>3, <2>4 DEF WellFormed, BreakerType
  <1>2. CASE ~(Len(b.outcomes) < WindowSize)
    <2>1. Len(b.outcomes) = WindowSize /\ b.next + 1 \in 1..Len(b.outcomes)
      BY <1>2, BreakerOptions DEF WellFormed, BreakerType
    <2> DEFINE o == [b.outcomes EXCEPT ![b.next + 1] = success]
               f == b.failures - Miss(b.outcomes[b.next + 1]) + Miss(success)
               n == (b.next + 1) % WindowSize
    <2>2. n \in 0..(WindowSize - 1)
      BY Zenon, NextInRing DEF WellFormed
    <2>3. o \in Seq(BOOLEAN) /\ Len(o) = WindowSize
      BY <2>1 DEF WellFormed, BreakerType
    <2>4. recordLocked(b, success) =
            [b EXCEPT !.outcomes = o, !.failures = f, !.next = n]
      BY Zenon, <1>2 DEF recordLocked, WellFormed, BreakerType
    <2>5. Miss(b.outcomes[b.next + 1]) \in Int
      BY DEF Miss
    <2>6. f \in Int
      BY <1>m, <2>5 DEF WellFormed, BreakerType
    <2> HIDE DEF o, f, n
    <2>7. n \in Nat /\ Len(o) <= WindowSize
      BY <2>2, <2>3, BreakerOptions
    <2> DEFINE r == [b EXCEPT !.outcomes = o, !.failures = f, !.next = n]
    <2>8. r.next = n /\ r.outcomes = o /\ r.state = b.state
          /\ r.generation = b.generation /\ r.halfOpenActive = b.halfOpenActive
          /\ r.halfOpenPassed = b.halfOpenPassed
      BY Zenon DEF WellFormed, BreakerType
    <2>9. r \in BreakerType
      BY Zenon, <2>3, <2>6, <2>7 DEF WellFormed, BreakerType
    <2> HIDE DEF r
    <2> QED
      BY Zenon, <2>2, <2>4, <2>7, <2>8, <2>9 DEF WellFormed, r
  <1> QED
    BY Zenon, <1>1, <1>2

\* A CLOSED breaker that takes an outcome stays in its generation or opens.
LEMMA CompleteClosedFacts ==
    ASSUME NEW b, WellFormed(b), b.state = "closed", NEW outcome \in Outcomes
    PROVE  /\ WellFormed(completeClosed(b, outcome))
           /\ \/ /\ completeClosed(b, outcome).state = "closed"
                 /\ completeClosed(b, outcome).generation = b.generation
                 /\ completeClosed(b, outcome).halfOpenActive = b.halfOpenActive
                 /\ completeClosed(b, outcome).halfOpenPassed = b.halfOpenPassed
              \/ /\ completeClosed(b, outcome).state = "open"
                 /\ completeClosed(b, outcome).generation = b.generation + 1
                 /\ completeClosed(b, outcome).halfOpenActive = 0
                 /\ completeClosed(b, outcome).halfOpenPassed = 0
                 /\ completeClosed(b, outcome).openFor = 0
  <1> DEFINE r == recordLocked(b, outcome = "success")
  <1>1. /\ WellFormed(r)
        /\ r.state = b.state
        /\ r.generation = b.generation
        /\ r.halfOpenActive = b.halfOpenActive
        /\ r.halfOpenPassed = b.halfOpenPassed
    BY Zenon, RecordFacts
  <1>2. /\ WellFormed(transitionLocked(r, "open"))
        /\ transitionLocked(r, "open").state = "open"
        /\ transitionLocked(r, "open").generation = r.generation + 1
        /\ transitionLocked(r, "open").halfOpenActive = 0
        /\ transitionLocked(r, "open").halfOpenPassed = 0
        /\ transitionLocked(r, "open").openFor = 0
    BY Zenon, <1>1, TransitionFacts DEF States
  <1>3. completeClosed(b, outcome) \in {b, r, transitionLocked(r, "open")}
    BY Zenon DEF completeClosed
  <1> HIDE DEF r
  <1> QED
    BY Zenon, <1>1, <1>2, <1>3

\* A HALF_OPEN breaker that takes the outcome of a probe frees the probe's slot
\* and stays in its generation, or leaves HALF_OPEN.
LEMMA CompleteHalfOpenFacts ==
    ASSUME NEW b, WellFormed(b), b.state = "half_open", NEW outcome \in Outcomes
    PROVE  /\ WellFormed(completeHalfOpen(b, outcome))
           /\ \/ /\ completeHalfOpen(b, outcome).state = "half_open"
                 /\ completeHalfOpen(b, outcome).generation = b.generation
                 /\ completeHalfOpen(b, outcome).halfOpenActive =
                        IF b.halfOpenActive > 0 THEN b.halfOpenActive - 1 ELSE 0
                 /\ \/ completeHalfOpen(b, outcome).halfOpenPassed = b.halfOpenPassed
                    \/ /\ b.halfOpenPassed + 1 < HalfOpenMaxRequests
                       /\ completeHalfOpen(b, outcome).halfOpenPassed = b.halfOpenPassed + 1
              \/ /\ \/ /\ completeHalfOpen(b, outcome).state = "open"
                       /\ completeHalfOpen(b, outcome).openFor = 0
                    \/ /\ completeHalfOpen(b, outcome).state = "closed"
                       /\ b.halfOpenPassed + 1 >= HalfOpenMaxRequests
                 /\ completeHalfOpen(b, outcome).generation = b.generation + 1
                 /\ completeHalfOpen(b, outcome).halfOpenActive = 0
                 /\ completeHalfOpen(b, outcome).halfOpenPassed = 0
  <1> DEFINE freed == IF b.halfOpenActive > 0 THEN b.halfOpenActive - 1 ELSE 0
             passed == b.halfOpenPassed + 1
             r == [b EXCEPT !.halfOpenActive = freed, !.halfOpenPassed = passed]
             q == [b EXCEPT !.halfOpenActive = freed]
  <1>0. freed \in Nat /\ passed \in Nat
    BY DEF WellFormed, BreakerType
  <1>1. \A s \in {"open", "closed"} :
            /\ WellFormed(transitionLocked(b, s))
            /\ transitionLocked(b, s).state = s
            /\ transitionLocked(b, s).generation = b.generation + 1
            /\ transitionLocked(b, s).halfOpenActive = 0
            /\ transitionLocked(b, s).halfOpenPassed = 0
            /\ s = "open" => transitionLocked(b, s).openFor = 0
    BY TransitionFacts DEF States
  <1>2. \/ completeHalfOpen(b, outcome) \in {transitionLocked(b, "open"), q}
        \/ completeHalfOpen(b, outcome) = r /\ passed < HalfOpenMaxRequests
        \/ /\ completeHalfOpen(b, outcome) = transitionLocked(b, "closed")
           /\ passed >= HalfOpenMaxRequests
    <2>1. CASE outcome = "failure"
      BY Zenon, <2>1 DEF completeHalfOpen
    <2>2. CASE outcome = "success" /\ passed >= HalfOpenMaxRequests
      BY <2>2 DEF completeHalfOpen
    <2>3. CASE outcome = "success" /\ ~(passed >= HalfOpenMaxRequests)
      BY <2>3, <1>0, BreakerOptions DEF completeHalfOpen
    <2>4. CASE outcome = "ignored"
      BY Zenon, <2>4 DEF completeHalfOpen
    <2> QED
      BY Zenon, <2>1, <2>2, <2>3, <2>4 DEF Outcomes
  <1> HIDE DEF freed, passed
  <1>3. /\ WellFormed(r) /\ r.state = b.state
        /\ r.generation = b.generation /\ r.halfOpenActive = freed
        /\ r.halfOpenPassed = passed
    BY Zenon, <1>0 DEF WellFormed, BreakerType
  <1>4. /\ WellFormed(q) /\ q.state = b.state
        /\ q.generation = b.generation /\ q.halfOpenActive = freed
        /\ q.halfOpenPassed = b.halfOpenPassed
    BY Zenon, <1>0 DEF WellFormed, BreakerType
  <1> HIDE DEF r, q
  <1> QED
    BY Zenon, <1>1, <1>2, <1>3, <1>4 DEF freed, passed

\* complete acts only on a permit of the breaker's own generation and state.
LEMMA CompleteFacts ==
    ASSUME NEW b, WellFormed(b), NEW p, NEW outcome \in Outcomes
    PROVE  /\ WellFormed(complete(b, p, outcome))
           /\ p.generation # b.generation => complete(b, p, outcome) = b
           /\ \/ complete(b, p, outcome) = b
              \/ /\ b.state = "closed"
                 /\ complete(b, p, outcome) = completeClosed(b, outcome)
              \/ /\ b.state = "half_open"
                 /\ complete(b, p, outcome) = completeHalfOpen(b, outcome)
           /\ b.state = "half_open" /\ p.generation = b.generation /\ p.state = b.state
                => complete(b, p, outcome) = completeHalfOpen(b, outcome)
  <1>1. \/ complete(b, p, outcome) = b
        \/ /\ b.state = "closed"
           /\ complete(b, p, outcome) = completeClosed(b, outcome)
        \/ /\ b.state = "half_open"
           /\ complete(b, p, outcome) = completeHalfOpen(b, outcome)
    BY Zenon DEF complete, WellFormed, BreakerType, States
  <1>2. WellFormed(complete(b, p, outcome))
    BY Zenon, <1>1, CompleteClosedFacts, CompleteHalfOpenFacts
  <1> QED
    BY Zenon, <1>1, <1>2 DEF complete

\* A tick touches nothing but the time since the breaker opened.
LEMMA ElapseFacts ==
    ASSUME NEW b, WellFormed(b)
    PROVE  /\ WellFormed(elapse(b))
           /\ elapse(b).state = b.state
           /\ elapse(b).generation = b.generation
           /\ elapse(b).halfOpenActive = b.halfOpenActive
  <1>1. CASE b.state = "open" /\ b.openFor < OpenTimeout
    <2> DEFINE t == b.openFor + 1
    <2>1. t \in 0..OpenTimeout
      BY <1>1, BreakerOptions DEF WellFormed, BreakerType
    <2>2. elapse(b) = [b EXCEPT !.openFor = t]
      BY Zenon, <1>1 DEF elapse
    <2> HIDE DEF t
    <2> QED
      BY Zenon, <2>1, <2>2 DEF WellFormed, BreakerType
  <1>2. CASE ~(b.state = "open" /\ b.openFor < OpenTimeout)
    BY Zenon, <1>2 DEF elapse
  <1> QED
    BY Zenon, <1>1, <1>2

\* A new breaker is well formed, and so is one that has issued a permit.
LEMMA NewFacts == WellFormed(New) /\ New.state = "closed" /\ New.generation = 0
  <1>1. <<>> \in Seq(BOOLEAN) /\ Len(<<>>) = 0
    OBVIOUS
  <1> QED
    BY <1>1, BreakerOptions DEF WellFormed, BreakerType, New, States

\* Admitting a call changes neither state nor generation, and in half_open
\* counts one more probe.
LEMMA AdmitFacts ==
    ASSUME NEW b, WellFormed(b)
    PROVE  /\ WellFormed(admit(b))
           /\ admit(b).state = b.state
           /\ admit(b).generation = b.generation
           /\ b.state = "half_open" => admit(b).halfOpenActive = b.halfOpenActive + 1
           /\ permitOf(b) \in PermitType
           /\ permitOf(b).state = b.state /\ permitOf(b).generation = b.generation
  BY DEF admit, permitOf, PermitType, WellFormed, BreakerType

-----------------------------------------------------------------------------
(* Sums over finite sets.                                                  *)

\* A family of subsets of a finite set has a minimal member.  The library's
\* induction theorems take a predicate; this is their first-order substitute.
LEMMA SetMin ==
    ASSUME NEW S, IsFiniteSet(S), NEW T \in SUBSET (SUBSET S), T # {}
    PROVE  \E x \in T : \A y \in T : y \subseteq x => y = x
  <1>1. IsWellFoundedOn(StrictSubsetOrdering(S), FiniteSubsetsOf(S))
    BY Zenon, FS_StrictSubsetOrderingWellFounded
  <1>2. T \subseteq FiniteSubsetsOf(S)
    BY Zenon, FS_FiniteSubsetsOfFinite
  <1>3. PICK x \in T : \A y \in T : ~ (<<y, x>> \in StrictSubsetOrdering(S))
    BY Zenon, <1>1, <1>2, WFMin
  <1> QED
    BY Zenon, <1>3 DEF StrictSubsetOrdering

\* Induction on finite sets, for a property given as the set of sets it holds of.
LEMMA SetInduction ==
    ASSUME NEW S, IsFiniteSet(S), NEW G \in SUBSET (SUBSET S),
           {} \in G, \A A \in G : \A x \in S \ A : A \union {x} \in G
    PROVE  \A A \in SUBSET S : A \in G
  <1> SUFFICES ASSUME NEW A \in SUBSET S, A \notin G PROVE FALSE
    BY Zenon
  <1> DEFINE T == (SUBSET S) \ G
  <1>1. T \in SUBSET (SUBSET S) /\ T # {}
    BY Zenon
  <1> HIDE DEF T
  <1>2. PICK B \in T : \A y \in T : y \subseteq B => y = B
    BY <1>1, SetMin
  <1>3. B \in SUBSET S /\ B \notin G /\ B # {}
    BY Zenon DEF T
  <1>4. PICK x \in B : TRUE
    BY Zenon, <1>3
  <1>5. B \ {x} \in G
    BY <1>2, <1>3 DEF T
  <1>6. (B \ {x}) \union {x} = B /\ x \in S \ (B \ {x})
    BY Zenon, <1>3
  <1> QED
    BY Zenon, <1>3, <1>5, <1>6

\* Induction on the natural numbers, in the same form.
LEMMA NatInduct ==
    ASSUME NEW G \in SUBSET Nat, 0 \in G, \A n \in G : n + 1 \in G
    PROVE  \A n \in Nat : n \in G
  <1> SUFFICES ASSUME NEW n \in Nat, n \notin G PROVE FALSE
    BY Zenon
  <1> DEFINE S == 0..n
             T == {0..k : k \in S \ G}
  <1>1. IsFiniteSet(S)
    BY FS_Interval
  <1>2. T \in SUBSET (SUBSET S) /\ T # {}
    OBVIOUS
  <1> HIDE DEF S, T
  <1>3. PICK x \in T : \A y \in T : y \subseteq x => y = x
    BY <1>1, <1>2, SetMin
  <1>4. PICK k \in S \ G : x = 0..k
    BY Zenon DEF T
  <1>5. k \in Nat /\ k # 0 /\ k - 1 \in S \ G
    BY DEF S
  <1>6. (0..(k-1)) \in T
    BY Zenon, <1>5 DEF T
  <1>7. (0..(k-1)) \subseteq x /\ k \in x /\ k \notin 0..(k-1)
    BY <1>4, <1>5
  <1> QED
    BY Zenon, <1>3, <1>6, <1>7

\* One level of the recursion behind SumFunctionOnSet.
Level(f, g, s) ==
      IF s = {} THEN 0
      ELSE f[CHOOSE x \in s : TRUE] + g[s \ {CHOOSE x \in s : TRUE}]

\* SumFunctionOnSet is the recursive function that Folds defines with CHOOSE.
LEMMA SumUnfold ==
    ASSUME NEW f, NEW A
    PROVE  SumFunctionOnSet(f, A)
             = (CHOOSE g : g = [s \in SUBSET A |-> Level(f, g, s)])[A]
    BY Zenon DEF SumFunctionOnSet, FoldFunctionOnSet, MapThenFoldSet, Level

\* That recursive function exists: it is built up by cardinality.
LEMMA SumExists ==
    ASSUME NEW S, IsFiniteSet(S), NEW f \in [S -> Int]
    PROVE  \E g \in [SUBSET S -> Int] : \A s \in SUBSET S : g[s] = Level(f, g, s)
  <1> DEFINE P(n) == \E g \in [SUBSET S -> Int] :
                        \A s \in SUBSET S : Cardinality(s) <= n => g[s] = Level(f, g, s)
  <1> DEFINE G == {n \in Nat : P(n)}
  <1>0. \A s \in SUBSET S : IsFiniteSet(s) /\ Cardinality(s) \in Nat
                            /\ Cardinality(s) <= Cardinality(S)
    BY Zenon, FS_Subset, FS_CardinalityType
  <1>1. P(0)
    <2> DEFINE g == [s \in SUBSET S |-> 0]
    <2>1. g \in [SUBSET S -> Int]
      OBVIOUS
    <2>2. \A s \in SUBSET S : Cardinality(s) <= 0 => s = {}
      BY <1>0, FS_EmptySet
    <2>3. \A s \in SUBSET S : Cardinality(s) <= 0 => g[s] = Level(f, g, s)
      BY Zenon, <2>2 DEF Level
    <2> QED
      BY Zenon, <2>1, <2>3
  <1>2. ASSUME NEW n \in Nat, P(n) PROVE P(n + 1)
    <2>1. PICK g \in [SUBSET S -> Int] :
               \A s \in SUBSET S : Cardinality(s) <= n => g[s] = Level(f, g, s)
      BY Zenon, <1>2
    <2> DEFINE h == [s \in SUBSET S |-> IF Cardinality(s) <= n THEN g[s] ELSE Level(f, g, s)]
    <2>2. \A s \in SUBSET S : Level(f, g, s) \in Int
      BY DEF Level
    <2>3. h \in [SUBSET S -> Int]
      BY Zenon, <2>2
    <2>4. ASSUME NEW s \in SUBSET S, Cardinality(s) <= n + 1
          PROVE  h[s] = Level(f, h, s)
      <3>1. h[s] = Level(f, g, s)
        BY Zenon, <2>1
      <3>2. CASE s = {}
        BY Zenon, <3>1, <3>2 DEF Level
      <3>3. CASE s # {}
        <4> DEFINE c == CHOOSE x \in s : TRUE
        <4>1. c \in s /\ s \ {c} \in SUBSET S
          BY Zenon, <3>3
        <4> HIDE DEF c
        <4>2. Cardinality(s \ {c}) = Cardinality(s) - 1
          BY Zenon, <4>1, <1>0, FS_RemoveElement
        <4>3. Cardinality(s \ {c}) <= n
          BY <4>2, <2>4, <1>0
        <4>4. h[s \ {c}] = g[s \ {c}]
          BY Zenon, <4>3, <4>1
        <4> QED
          BY Zenon, <3>1, <4>4, <3>3 DEF Level, c
      <3> QED
        BY Zenon, <3>2, <3>3
    <2> HIDE DEF h
    <2> QED
      BY Zenon, <2>3, <2>4
  <1> HIDE DEF P
  <1>3. \A n \in Nat : n \in G
    <2>1. G \in SUBSET Nat /\ 0 \in G /\ \A n \in G : n + 1 \in G
      BY <1>1, <1>2
    <2> HIDE DEF G
    <2> QED
      BY Zenon, <2>1, NatInduct
  <1>4. P(Cardinality(S))
    BY Zenon, <1>3, FS_CardinalityType
  <1> QED
    BY Zenon, <1>4, <1>0 DEF P

\* It is unique, so SumFunctionOnSet is the value of any function that satisfies
\* the recursion.
LEMMA SumValue ==
    ASSUME NEW S, IsFiniteSet(S), NEW f, NEW g,
           \A s \in SUBSET S : g[s] = Level(f, g, s),
           NEW A \in SUBSET S
    PROVE  SumFunctionOnSet(f, A) = g[A]
  <1> DEFINE h == CHOOSE h : h = [s \in SUBSET A |-> Level(f, h, s)]
  <1> DEFINE k == [s \in SUBSET A |-> g[s]]
  <1>1. k = [s \in SUBSET A |-> Level(f, k, s)]
    <2>1. ASSUME NEW s \in SUBSET A PROVE k[s] = Level(f, k, s)
      <3>1. g[s] = Level(f, g, s)
        BY Zenon
      <3>2. CASE s = {}
        BY Zenon, <3>1, <3>2 DEF Level
      <3>3. CASE s # {}
        <4>1. s \ {CHOOSE x \in s : TRUE} \in SUBSET A
          BY Zenon
        <4> QED
          BY Zenon, <3>1, <3>3, <4>1 DEF Level
      <3> QED
        BY Zenon, <3>2, <3>3
    <2> HIDE DEF k
    <2> QED
      BY Zenon, <2>1 DEF k
  <1>2. h = [s \in SUBSET A |-> Level(f, h, s)]
    <2> HIDE DEF k
    <2> QED
      BY Zenon, <1>1
  <1> HIDE DEF h
  <1>3. \A s \in SUBSET A : h[s] = Level(f, h, s)
    BY Zenon, <1>2
  <1>4. \A s \in SUBSET A : h[s] = g[s]
    <2> SUFFICES ASSUME NEW s \in SUBSET A, h[s] # g[s] PROVE FALSE
      BY Zenon
    <2> DEFINE T == {t \in SUBSET A : h[t] # g[t]}
    <2>1. T \in SUBSET (SUBSET A) /\ T # {}
      BY Zenon
    <2>2. IsFiniteSet(A)
      BY Zenon, FS_Subset
    <2> HIDE DEF T
    <2>3. PICK t \in T : \A y \in T : y \subseteq t => y = t
      BY <2>1, <2>2, SetMin
    <2>4. t \in SUBSET A /\ h[t] # g[t]
      BY Zenon DEF T
    <2>5. h[t] = Level(f, h, t) /\ g[t] = Level(f, g, t)
      BY Zenon, <1>3, <2>4
    <2>6. t # {}
      BY Zenon, <2>4, <2>5 DEF Level
    <2> DEFINE c == CHOOSE x \in t : TRUE
    <2>7. c \in t
      BY Zenon, <2>6
    <2>8. h[t] = f[c] + h[t \ {c}] /\ g[t] = f[c] + g[t \ {c}]
      BY Zenon, <2>5, <2>6 DEF Level
    <2> HIDE DEF c
    <2>9. h[t \ {c}] = g[t \ {c}]
      BY Zenon, <2>3, <2>4, <2>7 DEF T
    <2> QED
      BY Zenon, <2>4, <2>8, <2>9
  <1>5. SumFunctionOnSet(f, A) = h[A]
    BY Zenon, SumUnfold DEF h
  <1> QED
    BY Zenon, <1>4, <1>5

\* What every other fact about sums rests on: any element may be taken out first.
LEMMA SumFacts ==
    ASSUME NEW S, IsFiniteSet(S), NEW f \in [S -> Int]
    PROVE  /\ SumFunctionOnSet(f, {}) = 0
           /\ \A A \in SUBSET S :
                /\ SumFunctionOnSet(f, A) \in Int
                /\ \A x \in A : SumFunctionOnSet(f, A) = f[x] + SumFunctionOnSet(f, A \ {x})
  <1>1. PICK g \in [SUBSET S -> Int] : \A s \in SUBSET S : g[s] = Level(f, g, s)
    BY Zenon, SumExists
  <1>2. \A A \in SUBSET S : SumFunctionOnSet(f, A) = g[A]
    BY <1>1, SumValue
  <1>3. g[{}] = 0
    BY Zenon, <1>1 DEF Level
  <1>4. \A A \in SUBSET S : \A x \in A : g[A] = f[x] + g[A \ {x}]
    <2> DEFINE T == {B \in SUBSET S : ~ \A x \in B : g[B] = f[x] + g[B \ {x}]}
    <2> SUFFICES ASSUME T # {} PROVE FALSE
      BY Zenon
    <2>1. T \in SUBSET (SUBSET S)
      BY Zenon
    <2> HIDE DEF T
    <2>2. PICK B \in T : \A y \in T : y \subseteq B => y = B
      BY <2>1, SetMin
    <2>3. PICK x \in B : B \in SUBSET S /\ g[B] # f[x] + g[B \ {x}]
      BY Zenon DEF T
    <2> DEFINE c == CHOOSE y \in B : TRUE
    <2>4. c \in B /\ g[B] = f[c] + g[B \ {c}]
      BY Zenon, <1>1, <2>3 DEF Level
    <2> HIDE DEF c
    <2>5. c # x
      BY Zenon, <2>3, <2>4
    <2>6. /\ B \ {c} \in SUBSET S /\ B \ {c} \notin T /\ x \in B \ {c}
          /\ B \ {x} \in SUBSET S /\ B \ {x} \notin T /\ c \in B \ {x}
      BY Zenon, <2>2, <2>3, <2>4, <2>5
    <2>7. g[B \ {c}] = f[x] + g[(B \ {c}) \ {x}] /\ g[B \ {x}] = f[c] + g[(B \ {x}) \ {c}]
      BY Zenon, <2>6 DEF T
    <2>8. (B \ {c}) \ {x} = (B \ {x}) \ {c} /\ (B \ {x}) \ {c} \in SUBSET S
      BY Zenon, <2>3
    <2> DEFINE r == g[(B \ {x}) \ {c}]
    <2>9. r \in Int /\ f[x] \in Int /\ f[c] \in Int
      BY Zenon, <2>3, <2>4, <2>8
    <2>10. g[B] = f[c] + (f[x] + r) /\ g[B \ {x}] = f[c] + r
      BY Zenon, <2>4, <2>7, <2>8
    <2> HIDE DEF r
    <2>11. g[B] = f[x] + g[B \ {x}]
      BY <2>9, <2>10
    <2> QED
      BY Zenon, <2>3, <2>11
  <1> QED
    BY Zenon, <1>2, <1>3, <1>4

\* A set grows by one element.
LEMMA SumAdd ==
    ASSUME NEW S, IsFiniteSet(S), NEW f \in [S -> Int], NEW A \in SUBSET S, NEW x \in S \ A
    PROVE  /\ f[x] \in Int /\ SumFunctionOnSet(f, A) \in Int
           /\ SumFunctionOnSet(f, A \union {x}) = f[x] + SumFunctionOnSet(f, A)
  <1>1. A \union {x} \in SUBSET S /\ x \in A \union {x} /\ (A \union {x}) \ {x} = A
    BY Zenon
  <1> QED
    BY <1>1, SumFacts

\* The sum depends only on the values in the set.
LEMMA SumSame ==
    ASSUME NEW S, IsFiniteSet(S), NEW f \in [S -> Int], NEW g \in [S -> Int],
           NEW A \in SUBSET S, \A x \in A : f[x] = g[x]
    PROVE  SumFunctionOnSet(f, A) = SumFunctionOnSet(g, A)
  <1> DEFINE G == {B \in SUBSET A : SumFunctionOnSet(f, B) = SumFunctionOnSet(g, B)}
  <1>1. G \in SUBSET (SUBSET A) /\ {} \in G
    BY Zenon, SumFacts
  <1>2. ASSUME NEW B \in G, NEW x \in A \ B PROVE B \union {x} \in G
    <2>1. B \in SUBSET S /\ x \in S \ B
      BY Zenon
    <2>2. /\ SumFunctionOnSet(f, B \union {x}) = f[x] + SumFunctionOnSet(f, B)
          /\ SumFunctionOnSet(g, B \union {x}) = g[x] + SumFunctionOnSet(g, B)
      BY <2>1, SumAdd
    <2> QED
      BY Zenon, <2>2
  <1>3. IsFiniteSet(A)
    BY Zenon, FS_Subset
  <1> HIDE DEF G
  <1>4. A \in G
    BY Zenon, <1>1, <1>2, <1>3, SetInduction
  <1> QED
    BY Zenon, <1>4 DEF G

\* The sum over two disjoint parts.
LEMMA SumSplit ==
    ASSUME NEW S, IsFiniteSet(S), NEW f \in [S -> Int],
           NEW A \in SUBSET S, NEW D \in SUBSET A
    PROVE  SumFunctionOnSet(f, A) = SumFunctionOnSet(f, A \ D) + SumFunctionOnSet(f, D)
  <1> DEFINE G == {B \in SUBSET D : SumFunctionOnSet(f, A)
                      = SumFunctionOnSet(f, A \ B) + SumFunctionOnSet(f, B)}
  <1>1. G \in SUBSET (SUBSET D) /\ {} \in G
    <2>1. A \ {} = A
      BY Zenon
    <2> QED
      BY <2>1, SumFacts
  <1>2. ASSUME NEW B \in G, NEW x \in D \ B PROVE B \union {x} \in G
    <2> DEFINE C == A \ (B \union {x})
    <2>1. B \in SUBSET S /\ x \in S \ B /\ C \in SUBSET S /\ x \in S \ C /\ A \ B = C \union {x}
      BY Zenon
    <2>2. SumFunctionOnSet(f, A) = SumFunctionOnSet(f, A \ B) + SumFunctionOnSet(f, B)
      BY Zenon
    <2> HIDE DEF C, G
    <2>3. /\ SumFunctionOnSet(f, B \union {x}) = f[x] + SumFunctionOnSet(f, B)
          /\ SumFunctionOnSet(f, B) \in Int /\ f[x] \in Int
      BY <2>1, SumAdd
    <2>4. SumFunctionOnSet(f, C \union {x}) = f[x] + SumFunctionOnSet(f, C)
          /\ SumFunctionOnSet(f, C) \in Int
      BY <2>1, SumAdd
    <2>5. SumFunctionOnSet(f, A) = (f[x] + SumFunctionOnSet(f, C)) + SumFunctionOnSet(f, B)
      BY Zenon, <2>1, <2>2, <2>4
    <2>6. SumFunctionOnSet(f, A) = SumFunctionOnSet(f, C) + SumFunctionOnSet(f, B \union {x})
      BY <2>3, <2>4, <2>5
    <2> QED
      BY Zenon, <2>6 DEF C, G
  <1>3. IsFiniteSet(D)
    BY Zenon, FS_Subset
  <1> HIDE DEF G
  <1>4. D \in G
    BY Zenon, <1>1, <1>2, <1>3, SetInduction
  <1> QED
    BY Zenon, <1>4 DEF G

\* One value changes.
LEMMA SumExcept ==
    ASSUME NEW S, IsFiniteSet(S), NEW f \in [S -> Int], NEW A \in SUBSET S,
           NEW x \in S, NEW g \in [S -> Int], \A y \in S \ {x} : f[y] = g[y]
    PROVE  SumFunctionOnSet(g, A) = IF x \in A THEN SumFunctionOnSet(f, A) - f[x] + g[x]
                                    ELSE SumFunctionOnSet(f, A)
  <1>1. f[x] \in Int /\ g[x] \in Int /\ \A y \in A \ {x} : f[y] = g[y]
    BY Zenon
  <1>2. A \ {x} \in SUBSET S
    BY Zenon
  <1>3. SumFunctionOnSet(f, A \ {x}) = SumFunctionOnSet(g, A \ {x})
    BY <1>1, <1>2, SumSame
  <1>4. CASE x \in A
    <2>1. SumFunctionOnSet(f, A) = f[x] + SumFunctionOnSet(f, A \ {x})
      BY <1>4, SumFacts
    <2>2. SumFunctionOnSet(g, A) = g[x] + SumFunctionOnSet(g, A \ {x})
      BY <1>4, SumFacts
    <2>3. SumFunctionOnSet(f, A \ {x}) \in Int
      BY Zenon, <1>2, SumFacts
    <2> QED
      BY <1>1, <1>3, <1>4, <2>1, <2>2, <2>3
  <1>5. CASE x \notin A
    <2>1. A \ {x} = A
      BY Zenon, <1>5
    <2> QED
      BY Zenon, <1>3, <1>5, <2>1
  <1> QED
    BY Zenon, <1>4, <1>5

\* Smaller values, smaller sum.
LEMMA SumMonotone ==
    ASSUME NEW S, IsFiniteSet(S), NEW f \in [S -> Int], NEW g \in [S -> Int],
           NEW A \in SUBSET S, \A x \in A : f[x] <= g[x]
    PROVE  SumFunctionOnSet(f, A) <= SumFunctionOnSet(g, A)
  <1> DEFINE G == {B \in SUBSET A : SumFunctionOnSet(f, B) <= SumFunctionOnSet(g, B)}
  <1>1. G \in SUBSET (SUBSET A) /\ {} \in G
    BY SumFacts
  <1>2. ASSUME NEW B \in G, NEW x \in A \ B PROVE B \union {x} \in G
    <2>1. B \in SUBSET S /\ x \in S \ B
      BY Zenon
    <2>2. /\ SumFunctionOnSet(f, B \union {x}) = f[x] + SumFunctionOnSet(f, B)
          /\ SumFunctionOnSet(g, B \union {x}) = g[x] + SumFunctionOnSet(g, B)
          /\ SumFunctionOnSet(f, B) \in Int /\ SumFunctionOnSet(g, B) \in Int
          /\ f[x] \in Int /\ g[x] \in Int
      BY <2>1, SumAdd
    <2> QED
      BY <2>2
  <1>3. IsFiniteSet(A)
    BY Zenon, FS_Subset
  <1> HIDE DEF G
  <1>4. A \in G
    BY Zenon, <1>1, <1>2, <1>3, SetInduction
  <1> QED
    BY Zenon, <1>4 DEF G

\* Every value is at most v.
LEMMA SumBound ==
    ASSUME NEW S, IsFiniteSet(S), NEW f \in [S -> Int], NEW v \in Int,
           NEW A \in SUBSET S, \A x \in A : f[x] <= v
    PROVE  SumFunctionOnSet(f, A) <= Cardinality(A) * v
  <1> DEFINE G == {B \in SUBSET A : SumFunctionOnSet(f, B) <= Cardinality(B) * v}
  <1>1. G \in SUBSET (SUBSET A) /\ {} \in G
    BY SumFacts, FS_EmptySet
  <1>2. ASSUME NEW B \in G, NEW x \in A \ B PROVE B \union {x} \in G
    <2>1. B \in SUBSET S /\ x \in S \ B
      BY Zenon
    <2>2. SumFunctionOnSet(f, B \union {x}) = f[x] + SumFunctionOnSet(f, B)
      BY <2>1, SumAdd
    <2>3. SumFunctionOnSet(f, B) \in Int /\ f[x] \in Int
      BY Zenon, <2>1, SumAdd
    <2>4. Cardinality(B) \in Nat /\ Cardinality(B \union {x}) = Cardinality(B) + 1
      BY Zenon, <2>1, FS_Subset, FS_AddElement, FS_CardinalityType
    <2>5. (Cardinality(B) + 1) * v = Cardinality(B) * v + v /\ Cardinality(B) * v \in Int
      BY SMTT(20), <2>4
    <2> HIDE DEF G
    <2>6. SumFunctionOnSet(f, B) <= Cardinality(B) * v
      BY Zenon DEF G
    <2>7. SumFunctionOnSet(f, B \union {x}) <= Cardinality(B \union {x}) * v
      BY <2>2, <2>3, <2>4, <2>5, <2>6
    <2> QED
      BY Zenon, <2>7 DEF G
  <1>3. IsFiniteSet(A)
    BY Zenon, FS_Subset
  <1> HIDE DEF G
  <1>4. A \in G
    BY Zenon, <1>1, <1>2, <1>3, SetInduction
  <1> QED
    BY Zenon, <1>4 DEF G

\* Cancelling a positive factor.
LEMMA MulLe ==
    ASSUME NEW x \in Int, NEW y \in Int, NEW m \in Nat \ {0}, m * x <= m * y
    PROVE  x <= y
  <1> SUFFICES ASSUME x >= y + 1 PROVE FALSE
    OBVIOUS
  <1>1. m * x >= m * (y + 1)
    OBVIOUS
  <1>2. m * (y + 1) = m * y + m
    OBVIOUS
  <1> QED
    BY <1>1, <1>2

\* The identity behind the bound of SettledSelection.
LEMMA Parabola ==
    ASSUME NEW M \in Nat, NEW n \in Nat, NEW k \in Nat, NEW j \in Nat
    PROVE  M * ((k - j) * (n - (k - j))) + j * (M * ((k + 1) * (n - (k + 1))) + (j * M + M))
             = (1 + j) * (M * (k * (n - k)))
    OBVIOUS

\* The arithmetic of SettledSelection: x is bounded by a mean of two points of the
\* parabola, and of itself.
LEMMA MeanBound ==
    ASSUME NEW M \in Nat, NEW n \in Nat, NEW k \in Nat, NEW j \in Nat, NEW x \in Int,
           x <= M * ((k - j) * (n - (k - j))) + j * ((M * ((k + 1) * (n - (k + 1))) - x) + (j * M + M))
    PROVE  x <= M * (k * (n - k))
  <1> DEFINE e == M * ((k + 1) * (n - (k + 1)))
             d == M * ((k - j) * (n - (k - j)))
             h == M * (k * (n - k))
             p == j * M + M
  <1>1. d + j * (e + p) = (1 + j) * h
    BY Parabola
  <1>2. e \in Int /\ d \in Int /\ h \in Int /\ p \in Int
    OBVIOUS
  <1>3. x <= d + j * ((e - x) + p)
    BY Zenon
  <1> HIDE DEF e, d, h, p
  <1>4. j * ((e - x) + p) = j * (e + p) - j * x
    BY <1>2
  <1>5. (1 + j) * x = x + j * x
    OBVIOUS
  <1>7. (1 + j) * x <= (1 + j) * h
    <2>1. j * (e + p) \in Int /\ j * x \in Int /\ (1 + j) * h \in Int
      BY <1>2
    <2> QED
      BY <1>1, <1>2, <1>3, <1>4, <1>5, <2>1
  <1> QED
    BY <1>2, <1>7, MulLe DEF h

-----------------------------------------------------------------------------
(* Smooth weighted round robin (selectWeighted of router.go) over a finite *)
(* set S of targets with weights w and current weights b.  A bound on      *)
(* every single current weight is not inductive: the candidates of the     *)
(* next selection are arbitrary.  What is inductive is a bound on the sum  *)
(* of the current weights of every set A of targets, the heaviest weight   *)
(* times the number of pairs of a target in A and one outside A.           *)

Settled(S, b, w) ==
    /\ b \in [S -> Int]
    /\ SumFunctionOnSet(b, S) = 0
    /\ \A M \in Nat : (\A t \in S : w[t] <= M) =>
         \A A \in SUBSET S :
            SumFunctionOnSet(b, A) <= M * (Cardinality(A) * (Cardinality(S) - Cardinality(A)))

\* The current weights after the candidates C have gained their weights.
Gained(S, b, w, C) == [t \in S |-> IF t \in C THEN b[t] + w[t] ELSE b[t]]

\* The parts of a finite set are finite and no larger than it.
LEMMA FiniteParts ==
    ASSUME NEW S, IsFiniteSet(S)
    PROVE  /\ Cardinality(S) \in Nat
           /\ \A A \in SUBSET S :
                IsFiniteSet(A) /\ Cardinality(A) \in Nat /\ Cardinality(A) <= Cardinality(S)
  BY Zenon, FS_Subset, FS_CardinalityType

\* A sum of values that are not negative is not negative.
LEMMA SumNonNegative ==
    ASSUME NEW S, IsFiniteSet(S), NEW f \in [S -> Int], NEW A \in SUBSET S,
           \A t \in A : f[t] >= 0
    PROVE  SumFunctionOnSet(f, A) >= 0
  <1> DEFINE G == {B \in SUBSET A : SumFunctionOnSet(f, B) >= 0}
  <1>1. G \in SUBSET (SUBSET A) /\ {} \in G
    BY SumFacts, FiniteParts
  <1>2. ASSUME NEW B \in G, NEW x \in A \ B PROVE B \union {x} \in G
    <2>1. B \in SUBSET S /\ x \in S \ B
      BY Zenon
    <2>2. /\ SumFunctionOnSet(f, B \union {x}) = f[x] + SumFunctionOnSet(f, B)
          /\ SumFunctionOnSet(f, B) \in Int /\ f[x] \in Int
      BY <2>1, SumAdd, FiniteParts
    <2> QED
      BY <2>2
  <1>3. IsFiniteSet(A)
    BY Zenon, FiniteParts
  <1> HIDE DEF G
  <1>4. A \in G
    BY Zenon, <1>1, <1>2, <1>3, SetInduction
  <1> QED
    BY Zenon, <1>4 DEF G

\* What the candidates gain is added to the sum over any set of targets.
LEMMA SumGained ==
    ASSUME NEW S, IsFiniteSet(S), NEW b \in [S -> Int], NEW w \in [S -> Nat],
           NEW C \in SUBSET S, NEW A \in SUBSET S
    PROVE  SumFunctionOnSet(Gained(S, b, w, C), A)
             = SumFunctionOnSet(b, A) + SumFunctionOnSet(w, A \intersect C)
  <1> DEFINE c == Gained(S, b, w, C)
             G == {B \in SUBSET A : SumFunctionOnSet(c, B)
                      = SumFunctionOnSet(b, B) + SumFunctionOnSet(w, B \intersect C)}
  <1>0. /\ c \in [S -> Int] /\ w \in [S -> Int]
        /\ \A t \in S : c[t] = IF t \in C THEN b[t] + w[t] ELSE b[t]
    BY DEF Gained
  <1> HIDE DEF c
  <1>1. G \in SUBSET (SUBSET A) /\ {} \in G
    <2>1. {} \intersect C = {}
      BY Zenon
    <2> QED
      BY <1>0, <2>1, SumFacts, FiniteParts
  <1>2. ASSUME NEW B \in G, NEW x \in A \ B PROVE B \union {x} \in G
    <2> DEFINE D == B \intersect C
    <2>1. B \in SUBSET S /\ x \in S \ B /\ D \in SUBSET S /\ x \in S \ D
      BY Zenon
    <2>2. SumFunctionOnSet(c, B) = SumFunctionOnSet(b, B) + SumFunctionOnSet(w, D)
      BY Zenon
    <2>3. (B \union {x}) \intersect C = IF x \in C THEN D \union {x} ELSE D
      BY Zenon
    <2> HIDE DEF D, G
    <2>4. /\ SumFunctionOnSet(c, B \union {x}) = c[x] + SumFunctionOnSet(c, B)
          /\ SumFunctionOnSet(c, B) \in Int
      BY <1>0, <2>1, SumAdd, FiniteParts
    <2>5. /\ SumFunctionOnSet(b, B \union {x}) = b[x] + SumFunctionOnSet(b, B)
          /\ SumFunctionOnSet(b, B) \in Int /\ b[x] \in Int
      BY SMTT(20), <1>0, <2>1, SumAdd, FiniteParts
    <2>6. /\ SumFunctionOnSet(w, D \union {x}) = w[x] + SumFunctionOnSet(w, D)
          /\ SumFunctionOnSet(w, D) \in Int /\ w[x] \in Int
      BY <1>0, <2>1, SumAdd, FiniteParts
    <2>7. c[x] = IF x \in C THEN b[x] + w[x] ELSE b[x]
      BY Zenon, <1>0, <2>1
    <2>8. SumFunctionOnSet(c, B \union {x}) =
            SumFunctionOnSet(b, B \union {x}) + SumFunctionOnSet(w, (B \union {x}) \intersect C)
      <3>1. CASE x \in C
        <4>1. SumFunctionOnSet(c, B \union {x})
                = (b[x] + w[x]) + (SumFunctionOnSet(b, B) + SumFunctionOnSet(w, D))
          BY Zenon, <2>2, <2>4, <2>7, <3>1
        <4>2. SumFunctionOnSet(c, B \union {x})
                = SumFunctionOnSet(b, B \union {x}) + SumFunctionOnSet(w, D \union {x})
          BY <2>5, <2>6, <4>1
        <4> QED
          BY Zenon, <2>3, <3>1, <4>2
      <3>2. CASE x \notin C
        <4>1. SumFunctionOnSet(c, B \union {x})
                = b[x] + (SumFunctionOnSet(b, B) + SumFunctionOnSet(w, D))
          BY Zenon, <2>2, <2>4, <2>7, <3>2
        <4>2. SumFunctionOnSet(c, B \union {x})
                = SumFunctionOnSet(b, B \union {x}) + SumFunctionOnSet(w, D)
          BY <2>5, <2>6, <4>1
        <4> QED
          BY Zenon, <2>3, <3>2, <4>2
      <3> QED
        BY Zenon, <3>1, <3>2
    <2> QED
      BY Zenon, <2>8 DEF G
  <1>3. IsFiniteSet(A)
    BY Zenon, FiniteParts
  <1> HIDE DEF G
  <1>4. A \in G
    BY Zenon, <1>1, <1>2, <1>3, SetInduction
  <1> QED
    BY Zenon, <1>4 DEF G, c

\* The weights of the candidates in A are part of those of all candidates.
LEMMA SumPart ==
    ASSUME NEW S, IsFiniteSet(S), NEW w \in [S -> Nat], NEW C \in SUBSET S,
           NEW D \in SUBSET C
    PROVE  /\ SumFunctionOnSet(w, D) \in Nat
           /\ SumFunctionOnSet(w, D) <= SumFunctionOnSet(w, C)
  <1>0. w \in [S -> Int] /\ D \in SUBSET S /\ C \ D \in SUBSET S
    OBVIOUS
  <1>1. SumFunctionOnSet(w, C) = SumFunctionOnSet(w, C \ D) + SumFunctionOnSet(w, D)
    BY <1>0, SumSplit, FiniteParts
  <1>2. SumFunctionOnSet(w, D) >= 0 /\ SumFunctionOnSet(w, C \ D) >= 0
    BY <1>0, SumNonNegative
  <1>3. SumFunctionOnSet(w, D) \in Int /\ SumFunctionOnSet(w, C \ D) \in Int
    BY Zenon, <1>0, SumFacts, FiniteParts
  <1> QED
    BY <1>1, <1>2, <1>3

\* A selection keeps the weights settled: of the candidates C, which have gained
\* their weights, one with the largest current weight pays for all of them.
LEMMA SettledSelection ==
    ASSUME NEW S, IsFiniteSet(S), NEW b, NEW w \in [S -> Nat], Settled(S, b, w),
           NEW C \in SUBSET S, NEW s \in C,
           \A t \in C : Gained(S, b, w, C)[t] <= Gained(S, b, w, C)[s]
    PROVE  Settled(S, [Gained(S, b, w, C) EXCEPT ![s] = @ - SumFunctionOnSet(w, C)], w)
  <1> DEFINE c == Gained(S, b, w, C)
             total == SumFunctionOnSet(w, C)
             d == [c EXCEPT ![s] = c[s] - total]
  <1>0. /\ b \in [S -> Int] /\ w \in [S -> Int] /\ s \in S
        /\ SumFunctionOnSet(b, S) = 0
    BY DEF Settled
  <1>1. c \in [S -> Int] /\ c[s] = b[s] + w[s] /\ \A t \in C : c[t] <= c[s]
    BY <1>0 DEF Gained
  <1>2. total \in Nat
    BY Zenon, SumPart
  <1>3. \A A \in SUBSET S :
            SumFunctionOnSet(c, A) = SumFunctionOnSet(b, A) + SumFunctionOnSet(w, A \intersect C)
    BY <1>0, SumGained
  <1> HIDE DEF c, total
  <1>4. d \in [S -> Int]
    BY <1>0, <1>1, <1>2
  <1>5. \A A \in SUBSET S :
            SumFunctionOnSet(d, A) = IF s \in A THEN SumFunctionOnSet(c, A) - total
                                     ELSE SumFunctionOnSet(c, A)
    <2> SUFFICES ASSUME NEW A \in SUBSET S
                 PROVE  SumFunctionOnSet(d, A) = IF s \in A THEN SumFunctionOnSet(c, A) - total
                                                 ELSE SumFunctionOnSet(c, A)
      BY Zenon
    <2>1. c[s] \in Int /\ SumFunctionOnSet(c, A) \in Int
      BY Zenon, <1>0, <1>1, SumFacts, FiniteParts
    <2>2. d[s] = c[s] - total /\ \A t \in S \ {s} : c[t] = d[t]
      BY Zenon, <1>0, <1>1
    <2> HIDE DEF d
    <2>3. SumFunctionOnSet(d, A) = IF s \in A THEN SumFunctionOnSet(c, A) - c[s] + d[s]
                                   ELSE SumFunctionOnSet(c, A)
      BY <1>0, <1>1, <1>4, <2>2, SumExcept, FiniteParts
    <2> QED
      BY <1>2, <2>1, <2>2, <2>3
  <1> HIDE DEF d
  <1>6. SumFunctionOnSet(d, S) = 0
    <2>1. S \intersect C = C /\ s \in S /\ S \in SUBSET S
      BY Zenon, <1>0
    <2>2. SumFunctionOnSet(c, S) = 0 + total
      BY Zenon, <1>0, <1>3, <2>1 DEF total
    <2> QED
      BY <1>2, <1>5, <2>1, <2>2
  <1>7. ASSUME NEW M \in Nat, \A t \in S : w[t] <= M, NEW A \in SUBSET S
        PROVE  SumFunctionOnSet(d, A) <= M * (Cardinality(A) * (Cardinality(S) - Cardinality(A)))
    <2> DEFINE D == A \intersect C
               k == Cardinality(A)
               j == Cardinality(D)
               x == SumFunctionOnSet(c, A)
               y == SumFunctionOnSet(b, A)
               z == SumFunctionOnSet(w, D)
    <2>1. D \in SUBSET S /\ D \in SUBSET A /\ D \in SUBSET C /\ A \ D \in SUBSET S
      BY Zenon
    <2>2. k \in Nat /\ j \in Nat /\ Cardinality(S) \in Nat /\ IsFiniteSet(A) /\ IsFiniteSet(D)
      BY Zenon, <2>1, FiniteParts
    <2>3. x = y + z /\ x \in Int /\ y \in Int /\ z \in Nat /\ z <= total
      <3>1. x = y + z
        BY Zenon, <1>3
      <3>2. z \in Nat /\ z <= total
        BY Zenon, <2>1, SumPart DEF total
      <3>3. x \in Int /\ y \in Int
        BY Zenon, <1>0, <1>1, SumFacts, FiniteParts
      <3> QED
        BY Zenon, <3>1, <3>2, <3>3
    <2>4. \A B \in SUBSET S :
            SumFunctionOnSet(b, B) <= M * (Cardinality(B) * (Cardinality(S) - Cardinality(B)))
      BY Zenon, <1>7 DEF Settled
    <2>5. CASE s \in A
      <3>1. SumFunctionOnSet(d, A) = x - total
        BY Zenon, <1>5, <2>5
      <3>2. y <= M * (k * (Cardinality(S) - k))
        BY Zenon, <2>4
      <3>3. M * (k * (Cardinality(S) - k)) \in Int
        BY <2>2
      <3> HIDE DEF x, y, z, k
      <3>4. x - total <= y
        BY <1>2, <2>3
      <3>5. x - total <= M * (k * (Cardinality(S) - k))
        BY <1>2, <2>3, <3>2, <3>3, <3>4
      <3> QED
        BY Zenon, <3>1, <3>5 DEF k
    <2>6. CASE s \notin A
      <3>1. SumFunctionOnSet(d, A) = x
        BY Zenon, <1>5, <2>6
      <3>2. Cardinality(A \ D) = k - j
        <4>1. A \intersect D = D
          BY Zenon
        <4> QED
          BY Zenon, <2>2, <4>1, FS_Difference
      <3>3. Cardinality(A \union {s}) = k + 1 /\ A \union {s} \in SUBSET S
        BY Zenon, <1>0, <2>2, <2>6, FS_AddElement
      <3>4. /\ SumFunctionOnSet(c, A \ D) = SumFunctionOnSet(b, A \ D)
            /\ SumFunctionOnSet(b, A \ D) \in Int
        <4>1. (A \ D) \intersect C = {}
          BY Zenon
        <4>2. SumFunctionOnSet(w, {}) = 0 /\ SumFunctionOnSet(b, A \ D) \in Int
          BY Zenon, <1>0, <2>1, SumFacts, FiniteParts
        <4>3. SumFunctionOnSet(c, A \ D) = SumFunctionOnSet(b, A \ D) + 0
          BY Zenon, <1>3, <2>1, <4>1, <4>2
        <4> QED
          BY <4>2, <4>3
      <3>5. x = SumFunctionOnSet(c, A \ D) + SumFunctionOnSet(c, D)
        BY <1>1, <2>1, SumSplit, FiniteParts
      <3>6. SumFunctionOnSet(c, D) <= j * c[s] /\ c[s] \in Int
        <4>1. c[s] \in Int
          BY Zenon, <1>0, <1>1
        <4>2. \A t \in D : c[t] <= c[s]
          BY Zenon, <1>1, <2>1
        <4> QED
          BY Zenon, <1>1, <2>1, <4>1, <4>2, SumBound, FiniteParts
      <3>7. SumFunctionOnSet(c, D) \in Int
        BY Zenon, <1>1, <2>1, SumFacts, FiniteParts
      <3>8. z <= j * M
        <4>1. \A t \in D : w[t] <= M
          BY Zenon, <1>7, <2>1
        <4> QED
          BY <1>0, <2>1, <4>1, SumBound, FiniteParts
      <3>9. SumFunctionOnSet(b, A \union {s}) = b[s] + y /\ b[s] \in Int
        BY <1>0, <2>6, SumAdd, FiniteParts
      <3> DEFINE e == M * ((k + 1) * (Cardinality(S) - (k + 1)))
                 g == M * ((k - j) * (Cardinality(S) - (k - j)))
      <3>10. b[s] + y <= e /\ SumFunctionOnSet(b, A \ D) <= g
        BY Zenon, <2>1, <2>4, <3>2, <3>3, <3>9
      <3>11. w[s] \in Nat /\ w[s] <= M
        BY Zenon, <1>0, <1>7
      <3>12. e \in Int /\ g \in Int /\ j * M \in Int
        BY <2>2
      <3> HIDE DEF x, y, z, k, j, e, g, D
      <3>13. c[s] <= (e - x) + (j * M + M)
        <4>1. c[s] = b[s] + w[s]
          BY Zenon, <1>1
        <4> QED
          BY <2>3, <3>8, <3>9, <3>10, <3>11, <3>12, <4>1
      <3>14. j * c[s] <= j * ((e - x) + (j * M + M))
        <4> DEFINE u == (e - x) + (j * M + M)
        <4>1. u \in Int /\ c[s] <= u
          BY <2>2, <2>3, <3>12, <3>13
        <4> HIDE DEF u
        <4>2. j * c[s] <= j * u
          BY <2>2, <3>6, <4>1
        <4> QED
          BY Zenon, <4>2 DEF u
      <3>15. x <= g + j * ((e - x) + (j * M + M))
        <4>1. j * c[s] \in Int /\ j * ((e - x) + (j * M + M)) \in Int
          BY <2>2, <2>3, <3>6, <3>12
        <4> QED
          BY <2>3, <3>4, <3>5, <3>6, <3>7, <3>10, <3>12, <3>14, <4>1
      <3>16. x <= M * (k * (Cardinality(S) - k))
        BY Zenon, <2>2, <2>3, <3>15, MeanBound DEF e, g
      <3> QED
        BY Zenon, <3>1, <3>16 DEF k
    <2> QED
      BY Zenon, <2>5, <2>6
  <1>8. Settled(S, d, w)
    BY Zenon, <1>4, <1>6, <1>7 DEF Settled
  <1> QED
    BY Zenon, <1>8 DEF c, d, total

\* Some target is at least as heavy as any other.
LEMMA HeaviestTarget ==
    ASSUME NEW S, IsFiniteSet(S), S # {}, NEW w \in [S -> Nat]
    PROVE  \E h \in S : \A t \in S : w[t] <= w[h]
  <1> DEFINE G == {A \in SUBSET S : A = {} \/ \E h \in A : \A t \in A : w[t] <= w[h]}
  <1>1. G \in SUBSET (SUBSET S) /\ {} \in G
    BY Zenon
  <1>2. ASSUME NEW A \in G, NEW x \in S \ A PROVE A \union {x} \in G
    <2>1. CASE A = {}
      BY <2>1
    <2>2. CASE A # {}
      <3>1. PICK h \in A : \A t \in A : w[t] <= w[h]
        BY Zenon, <2>2
      <3>2. \E g \in A \union {x} : \A t \in A \union {x} : w[t] <= w[g]
        <4>1. CASE w[x] <= w[h]
          BY Zenon, <3>1, <4>1
        <4>2. CASE ~(w[x] <= w[h])
          BY <3>1, <4>2
        <4> QED
          BY Zenon, <4>1, <4>2
      <3> QED
        BY Zenon, <3>2
    <2> QED
      BY Zenon, <2>1, <2>2
  <1> HIDE DEF G
  <1>3. S \in G
    BY Zenon, <1>1, <1>2, SetInduction, FiniteParts
  <1> QED
    BY Zenon, <1>3 DEF G

\* What the bound on sets says of a single target: directly, and through the set of
\* all the others, whose sum is the opposite.
LEMMA SettledBound ==
    ASSUME NEW S, IsFiniteSet(S), NEW b, NEW w \in [S -> Nat],
           Settled(S, b, w), NEW t \in S
    PROVE  \E u \in S : 0 - (Cardinality(S) - 1) * w[u] <= b[t]
                       /\ b[t] <= (Cardinality(S) - 1) * w[u]
  <1>1. PICK u \in S : \A v \in S : w[v] <= w[u]
    BY Zenon, HeaviestTarget
  <1>2. w[u] \in Nat /\ b \in [S -> Int] /\ b[t] \in Int /\ Cardinality(S) \in Nat
    BY Zenon, FiniteParts DEF Settled
  <1>3. \A A \in SUBSET S :
            SumFunctionOnSet(b, A) <= w[u] * (Cardinality(A) * (Cardinality(S) - Cardinality(A)))
    BY Zenon, <1>1, <1>2 DEF Settled
  <1>4. SumFunctionOnSet(b, {t}) = b[t]
    <2>1. {t} \in SUBSET S /\ t \in {t} /\ {t} \ {t} = {}
      BY Zenon
    <2>2. SumFunctionOnSet(b, {t}) = b[t] + SumFunctionOnSet(b, {t} \ {t})
      BY <1>2, <2>1, SumFacts, FiniteParts
    <2>3. SumFunctionOnSet(b, {}) = 0
      BY Zenon, <1>2, SumFacts, FiniteParts
    <2> QED
      BY <1>2, <2>1, <2>2, <2>3
  <1>5. 0 = b[t] + SumFunctionOnSet(b, S \ {t})
        /\ SumFunctionOnSet(b, S \ {t}) \in Int
    BY <1>2, SumFacts, FiniteParts DEF Settled
  <1>6. Cardinality({t}) = 1 /\ Cardinality(S \ {t}) = Cardinality(S) - 1
    BY Zenon, FS_Singleton, FS_RemoveElement, FiniteParts
  <1>7. b[t] <= w[u] * (1 * (Cardinality(S) - 1))
    BY Zenon, <1>3, <1>4, <1>6
  <1>8. SumFunctionOnSet(b, S \ {t})
          <= w[u] * ((Cardinality(S) - 1) * (Cardinality(S) - (Cardinality(S) - 1)))
    BY Zenon, <1>3, <1>6
  <1>9. w[u] * (1 * (Cardinality(S) - 1)) = (Cardinality(S) - 1) * w[u]
        /\ w[u] * ((Cardinality(S) - 1) * (Cardinality(S) - (Cardinality(S) - 1)))
             = (Cardinality(S) - 1) * w[u]
        /\ (Cardinality(S) - 1) * w[u] \in Int
    BY <1>2
  <1> QED
    BY <1>2, <1>5, <1>7, <1>8, <1>9

\* Weights that are all zero are settled.
LEMMA SumZero ==
    ASSUME NEW S, IsFiniteSet(S), NEW f \in [S -> Int], NEW A \in SUBSET S,
           \A t \in A : f[t] = 0
    PROVE  SumFunctionOnSet(f, A) = 0
  <1>1. SumFunctionOnSet(f, A) >= 0
    BY SumNonNegative
  <1>2. SumFunctionOnSet(f, A) <= Cardinality(A) * 0
    BY SumBound, FiniteParts
  <1>3. SumFunctionOnSet(f, A) \in Int /\ Cardinality(A) * 0 = 0
    BY SumFacts, FiniteParts
  <1> QED
    BY <1>1, <1>2, <1>3

\* Weights that are all zero, as a new router has them, are settled.
LEMMA SettledZero ==
    ASSUME NEW S, IsFiniteSet(S), NEW w
    PROVE  Settled(S, [t \in S |-> 0], w)
  <1> DEFINE z == [t \in S |-> 0]
  <1>1. z \in [S -> Int] /\ \A t \in S : z[t] = 0
    OBVIOUS
  <1> HIDE DEF z
  <1>2. \A A \in SUBSET S : SumFunctionOnSet(z, A) = 0
    BY Zenon, <1>1, SumZero
  <1>3. \A M \in Nat : \A A \in SUBSET S :
            0 <= M * (Cardinality(A) * (Cardinality(S) - Cardinality(A)))
    <2> SUFFICES ASSUME NEW M \in Nat, NEW A \in SUBSET S
                 PROVE  0 <= M * (Cardinality(A) * (Cardinality(S) - Cardinality(A)))
      BY Zenon
    <2> DEFINE k == Cardinality(A)
               m == Cardinality(S) - k
    <2>1. k \in Nat /\ m \in Nat
      BY FiniteParts
    <2> HIDE DEF k, m
    <2>2. 0 <= M * (k * m)
      BY <2>1
    <2> QED
      BY Zenon, <2>2 DEF k, m
  <1>4. Settled(S, z, w)
    BY Zenon, <1>1, <1>2, <1>3 DEF Settled
  <1> QED
    BY Zenon, <1>4 DEF z

=============================================================================
