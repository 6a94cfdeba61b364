------------------------- MODULE TokenBucketProofs -------------------------
(***************************************************************************)
(* Proofs about TokenBucket, for every rate, burst and clock bound.        *)
(***************************************************************************)
EXTENDS TokenBucket, TLAPS

\* Multiplication by the rate, as the leaves below use it.
LEMMA Distribute ==
    ASSUME NEW a \in Int, NEW b \in Int, NEW k \in Nat
    PROVE  /\ (a + b) * k = a * k + b * k
           /\ (a - b) * k = a * k - b * k
           /\ a * k \in Int
  BY SMT

\* Arithmetic: multiplying by a natural number keeps the order.
LEMMA Monotone ==
    ASSUME NEW a \in Int, NEW b \in Int, NEW k \in Nat, a <= b
    PROVE  a * k <= b * k
  BY SMT

\* math.ceil of a quotient: enough of the divisor to reach the dividend.
LEMMA CeilDivFacts ==
    ASSUME NEW n \in Nat, NEW d \in Nat \ {0}
    PROVE  CeilDiv(n, d) \in Nat /\ CeilDiv(n, d) * d >= n
  BY SMT DEF CeilDiv

\* The capacity is a natural number that holds at least one request.
LEMMA CapacityFacts == Capacity \in Nat /\ Capacity >= Unit
  <1>1. Burst \in Nat /\ Unit \in Nat /\ 1 <= Burst
    BY BucketOptions
  <1>2. 1 * Unit <= Burst * Unit /\ Burst * Unit \in Int
    BY <1>1, Monotone, Distribute
  <1> QED BY <1>1, <1>2 DEF Capacity

\* A key outlives the time that an empty bucket needs to fill up.
LEMMA ExpiryFacts == expiry \in Nat /\ expiry >= 1 /\ (expiry - 1) * Rate >= Capacity
  <1> DEFINE fill == CeilDiv(Capacity, Rate)
  <1>1. Rate \in Nat \ {0} /\ MinTTL \in Nat \ {0}
    BY Zenon, BucketOptions
  <1>2. fill \in Nat /\ fill * Rate >= Capacity
    BY Zenon, <1>1, CapacityFacts, CeilDivFacts
  <1>3. Capacity >= 1
    BY CapacityFacts, BucketOptions
  <1>4. fill # 0
    <2> SUFFICES ASSUME fill = 0 PROVE FALSE
      BY Zenon
    <2>1. 0 * Rate = 0
      BY <1>1
    <2> HIDE DEF fill
    <2> QED BY <2>1, <1>2, <1>3, CapacityFacts
  <1>5. expiry \in Nat /\ expiry >= 2 * fill
    BY <1>1, <1>2 DEF expiry, AtLeast
  <1> HIDE DEF fill
  <1>6. fill <= expiry - 1
    BY <1>2, <1>4, <1>5
  <1>7. fill * Rate <= (expiry - 1) * Rate
    BY <1>1, <1>2, <1>5, <1>6, Monotone
  <1>8. (expiry - 1) * Rate \in Int /\ fill * Rate \in Int
    BY <1>1, <1>2, <1>5, Distribute
  <1> QED BY <1>2, <1>4, <1>5, <1>7, <1>8, CapacityFacts

\* A refill never exceeds the capacity.
LEMMA RefilledType == ASSUME TypeOK PROVE refilled \in 0..Capacity
  <1>1. AtLeast(0, age) \in Nat /\ Rate \in Nat
    BY BucketOptions DEF TypeOK, AtLeast
  <1>2. 0 * Rate <= AtLeast(0, age) * Rate /\ AtLeast(0, age) * Rate \in Int
    BY <1>1, Monotone, Distribute
  <1>3. 0 * Rate = 0
    BY <1>1
  <1> QED BY <1>1, <1>2, <1>3, CapacityFacts DEF TypeOK, refilled, AtMost

\* The header never promises less than the wait.
LEMMA HeaderFacts ==
    ASSUME NEW ms \in Nat
    PROVE  RetryAfterHeader(ms) \in Nat /\ RetryAfterHeader(ms) >= ms
  <1> DEFINE s == CeilDiv(ms, Second)
             h == AtLeast(1, s)
  <1>1. Second \in Nat \ {0}
    BY Zenon, BucketOptions
  <1>2. s \in Nat /\ s * Second >= ms
    BY Zenon, <1>1, CeilDivFacts
  <1>3. h \in Nat /\ s <= h
    BY <1>2 DEF AtLeast
  <1> HIDE DEF s, h
  <1>4. s * Second <= h * Second /\ 0 * Second <= h * Second
    BY <1>1, <1>2, <1>3, Monotone
  <1>5. s * Second \in Int /\ h * Second \in Int /\ 0 * Second = 0
    BY <1>1, <1>2, <1>3, Distribute
  <1> QED BY <1>2, <1>4, <1>5 DEF RetryAfterHeader, h, s
-----------------------------------------------------------------------------
\* The key's life: age and remaining time add up to the expiry it was given, and
\* a bucket without a key is full.
KeyLife ==
    /\ exists => ttl >= 1 /\ age + ttl = expiry
    /\ ~exists => age = 0 /\ ideal = Capacity

\* How far a clock that was set back holds the bucket behind: what it has lost,
\* and what it will lose until the clock reaches the timestamp again.
Behind == ideal - refilled + AtLeast(0, 0 - age) * Rate <= stepsBack * MaxStep * Rate

\* The wait a refused request was told covers what its bucket lacks.
Waiting == due # -1 => age >= 0 /\ refilled + due * Rate >= Unit

IInv == TypeOK /\ KeyLife /\ refilled <= ideal /\ Behind /\ Waiting

\* The loss that the clock bounds allow.
LEMMA LossType ==
    ASSUME NEW n \in Nat
    PROVE  n * MaxStep * Rate \in Nat
  <1>1. MaxStep \in Nat /\ Rate \in Nat
    BY Zenon, ClockBounds, BucketOptions
  <1>2. n * MaxStep \in Nat
    BY <1>1, SMT
  <1> HIDE DEF CeilDiv
  <1> QED BY <1>1, <1>2, SMT

\* One more step back of the clock pays for what that step can lose.
LEMMA LossGrows ==
    ASSUME NEW n \in Nat, NEW d \in 1..MaxStep
    PROVE  (n + 1) * MaxStep * Rate >= n * MaxStep * Rate + d * Rate
  <1>1. MaxStep \in Nat /\ Rate \in Nat
    BY Zenon, ClockBounds, BucketOptions
  <1>2. (n + 1) * MaxStep = n * MaxStep + MaxStep /\ n * MaxStep \in Nat
    BY <1>1, SMT
  <1>3. (n * MaxStep + MaxStep) * Rate = (n * MaxStep) * Rate + MaxStep * Rate
    BY <1>1, <1>2, Distribute
  <1>4. d * Rate <= MaxStep * Rate
    BY <1>1, Monotone
  <1>5. d * Rate \in Int /\ MaxStep * Rate \in Int /\ (n * MaxStep) * Rate \in Int
    BY <1>1, <1>2, Distribute
  <1> QED BY <1>2, <1>3, <1>4, <1>5

\* What Store leaves is what the next script finds, if it runs at once.
LEMMA StoreFacts ==
    ASSUME NEW left \in 0..Capacity, Store(left)
    PROVE  refilled' = left /\ age' = 0 /\ exists' /\ tokens' = left /\ ttl' = expiry
  <1>1. Rate \in Nat /\ 0 * Rate = 0
    BY BucketOptions
  <1>2. exists' /\ tokens' = left /\ age' = 0 /\ ttl' = expiry
    BY Zenon DEF Store
  <1>3. AtLeast(0, age') = 0
    BY Zenon, <1>2 DEF AtLeast
  <1>4. refilled' = AtMost(Capacity, left + 0 * Rate)
    BY Zenon, <1>2, <1>3 DEF refilled
  <1> QED BY <1>1, <1>2, <1>4, CapacityFacts DEF AtMost

\* The bucket that is not stored yet satisfies the invariant.
LEMMA InitKeeps == Init => IInv
  <1> SUFFICES ASSUME Init PROVE IInv
    BY Zenon
  <1>0. /\ exists = FALSE /\ tokens = 0 /\ age = 0 /\ ttl = 0 /\ answer = "none"
        /\ stepsBack = 0 /\ ideal = Capacity /\ due = -1
    BY Zenon DEF Init
  <1>1. TypeOK
    <2>1. due \in Nat \union {-1}
      BY Zenon, <1>0
    <2>2. /\ ideal \in 0..Capacity /\ tokens \in 0..Capacity
          /\ stepsBack \in 0..MaxStepsBack /\ age \in Int /\ ttl \in Nat
      BY <1>0, CapacityFacts, ClockBounds
    <2>3. exists \in BOOLEAN /\ answer \in {"none", "allowed", "limited", "open", "unavailable"}
      BY <1>0, Zenon
    <2> QED BY <2>1, <2>2, <2>3, Zenon DEF TypeOK
  <1>2. refilled = Capacity
    BY Zenon DEF Init, refilled
  <1>3. Rate \in Nat /\ 0 * Rate = 0
    BY BucketOptions
  <1>a. AtLeast(0, 0 - age) = 0
    <2>1. age = 0
      BY Zenon, <1>0
    <2> QED BY <2>1 DEF AtLeast
  <1>4. 0 * MaxStep * Rate \in Nat
    BY Zenon, LossType
  <1>5. Behind
    BY <1>0, <1>2, <1>3, <1>a, <1>4, CapacityFacts DEF Behind
  <1> QED BY <1>0, <1>1, <1>2, <1>5, CapacityFacts DEF IInv, KeyLife, Waiting
-----------------------------------------------------------------------------
\* The time the timestamp is behind the clock, and ahead of it.
Since == AtLeast(0, age)
Ahead == AtLeast(0, 0 - age)

\* The terms of the budget are naturals, and the age is the time since minus
\* the time ahead.
LEMMA ClockFacts ==
    ASSUME TypeOK
    PROVE  /\ Since \in Nat /\ Ahead \in Nat /\ Since - Ahead = age
           /\ Rate \in Nat /\ Since * Rate \in Nat /\ Ahead * Rate \in Nat
           /\ stepsBack * MaxStep * Rate \in Nat
  <1>1. Since \in Nat /\ Ahead \in Nat /\ Since - Ahead = age
    BY DEF TypeOK, Since, Ahead, AtLeast
  <1>2. Rate \in Nat /\ 0 * Rate = 0
    BY BucketOptions
  <1>3. stepsBack * MaxStep * Rate \in Nat
    BY LossType, ClockBounds DEF TypeOK
  <1>4. 0 * Rate <= Since * Rate /\ 0 * Rate <= Ahead * Rate
    BY <1>1, <1>2, Monotone
  <1>5. Since * Rate \in Int /\ Ahead * Rate \in Int
    BY <1>1, <1>2, Distribute
  <1> QED BY <1>1, <1>2, <1>3, <1>4, <1>5

\* The script has run and has taken cost units: all of IInv but Waiting.
LEMMA ScriptKeeps ==
    ASSUME IInv, NEW cost \in {0, Unit}, refilled >= cost,
           Store(refilled - cost), ideal' = ideal - cost,
           stepsBack' = stepsBack
    PROVE  /\ exists' \in BOOLEAN /\ tokens' \in 0..Capacity /\ age' = 0
           /\ ttl' \in Nat /\ stepsBack' \in 0..MaxStepsBack /\ ideal' \in 0..Capacity
           /\ refilled' = refilled - cost
           /\ KeyLife' /\ (refilled <= ideal)' /\ Behind'
  <1>1. cost \in Nat /\ Unit \in Nat
    BY BucketOptions
  <1>2. TypeOK /\ refilled <= ideal /\ Behind
    BY Zenon DEF IInv
  <1>3. refilled \in 0..Capacity /\ ideal \in 0..Capacity /\ Capacity \in Nat
    BY Zenon, <1>2, RefilledType, CapacityFacts DEF TypeOK
  <1>4. refilled - cost \in 0..Capacity
    BY <1>1, <1>3
  <1>5. /\ refilled' = refilled - cost /\ age' = 0 /\ exists'
        /\ tokens' = refilled - cost /\ ttl' = expiry
    BY Zenon, <1>4, StoreFacts
  <1>6. ideal' \in 0..Capacity /\ refilled' <= ideal'
    BY <1>1, <1>2, <1>3, <1>5
  <1>7. KeyLife'
    BY <1>5, ExpiryFacts DEF KeyLife
  <1>8. Behind'
    <2>1. ideal - refilled + Ahead * Rate <= stepsBack * MaxStep * Rate
      BY Zenon, <1>2 DEF Behind, Ahead
    <2>2. Ahead * Rate \in Nat /\ stepsBack * MaxStep * Rate \in Nat /\ 0 * Rate = 0
      BY <1>2, ClockFacts
    <2>3. AtLeast(0, 0 - age') = 0
      BY <1>5 DEF AtLeast
    <2>4. ideal' - refilled' + 0 * Rate <= stepsBack * MaxStep * Rate
      BY <2>1, <2>2, <1>1, <1>3, <1>5
    <2> QED BY Zenon, <2>3, <2>4 DEF Behind
  <1>9. exists' \in BOOLEAN
    BY Zenon DEF Store
  <1>10. ttl' \in Nat /\ stepsBack' \in 0..MaxStepsBack
    BY Zenon, <1>2, <1>5, ExpiryFacts DEF TypeOK
  <1> QED BY Zenon, <1>4, <1>5, <1>6, <1>7, <1>8, <1>9, <1>10

\* Admitting a request keeps the invariant.
LEMMA AllowedKeeps == IInv /\ Allowed => IInv'
  <1> SUFFICES ASSUME IInv, Allowed PROVE IInv'
    BY Zenon
  <1>1. /\ exists' \in BOOLEAN /\ tokens' \in 0..Capacity /\ age' = 0
        /\ ttl' \in Nat /\ stepsBack' \in 0..MaxStepsBack /\ ideal' \in 0..Capacity
        /\ KeyLife' /\ (refilled <= ideal)' /\ Behind'
    BY Zenon, ScriptKeeps DEF Allowed
  <1>2. answer' \in {"none", "allowed", "limited", "open", "unavailable"} /\ due' = -1
    BY Zenon DEF Allowed
  <1>3. TypeOK'
    <2>1. due' \in Nat \union {-1} /\ age' \in Int
      BY <1>1, <1>2
    <2> QED BY <1>1, <1>2, <2>1, Zenon DEF TypeOK
  <1>4. Waiting'
    BY Zenon, <1>2 DEF Waiting
  <1> QED BY <1>1, <1>3, <1>4, Zenon DEF IInv

\* retry_after_ms, rounded up to seconds, covers what the bucket lacks.
LEMMA WaitCovers ==
    ASSUME TypeOK, refilled < Unit
    PROVE  /\ RetryAfterHeader(retryAfter) \in Nat
           /\ refilled + RetryAfterHeader(retryAfter) * Rate >= Unit
  <1> DEFINE ms == retryAfter
             h == RetryAfterHeader(ms)
  <1>1. Unit - refilled \in Nat /\ refilled \in Nat /\ Unit \in Nat /\ Rate \in Nat \ {0}
    BY RefilledType, CapacityFacts, BucketOptions
  <1>2. ms \in Nat /\ ms * Rate >= Unit - refilled
    BY Zenon, <1>1, CeilDivFacts DEF retryAfter
  <1> HIDE DEF ms
  <1>3. h \in Nat /\ h >= ms
    BY Zenon, <1>2, HeaderFacts
  <1> HIDE DEF h
  <1>4. ms * Rate <= h * Rate /\ ms * Rate \in Int /\ h * Rate \in Int
    BY <1>1, <1>2, <1>3, Monotone, Distribute
  <1>5. refilled + h * Rate >= Unit
    BY <1>1, <1>2, <1>4
  <1> QED BY Zenon, <1>3, <1>5 DEF h, ms

\* Refusing a request keeps the invariant.
LEMMA LimitedKeeps == IInv /\ Limited => IInv'
  <1> SUFFICES ASSUME IInv, Limited PROVE IInv'
    BY Zenon
  <1>1. refilled \in Nat /\ ideal \in Int /\ TypeOK
    BY RefilledType, CapacityFacts DEF IInv, TypeOK
  <1>2. refilled >= 0 /\ Store(refilled - 0) /\ ideal' = ideal - 0 /\ stepsBack' = stepsBack
    BY <1>1 DEF Limited
  <1>3. /\ exists' \in BOOLEAN /\ tokens' \in 0..Capacity /\ age' = 0
        /\ ttl' \in Nat /\ stepsBack' \in 0..MaxStepsBack /\ ideal' \in 0..Capacity
        /\ refilled' = refilled - 0
        /\ KeyLife' /\ (refilled <= ideal)' /\ Behind'
    BY Zenon, <1>2, ScriptKeeps
  <1>4. /\ answer' \in {"none", "allowed", "limited", "open", "unavailable"}
        /\ due' = RetryAfterHeader(retryAfter) /\ refilled < Unit
    BY Zenon DEF Limited
  <1>5. due' \in Nat /\ refilled + due' * Rate >= Unit
    BY Zenon, <1>1, <1>4, WaitCovers
  <1>6. TypeOK'
    <2>1. due' \in Nat \union {-1} /\ age' \in Int
      BY <1>3, <1>5
    <2> QED BY <1>3, <1>4, <2>1, Zenon DEF TypeOK
  <1>7. Waiting'
    <2>1. refilled' = refilled /\ age' >= 0
      BY <1>1, <1>3
    <2> QED BY Zenon, <2>1, <1>5 DEF Waiting
  <1> QED BY <1>3, <1>6, <1>7, Zenon DEF IInv
\* A failure of the store keeps the invariant.
LEMMA LimiterFailsKeeps == IInv /\ LimiterFails => IInv'
  <1> SUFFICES ASSUME IInv, LimiterFails PROVE IInv'
    BY Zenon
  <1>1. refilled \in Nat /\ ideal \in Int /\ TypeOK
    BY RefilledType, CapacityFacts DEF IInv, TypeOK
  <1>2. answer' \in {"none", "allowed", "limited", "open", "unavailable"} /\ stepsBack' = stepsBack
    BY Zenon DEF LimiterFails
  <1>3. CASE UNCHANGED <<exists, tokens, age, ttl, ideal, due>>
    <2>1. refilled' = refilled
      BY Zenon, <1>3 DEF refilled
    <2>2. TypeOK'
      BY <1>1, <1>2, <1>3, Zenon DEF TypeOK
    <2> QED BY Zenon, <1>2, <1>3, <2>1, <2>2 DEF IInv, KeyLife, Behind, Waiting
  <1>4. CASE refilled >= Unit /\ Store(refilled - Unit) /\ ideal' = ideal - Unit /\ due' = -1
    <2>1. /\ exists' \in BOOLEAN /\ tokens' \in 0..Capacity /\ age' = 0
          /\ ttl' \in Nat /\ stepsBack' \in 0..MaxStepsBack /\ ideal' \in 0..Capacity
          /\ KeyLife' /\ (refilled <= ideal)' /\ Behind'
      BY Zenon, <1>2, <1>4, ScriptKeeps
    <2>2. due' \in Nat \union {-1} /\ age' \in Int
      BY <1>4, <2>1
    <2>3. TypeOK'
      BY <1>2, <2>1, <2>2, Zenon DEF TypeOK
    <2>4. Waiting'
      BY Zenon, <1>4 DEF Waiting
    <2> QED BY <2>1, <2>3, <2>4, Zenon DEF IInv
  <1>5. CASE refilled < Unit /\ Store(refilled) /\ UNCHANGED <<ideal, due>>
    <2>1. refilled >= 0 /\ Store(refilled - 0) /\ ideal' = ideal - 0
      BY <1>1, <1>5
    <2>2. /\ exists' \in BOOLEAN /\ tokens' \in 0..Capacity /\ age' = 0
          /\ ttl' \in Nat /\ stepsBack' \in 0..MaxStepsBack /\ ideal' \in 0..Capacity
          /\ refilled' = refilled - 0
          /\ KeyLife' /\ (refilled <= ideal)' /\ Behind'
      BY Zenon, <1>2, <2>1, ScriptKeeps
    <2>3. due' \in Nat \union {-1} /\ age' \in Int
      BY <1>1, <1>5, <2>2 DEF TypeOK
    <2>4. TypeOK'
      BY <1>2, <2>2, <2>3, Zenon DEF TypeOK
    <2>5. refilled' = refilled /\ age' >= 0 /\ due' = due
      BY <1>1, <1>5, <2>2
    <2>6. Waiting'
      BY Zenon, <2>5 DEF IInv, Waiting
    <2> QED BY <2>2, <2>4, <2>6, Zenon DEF IInv
  <1> QED BY Zenon, <1>3, <1>4, <1>5 DEF LimiterFails

\* A bucket whose key goes, or is not there, is full.
LEMMA ExpiresFull ==
    ASSUME IInv, ~(exists /\ ttl > 1)
    PROVE  ideal = Capacity
  <1>1. CASE ~exists
    BY Zenon, <1>1 DEF IInv, KeyLife
  <1>2. CASE exists
    <2>1. TypeOK /\ ttl = 1 /\ age = expiry - 1 /\ refilled <= ideal
      BY <1>2, ExpiryFacts DEF IInv, KeyLife, TypeOK
    <2>2. AtLeast(0, age) = expiry - 1
      BY <2>1, ExpiryFacts DEF AtLeast
    <2>3. refilled = AtMost(Capacity, tokens + (expiry - 1) * Rate)
      BY Zenon, <1>2, <2>2 DEF refilled
    <2>4. (expiry - 1) * Rate \in Int
      BY ExpiryFacts, BucketOptions, Distribute
    <2>5. tokens \in 0..Capacity /\ ideal \in 0..Capacity /\ Capacity \in Nat
      BY Zenon, <2>1, CapacityFacts DEF TypeOK
    <2>6. refilled = Capacity
      BY <2>3, <2>4, <2>5, ExpiryFacts DEF AtMost
    <2> QED BY <2>1, <2>5, <2>6
  <1> QED BY Zenon, <1>1, <1>2

\* A millisecond adds at most its refill to what a script finds, and nothing
\* while the timestamp is ahead of the clock.
LEMMA TickRefills ==
    ASSUME TypeOK, exists, exists', tokens' = tokens, age' = age + 1
    PROVE  IF age >= 0
           THEN Ahead = 0 /\ Ahead' = 0 /\ refilled' = AtMost(Capacity, refilled + Rate)
           ELSE Ahead' * Rate = Ahead * Rate - Rate /\ refilled' = refilled
  <1>1. /\ Rate \in Nat /\ age \in Int /\ tokens \in 0..Capacity /\ Capacity \in Nat
        /\ 1 * Rate = Rate /\ 0 * Rate = 0
    BY BucketOptions, CapacityFacts DEF TypeOK
  <1>2. CASE age >= 0
    <2>1. AtLeast(0, age) = age /\ AtLeast(0, age') = age + 1 /\ Ahead = 0 /\ Ahead' = 0
      BY <1>1, <1>2 DEF AtLeast, Ahead
    <2>2. (age + 1) * Rate = age * Rate + Rate /\ age * Rate \in Int
      BY <1>1, Distribute
    <2>3. refilled = AtMost(Capacity, tokens + age * Rate)
      BY Zenon, <2>1 DEF refilled
    <2>4. refilled' = AtMost(Capacity, tokens + age * Rate + Rate)
      BY <1>1, <2>1, <2>2 DEF refilled
    <2>5. refilled' = AtMost(Capacity, refilled + Rate)
      BY <1>1, <2>2, <2>3, <2>4 DEF AtMost
    <2> QED BY Zenon, <1>2, <2>1, <2>5
  <1>3. CASE ~(age >= 0)
    <2>1. AtLeast(0, age) = 0 /\ AtLeast(0, age') = 0
      BY <1>1, <1>3 DEF AtLeast
    <2>2. Ahead = 0 - age /\ Ahead' = Ahead - 1 /\ Ahead \in Int
      BY <1>1, <1>3 DEF AtLeast, Ahead
    <2>3. (Ahead - 1) * Rate = Ahead * Rate - Rate
      BY <1>1, <2>2, Distribute
    <2>4. refilled' = refilled
      BY Zenon, <2>1 DEF refilled
    <2> QED BY Zenon, <1>3, <2>2, <2>3, <2>4
  <1> QED BY Zenon, <1>2, <1>3

\* Time passing keeps the invariant.
LEMMA TickKeeps == IInv /\ Tick => IInv'
  <1> SUFFICES ASSUME IInv, Tick PROVE IInv'
    BY Zenon
  <1>1. TypeOK /\ KeyLife /\ refilled <= ideal /\ Behind /\ Waiting
    BY Zenon DEF IInv
  <1>2. /\ Rate \in Nat /\ age \in Int /\ ttl \in Nat /\ Capacity \in Nat
        /\ tokens \in 0..Capacity /\ ideal \in 0..Capacity /\ refilled \in 0..Capacity
        /\ Capacity >= Unit /\ Unit \in Nat /\ due \in Nat \union {-1}
    BY Zenon, <1>1, BucketOptions, CapacityFacts, RefilledType DEF TypeOK
  <1>3. exists' = (exists /\ ttl > 1) /\ stepsBack' = stepsBack /\ answer' = answer
    BY Zenon DEF Tick
  <1>4. ideal' = AtMost(Capacity, ideal + Rate) /\ ideal' \in 0..Capacity /\ ideal <= ideal'
    BY <1>2 DEF Tick, AtMost
  <1>5. /\ due' \in Nat \union {-1}
        /\ due = -1 => due' = -1
        /\ due # -1 => due' = IF due = 0 THEN 0 ELSE due - 1
    <2>1. CASE due = -1
      BY <2>1 DEF Tick, AtLeast
    <2>2. CASE due \in Nat
      BY <2>2 DEF Tick, AtLeast
    <2> QED BY Zenon, <1>2, <2>1, <2>2
  <1>6. stepsBack * MaxStep * Rate \in Nat /\ Ahead * Rate \in Nat
    BY Zenon, <1>1, ClockFacts
  <1>7. CASE ~(exists /\ ttl > 1)
    <2>1. ~exists' /\ tokens' = 0 /\ age' = 0 /\ ttl' = 0 /\ ideal = Capacity
      BY Zenon, <1>7, ExpiresFull DEF Tick
    <2>2. refilled' = Capacity /\ ideal' = Capacity
      BY <1>2, <1>4, <2>1 DEF refilled, AtMost
    <2>3. AtLeast(0, 0 - age') = 0 /\ 0 * Rate = 0
      BY <1>2, <2>1 DEF AtLeast
    <2>4. Behind'
      BY <1>2, <1>3, <1>6, <2>2, <2>3 DEF Behind
    <2>5. Waiting'
      <3> SUFFICES ASSUME due' # -1 PROVE (age >= 0 /\ refilled + due * Rate >= Unit)'
        BY Zenon DEF Waiting
      <3>1. due' \in Nat
        BY <1>5, Zenon
      <3>2. 0 * Rate <= due' * Rate /\ due' * Rate \in Int
        <4> DEFINE n == due'
        <4>1. n \in Int /\ 0 <= n
          BY <3>1
        <4> HIDE DEF n
        <4>2. 0 * Rate <= n * Rate /\ n * Rate \in Int
          BY <1>2, <4>1, Monotone, Distribute
        <4> QED BY Zenon, <4>2 DEF n
      <3> QED BY <1>2, <2>1, <2>2, <2>3, <3>2
    <2>6. age' \in Int /\ ttl' \in Nat /\ tokens' \in 0..Capacity
      BY <1>2, <2>1
    <2>7. TypeOK'
      BY <1>1, <1>3, <1>4, <1>5, <2>6, Zenon DEF TypeOK
    <2> QED BY <1>2, <2>1, <2>2, <2>4, <2>5, <2>7 DEF IInv, KeyLife
  <1>8. CASE exists /\ ttl > 1
    <2>1. exists' /\ tokens' = tokens /\ age' = age + 1 /\ ttl' = ttl - 1
      BY Zenon, <1>8 DEF Tick
    <2>2. KeyLife'
      BY <1>1, <1>2, <1>8, <2>1, ExpiryFacts DEF KeyLife
    <2>3. age' \in Int /\ ttl' \in Nat /\ tokens' \in 0..Capacity
      BY <1>2, <1>8, <2>1
    <2>4. TypeOK'
      BY <1>1, <1>3, <1>4, <1>5, <2>3, Zenon DEF TypeOK
    <2>5. IF age >= 0
          THEN Ahead = 0 /\ Ahead' = 0 /\ refilled' = AtMost(Capacity, refilled + Rate)
          ELSE Ahead' * Rate = Ahead * Rate - Rate /\ refilled' = refilled
      BY Zenon, <1>1, <1>8, <2>1, TickRefills
    <2>6. ideal - refilled + Ahead * Rate <= stepsBack * MaxStep * Rate
      BY Zenon, <1>1 DEF Behind, Ahead
    <2>7. /\ (refilled <= ideal)'
          /\ ideal' - refilled' + Ahead' * Rate <= stepsBack * MaxStep * Rate
      <3>1. CASE age >= 0
        <4>1. Ahead' * Rate = Ahead * Rate /\ refilled' = AtMost(Capacity, refilled + Rate)
          BY Zenon, <2>5, <3>1
        <4> QED BY <1>1, <1>2, <1>4, <1>6, <2>6, <4>1 DEF AtMost
      <3>2. CASE ~(age >= 0)
        <4>1. Ahead' * Rate = Ahead * Rate - Rate /\ refilled' = refilled
          BY Zenon, <2>5, <3>2
        <4> QED BY <1>1, <1>2, <1>4, <1>6, <2>6, <4>1 DEF AtMost
      <3> QED BY Zenon, <3>1, <3>2
    <2>8. Behind'
      BY Zenon, <1>3, <2>7 DEF Behind, Ahead
    <2>9. Waiting'
      <3> SUFFICES ASSUME due' # -1 PROVE (age >= 0 /\ refilled + due * Rate >= Unit)'
        BY Zenon DEF Waiting
      <3>1. due \in Nat /\ age >= 0 /\ refilled + due * Rate >= Unit
        BY Zenon, <1>1, <1>2, <1>5 DEF Waiting
      <3>2. refilled' = AtMost(Capacity, refilled + Rate)
        BY Zenon, <2>5, <3>1
      <3>3. due' * Rate = IF due = 0 THEN due * Rate ELSE due * Rate - Rate
        <4>1. (due - 1) * Rate = due * Rate - 1 * Rate /\ 1 * Rate = Rate
          BY <1>2, <3>1, Distribute
        <4>2. due' = IF due = 0 THEN due ELSE due - 1
          BY Zenon, <1>5, <3>1
        <4> QED BY Zenon, <4>1, <4>2
      <3>4. due * Rate \in Int /\ 0 * Rate = 0 /\ 0 * Rate <= due' * Rate
        <4> DEFINE n == due'
        <4>1. due' \in Nat
          BY <1>5, Zenon
        <4>2. n \in Int /\ 0 <= n
          BY <4>1
        <4> HIDE DEF n
        <4>3. 0 * Rate <= n * Rate
          BY <1>2, <4>2, Monotone
        <4>4. due * Rate \in Int /\ 0 * Rate = 0
          BY <1>2, <3>1, Distribute
        <4> QED BY Zenon, <4>3, <4>4 DEF n
      <3>5. age' >= 0
        BY <1>2, <2>1, <3>1
      <3>6. refilled' + due' * Rate >= Unit
        BY <1>2, <3>1, <3>2, <3>3, <3>4 DEF AtMost
      <3> QED BY Zenon, <3>5, <3>6
    <2> QED BY <2>2, <2>4, <2>7, <2>8, <2>9, Zenon DEF IInv
  <1> QED BY Zenon, <1>7, <1>8
\* Setting the clock back by d delays the refill by d, now or later.
LEMMA StepBackRefills ==
    ASSUME TypeOK, exists, exists' = exists, tokens' = tokens, NEW d \in Nat, age' = age - d
    PROVE  /\ refilled' <= refilled /\ refilled' \in Int
           /\ refilled - refilled' + (Ahead' * Rate - Ahead * Rate) <= d * Rate
           /\ Ahead' * Rate \in Int
  <1>1. /\ Rate \in Nat /\ age \in Int /\ tokens \in 0..Capacity /\ Capacity \in Nat
    BY Zenon, BucketOptions, CapacityFacts DEF TypeOK
  <1>2. /\ Since \in Nat /\ Since' \in Nat /\ Ahead \in Nat /\ Ahead' \in Nat
        /\ Since' <= Since /\ (Since - Since') + (Ahead' - Ahead) = d
    <2>1. /\ Since = IF age < 0 THEN 0 ELSE age
          /\ Ahead = IF 0 - age < 0 THEN 0 ELSE 0 - age
          /\ Since' = IF age - d < 0 THEN 0 ELSE age - d
          /\ Ahead' = IF 0 - (age - d) < 0 THEN 0 ELSE 0 - (age - d)
      BY Zenon DEF Since, Ahead, AtLeast
    <2> QED BY <1>1, <2>1
  <1>3. /\ (Since - Since') * Rate = Since * Rate - Since' * Rate
        /\ (Ahead' - Ahead) * Rate = Ahead' * Rate - Ahead * Rate
    BY <1>1, <1>2, Distribute
  <1>4. ((Since - Since') + (Ahead' - Ahead)) * Rate
            = (Since - Since') * Rate + (Ahead' - Ahead) * Rate
    <2>1. Since - Since' \in Int /\ Ahead' - Ahead \in Int
      BY <1>2
    <2> QED BY Zenon, <1>1, <2>1, Distribute
  <1>5. /\ Since' * Rate <= Since * Rate
        /\ Since * Rate \in Int /\ Since' * Rate \in Int
        /\ Ahead * Rate \in Int /\ Ahead' * Rate \in Int
    <2>1. Since' * Rate <= Since * Rate
      <3> DEFINE n == Since'
      <3>1. n \in Int /\ Since \in Int /\ n <= Since
        BY <1>2
      <3> HIDE DEF n
      <3>2. n * Rate <= Since * Rate
        BY Zenon, <1>1, <3>1, Monotone
      <3> QED BY Zenon, <3>2 DEF n
    <2>2. /\ Since * Rate \in Int /\ Since' * Rate \in Int
          /\ Ahead * Rate \in Int /\ Ahead' * Rate \in Int
      BY <1>1, <1>2, Distribute
    <2> QED BY Zenon, <2>1, <2>2
  <1>6. /\ refilled = AtMost(Capacity, tokens + Since * Rate)
        /\ refilled' = AtMost(Capacity, tokens + Since' * Rate)
    BY Zenon DEF refilled, Since
  <1>7. d * Rate = Since * Rate - Since' * Rate + (Ahead' * Rate - Ahead * Rate)
    BY Zenon, <1>2, <1>3, <1>4
  <1> QED BY <1>1, <1>5, <1>6, <1>7 DEF AtMost

\* The clock stepping back keeps the invariant.
LEMMA StepBackKeeps ==
    ASSUME IInv, NEW d \in 1..MaxStep, StepBack(d)
    PROVE  IInv'
  <1>1. TypeOK /\ KeyLife /\ refilled <= ideal /\ Behind
    BY Zenon DEF IInv
  <1>2. /\ exists /\ exists' = exists /\ tokens' = tokens /\ age' = age - d /\ ttl' = ttl + d
        /\ ideal' = ideal /\ answer' = answer /\ due' = -1
        /\ stepsBack < MaxStepsBack /\ stepsBack' = stepsBack + 1
    BY Zenon DEF StepBack
  <1>3. /\ age \in Int /\ ttl \in Nat /\ stepsBack \in 0..MaxStepsBack /\ d \in Nat
        /\ MaxStepsBack \in Nat /\ MaxStep \in Nat /\ ideal \in Int /\ refilled \in Int
        /\ Rate \in Nat
    BY <1>1, ClockBounds, BucketOptions, CapacityFacts, RefilledType DEF TypeOK
  <1>4. /\ refilled' <= refilled /\ refilled' \in Int
        /\ refilled - refilled' + (Ahead' * Rate - Ahead * Rate) <= d * Rate
        /\ Ahead' * Rate \in Int
    BY Zenon, <1>1, <1>2, <1>3, StepBackRefills
  <1>5. TypeOK'
    <2>1. age' \in Int /\ ttl' \in Nat /\ stepsBack' \in 0..MaxStepsBack
      BY <1>2, <1>3
    <2>2. due' \in Nat \union {-1}
      BY Zenon, <1>2
    <2> QED BY <1>1, <1>2, <2>1, <2>2, Zenon DEF TypeOK
  <1>6. KeyLife'
    BY <1>1, <1>2, <1>3, ExpiryFacts DEF KeyLife
  <1>7. (refilled <= ideal)'
    BY <1>1, <1>2, <1>3, <1>4
  <1>8. Behind'
    <2>1. ideal - refilled + Ahead * Rate <= stepsBack * MaxStep * Rate
      BY Zenon, <1>1 DEF Behind, Ahead
    <2>2. (stepsBack + 1) * MaxStep * Rate >= stepsBack * MaxStep * Rate + d * Rate
      BY <1>3, LossGrows
    <2>3. /\ stepsBack * MaxStep * Rate \in Int /\ (stepsBack + 1) * MaxStep * Rate \in Int
          /\ d * Rate \in Int /\ Ahead * Rate \in Int
      <3>1. stepsBack \in Nat /\ stepsBack + 1 \in Nat
        BY <1>3
      <3> QED BY <1>1, <1>3, <3>1, LossType, ClockFacts, Distribute
    <2>4. ideal' - refilled' + Ahead' * Rate <= (stepsBack + 1) * MaxStep * Rate
      BY <1>2, <1>3, <1>4, <2>1, <2>2, <2>3
    <2> QED BY Zenon, <1>2, <2>4 DEF Behind, Ahead
  <1>9. Waiting'
    BY Zenon, <1>2 DEF Waiting
  <1> QED BY <1>5, <1>6, <1>7, <1>8, <1>9, Zenon DEF IInv

-----------------------------------------------------------------------------
\* The invariant holds in every reachable state.
LEMMA Inductive == Spec => []IInv
  <1>1. IInv /\ [Next]_vars => IInv'
    <2> SUFFICES ASSUME IInv, [Next]_vars PROVE IInv'
      BY Zenon
    <2>1. CASE Allowed
      BY Zenon, <2>1, AllowedKeeps
    <2>2. CASE Limited
      BY Zenon, <2>2, LimitedKeeps
    <2>3. CASE LimiterFails
      BY Zenon, <2>3, LimiterFailsKeeps
    <2>4. CASE Tick
      BY Zenon, <2>4, TickKeeps
    <2>5. CASE \E d \in 1..MaxStep : StepBack(d)
      BY Zenon, <2>5, StepBackKeeps
    <2>6. CASE UNCHANGED vars
      <3>1. refilled' = refilled
        BY Zenon, <2>6 DEF vars, refilled
      <3>2. TypeOK'
        BY <2>6, Zenon DEF IInv, TypeOK, vars
      <3> QED BY Zenon, <2>6, <3>1, <3>2 DEF IInv, KeyLife, Behind, Waiting, vars
    <2> QED BY Zenon, <2>1, <2>2, <2>3, <2>4, <2>5, <2>6 DEF Next
  <1> QED BY <1>1, InitKeeps, PTL DEF Spec

\* tokens never leaves 0..Capacity and the other fields keep their types, for
\* every rate, burst and number of clock corrections.
THEOREM TypeCorrect == Spec => []TypeOK
  <1>1. IInv => TypeOK
    BY Zenon DEF IInv
  <1> QED BY <1>1, Inductive, PTL

\* The script's lazy refill never lets a client have more than a bucket that is
\* filled as time passes, and lags it only by what clock corrections took.
THEOREM LazyRefillTracks == Spec => []TracksIdeal
  <1>1. IInv => TracksIdeal
    <2> SUFFICES ASSUME IInv PROVE TracksIdeal
      BY Zenon
    <2>1. TypeOK /\ refilled <= ideal
      BY Zenon DEF IInv
    <2>2. ideal - refilled + Ahead * Rate <= stepsBack * MaxStep * Rate
      BY Zenon DEF IInv, Behind, Ahead
    <2>3. Ahead * Rate \in Nat /\ stepsBack * MaxStep * Rate \in Nat
      BY Zenon, <2>1, ClockFacts
    <2>4. ideal \in Int /\ refilled \in Int
      BY <2>1, RefilledType, CapacityFacts DEF TypeOK
    <2>5. ideal - refilled <= stepsBack * MaxStep * Rate
      BY <2>2, <2>3, <2>4
    <2> QED BY Zenon, <2>1, <2>5 DEF TracksIdeal
  <1> QED BY <1>1, Inductive, PTL

\* A client that waits out Retry-After finds a token, for every rate and burst
\* and whatever the rounding to seconds does.
THEOREM RetryAfterSuffices == Spec => []WaitIsEnough
  <1>1. IInv => WaitIsEnough
    <2> SUFFICES ASSUME IInv, due = 0 PROVE refilled >= Unit
      BY Zenon DEF WaitIsEnough
    <2>1. refilled + due * Rate >= Unit /\ refilled \in Int /\ Rate \in Nat /\ TypeOK
      BY RefilledType, CapacityFacts, BucketOptions DEF IInv, Waiting
    <2>2. due * Rate = 0
      BY <2>1
    <2> QED BY <2>1, <2>2
  <1> QED BY <1>1, Inductive, PTL
=============================================================================
