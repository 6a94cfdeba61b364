---------------------------- MODULE RouterProofs ----------------------------
(***************************************************************************)
(* Proofs about Router, for any number of requests and targets, any        *)
(* weights, either strategy and any breaker options.                       *)
(***************************************************************************)
EXTENDS Router, OperatorProofs

-----------------------------------------------------------------------------
(* Types, and which request holds the mutex.                               *)

Breakers == \A t \in Targets : WellFormed(breakers[t])

\* Only a scanning request holds the mutex, and only a selected target is called.
Turns ==
    \A r \in Requests :
        /\ mu = r => pc[r] = "scan"
        /\ pc[r] \in {"call", "working"} => target[r] \in Targets

TypeInv == TypeOK /\ Breakers /\ Turns

\* The round robin index stays among the targets and wraps after the last one.
LEMMA NextTarget ==
    ASSUME NEW n \in Targets
    PROVE  /\ (n + 1) % N = IF n = N - 1 THEN 0 ELSE n + 1
           /\ (n + 1) % N \in Targets
  BY RouterOptions DEF Targets

\* The loop variables of selectTarget.
LEMMA ScanFields ==
    ASSUME TypeOK
    PROVE  /\ scan.checked \in 0..N /\ scan.checked \in Nat
           /\ scan.selected \in Targets \union {None} /\ scan.total \in Nat
  BY RouterOptions DEF TypeOK

\* The absent permit is of the permit type.
LEMMA NoPermitType == NoPermit \in PermitType
  <1> DEFINE p == [state |-> "closed", generation |-> 0, done |-> FALSE]
  <1>1. permitOf(New) = p
    BY Zenon, NewFacts DEF permitOf
  <1>2. p \in PermitType
    BY Zenon DEF PermitType, States
  <1> HIDE DEF p
  <1>3. NoPermit = [p EXCEPT !.done = TRUE]
    BY Zenon, <1>1 DEF NoPermit
  <1> QED
    BY Zenon, <1>2, <1>3 DEF PermitType

\* The bound on the calls that do not succeed.
LEMMA BadType ==
    ASSUME TypeOK
    PROVE  bad \in Nat /\ MaxBad \in Nat /\ bad <= MaxBad
  BY RouterOptions DEF TypeOK

\* Asking a breaker whether it is available keeps every breaker well formed.
LEMMA AskedType ==
    ASSUME Breakers, breakers \in [Targets -> BreakerType],
           NEW r \in Requests, NEW t \in Targets, Asked(r, t)
    PROVE  Breakers' /\ breakers' \in [Targets -> BreakerType]
  BY Zenon, AdvanceFacts DEF Breakers, Asked, WellFormed

\* The end of a request, whichever way it ends.
LEMMA LeaveType ==
    ASSUME TypeOK, NEW r \in Requests, Leave(r)
    PROVE  /\ pc' = [pc EXCEPT ![r] = "idle"]
           /\ pc' \in [Requests -> {"idle", "select", "scan", "call", "working"}]
           /\ excluded' \in [Requests -> SUBSET Targets]
           /\ target' \in [Requests -> Targets \union {None}]
           /\ permit' \in [Requests -> PermitType]
           /\ found' \in [Requests -> SUBSET Targets]
           /\ \A q \in Requests \ {r} : target'[q] = target[q]
  BY Zenon, NoPermitType DEF TypeOK, Leave

\* A request that leaves without the mutex disturbs no other request's turn
\* at it.
LEMMA LeaveTurns ==
    ASSUME TypeInv, NEW r \in Requests, Leave(r), mu' = mu, pc[r] # "scan"
    PROVE  Turns'
  <1>1. \A q \in Requests : pc'[q] = IF q = r THEN "idle" ELSE pc[q]
    BY Zenon DEF TypeInv, TypeOK, Leave
  <1>2. \A q \in Requests \ {r} : target'[q] = target[q]
    BY Zenon, LeaveType DEF TypeInv
  <1>3. ASSUME NEW q \in Requests
        PROVE  /\ mu' = q => pc'[q] = "scan"
               /\ pc'[q] \in {"call", "working"} => target'[q] \in Targets
    <2>1. CASE q = r
      <3>1. pc'[q] = "idle" /\ mu # q
        BY Zenon, <1>1, <2>1 DEF TypeInv, Turns
      <3> QED
        BY Zenon, <3>1
    <2>2. CASE q # r
      <3>1. pc'[q] = pc[q] /\ target'[q] = target[q]
        BY Zenon, <1>1, <1>2, <2>2
      <3> QED
        BY Zenon, <3>1 DEF TypeInv, Turns
    <2> QED
      BY Zenon, <2>1, <2>2
  <1> QED
    BY Zenon, <1>3 DEF Turns

\* A selection under the mutex that ends with target t.
LEMMA PickType ==
    ASSUME TypeInv, NEW r \in Requests, mu = r, NEW t \in Targets, Pick(r, t)
    PROVE  /\ mu' \in Requests \union {None}
           /\ scan' \in [checked : 0..N, selected : Targets \union {None}, total : Nat]
           /\ pc' \in [Requests -> {"idle", "select", "scan", "call", "working"}]
           /\ target' \in [Requests -> Targets \union {None}]
           /\ picked' \in [Targets -> Nat]
           /\ Turns'
  <1>1. picked' \in [Targets -> Nat]
    BY DEF Pick, TypeInv, TypeOK
  <1>2. Turns'
    BY Zenon, RouterOptions DEF Pick, TypeInv, TypeOK, Turns
  <1> QED
    BY <1>1, <1>2, RouterOptions DEF Pick, TypeInv, TypeOK, NewScan

\* Next split into its disjuncts, one request at a time.
LEMMA NextCases ==
    ASSUME Next
    PROVE  \/ \E r \in Requests :
                \/ Arrive(r) \/ Lock(r) \/ Exhausted(r) \/ ScanRoundRobin(r)
                \/ ScanWeighted(r) \/ EndWeighted(r) \/ NoneHealthy(r)
                \/ CallAdmitted(r) \/ CallRefused(r) \/ CallCanceled(r)
                \/ \E outcome \in Outcomes : CallEnds(r, outcome)
           \/ Tick
  BY Zenon DEF Next, Select, Call

\* The initial state is well typed.
LEMMA TypeInit == Init => TypeInv
  <1> SUFFICES ASSUME Init PROVE TypeInv
    BY Zenon
  <1>1. Breakers /\ breakers \in [Targets -> BreakerType]
    BY Zenon, NewFacts DEF Init, Breakers, WellFormed
  <1>2. Turns
    BY Zenon, RouterOptions DEF Init, Turns
  <1>3. scan \in [checked : 0..N, selected : Targets \union {None}, total : Nat]
    BY RouterOptions DEF Init, NewScan
  <1>4. 0 \in Targets /\ 0 \in 0..MaxBad
    BY RouterOptions DEF Targets
  <1> QED
    BY <1>1, <1>2, <1>3, <1>4, NoPermitType DEF Init, TypeInv, TypeOK

\* Every step keeps the type invariant.
LEMMA TypeStep == TypeInv /\ [Next]_vars => TypeInv'
  <1> SUFFICES ASSUME TypeInv, [Next]_vars PROVE TypeInv'
    BY Zenon
  <1> USE RouterOptions
  <1>1. ASSUME NEW r \in Requests, Arrive(r) PROVE TypeInv'
    BY Zenon, <1>1 DEF TypeInv, TypeOK, Breakers, Turns, Arrive, router
  <1>2. ASSUME NEW r \in Requests, Lock(r) PROVE TypeInv'
    <2>1. scan' \in [checked : 0..N, selected : Targets \union {None}, total : Nat]
      BY <1>2 DEF Lock, NewScan
    <2>2. Turns'
      BY Zenon, <1>2 DEF Lock, TypeInv, TypeOK, Turns
    <2> QED
      BY Zenon, <1>2, <2>1, <2>2 DEF TypeInv, TypeOK, Breakers, Lock
  <1>3. ASSUME NEW r \in Requests, Exhausted(r) PROVE TypeInv'
    <2>1. Turns'
      BY Zenon, <1>3, LeaveTurns DEF Exhausted, router
    <2> QED
      BY Zenon, <1>3, <2>1, LeaveType DEF TypeInv, TypeOK, Breakers, Exhausted, router
  <1>4. ASSUME NEW r \in Requests, ScanRoundRobin(r) PROVE TypeInv'
    <2>1. next \in Targets /\ next' \in Targets
      BY Zenon, <1>4, NextTarget DEF TypeInv, TypeOK, ScanRoundRobin
    <2>2. Breakers' /\ breakers' \in [Targets -> BreakerType]
      BY Zenon, <1>4, <2>1, AskedType DEF ScanRoundRobin, TypeInv, TypeOK
    <2>3. CASE Candidate(r, next)
      <3>1. Pick(r, next) /\ mu = r /\ UNCHANGED <<currentWeight, found>>
        BY Zenon, <1>4, <2>3 DEF ScanRoundRobin
      <3>2. /\ mu' \in Requests \union {None}
            /\ scan' \in [checked : 0..N, selected : Targets \union {None}, total : Nat]
            /\ pc' \in [Requests -> {"idle", "select", "scan", "call", "working"}]
            /\ target' \in [Requests -> Targets \union {None}]
            /\ picked' \in [Targets -> Nat]
            /\ Turns'
        BY Zenon, <2>1, <3>1, PickType
      <3> QED
        BY Zenon, <2>1, <2>2, <3>1, <3>2 DEF Pick, TypeInv, TypeOK
    <2>4. CASE ~Candidate(r, next)
      <3>1. /\ Pass(r, next) /\ UNCHANGED currentWeight
            /\ scan' = [scan EXCEPT !.checked = @ + 1] /\ scan.checked < N
        BY Zenon, <1>4, <2>4 DEF ScanRoundRobin
      <3>2. scan' \in [checked : 0..N, selected : Targets \union {None}, total : Nat]
        <4>1. scan.checked + 1 \in 0..N
          BY <3>1, ScanFields DEF TypeInv
        <4> QED
          BY Zenon, <3>1, <4>1 DEF TypeInv, TypeOK
      <3>3. Turns'
        BY Zenon, <3>1 DEF Pass, TypeInv, Turns
      <3> QED
        BY Zenon, <2>1, <2>2, <3>1, <3>2, <3>3 DEF Pass, TypeInv, TypeOK
    <2> QED
      BY Zenon, <2>3, <2>4
  <1>5. ASSUME NEW r \in Requests, ScanWeighted(r) PROVE TypeInv'
    <2> DEFINE t == scan.checked
    <2>1. t \in Targets /\ t + 1 \in 0..N
      BY <1>5, ScanFields DEF ScanWeighted, TypeInv, Targets
    <2>2. Breakers' /\ breakers' \in [Targets -> BreakerType]
      BY Zenon, <1>5, <2>1, AskedType DEF ScanWeighted, TypeInv, TypeOK
    <2>3. weight[t] \in Nat
      BY SMTT(20), <2>1 DEF TypeInv, TypeOK, Targets
    <2>4. CASE Candidate(r, t)
      <3>1. /\ currentWeight' = [currentWeight EXCEPT ![t] = @ + weight[t]]
            /\ scan' = [checked  |-> t + 1,
                        selected |-> IF Better(t, scan.selected) THEN t ELSE scan.selected,
                        total    |-> scan.total + weight[t]]
            /\ UNCHANGED <<weight, mu, pc, excluded, target, permit, bad, found, picked, next>>
        BY Zenon, <1>5, <2>4 DEF ScanWeighted
      <3>2. scan' \in [checked : 0..N, selected : Targets \union {None}, total : Nat]
        <4> DEFINE c == t + 1
                   s == IF Better(t, scan.selected) THEN t ELSE scan.selected
                   n == scan.total + weight[t]
        <4>1. scan.checked \in 0..N /\ scan.selected \in Targets \union {None} /\ scan.total \in Nat
          BY Zenon, ScanFields DEF TypeInv
        <4>2. c \in 0..N
          BY <2>1, RouterOptions DEF Targets
        <4>3. s \in Targets \union {None}
          BY Zenon, <2>1, <4>1
        <4>4. n \in Nat
          BY <2>3, <4>1
        <4>5. scan' = [checked |-> c, selected |-> s, total |-> n]
          BY Zenon, <3>1
        <4> HIDE DEF c, s, n
        <4> QED
          BY <4>2, <4>3, <4>4, <4>5
      <3>3. Turns'
        BY Zenon, <3>1 DEF TypeInv, Turns
      <3>4. currentWeight' \in [Targets -> Int]
        <4>1. currentWeight \in [Targets -> Int] /\ currentWeight[t] + weight[t] \in Int
          <5>1. currentWeight \in [Targets -> Int]
            BY Zenon DEF TypeInv, TypeOK
          <5>2. currentWeight[t] \in Int
            BY Zenon, <2>1, <5>1
          <5>3. \A x \in Int, y \in Nat : x + y \in Int
            OBVIOUS
          <5> QED
            BY Zenon, <2>3, <5>1, <5>2, <5>3
        <4> HIDE DEF t
        <4> QED
          BY Zenon, <3>1, <4>1
      <3> QED
        BY Zenon, <2>2, <3>1, <3>2, <3>3, <3>4 DEF TypeInv, TypeOK
    <2>5. CASE ~Candidate(r, t)
      <3>1. /\ Pass(r, t) /\ UNCHANGED <<currentWeight, next>>
            /\ scan' = [scan EXCEPT !.checked = t + 1]
        BY Zenon, <1>5, <2>5 DEF ScanWeighted
      <3>2. scan' \in [checked : 0..N, selected : Targets \union {None}, total : Nat]
        BY Zenon, <2>1, <3>1 DEF TypeInv, TypeOK
      <3>3. Turns'
        BY Zenon, <3>1 DEF Pass, TypeInv, Turns
      <3> QED
        BY Zenon, <2>1, <2>2, <3>1, <3>2, <3>3 DEF Pass, TypeInv, TypeOK
    <2> QED
      BY Zenon, <2>4, <2>5
  <1>6. ASSUME NEW r \in Requests, EndWeighted(r) PROVE TypeInv'
    <2>1. scan.selected \in Targets /\ scan.total \in Nat
      BY Zenon, <1>6 DEF EndWeighted, TypeInv, TypeOK
    <2>2. currentWeight' \in [Targets -> Int]
      BY <1>6, <2>1 DEF EndWeighted, TypeInv, TypeOK
    <2>3. Pick(r, scan.selected) /\ mu = r /\ UNCHANGED <<breakers, next, found>>
      BY Zenon, <1>6 DEF EndWeighted
    <2>4. /\ mu' \in Requests \union {None}
          /\ scan' \in [checked : 0..N, selected : Targets \union {None}, total : Nat]
          /\ pc' \in [Requests -> {"idle", "select", "scan", "call", "working"}]
          /\ target' \in [Requests -> Targets \union {None}]
          /\ picked' \in [Targets -> Nat]
          /\ Turns'
      BY Zenon, <2>1, <2>3, PickType
    <2> QED
      BY Zenon, <2>2, <2>3, <2>4 DEF Pick, TypeInv, TypeOK, Breakers
  <1>7. ASSUME NEW r \in Requests, NoneHealthy(r) PROVE TypeInv'
    <2>1. Turns'
      <3>1. Leave(r) /\ mu' = None /\ TypeOK
        BY Zenon, <1>7 DEF NoneHealthy, TypeInv
      <3>2. /\ pc' = [pc EXCEPT ![r] = "idle"]
            /\ \A q \in Requests \ {r} : target'[q] = target[q]
        BY Zenon, <3>1, LeaveType
      <3> QED
        BY Zenon, <3>1, <3>2 DEF TypeInv, TypeOK, Turns
    <2>2. scan' \in [checked : 0..N, selected : Targets \union {None}, total : Nat]
      BY <1>7 DEF NoneHealthy, NewScan
    <2> QED
      BY Zenon, <1>7, <2>1, <2>2, LeaveType DEF TypeInv, TypeOK, Breakers, NoneHealthy
  <1>8. ASSUME NEW r \in Requests, CallAdmitted(r) PROVE TypeInv'
    <2> DEFINE b == advanceLocked(breakers[target[r]])
    <2>1. target[r] \in Targets /\ WellFormed(b)
      BY Zenon, <1>8, AdvanceFacts DEF CallAdmitted, TypeInv, Turns, Breakers
    <2>2. WellFormed(admit(b)) /\ permitOf(b) \in PermitType
      BY Zenon, <2>1, AdmitFacts
    <2>3. /\ breakers' = [breakers EXCEPT ![target[r]] = admit(b)]
          /\ permit' = [permit EXCEPT ![r] = permitOf(b)]
          /\ pc' = [pc EXCEPT ![r] = "working"] /\ pc[r] = "call"
          /\ UNCHANGED <<router, excluded, target, bad, found, picked>>
      BY Zenon, <1>8 DEF CallAdmitted
    <2> HIDE DEF b
    <2>4. Breakers' /\ breakers' \in [Targets -> BreakerType]
      <3>1. Breakers /\ breakers \in [Targets -> BreakerType]
        BY Zenon DEF TypeInv, TypeOK
      <3> QED
        BY Zenon, <2>1, <2>2, <2>3, <3>1 DEF Breakers, WellFormed
    <2>5. Turns'
      BY Zenon, <2>1, <2>3 DEF TypeInv, TypeOK, Turns, router
    <2> QED
      BY Zenon, <2>2, <2>3, <2>4, <2>5 DEF TypeInv, TypeOK, router
  <1>9. ASSUME NEW r \in Requests, CallRefused(r) PROVE TypeInv'
    <2> DEFINE b == advanceLocked(breakers[target[r]])
    <2>1. target[r] \in Targets /\ WellFormed(b)
      BY Zenon, <1>9, AdvanceFacts DEF CallRefused, TypeInv, Turns, Breakers
    <2>2. /\ breakers' = [breakers EXCEPT ![target[r]] = b]
          /\ excluded' = [excluded EXCEPT ![r] = @ \union {target[r]}]
          /\ target' = [target EXCEPT ![r] = None]
          /\ found' = [found EXCEPT ![r] = @ \union {target[r]}]
          /\ pc' = [pc EXCEPT ![r] = "select"] /\ pc[r] = "call"
          /\ UNCHANGED <<router, permit, bad, picked>>
      BY Zenon, <1>9 DEF CallRefused
    <2> HIDE DEF b
    <2>3. Breakers' /\ breakers' \in [Targets -> BreakerType]
      BY Zenon, <2>1, <2>2 DEF Breakers, WellFormed, TypeInv, TypeOK
    <2>4. Turns'
      BY Zenon, <2>2 DEF TypeInv, TypeOK, Turns, router
    <2> QED
      BY SMTT(20), <2>1, <2>2, <2>3, <2>4 DEF TypeInv, TypeOK, router
  <1>10. ASSUME NEW r \in Requests, CallCanceled(r) PROVE TypeInv'
    <2>1. Turns'
      BY Zenon, <1>10, LeaveTurns DEF CallCanceled, router
    <2> QED
      BY <1>10, <2>1, LeaveType DEF TypeInv, TypeOK, Breakers, CallCanceled, router
  <1>11. ASSUME NEW r \in Requests, NEW outcome \in Outcomes, CallEnds(r, outcome)
         PROVE  TypeInv'
    <2> DEFINE b == complete(breakers[target[r]], permit[r], outcome)
    <2>1. target[r] \in Targets /\ WellFormed(b)
      BY Zenon, <1>11, CompleteFacts DEF CallEnds, TypeInv, Turns, Breakers
    <2>2. /\ breakers' = [breakers EXCEPT ![target[r]] = b]
          /\ Leave(r) /\ UNCHANGED <<router, picked>> /\ pc[r] = "working"
      BY Zenon, <1>11 DEF CallEnds
    <2> HIDE DEF b
    <2>3. Breakers' /\ breakers' \in [Targets -> BreakerType]
      <3>1. Breakers /\ breakers \in [Targets -> BreakerType]
        BY Zenon DEF TypeInv, TypeOK
      <3> QED
        BY Zenon, <2>1, <2>2, <3>1 DEF Breakers, WellFormed
    <2>4. Turns'
      BY Zenon, <2>2, LeaveTurns DEF router
    <2>5. bad' \in 0..MaxBad
      BY <1>11, BadType DEF CallEnds, TypeInv
    <2> QED
      BY Zenon, <2>2, <2>3, <2>4, <2>5, LeaveType DEF TypeInv, TypeOK, router
  <1>12. CASE Tick
    <2>1. Breakers' /\ breakers' \in [Targets -> BreakerType]
      BY Zenon, <1>12, ElapseFacts DEF Tick, Breakers, WellFormed, TypeInv
    <2> QED
      BY Zenon, <1>12, <2>1 DEF Tick, TypeInv, TypeOK, Turns, router
  <1>13. CASE UNCHANGED vars
    BY Zenon, <1>13 DEF vars, router, TypeInv, TypeOK, Breakers, Turns
  <1> QED
    BY Zenon, <1>1, <1>2, <1>3, <1>4, <1>5, <1>6, <1>7, <1>8, <1>9, <1>10, <1>11, <1>12, <1>13,
       NextCases

\* The router's data structures keep their types whatever the requests do; the
\* indices stay among the targets (Router.targets, next, currentWeights).
THEOREM RouterTypeCorrect == Spec => []TypeOK
  <1>1. TypeInv => TypeOK
    BY Zenon DEF TypeInv
  <1> QED
    BY <1>1, TypeInit, TypeStep, PTL DEF Spec

-----------------------------------------------------------------------------
(* TurnedAwayHonestly: what a scan has passed over, wherever it started.   *)

\* The targets the running scan has passed over.  The round robin has come from
\* `checked' places before next, which may be on the other side of target 0; a
\* weighted scan that has selected nothing has refused everything so far.
Passed(t) ==
    IF Strategy = "round_robin"
    THEN IF t < next THEN next - t <= scan.checked ELSE (next + N) - t <= scan.checked
    ELSE scan.selected = None /\ t < scan.checked

Honest ==
    \A r \in Requests :
        /\ excluded[r] \subseteq found[r]
        /\ mu = r => \A t \in Targets : Passed(t) => t \in found[r]

HonestInv == TypeInv /\ Honest

\* One step of the round robin passes over next and nothing else.
LEMMA PassedRoundRobin ==
    ASSUME TypeOK, Strategy = "round_robin", next' = (next + 1) % N,
           scan' = [scan EXCEPT !.checked = @ + 1],
           NEW t \in Targets, Passed(t)'
    PROVE  t = next \/ Passed(t)
  <1>1. scan'.checked = scan.checked + 1 /\ scan.checked \in Nat
    BY Zenon, ScanFields DEF TypeOK
  <1>2. next' = (IF next = N - 1 THEN 0 ELSE next + 1) /\ next \in Targets
    BY Zenon, NextTarget DEF TypeOK
  <1>3. N \in Nat \ {0} /\ t \in 0..(N - 1) /\ next \in 0..(N - 1)
    BY Zenon, <1>2, RouterOptions DEF Targets
  <1>4. IF t < next' THEN next' - t <= scan.checked + 1
        ELSE (next' + N) - t <= scan.checked + 1
    BY Zenon, <1>1 DEF Passed
  <1>5. t = next \/ IF t < next THEN next - t <= scan.checked ELSE (next + N) - t <= scan.checked
    <2>1. CASE next = N - 1
      <3>1. next' = 0 /\ ~(t < 0)
        BY <1>2, <1>3, <2>1
      <3>2. N - t <= scan.checked + 1
        BY <1>3, <1>4, <3>1
      <3>3. t = next \/ (t < next /\ next - t <= scan.checked)
        BY <1>1, <1>3, <2>1, <3>2
      <3> QED
        BY Zenon, <3>3
    <2>2. CASE next # N - 1
      BY <1>1, <1>2, <1>3, <1>4, <2>2
    <2> QED
      BY Zenon, <2>1, <2>2
  <1> QED
    BY Zenon, <1>5 DEF Passed

\* A scan that has looked at every target without a selection has passed them all.
LEMMA AllPassed ==
    ASSUME TypeOK, scan.checked = N, scan.selected = None, NEW t \in Targets
    PROVE  Passed(t)
  BY RouterOptions DEF TypeOK, Passed, Targets

\* A new scan has passed over nothing.
LEMMA NonePassed ==
    ASSUME TypeOK, scan' = NewScan, next' = next, NEW t \in Targets
    PROVE  ~Passed(t)'
  <1>1. scan'.checked = 0 /\ next \in Targets
    BY Zenon DEF NewScan, TypeOK
  <1> QED
    BY <1>1, RouterOptions DEF Passed, Targets

\* Requests other than r keep what they have excluded and found.
LEMMA HonestFrame ==
    ASSUME HonestInv, NEW r \in Requests,
           \A q \in Requests \ {r} : excluded'[q] = excluded[q] /\ found'[q] = found[q],
           excluded'[r] \subseteq found'[r],
           \A q \in Requests \ {r} : mu' # q,
           mu' = r => \A t \in Targets : Passed(t)' => t \in found'[r]
    PROVE  Honest'
  BY Zenon DEF HonestInv, Honest

\* A step that leaves the scan alone disturbs nobody who keeps the mutex.
LEMMA HonestKept ==
    ASSUME HonestInv, UNCHANGED router, NEW r \in Requests, mu # r,
           \A q \in Requests \ {r} : excluded'[q] = excluded[q] /\ found'[q] = found[q],
           excluded'[r] \subseteq found'[r]
    PROVE  Honest'
  BY Zenon DEF HonestInv, Honest, router, Passed

\* At the start no target is excluded and no scan runs.
LEMMA HonestInit == Init => Honest
  BY Zenon, RouterOptions DEF Init, Honest

\* Every step keeps the invariant behind honest refusals.
LEMMA HonestStep == HonestInv /\ [Next]_vars => Honest'
  <1> SUFFICES ASSUME HonestInv, [Next]_vars PROVE Honest'
    BY Zenon
  <1>0. TypeInv /\ TypeOK /\ Turns /\ Honest
    BY Zenon DEF HonestInv, TypeInv
  <1>1. ASSUME NEW r \in Requests, Arrive(r) PROVE Honest'
    BY Zenon, <1>0, <1>1 DEF Honest, Arrive, router, Passed
  <1>2. ASSUME NEW r \in Requests, Lock(r) PROVE Honest'
    <2>1. /\ UNCHANGED <<excluded, found>> /\ mu' = r /\ mu = None
          /\ scan' = NewScan /\ next' = next
      BY Zenon, <1>2 DEF Lock
    <2> QED
      BY Zenon, <1>0, <2>1, NonePassed DEF Honest
  <1>3. ASSUME NEW r \in Requests, Leave(r) PROVE
          /\ \A q \in Requests \ {r} : excluded'[q] = excluded[q] /\ found'[q] = found[q]
          /\ excluded'[r] \subseteq found'[r]
    BY Zenon, <1>0, <1>3 DEF Leave, TypeOK
  <1>4. ASSUME NEW r \in Requests, Exhausted(r) PROVE Honest'
    <2>1. Leave(r) /\ UNCHANGED router /\ mu # r
      BY Zenon, <1>0, <1>4 DEF Exhausted, Turns
    <2> QED
      BY Zenon, <1>3, <2>1, HonestKept
  <1>5. ASSUME NEW r \in Requests, NEW t \in Targets, Pick(r, t), found' = found PROVE Honest'
    <2>1. mu' = None /\ UNCHANGED <<excluded, found>>
      BY Zenon, <1>5 DEF Pick
    <2> QED
      BY Zenon, <1>0, <2>1, RouterOptions DEF Honest
  <1>6. ASSUME NEW r \in Requests, NEW t \in Targets, mu = r, Pass(r, t),
               \A u \in Targets : Passed(u)' => u = t \/ Passed(u)
        PROVE  Honest'
    <2>1. /\ found' = [found EXCEPT ![r] = @ \union {t}]
          /\ UNCHANGED <<excluded, mu>>
      BY Zenon, <1>6 DEF Pass
    <2> QED
      BY Zenon, <1>0, <1>6, <2>1 DEF Honest, TypeOK
  <1>7. ASSUME NEW r \in Requests, ScanRoundRobin(r) PROVE Honest'
    <2>1. next \in Targets /\ mu = r
      BY Zenon, <1>0, <1>7 DEF TypeOK, ScanRoundRobin
    <2>2. CASE Candidate(r, next)
      BY Zenon, <1>5, <1>7, <2>1, <2>2 DEF ScanRoundRobin
    <2>3. CASE ~Candidate(r, next)
      <3>1. /\ Pass(r, next) /\ Strategy = "round_robin" /\ next' = (next + 1) % N
            /\ scan' = [scan EXCEPT !.checked = @ + 1]
        BY Zenon, <1>7, <2>3 DEF ScanRoundRobin
      <3>2. \A u \in Targets : Passed(u)' => u = next \/ Passed(u)
        BY Zenon, <1>0, <3>1, PassedRoundRobin
      <3> QED
        BY Zenon, <1>6, <2>1, <3>1, <3>2
    <2> QED
      BY Zenon, <2>2, <2>3
  <1>8. ASSUME NEW r \in Requests, ScanWeighted(r) PROVE Honest'
    <2> DEFINE t == scan.checked
    <2>1. t \in Targets /\ mu = r /\ Strategy # "round_robin"
      BY <1>0, <1>8, ScanFields, RouterOptions DEF Targets, ScanWeighted
    <2>2. CASE Candidate(r, t)
      <3>1. /\ scan'.selected = IF Better(t, scan.selected) THEN t ELSE scan.selected
            /\ UNCHANGED <<mu, excluded, found>>
        BY <1>8, <2>2 DEF ScanWeighted
      <3>2. scan'.selected # None
        BY Zenon, <2>1, <3>1, RouterOptions DEF Better, Targets
      <3>3. \A u \in Targets : ~Passed(u)'
        BY Zenon, <2>1, <3>2 DEF Passed
      <3> QED
        BY Zenon, <1>0, <3>1, <3>3 DEF Honest
    <2>3. CASE ~Candidate(r, t)
      <3>1. Pass(r, t) /\ scan' = [scan EXCEPT !.checked = t + 1]
        BY Zenon, <1>8, <2>3 DEF ScanWeighted
      <3>2. scan'.checked = t + 1 /\ scan'.selected = scan.selected
        BY Zenon, <1>0, <3>1 DEF TypeOK
      <3>3. \A u \in Targets : Passed(u)' => u = t \/ Passed(u)
        BY <2>1, <3>2, RouterOptions DEF Passed, Targets
      <3> QED
        BY Zenon, <1>6, <2>1, <3>1, <3>3
    <2> QED
      BY Zenon, <2>2, <2>3
  <1>9. ASSUME NEW r \in Requests, EndWeighted(r) PROVE Honest'
    <2>1. scan.selected \in Targets
      BY Zenon, <1>0, <1>9, ScanFields DEF EndWeighted
    <2> QED
      BY Zenon, <1>5, <1>9, <2>1 DEF EndWeighted
  <1>10. ASSUME NEW r \in Requests, NoneHealthy(r) PROVE Honest'
    <2>1. Leave(r) /\ mu' = None
      BY Zenon, <1>10 DEF NoneHealthy
    <2> QED
      BY Zenon, <1>3, <2>1, HonestFrame, RouterOptions
  <1>11. ASSUME NEW r \in Requests, CallAdmitted(r) PROVE Honest'
    <2>1. UNCHANGED <<router, excluded, found>>
      BY Zenon, <1>11 DEF CallAdmitted
    <2> QED
      BY Zenon, <1>0, <2>1 DEF Honest, router, Passed
  <1>12. ASSUME NEW r \in Requests, CallRefused(r) PROVE Honest'
    <2>1. /\ excluded' = [excluded EXCEPT ![r] = @ \union {target[r]}]
          /\ found' = [found EXCEPT ![r] = @ \union {target[r]}]
          /\ UNCHANGED router /\ mu # r
      BY Zenon, <1>0, <1>12 DEF CallRefused, Turns
    <2>2. /\ \A q \in Requests \ {r} : excluded'[q] = excluded[q] /\ found'[q] = found[q]
          /\ excluded'[r] \subseteq found'[r]
      BY Zenon, <1>0, <2>1 DEF Honest, TypeOK
    <2> QED
      BY Zenon, <2>1, <2>2, HonestKept
  <1>13. ASSUME NEW r \in Requests, CallCanceled(r) PROVE Honest'
    <2>1. Leave(r) /\ UNCHANGED router /\ mu # r
      BY Zenon, <1>0, <1>13 DEF CallCanceled, Turns
    <2> QED
      BY Zenon, <1>3, <2>1, HonestKept
  <1>14. ASSUME NEW r \in Requests, NEW outcome \in Outcomes, CallEnds(r, outcome)
         PROVE  Honest'
    <2>1. Leave(r) /\ UNCHANGED router /\ mu # r
      BY Zenon, <1>0, <1>14 DEF CallEnds, Turns
    <2> QED
      BY Zenon, <1>3, <2>1, HonestKept
  <1>15. CASE Tick
    BY Zenon, <1>0, <1>15 DEF Tick, Honest, router, Passed
  <1>16. CASE UNCHANGED vars
    BY Zenon, <1>0, <1>16 DEF vars, Honest, router, Passed
  <1> QED
    BY Zenon, <1>1, <1>2, <1>4, <1>7, <1>8, <1>9, <1>10, <1>11, <1>12, <1>13, <1>14, <1>15,
       <1>16, NextCases

\* Only the two actions that give up end a request that is still selecting.
LEMMA TurnedAwayStep ==
    ASSUME HonestInv, Next, NEW r \in Requests,
           pc[r] \in {"select", "scan"}, pc'[r] = "idle"
    PROVE  found[r] = Targets
  <1>0. TypeInv /\ TypeOK /\ Turns /\ Honest
    BY Zenon DEF HonestInv, TypeInv
  <1>1. found[r] \subseteq Targets
    BY Zenon, <1>0 DEF TypeOK
  <1>2. ASSUME NEW q \in Requests, q # r, NEW v, pc' = [pc EXCEPT ![q] = v] PROVE FALSE
    BY Zenon, <1>0, <1>2 DEF TypeOK
  <1>3. CASE Exhausted(r)
    BY Zenon, <1>0, <1>1, <1>3 DEF Exhausted, Honest
  <1>4. CASE NoneHealthy(r)
    <2>1. \A t \in Targets : Passed(t) /\ mu = r
      BY Zenon, <1>0, <1>4, AllPassed DEF NoneHealthy
    <2>2. 0 \in Targets
      BY RouterOptions DEF Targets
    <2> QED
      BY Zenon, <1>0, <1>1, <2>1, <2>2 DEF Honest
  <1>5. CASE ~Exhausted(r) /\ ~NoneHealthy(r)
    <2>1. ASSUME NEW q \in Requests, NEW outcome \in Outcomes,
                 \/ Exhausted(q) \/ NoneHealthy(q) \/ CallCanceled(q) \/ CallEnds(q, outcome)
          PROVE  FALSE
      <3>1. pc' = [pc EXCEPT ![q] = "idle"]
        BY Zenon, <2>1 DEF Exhausted, NoneHealthy, CallCanceled, CallEnds, Leave
      <3>2. q = r
        BY Zenon, <1>2, <3>1
      <3> QED
        BY Zenon, <1>5, <2>1, <3>2 DEF CallCanceled, CallEnds
    <2>2. ASSUME NEW q \in Requests,
                 Arrive(q) \/ Lock(q) \/ CallAdmitted(q) \/ CallRefused(q)
          PROVE  FALSE
      BY Zenon, <1>0, <1>2, <2>2 DEF Arrive, Lock, CallAdmitted, CallRefused, TypeOK
    <2>3. ASSUME NEW q \in Requests, NEW t, Pick(q, t) \/ Pass(q, t) PROVE FALSE
      BY Zenon, <1>0, <1>2, <2>3 DEF Pick, Pass, TypeOK
    <2>4. ASSUME NEW q \in Requests, ScanRoundRobin(q) \/ EndWeighted(q) PROVE FALSE
      BY Zenon, <2>3, <2>4 DEF ScanRoundRobin, EndWeighted
    <2>5. ASSUME NEW q \in Requests, ScanWeighted(q) PROVE FALSE
      <3>1. (\E t : Pass(q, t)) \/ pc' = pc
        BY Zenon, <2>5 DEF ScanWeighted
      <3> QED
        BY Zenon, <2>3, <3>1
    <2>6. CASE Tick
      BY Zenon, <2>6 DEF Tick
    <2>7. "ignored" \in Outcomes
      BY Zenon DEF Outcomes
    <2> QED
      BY Zenon, <2>1, <2>2, <2>4, <2>5, <2>6, <2>7, NextCases
  <1> QED
    BY Zenon, <1>3, <1>4, <1>5

\* A request gets ErrNoHealthyProviders only after it has found every target
\* unavailable, wherever the round robin stood (selectTarget, Chat, ChatStream).
THEOREM HonestRefusals == Spec => TurnedAwayHonestly
  <1>1. HonestInv /\ [Next]_vars =>
          [\A r \in Requests :
             pc[r] \in {"select", "scan"} /\ pc'[r] = "idle" => found[r] = Targets]_vars
    BY Zenon, TurnedAwayStep
  <1>2. Init => HonestInv
    BY Zenon, TypeInit, HonestInit DEF HonestInv
  <1>3. HonestInv /\ [Next]_vars => HonestInv'
    BY Zenon, TypeStep, HonestStep DEF HonestInv
  <1> QED
    BY <1>1, <1>2, <1>3, PTL DEF Spec, TurnedAwayHonestly

-----------------------------------------------------------------------------
(* As long as every call has succeeded, every target is available.         *)

NoMisses(b) ==
    /\ b.state = "closed" /\ b.failures = 0
    /\ \A i \in 1..Len(b.outcomes) : b.outcomes[i] = TRUE

Healthy ==
    bad = 0 => /\ \A t \in Targets : NoMisses(breakers[t])
               /\ \A r \in Requests : excluded[r] = {}

HealthyInv == TypeInv /\ Healthy

\* A success in a window of successes leaves one; the ratio of failures is above
\* zero, so it does not trip.
LEMMA SuccessRecorded ==
    ASSUME NEW b, WellFormed(b), NoMisses(b)
    PROVE  NoMisses(completeClosed(b, "success"))
  <1> DEFINE r == recordLocked(b, TRUE)
  <1>0. Miss(TRUE) = 0 /\ b.outcomes \in Seq(BOOLEAN) /\ b.failures = 0 /\ b.state = "closed"
    BY Zenon DEF Miss, WellFormed, BreakerType, NoMisses
  <1>1. WellFormed(r) /\ r.state = "closed"
    BY Zenon, <1>0, RecordFacts
  <1> HIDE DEF r
  <1>2. r.failures = 0 /\ \A i \in 1..Len(r.outcomes) : r.outcomes[i] = TRUE
    <2>1. CASE Len(b.outcomes) < WindowSize
      <3>1. r.failures = 0 + 0 /\ r.outcomes = Append(b.outcomes, TRUE)
        BY Zenon, <1>0, <2>1 DEF r, recordLocked, WellFormed, BreakerType, Miss
      <3>2. \A i \in 1..Len(Append(b.outcomes, TRUE)) : Append(b.outcomes, TRUE)[i] = TRUE
        BY <1>0 DEF NoMisses
      <3> QED
        BY <1>0, <3>1, <3>2
    <2>2. CASE ~(Len(b.outcomes) < WindowSize)
      <3>1. b.next + 1 \in 1..Len(b.outcomes)
        BY <2>2, BreakerOptions DEF WellFormed, BreakerType
      <3>2. b.outcomes[b.next + 1] = TRUE
        BY Zenon, <3>1 DEF NoMisses
      <3>3. r.outcomes = [b.outcomes EXCEPT ![b.next + 1] = TRUE]
        BY Zenon, <2>2 DEF r, recordLocked, WellFormed, BreakerType
      <3>4. r.failures = (0 - 0) + 0
        BY Zenon, <1>0, <2>2, <3>2 DEF r, recordLocked, WellFormed, BreakerType, Miss
      <3>5. Len(r.outcomes) = Len(b.outcomes)
            /\ \A i \in 1..Len(b.outcomes) : r.outcomes[i] = TRUE
        BY <1>0, <3>1, <3>3 DEF NoMisses
      <3> QED
        BY <3>4, <3>5
    <2> QED
      BY Zenon, <2>1, <2>2
  <1>3. ~Tripped(Len(r.outcomes), r.failures)
    <2> DEFINE n == Len(r.outcomes)
    <2>1. n \in Nat
      BY <1>1 DEF WellFormed, BreakerType
    <2> HIDE DEF n
    <2>2. ASSUME n >= MinimumRequests PROVE ~(0 * RatioDen >= RatioNum * n)
      BY <2>1, <2>2, BreakerOptions
    <2>3. ~Tripped(n, 0)
      BY Zenon, <2>2 DEF Tripped
    <2> QED
      BY Zenon, <1>2, <2>3 DEF n
  <1>4. completeClosed(b, "success") = r
    BY Zenon, <1>3 DEF r, completeClosed
  <1> HIDE DEF r
  <1> QED
    BY Zenon, <1>1, <1>2, <1>4 DEF NoMisses

\* The other methods leave such a breaker as it is.
LEMMA NoMissesKept ==
    ASSUME NEW b, WellFormed(b), NoMisses(b), NEW p
    PROVE  /\ advanceLocked(b) = b /\ available(b) /\ admit(b) = b /\ elapse(b) = b
           /\ NoMisses(complete(b, p, "success"))
  <1>1. complete(b, p, "success") \in {b, completeClosed(b, "success")}
    BY Zenon DEF complete, NoMisses
  <1>2. NoMisses(complete(b, p, "success"))
    BY Zenon, <1>1, SuccessRecorded
  <1> QED
    BY Zenon, <1>2 DEF NoMisses, advanceLocked, available, admit, elapse

\* At the start no breaker has a miss in its window and no target is
\* excluded.
LEMMA HealthyInit == Init => Healthy
  <1>1. NoMisses(New)
    <2>1. Len(<<>>) = 0
      BY Zenon
    <2> QED
      BY <2>1 DEF NoMisses, New
  <1> QED
    BY Zenon, <1>1 DEF Init, Healthy

\* As long as no call goes bad, no breaker gets a miss and no target is
\* excluded.
LEMMA HealthyStep == HealthyInv /\ [Next]_vars => Healthy'
  <1> SUFFICES ASSUME HealthyInv, [Next]_vars, bad' = 0
               PROVE  /\ \A t \in Targets : NoMisses(breakers'[t])
                      /\ \A r \in Requests : excluded'[r] = {}
    BY Zenon DEF Healthy, NoMisses
  <1>0. TypeOK /\ Breakers /\ Turns /\ Healthy
    BY Zenon DEF HealthyInv, TypeInv
  <1>1. ASSUME bad = 0, NEW p
        PROVE  \A t \in Targets :
                 /\ advanceLocked(breakers[t]) = breakers[t] /\ available(breakers[t])
                 /\ admit(breakers[t]) = breakers[t] /\ elapse(breakers[t]) = breakers[t]
                 /\ NoMisses(complete(breakers[t], p, "success"))
    BY Zenon, <1>0, <1>1, NoMissesKept DEF Healthy, Breakers
  <1>2. CASE breakers' = breakers /\ excluded' = excluded /\ bad' = bad
    BY Zenon, <1>0, <1>2 DEF Healthy
  <1>3. ASSUME NEW r \in Requests, NEW t \in Targets, Asked(r, t), UNCHANGED <<excluded, bad>>
        PROVE  breakers' = breakers
    <2>1. advanceLocked(breakers[t]) = breakers[t]
      BY Zenon, <1>1, <1>3
    <2> QED
      BY Zenon, <1>0, <1>3, <2>1 DEF Asked, TypeOK
  <1>4. ASSUME NEW r \in Requests, ScanRoundRobin(r)
        PROVE  breakers' = breakers /\ excluded' = excluded /\ bad' = bad
    <2>1. next \in Targets /\ Asked(r, next) /\ UNCHANGED <<excluded, bad>>
      BY Zenon, <1>0, <1>4 DEF TypeOK, ScanRoundRobin, Pick, Pass
    <2> QED
      BY Zenon, <1>3, <2>1
  <1>5. ASSUME NEW r \in Requests, ScanWeighted(r)
        PROVE  breakers' = breakers /\ excluded' = excluded /\ bad' = bad
    <2>1. scan.checked \in Targets
      BY <1>0, <1>5, ScanFields, RouterOptions DEF Targets, ScanWeighted
    <2>2. Asked(r, scan.checked) /\ UNCHANGED <<excluded, bad>>
      BY Zenon, <1>5 DEF ScanWeighted, Pass
    <2> QED
      BY Zenon, <1>3, <2>1, <2>2
  <1>6. ASSUME NEW r \in Requests, EndWeighted(r)
        PROVE  breakers' = breakers /\ excluded' = excluded /\ bad' = bad
    BY Zenon, <1>6 DEF EndWeighted, Pick
  <1>7. ASSUME NEW r \in Requests, Arrive(r) \/ Lock(r)
        PROVE  breakers' = breakers /\ excluded' = excluded /\ bad' = bad
    BY Zenon, <1>7 DEF Arrive, Lock
  <1>8. ASSUME NEW r \in Requests, Leave(r), bad' = bad PROVE \A q \in Requests : excluded'[q] = {}
    BY Zenon, <1>0, <1>8 DEF Leave, TypeOK, Healthy
  <1>9. ASSUME NEW r \in Requests, Exhausted(r) \/ NoneHealthy(r)
        PROVE  /\ \A t \in Targets : NoMisses(breakers'[t])
               /\ \A q \in Requests : excluded'[q] = {}
    <2>1. Leave(r) /\ UNCHANGED <<breakers, bad>>
      BY Zenon, <1>9 DEF Exhausted, NoneHealthy
    <2> QED
      BY Zenon, <1>0, <1>8, <2>1 DEF Healthy
  <1>10. ASSUME NEW r \in Requests, CallAdmitted(r)
         PROVE  breakers' = breakers /\ excluded' = excluded /\ bad' = bad
    <2>1. target[r] \in Targets /\ bad' = bad /\ excluded' = excluded
      BY Zenon, <1>0, <1>10 DEF CallAdmitted, Turns
    <2>2. breakers' = [breakers EXCEPT ![target[r]] = breakers[target[r]]]
      BY Zenon, <1>1, <1>10, <2>1 DEF CallAdmitted
    <2>3. breakers \in [Targets -> BreakerType]
      BY Zenon, <1>0 DEF TypeOK
    <2> QED
      BY Zenon, <2>1, <2>2, <2>3
  <1>11. ASSUME NEW r \in Requests, CallRefused(r) PROVE FALSE
    <2>1. target[r] \in Targets /\ bad' = bad
      BY Zenon, <1>0, <1>11 DEF CallRefused, Turns
    <2> QED
      BY Zenon, <1>1, <1>11, <2>1 DEF CallRefused
  <1>12. ASSUME NEW r \in Requests, CallCanceled(r) PROVE FALSE
    BY <1>0, <1>12, RouterOptions DEF CallCanceled, TypeOK
  <1>13. ASSUME NEW r \in Requests, NEW outcome \in Outcomes, CallEnds(r, outcome)
         PROVE  /\ \A t \in Targets : NoMisses(breakers'[t])
                /\ \A q \in Requests : excluded'[q] = {}
    <2>1. outcome = "success" /\ bad' = bad
      BY <1>0, <1>13, RouterOptions DEF CallEnds, TypeOK
    <2>2. target[r] \in Targets /\ Leave(r)
      BY Zenon, <1>0, <1>13 DEF CallEnds, Turns
    <2>3. breakers' = [breakers EXCEPT ![target[r]] =
                         complete(breakers[target[r]], permit[r], "success")]
      BY Zenon, <1>13, <2>1 DEF CallEnds
    <2>4. NoMisses(complete(breakers[target[r]], permit[r], "success"))
      BY Zenon, <1>1, <2>1, <2>2
    <2>5. \A t \in Targets : NoMisses(breakers[t])
      BY Zenon, <1>0, <2>1 DEF Healthy
    <2>6. \A t \in Targets : NoMisses(breakers'[t])
      BY Zenon, <1>0, <2>2, <2>3, <2>4, <2>5 DEF TypeOK
    <2> QED
      BY Zenon, <1>8, <2>1, <2>2, <2>6
  <1>14. CASE Tick
    <2>1. bad' = bad /\ excluded' = excluded
          /\ \A t \in Targets : breakers'[t] = elapse(breakers[t])
      BY Zenon, <1>14 DEF Tick
    <2>2. \A t \in Targets : breakers'[t] = breakers[t]
      BY Zenon, <1>1, <2>1
    <2> QED
      BY Zenon, <1>0, <2>1, <2>2 DEF Healthy
  <1>15. CASE UNCHANGED vars
    BY Zenon, <1>2, <1>15 DEF vars
  <1> QED
    BY Zenon, <1>2, <1>4, <1>5, <1>6, <1>7, <1>9, <1>10, <1>11, <1>12, <1>13, <1>14, <1>15, NextCases

-----------------------------------------------------------------------------
(* WeightsSettle.                                                          *)

\* There are N targets, and every part of them has a count of at most N.
LEMMA TargetsFinite ==
    /\ IsFiniteSet(Targets) /\ Cardinality(Targets) = N
    /\ \A A \in SUBSET Targets :
         IsFiniteSet(A) /\ Cardinality(A) \in Nat /\ Cardinality(A) <= N
  <1>1. IsFiniteSet(Targets) /\ Cardinality(Targets) = N
    BY FS_Interval, RouterOptions DEF Targets
  <1> QED
    BY Zenon, <1>1, FS_Subset, FS_CardinalityType

-----------------------------------------------------------------------------
(* The invariant behind WeightsSettle, also in the middle of a scan.       *)

\* What the current weights were before the candidates C gained theirs.
Base(C) == [t \in Targets |-> IF t \in C THEN currentWeight[t] - weight[t]
                              ELSE currentWeight[t]]

\* C are the candidates the running scan has seen.
Seen(C) ==
    /\ \A t \in C : t < scan.checked
    /\ Settled(Targets, Base(C), weight)
    /\ scan.total = SumFunctionOnSet(weight, C)
    /\ scan.selected = None => C = {}
    /\ scan.selected # None =>
         scan.selected \in C /\ \A t \in C : currentWeight[t] <= currentWeight[scan.selected]
    /\ Strategy = "round_robin" => C = {}
    /\ Strategy # "round_robin" /\ bad = 0 => \A t \in Targets : t < scan.checked => t \in C

Settling ==
    /\ mu = None => Settled(Targets, currentWeight, weight)
    /\ mu # None => \E C \in SUBSET Targets : Seen(C)

SettleInv == HealthyInv /\ Settling

\* The configured weights are positive naturals.
LEMMA WeightType ==
    ASSUME TypeOK
    PROVE  /\ weight \in [Targets -> Nat] /\ weight \in [Targets -> Int]
           /\ \A t \in Targets : weight[t] \in Nat \ {0}
           /\ DOMAIN weight = Targets
  BY RouterOptions DEF TypeOK, Targets

\* With no target scanned yet, the weights the scan started from are the
\* current ones.
LEMMA BaseEmpty ==
    ASSUME TypeOK
    PROVE  Base({}) = currentWeight
  BY Zenon DEF TypeOK, Base

\* The current weights are what the candidates made of the base.
LEMMA BaseGained ==
    ASSUME TypeOK, NEW C \in SUBSET Targets
    PROVE  currentWeight = Gained(Targets, Base(C), weight, C) /\ Base(C) \in [Targets -> Int]
  <1>1. /\ \A t \in Targets : currentWeight[t] \in Int /\ weight[t] \in Int
        /\ currentWeight \in [Targets -> Int]
    BY Zenon, WeightType DEF TypeOK
  <1>2. \A t \in Targets : (currentWeight[t] - weight[t]) + weight[t] = currentWeight[t]
    BY <1>1
  <1> QED
    BY <1>1, <1>2 DEF Base, Gained

\* The loop variables of a scan, and what it depends on, are left alone.
LEMMA SettlingFrame ==
    ASSUME Settling, UNCHANGED <<weight, currentWeight, mu, scan>>, bad' = 0 => bad = 0
    PROVE  Settling'
  <1>1. Settled(Targets, currentWeight, weight)' = Settled(Targets, currentWeight, weight)
    BY Zenon DEF Settled
  <1>2. ASSUME NEW C \in SUBSET Targets, Seen(C) PROVE Seen(C)'
    <2>1. Base(C)' = Base(C)
      BY Zenon DEF Base
    <2>2. Settled(Targets, Base(C), weight)'
      BY Zenon, <1>2, <2>1 DEF Seen, Settled
    <2> QED
      BY Zenon, <1>2, <2>2 DEF Seen
  <1> QED
    BY Zenon, <1>1, <1>2 DEF Settling

\* The initial weights, all zero, are settled.
LEMMA SettlingInit == Init => Settling
  <1> SUFFICES ASSUME Init PROVE Settling
    BY Zenon
  <1>1. mu = None /\ currentWeight = [t \in Targets |-> 0]
    BY Zenon DEF Init
  <1> QED
    BY Zenon, <1>1, SettledZero, TargetsFinite DEF Settling

\* One round of the weighted loop: a candidate joins C.
LEMMA SettlingScanWeighted ==
    ASSUME SettleInv, NEW r \in Requests, ScanWeighted(r)
    PROVE  Settling'
  <1>0. TypeOK /\ Healthy /\ Breakers /\ Settling /\ N \in Nat
    BY Zenon, RouterOptions DEF SettleInv, HealthyInv, TypeInv
  <1> DEFINE t == scan.checked
  <1>1. t \in Targets /\ mu = r /\ mu # None /\ mu' = mu /\ Strategy # "round_robin"
    BY <1>0, ScanFields, RouterOptions DEF Targets, ScanWeighted, Pass
  <1>2. PICK C \in SUBSET Targets : Seen(C)
    BY Zenon, <1>0, <1>1 DEF Settling
  <1>3. UNCHANGED <<weight, bad>>
    BY Zenon DEF ScanWeighted, Pass
  <1>4. t \notin C /\ \A u \in Targets : u \in Int
    BY <1>0, <1>2, ScanFields DEF Seen, Targets
  <1>5. CASE Candidate(r, t)
    <2>0. PICK D \in SUBSET Targets : D = C \union {t}
      BY Zenon, <1>1
    <2>1. /\ currentWeight' = [currentWeight EXCEPT ![t] = @ + weight[t]]
          /\ scan' = [checked  |-> t + 1,
                      selected |-> IF Better(t, scan.selected) THEN t ELSE scan.selected,
                      total    |-> scan.total + weight[t]]
      BY Zenon, <1>5 DEF ScanWeighted
    <2>2. /\ scan'.checked = t + 1 /\ scan'.total = scan.total + weight[t]
          /\ scan'.selected = IF Better(t, scan.selected) THEN t ELSE scan.selected
      BY Zenon, <2>1
    <2>3. /\ weight[t] \in Int /\ weight \in [Targets -> Int]
          /\ \A u \in Targets : currentWeight[u] \in Int
          /\ currentWeight \in [Targets -> Int]
      BY Zenon, <1>0, <1>1, WeightType DEF TypeOK
    <2> HIDE DEF t
    <2>4. /\ currentWeight'[t] = currentWeight[t] + weight[t]
          /\ \A u \in Targets \ {t} : currentWeight'[u] = currentWeight[u]
      BY Zenon, <1>1, <2>1, <2>3
    <2>5. Base(D)' = Base(C)
      <3>1. \A u \in Targets :
              (IF u \in D THEN currentWeight'[u] - weight[u] ELSE currentWeight'[u])
                = (IF u \in C THEN currentWeight[u] - weight[u] ELSE currentWeight[u])
        BY <1>1, <1>4, <2>0, <2>3, <2>4
      <3> QED
        BY Zenon, <1>3, <3>1 DEF Base
    <2>6. Settled(Targets, Base(D), weight)'
      BY Zenon, <1>2, <1>3, <2>5 DEF Seen, Settled
    <2>7. scan'.total = SumFunctionOnSet(weight', D)
      <3>1. SumFunctionOnSet(weight, C \union {t}) = weight[t] + SumFunctionOnSet(weight, C)
            /\ SumFunctionOnSet(weight, C) \in Int
        BY <1>1, <1>4, <2>3, SumAdd, TargetsFinite
      <3> QED
        BY <1>2, <1>3, <2>0, <2>2, <2>3, <3>1 DEF Seen
    <2>8. /\ scan'.selected \in D /\ scan'.selected # None
          /\ \A u \in D : currentWeight'[u] <= currentWeight'[scan'.selected]
      <3>1. CASE scan.selected = None
        <4>1. C = {} /\ scan'.selected = t
          BY Zenon, <1>2, <2>2, <3>1 DEF Seen, Better
        <4> QED
          BY <1>1, <2>0, <2>3, <2>4, <4>1, RouterOptions DEF Targets
      <3>2. CASE scan.selected # None
        <4>1. /\ scan.selected \in C /\ scan.selected \in Targets /\ scan.selected # t
              /\ \A u \in C : currentWeight[u] <= currentWeight[scan.selected]
          BY Zenon, <1>2, <1>4, <3>2 DEF Seen
        <4>2. CASE currentWeight[t] + weight[t] > currentWeight[scan.selected]
          <5>1. scan'.selected = t
            BY Zenon, <2>2, <4>2 DEF Better
          <5>2. \A u \in C : currentWeight'[u] <= currentWeight'[t]
            BY <1>1, <1>4, <2>3, <2>4, <4>1, <4>2
          <5> QED
            BY SMTT(20), <1>1, <2>0, <2>3, <2>4, <5>1, <5>2, RouterOptions DEF Targets
        <4>3. CASE ~(currentWeight[t] + weight[t] > currentWeight[scan.selected])
          <5>1. scan'.selected = scan.selected
            BY Zenon, <2>2, <3>2, <4>3 DEF Better
          <5>2. \A u \in C : currentWeight'[u] <= currentWeight'[scan.selected]
            BY Zenon, <1>4, <2>4, <4>1
          <5>3. currentWeight'[t] <= currentWeight'[scan.selected]
            BY <1>1, <2>3, <2>4, <4>1, <4>3
          <5> QED
            BY Zenon, <2>0, <3>2, <4>1, <5>1, <5>2, <5>3
        <4> QED
          BY Zenon, <4>2, <4>3
      <3> QED
        BY Zenon, <3>1, <3>2
    <2>9. \A u \in D : u < scan'.checked
      BY <1>0, <1>1, <1>2, <1>4, <2>0, <2>2 DEF Seen, t
    <2>10. bad' = 0 => \A u \in Targets : u < scan'.checked => u \in D
      <3>1. \A u \in Targets : u < t + 1 => u < t \/ u = t
        BY <1>1, <1>4
      <3> QED
        BY Zenon, <1>1, <1>2, <1>3, <2>0, <2>2, <3>1 DEF Seen, t
    <2>11. Seen(D)'
      BY Zenon, <1>1, <2>6, <2>7, <2>8, <2>9, <2>10 DEF Seen
    <2> QED
      BY Zenon, <1>1, <2>11 DEF Settling
  <1>6. CASE ~Candidate(r, t)
    <2>1. scan' = [scan EXCEPT !.checked = t + 1] /\ currentWeight' = currentWeight
      BY Zenon, <1>6 DEF ScanWeighted
    <2>2. scan'.checked = t + 1 /\ scan'.selected = scan.selected /\ scan'.total = scan.total
      BY Zenon, <1>0, <2>1 DEF TypeOK
    <2>3. bad # 0
      <3> SUFFICES ASSUME bad = 0 PROVE FALSE
        BY Zenon
      <3>1. NoMisses(breakers[t]) /\ WellFormed(breakers[t]) /\ t \notin excluded[r]
        BY Zenon, <1>0, <1>1 DEF Healthy, Breakers
      <3> QED
        BY Zenon, <1>6, <3>1, NoMissesKept DEF Candidate
    <2>4. Settled(Targets, Base(C), weight)'
      <3>1. Base(C)' = Base(C)
        BY Zenon, <1>3, <2>1 DEF Base
      <3> QED
        BY Zenon, <1>2, <1>3, <3>1 DEF Seen, Settled
    <2>5. \A u \in C : u < scan'.checked
      BY <1>0, <1>1, <1>2, <1>4, <2>2 DEF Seen
    <2>6. Seen(C)'
      <3> HIDE DEF t
      <3> QED
        BY Zenon, <1>1, <1>2, <1>3, <2>1, <2>2, <2>3, <2>4, <2>5 DEF Seen
    <2> QED
      BY Zenon, <1>1, <2>6 DEF Settling
  <1> QED
    BY Zenon, <1>5, <1>6

\* The end of the weighted loop.
LEMMA SettlingEndWeighted ==
    ASSUME SettleInv, NEW r \in Requests, EndWeighted(r)
    PROVE  Settled(Targets, currentWeight, weight)'
  <1>0. TypeOK /\ Settling
    BY Zenon DEF SettleInv, HealthyInv, TypeInv
  <1>1. /\ mu = r /\ mu # None /\ mu' = None /\ weight' = weight /\ scan.selected # None
        /\ currentWeight' = [currentWeight EXCEPT ![scan.selected] = @ - scan.total]
    BY Zenon, RouterOptions DEF EndWeighted, Pick
  <1>2. PICK C \in SUBSET Targets : Seen(C)
    BY Zenon, <1>0, <1>1 DEF Settling
  <1>3. /\ scan.selected \in C /\ scan.total = SumFunctionOnSet(weight, C)
        /\ \A t \in C : currentWeight[t] <= currentWeight[scan.selected]
        /\ Settled(Targets, Base(C), weight)
    BY Zenon, <1>1, <1>2 DEF Seen
  <1>4. currentWeight = Gained(Targets, Base(C), weight, C) /\ weight \in [Targets -> Nat]
    BY Zenon, <1>0, BaseGained, WeightType
  <1> DEFINE b == Base(C)
  <1> HIDE DEF b
  <1>5. Settled(Targets, [Gained(Targets, b, weight, C) EXCEPT
                             ![scan.selected] = @ - SumFunctionOnSet(weight, C)], weight)
    BY Zenon, <1>3, <1>4, SettledSelection, TargetsFinite DEF b
  <1>6. Settled(Targets, currentWeight', weight)
    BY Zenon, <1>1, <1>3, <1>4, <1>5 DEF b
  <1> QED
    BY Zenon, <1>1, <1>6 DEF Settled

\* Every step of a scan keeps the weights settled.
LEMMA SettlingStep == SettleInv /\ [Next]_vars => Settling'
  <1> SUFFICES ASSUME SettleInv, [Next]_vars PROVE Settling'
    BY Zenon
  <1>0. TypeOK /\ Turns /\ Settling
    BY Zenon DEF SettleInv, HealthyInv, TypeInv
  <1>1. ASSUME NEW r \in Requests,
               Arrive(r) \/ Exhausted(r) \/ CallAdmitted(r) \/ CallRefused(r)
        PROVE  Settling'
    BY Zenon, <1>0, <1>1, SettlingFrame DEF Arrive, Exhausted, CallAdmitted, CallRefused, router
  <1>2. ASSUME NEW r \in Requests, CallCanceled(r) PROVE Settling'
    <2>1. bad' # 0
      BY <1>0, <1>2, BadType DEF CallCanceled
    <2> QED
      BY Zenon, <1>0, <1>2, <2>1, SettlingFrame DEF CallCanceled, router
  <1>3. ASSUME NEW r \in Requests, NEW outcome \in Outcomes, CallEnds(r, outcome) PROVE Settling'
    <2>1. bad' = 0 => bad = 0
      BY <1>0, <1>3, BadType DEF CallEnds
    <2> QED
      BY Zenon, <1>0, <1>3, <2>1, SettlingFrame DEF CallEnds, router
  <1>4. ASSUME Tick \/ UNCHANGED vars PROVE Settling'
    BY Zenon, <1>0, <1>4, SettlingFrame DEF Tick, vars, router
  <1>5. ASSUME NEW r \in Requests, Lock(r) PROVE Settling'
    <2>1. /\ mu = None /\ mu' # None /\ UNCHANGED <<currentWeight, weight>> /\ scan' = NewScan
      BY Zenon, <1>5, RouterOptions DEF Lock
    <2>2. scan'.checked = 0 /\ scan'.selected = None /\ scan'.total = 0
      BY Zenon, <2>1 DEF NewScan
    <2>3. Base({})' = currentWeight
      <3>1. currentWeight \in [Targets -> Int]
        BY Zenon, <1>0 DEF TypeOK
      <3> QED
        BY Zenon, <2>1, <3>1 DEF Base
    <2>4. Settled(Targets, Base({}), weight)'
      BY Zenon, <1>0, <2>1, <2>3 DEF Settling, Settled
    <2>5. SumFunctionOnSet(weight', {}) = 0
      BY Zenon, <1>0, <2>1, WeightType, SumFacts, TargetsFinite
    <2>6. \A t \in Targets : ~(t < 0)
      BY RouterOptions DEF Targets
    <2>7. Seen({})'
      BY Zenon, <2>2, <2>4, <2>5, <2>6 DEF Seen
    <2> QED
      BY Zenon, <2>1, <2>7 DEF Settling
  <1>6. ASSUME mu # None, scan.selected = None \/ Strategy = "round_robin"
        PROVE  Settled(Targets, currentWeight, weight)
    <2>1. PICK C \in SUBSET Targets : Seen(C)
      BY Zenon, <1>0, <1>6 DEF Settling
    <2>2. C = {}
      BY Zenon, <1>6, <2>1 DEF Seen
    <2> QED
      BY Zenon, <1>0, <2>1, <2>2, BaseEmpty DEF Seen
  <1>7. ASSUME NEW r \in Requests, ScanRoundRobin(r) PROVE Settling'
    <2>1. mu = r /\ mu # None /\ Strategy = "round_robin" /\ UNCHANGED <<currentWeight, weight, bad>>
      BY Zenon, <1>7, RouterOptions DEF ScanRoundRobin, Pick, Pass
    <2>2. CASE Candidate(r, next)
      <3>1. mu' = None
        BY Zenon, <1>7, <2>2 DEF ScanRoundRobin, Pick
      <3> QED
        BY Zenon, <1>6, <2>1, <3>1 DEF Settling, Settled
    <2>3. CASE ~Candidate(r, next)
      <3>1. mu' = mu /\ scan' = [scan EXCEPT !.checked = @ + 1]
        BY Zenon, <1>7, <2>3 DEF ScanRoundRobin, Pass
      <3>2. scan'.selected = scan.selected /\ scan'.total = scan.total
        BY Zenon, <1>0, <3>1 DEF TypeOK
      <3>3. PICK C \in SUBSET Targets : Seen(C)
        BY Zenon, <1>0, <2>1 DEF Settling
      <3>4. C = {} /\ scan.selected = None
        BY Zenon, <2>1, <3>3 DEF Seen
      <3>5. Base(C)' = Base(C)
        BY Zenon, <2>1 DEF Base
      <3>6. Seen(C)'
        BY Zenon, <2>1, <3>2, <3>3, <3>4, <3>5 DEF Seen, Settled
      <3> QED
        BY Zenon, <2>1, <3>1, <3>6 DEF Settling
    <2> QED
      BY Zenon, <2>2, <2>3
  <1>8. ASSUME NEW r \in Requests, NoneHealthy(r) PROVE Settling'
    <2>1. /\ mu # None /\ mu' = None /\ scan.selected = None
          /\ UNCHANGED <<currentWeight, weight>>
      BY Zenon, <1>8, RouterOptions DEF NoneHealthy
    <2> QED
      BY Zenon, <1>6, <2>1 DEF Settling, Settled
  <1>9. ASSUME NEW r \in Requests, EndWeighted(r) PROVE Settling'
    <2>1. mu' = None
      BY Zenon, <1>9 DEF EndWeighted, Pick
    <2> QED
      BY Zenon, <1>9, <2>1, SettlingEndWeighted DEF Settling
  <1> QED
    BY Zenon, <1>1, <1>2, <1>3, <1>4, <1>5, <1>7, <1>8, <1>9, SettlingScanWeighted, NextCases

\* Between selections the smooth weights of selectTarget add up to zero, and none of
\* them drifts further than the heaviest weight for each of the other targets.
THEOREM SmoothWeightsSettle == Spec => []WeightsSettle
  <1>1. Init => SettleInv
    BY Zenon, TypeInit, HealthyInit, SettlingInit DEF SettleInv, HealthyInv
  <1>2. SettleInv /\ [Next]_vars => SettleInv'
    BY Zenon, TypeStep, HealthyStep, SettlingStep DEF SettleInv, HealthyInv
  <1>3. SettleInv => WeightsSettle
    <2> SUFFICES ASSUME SettleInv, mu = None
                 PROVE  /\ SumFunction(currentWeight) = 0
                        /\ \A t \in Targets : \E u \in Targets :
                             /\ 0 - (N - 1) * weight[u] <= currentWeight[t]
                             /\ currentWeight[t] <= (N - 1) * weight[u]
      BY Zenon DEF WeightsSettle
    <2>1. TypeOK /\ Settled(Targets, currentWeight, weight)
      BY Zenon DEF SettleInv, HealthyInv, TypeInv, Settling
    <2>2. SumFunction(currentWeight) = 0
      BY Zenon, <2>1 DEF Settled, SumFunction
    <2> QED
      BY Zenon, <2>1, <2>2, SettledBound, TargetsFinite, WeightType
  <1> QED
    BY <1>1, <1>2, <1>3, PTL DEF Spec

-----------------------------------------------------------------------------
(* FairShare: as long as every call has succeeded, the current weights are *)
(* what the selections of the cycle owe to each target.                    *)

Whole == SumFunctionOnSet(weight, Targets)
Count == SumFunctionOnSet(picked, Targets)

Owed(t) == Count * weight[t] - picked[t] * Whole

FairWeighted ==
    bad = 0 /\ Strategy # "round_robin" =>
        /\ Count <= Whole
        /\ \A t \in Targets :
            /\ 0 - Whole < Owed(t)
            /\ Owed(t) = IF mu # None /\ t < scan.checked THEN currentWeight[t] - weight[t]
                         ELSE currentWeight[t]

FairRoundRobin ==
    bad = 0 /\ Strategy = "round_robin" =>
        \E n \in 0..N :
            /\ Count = n /\ next = IF n = N THEN 0 ELSE n
            /\ \A t \in Targets : picked[t] = IF t < n THEN 1 ELSE 0

FairInv == SettleInv /\ FairWeighted /\ FairRoundRobin

\* What the sums of a cycle are: the selections so far and the total weight.
LEMMA CycleSums ==
    ASSUME TypeOK
    PROVE  /\ SumFunction(picked) = Count /\ Count \in Nat
           /\ SumFunction(weight) = Whole /\ Whole \in Nat \ {0}
           /\ Cycle = IF Strategy = "round_robin" THEN N ELSE Whole
  <1>1. /\ picked \in [Targets -> Nat] /\ picked \in [Targets -> Int]
        /\ DOMAIN picked = Targets /\ 0 \in Targets
    BY RouterOptions DEF TypeOK, Targets
  <1>2. SumFunction(picked) = Count /\ SumFunction(weight) = Whole
    BY Zenon, <1>1, WeightType DEF SumFunction, Count, Whole
  <1>3. Count \in Nat
    BY Zenon, <1>1, SumPart, TargetsFinite DEF Count
  <1>4. Whole \in Int /\ Whole = weight[0] + SumFunctionOnSet(weight, Targets \ {0})
        /\ SumFunctionOnSet(weight, Targets \ {0}) \in Nat /\ weight[0] \in Nat \ {0}
    BY <1>1, WeightType, SumFacts, SumPart, TargetsFinite DEF Whole
  <1> QED
    BY <1>2, <1>3, <1>4 DEF Cycle

\* When the cycle is over nobody has more than its share, so everybody has exactly it.
LEMMA CycleOver ==
    ASSUME TypeOK, Count = Whole, \A t \in Targets : 0 - Whole < Owed(t), NEW u \in Targets
    PROVE  picked[u] = weight[u]
  <1>0. /\ picked \in [Targets -> Nat] /\ picked \in [Targets -> Int]
        /\ weight \in [Targets -> Int] /\ Whole \in Nat \ {0}
        /\ \A t \in Targets : picked[t] \in Nat /\ weight[t] \in Nat
    BY WeightType, CycleSums DEF TypeOK
  <1>1. \A t \in Targets : picked[t] <= weight[t]
    <2> SUFFICES ASSUME NEW t \in Targets, picked[t] >= weight[t] + 1 PROVE FALSE
      BY <1>0
    <2> DEFINE p == picked[t]
               w == weight[t]
               W == Whole
    <2>1. p \in Nat /\ w \in Nat /\ W \in Nat \ {0} /\ p >= w + 1
      BY Zenon, <1>0
    <2>2. 0 - W < W * w - p * W
      BY Zenon DEF Owed
    <2> HIDE DEF p, w, W
    <2>3. p * W >= (w + 1) * W
      BY <2>1
    <2>4. (w + 1) * W = W * w + W
      BY <2>1
    <2>5. p * W \in Int /\ W * w \in Int
      BY <2>1
    <2> QED
      BY <2>1, <2>2, <2>3, <2>4, <2>5
  <1>2. SumFunctionOnSet(picked, Targets \ {u}) <= SumFunctionOnSet(weight, Targets \ {u})
    BY Zenon, <1>0, <1>1, SumMonotone, TargetsFinite
  <1>3. /\ Count = picked[u] + SumFunctionOnSet(picked, Targets \ {u})
        /\ SumFunctionOnSet(picked, Targets \ {u}) \in Int
    BY <1>0, SumFacts, TargetsFinite DEF Count
  <1>4. /\ Whole = weight[u] + SumFunctionOnSet(weight, Targets \ {u})
        /\ SumFunctionOnSet(weight, Targets \ {u}) \in Int
    BY <1>0, SumFacts, TargetsFinite DEF Whole
  <1>5. picked[u] \in Nat /\ weight[u] \in Nat /\ picked[u] <= weight[u]
    BY Zenon, <1>0, <1>1
  <1>6. picked[u] + SumFunctionOnSet(picked, Targets \ {u})
          = weight[u] + SumFunctionOnSet(weight, Targets \ {u})
    BY Zenon, <1>3, <1>4
  <1> QED
    BY SMTT(20), <1>2, <1>3, <1>4, <1>5, <1>6

\* The selections of the cycle that goes on, or of the one that starts.
Sofar == [u \in Targets |-> IF Count < Cycle THEN picked[u] ELSE 0]

\* A selection counts one more for its target and in all, after a fresh start
\* when the cycle was full.
LEMMA PickedNext ==
    ASSUME TypeOK, bad = 0, NEW r \in Requests, NEW s \in Targets, Pick(r, s)
    PROVE  /\ \A u \in Targets : picked'[u] = Sofar[u] + IF u = s THEN 1 ELSE 0
           /\ Count' = SumFunctionOnSet(Sofar, Targets) + 1
           /\ SumFunctionOnSet(Sofar, Targets) = IF Count < Cycle THEN Count ELSE 0
           /\ Sofar \in [Targets -> Nat]
  <1>0. picked \in [Targets -> Nat] /\ picked \in [Targets -> Int] /\ Targets \in SUBSET Targets
    BY DEF TypeOK
  <1>1. Sofar \in [Targets -> Nat] /\ Sofar \in [Targets -> Int]
    BY <1>0 DEF Sofar
  <1>2. picked' = [u \in Targets |-> Sofar[u] + IF u = s THEN 1 ELSE 0]
    <2>1. picked' = [u \in Targets |->
                      (IF SumFunction(picked) < Cycle THEN picked[u] ELSE 0)
                        + (IF u = s THEN 1 ELSE 0)]
      BY DEF Pick
    <2> QED
      BY Zenon, <2>1, CycleSums DEF Sofar
  <1>3. SumFunctionOnSet(Sofar, Targets) = IF Count < Cycle THEN Count ELSE 0
    <2>1. CASE Count < Cycle
      <3>1. \A u \in Targets : Sofar[u] = picked[u]
        BY Zenon, <2>1 DEF Sofar
      <3> QED
        BY <1>0, <1>1, <2>1, <3>1, SumSame, TargetsFinite DEF Count
    <2>2. CASE ~(Count < Cycle)
      <3>1. \A u \in Targets : Sofar[u] = 0
        BY Zenon, <2>2 DEF Sofar
      <3> QED
        BY Zenon, <1>0, <1>1, <2>2, <3>1, SumZero, TargetsFinite
    <2> QED
      BY Zenon, <2>1, <2>2
  <1>4. PICK p : p = Sofar
    BY Zenon
  <1>5. PICK q : q = picked'
    BY Zenon
  <1>6. /\ p \in [Targets -> Int] /\ q \in [Targets -> Int]
        /\ q[s] = p[s] + 1 /\ \A u \in Targets \ {s} : p[u] = q[u]
    BY <1>1, <1>2, <1>4, <1>5
  <1>7. SumFunctionOnSet(q, Targets) = SumFunctionOnSet(p, Targets) - p[s] + q[s]
    BY <1>0, <1>6, SumExcept, TargetsFinite
  <1>8. SumFunctionOnSet(p, Targets) \in Int /\ p[s] \in Int
    BY Zenon, <1>0, <1>6, SumFacts, TargetsFinite
  <1>9. SumFunctionOnSet(q, Targets) = SumFunctionOnSet(p, Targets) + 1
    BY <1>6, <1>7, <1>8
  <1>10. Count' = SumFunctionOnSet(q, Targets)
    BY Zenon, <1>5 DEF Count, Targets
  <1> QED
    BY Zenon, <1>1, <1>2, <1>3, <1>4, <1>9, <1>10

\* The largest of current weights that add up to something positive is positive.
LEMMA LargestPositive ==
    ASSUME NEW c \in [Targets -> Int], NEW s \in Targets,
           \A t \in Targets : c[t] <= c[s], SumFunctionOnSet(c, Targets) > 0
    PROVE  c[s] > 0
  <1>1. SumFunctionOnSet(c, Targets) <= N * c[s]
    BY Zenon, SumBound, TargetsFinite
  <1>2. SumFunctionOnSet(c, Targets) \in Int
    BY Zenon, SumFacts, TargetsFinite
  <1> QED
    BY <1>1, <1>2, RouterOptions

\* The end of a weighted scan keeps what each target is owed equal to its
\* current weight.
LEMMA FairWeightedEnd ==
    ASSUME FairInv, NEW r \in Requests, EndWeighted(r), bad = 0, Strategy # "round_robin"
    PROVE  /\ Count' <= Whole'
           /\ \A t \in Targets : 0 - Whole' < Owed(t)' /\ Owed(t)' = currentWeight'[t]
  <1>0. TypeOK /\ Settling /\ FairWeighted
    BY Zenon DEF FairInv, SettleInv, HealthyInv, TypeInv
  <1> DEFINE s == scan.selected
             p == Sofar
             n == SumFunctionOnSet(Sofar, Targets)
             W == Whole
  <1>1. /\ mu = r /\ mu # None /\ mu' = None /\ weight' = weight /\ s # None /\ scan.checked = N
        /\ currentWeight' = [currentWeight EXCEPT ![s] = @ - scan.total] /\ Pick(r, s)
    BY Zenon, RouterOptions DEF EndWeighted, Pick
  <1>2. PICK C \in SUBSET Targets : Seen(C)
    BY Zenon, <1>0, <1>1 DEF Settling
  <1>3. \A t \in Targets : t < N
    BY RouterOptions DEF Targets
  <1>4. C = Targets
    BY Zenon, <1>1, <1>2, <1>3 DEF Seen
  <1>5. /\ s \in Targets /\ scan.total = W /\ Settled(Targets, Base(Targets), weight)
        /\ \A t \in Targets : currentWeight[t] <= currentWeight[s]
    BY Zenon, <1>1, <1>2, <1>4 DEF Seen, Whole
  <1>6. /\ \A t \in Targets : weight[t] \in Nat \ {0} /\ currentWeight[t] \in Int
        /\ weight \in [Targets -> Int] /\ W \in Nat \ {0} /\ Count \in Nat
        /\ Cycle = W /\ currentWeight \in [Targets -> Int]
    BY Zenon, <1>0, CycleSums, WeightType DEF TypeOK
  <1>7. /\ \A u \in Targets : picked'[u] = p[u] + IF u = s THEN 1 ELSE 0
        /\ Count' = n + 1 /\ n = (IF Count < W THEN Count ELSE 0)
        /\ \A u \in Targets : p[u] = (IF Count < W THEN picked[u] ELSE 0) /\ p[u] \in Nat
    <2>1. /\ \A u \in Targets : picked'[u] = Sofar[u] + IF u = s THEN 1 ELSE 0
          /\ Count' = SumFunctionOnSet(Sofar, Targets) + 1
          /\ SumFunctionOnSet(Sofar, Targets) = IF Count < Cycle THEN Count ELSE 0
          /\ Sofar \in [Targets -> Nat]
      BY Zenon, <1>0, <1>1, <1>5, PickedNext
    <2>2. \A u \in Targets : Sofar[u] = (IF Count < W THEN picked[u] ELSE 0) /\ Sofar[u] \in Nat
      BY Zenon, <1>6, <2>1 DEF Sofar
    <2> QED
      BY Zenon, <1>6, <2>1, <2>2
  <1>8. \A t \in Targets : 0 - W < Owed(t) /\ Owed(t) = currentWeight[t] - weight[t]
    BY Zenon, <1>0, <1>1, <1>3 DEF FairWeighted
  <1>9. Count <= W
    BY Zenon, <1>0 DEF FairWeighted
  <1> HIDE DEF p, n, W, s
  <1>10. \A t \in Targets : n * weight[t] - p[t] * W = Owed(t)
    <2> SUFFICES ASSUME NEW t \in Targets PROVE n * weight[t] - p[t] * W = Owed(t)
      BY Zenon
    <2>1. CASE Count < W
      BY Zenon, <1>7, <2>1 DEF Owed, W
    <2>2. CASE ~(Count < W)
      <3>1. Count = W
        BY <1>6, <1>9, <2>2
      <3>2. picked[t] = weight[t]
        BY Zenon, <1>0, <1>8, <3>1, CycleOver DEF W
      <3>3. Owed(t) = W * weight[t] - weight[t] * W
        BY Zenon, <3>1, <3>2 DEF Owed, W
      <3>4. n = 0 /\ p[t] = 0 /\ weight[t] \in Nat
        BY Zenon, <1>6, <1>7, <2>2
      <3> QED
        BY <1>6, <3>3, <3>4
    <2> QED
      BY Zenon, <2>1, <2>2
  <1>11. Whole' = W
    BY Zenon, <1>1 DEF Whole, W, Targets
  <1>12. currentWeight[s] > 0
    <2>1. Base(Targets) \in [Targets -> Int]
          /\ currentWeight = Gained(Targets, Base(Targets), weight, Targets) /\ weight \in [Targets -> Nat]
      BY Zenon, <1>0, BaseGained, WeightType
    <2> DEFINE b == Base(Targets)
    <2> HIDE DEF b
    <2>2. SumFunctionOnSet(Gained(Targets, b, weight, Targets), Targets)
            = SumFunctionOnSet(b, Targets) + SumFunctionOnSet(weight, Targets \intersect Targets)
      BY <2>1, SumGained, TargetsFinite DEF b
    <2>3. SumFunctionOnSet(currentWeight, Targets) = 0 + W
      <3>1. Targets \intersect Targets = Targets
        BY Zenon
      <3>2. SumFunctionOnSet(b, Targets) = 0
        BY Zenon, <1>5 DEF Settled, b
      <3> QED
        BY Zenon, <2>1, <2>2, <3>1, <3>2 DEF b, W, Whole
    <2>4. SumFunctionOnSet(currentWeight, Targets) > 0
      BY <1>6, <2>3
    <2> QED
      BY Zenon, <1>5, <1>6, <2>4, LargestPositive
  <1>13. ASSUME NEW t \in Targets PROVE 0 - Whole' < Owed(t)' /\ Owed(t)' = currentWeight'[t]
    <2> DEFINE w == weight[t]
               q == p[t]
               c == currentWeight[t]
    <2>1. Owed(t)' = (n + 1) * weight[t] - picked'[t] * W
      BY Zenon, <1>1, <1>7, <1>11 DEF Owed
    <2>2. n * w - q * W = c - w /\ 0 - W < c - w
      BY Zenon, <1>8, <1>10, <1>13
    <2>3. w \in Nat \ {0} /\ q \in Nat /\ c \in Int /\ W \in Nat \ {0} /\ n \in Nat
      BY Zenon, <1>6, <1>7, <1>13
    <2>4. CASE t = s
      <3>1. picked'[t] = q + 1 /\ currentWeight'[t] = c - W
        BY Zenon, <1>1, <1>5, <1>6, <1>7, <2>4 DEF W
      <3>2. c > 0
        BY Zenon, <1>12, <2>4
      <3> HIDE DEF w, q, c
      <3>3. (n + 1) * w - (q + 1) * W = c - W
        <4>1. (n + 1) * w = n * w + w /\ (q + 1) * W = q * W + W
          BY <2>3
        <4>2. n * w \in Int /\ q * W \in Int
          BY <2>3
        <4> QED
          BY <2>2, <2>3, <4>1, <4>2
      <3>4. Owed(t)' = c - W
        BY Zenon, <2>1, <3>1, <3>3 DEF w
      <3> QED
        BY <1>11, <2>3, <3>1, <3>2, <3>4
    <2>5. CASE t # s
      <3>1. picked'[t] = q /\ currentWeight'[t] = c
        BY <1>1, <1>5, <1>6, <1>7, <2>3, <2>5
      <3> HIDE DEF w, q, c
      <3>3. (n + 1) * w - q * W = c
        <4>1. (n + 1) * w = n * w + w
          BY <2>3
        <4>2. n * w \in Int /\ q * W \in Int
          BY <2>3
        <4> QED
          BY <2>2, <2>3, <4>1, <4>2
      <3>4. Owed(t)' = c
        BY Zenon, <2>1, <3>1, <3>3 DEF w
      <3> QED
        BY SMTT(20), <1>11, <2>2, <2>3, <3>1, <3>4
    <2> QED
      BY Zenon, <2>4, <2>5
  <1>14. Count' <= Whole'
    BY <1>6, <1>7, <1>9, <1>11
  <1> QED
    BY Zenon, <1>13, <1>14

\* Round robin: the selected target is the one at next, and next is where the
\* cycle has got to.
LEMMA FairRoundRobinPick ==
    ASSUME FairInv, NEW r \in Requests, ScanRoundRobin(r), bad = 0
    PROVE  \E n \in 0..N : /\ Count' = n /\ next' = IF n = N THEN 0 ELSE n
                           /\ \A t \in Targets : picked'[t] = IF t < n THEN 1 ELSE 0
  <1>0. TypeOK /\ Healthy /\ Breakers /\ FairRoundRobin /\ N \in Nat \ {0}
    BY Zenon, RouterOptions DEF FairInv, SettleInv, HealthyInv, TypeInv
  <1>1. next \in Targets /\ Strategy = "round_robin" /\ next' = (next + 1) % N
    BY Zenon, <1>0 DEF ScanRoundRobin, TypeOK
  <1>2. Candidate(r, next)
    <2>1. NoMisses(breakers[next]) /\ WellFormed(breakers[next]) /\ next \notin excluded[r]
      BY Zenon, <1>0, <1>1 DEF Healthy, Breakers
    <2> QED
      BY Zenon, <2>1, NoMissesKept DEF Candidate
  <1>3. Pick(r, next)
    BY Zenon, <1>2 DEF ScanRoundRobin
  <1>4. /\ \A u \in Targets : picked'[u] = Sofar[u] + IF u = next THEN 1 ELSE 0
        /\ Count' = SumFunctionOnSet(Sofar, Targets) + 1
        /\ SumFunctionOnSet(Sofar, Targets) = IF Count < N THEN Count ELSE 0
        /\ \A u \in Targets : Sofar[u] = IF Count < N THEN picked[u] ELSE 0
    <2>1. Cycle = N
      BY Zenon, <1>1 DEF Cycle
    <2> QED
      BY Zenon, <1>0, <1>1, <1>3, <2>1, PickedNext DEF Sofar
  <1>5. PICK n \in 0..N : /\ Count = n /\ next = IF n = N THEN 0 ELSE n
                          /\ \A t \in Targets : picked[t] = IF t < n THEN 1 ELSE 0
    BY Zenon, <1>0, <1>1 DEF FairRoundRobin
  <1>6. next' = (IF next = N - 1 THEN 0 ELSE next + 1) /\ \A t \in Targets : t \in 0..(N - 1)
    BY Zenon, <1>1, NextTarget DEF Targets
  <1> DEFINE m == IF n = N THEN 1 ELSE n + 1
  <1>7. m \in 0..N /\ m = next + 1 /\ next' = IF m = N THEN 0 ELSE m
    BY <1>0, <1>1, <1>5, <1>6
  <1>8. Count' = m
    BY <1>0, <1>4, <1>5
  <1>9. ASSUME NEW t \in Targets PROVE picked'[t] = IF t < m THEN 1 ELSE 0
    <2>1. t \in 0..(N - 1) /\ next \in 0..(N - 1)
      BY Zenon, <1>1, <1>6
    <2>2. CASE n = N
      <3>1. Sofar[t] = 0 /\ next = 0
        BY <1>0, <1>4, <1>5, <2>2
      <3> QED
        BY <1>0, <1>4, <2>1, <2>2, <3>1
    <2>3. CASE n # N
      <3>1. Sofar[t] = (IF t < n THEN 1 ELSE 0) /\ next = n
        BY <1>0, <1>4, <1>5, <2>3
      <3> QED
        BY SMTT(20), <1>0, <1>4, <1>5, <2>1, <2>3, <3>1
    <2> QED
      BY Zenon, <2>2, <2>3
  <1> HIDE DEF m
  <1> QED
    BY Zenon, <1>7, <1>8, <1>9

\* Steps that select nothing.
LEMMA FairFrame ==
    ASSUME FairInv, bad' = 0 => bad = 0, UNCHANGED <<weight, currentWeight, next, mu, scan, picked>>
    PROVE  FairWeighted' /\ FairRoundRobin'
  <1>1. Count' = Count /\ Whole' = Whole /\ \A t \in Targets : Owed(t)' = Owed(t)
    BY Zenon DEF Count, Whole, Owed, Targets
  <1>2. FairWeighted'
    BY Zenon, <1>1 DEF FairInv, FairWeighted
  <1>3. FairRoundRobin'
    BY Zenon, <1>1 DEF FairInv, FairRoundRobin
  <1> QED
    BY Zenon, <1>2, <1>3

\* At the start no target has had a selection and none is owed one.
LEMMA FairInit == Init => FairWeighted /\ FairRoundRobin
  <1> SUFFICES ASSUME Init PROVE FairWeighted /\ FairRoundRobin
    BY Zenon
  <1>0. TypeOK
    BY Zenon, TypeInit DEF TypeInv
  <1>1. /\ picked \in [Targets -> Int] /\ mu = None /\ next = 0
        /\ \A t \in Targets : picked[t] = 0 /\ currentWeight[t] = 0
    BY DEF Init
  <1>2. Count = 0
    BY Zenon, <1>1, SumZero, TargetsFinite DEF Count
  <1>3. Whole \in Nat \ {0} /\ \A t \in Targets : weight[t] \in Nat
    BY Zenon, <1>0, CycleSums, WeightType
  <1>4. \A t \in Targets : Owed(t) = 0 * weight[t] - 0 * Whole
    BY Zenon, <1>1, <1>2 DEF Owed
  <1>5. \A t \in Targets : Owed(t) = 0
    BY <1>3, <1>4
  <1>6. FairWeighted
    BY <1>1, <1>2, <1>3, <1>5 DEF FairWeighted
  <1>7. FairRoundRobin
    <2>1. 0 \in 0..N /\ 0 # N /\ \A t \in Targets : ~(t < 0)
      BY RouterOptions DEF Targets
    <2> QED
      BY Zenon, <1>1, <1>2, <2>1 DEF FairRoundRobin
  <1> QED
    BY Zenon, <1>6, <1>7

\* Every step keeps the invariants behind fair shares, of both strategies.
LEMMA FairStep == FairInv /\ [Next]_vars => FairWeighted' /\ FairRoundRobin'
  <1> SUFFICES ASSUME FairInv, [Next]_vars PROVE FairWeighted' /\ FairRoundRobin'
    BY Zenon
  <1>0. TypeOK /\ Turns /\ Breakers /\ Healthy /\ Settling /\ FairWeighted /\ FairRoundRobin
    BY Zenon DEF FairInv, SettleInv, HealthyInv, TypeInv
  <1>1. ASSUME NEW r \in Requests,
               Arrive(r) \/ Exhausted(r) \/ CallAdmitted(r) \/ CallRefused(r)
        PROVE  FairWeighted' /\ FairRoundRobin'
    BY Zenon, <1>1, FairFrame DEF Arrive, Exhausted, CallAdmitted, CallRefused, router
  <1>2. ASSUME NEW r \in Requests, CallCanceled(r) PROVE FairWeighted' /\ FairRoundRobin'
    <2>1. bad' # 0
      BY <1>0, <1>2, BadType DEF CallCanceled
    <2> QED
      BY Zenon, <1>2, <2>1, FairFrame DEF CallCanceled, router
  <1>3. ASSUME NEW r \in Requests, NEW outcome \in Outcomes, CallEnds(r, outcome)
        PROVE  FairWeighted' /\ FairRoundRobin'
    <2>1. bad' = 0 => bad = 0
      BY <1>0, <1>3, BadType DEF CallEnds
    <2> QED
      BY Zenon, <1>3, <2>1, FairFrame DEF CallEnds, router
  <1>4. ASSUME Tick \/ UNCHANGED vars PROVE FairWeighted' /\ FairRoundRobin'
    BY Zenon, <1>4, FairFrame DEF Tick, vars, router
  <1>5. ASSUME UNCHANGED <<weight, next, picked>>
        PROVE  /\ Count' = Count /\ Whole' = Whole /\ \A t \in Targets : Owed(t)' = Owed(t)
               /\ bad' = bad => FairRoundRobin'
    BY Zenon, <1>0, <1>5 DEF Count, Whole, Owed, Targets, FairRoundRobin
  <1>6. ASSUME NEW r \in Requests, Lock(r) PROVE FairWeighted' /\ FairRoundRobin'
    <2>1. /\ UNCHANGED <<weight, currentWeight, next, picked, bad>> /\ mu = None
          /\ scan' = NewScan
      BY Zenon, <1>6 DEF Lock
    <2>2. scan'.checked = 0 /\ \A t \in Targets : ~(t < 0)
      BY <2>1, RouterOptions DEF NewScan, Targets
    <2>3. FairWeighted'
      BY Zenon, <1>0, <1>5, <2>1, <2>2 DEF FairWeighted
    <2> QED
      BY Zenon, <1>5, <2>1, <2>3
  <1>7. ASSUME NEW r \in Requests, ScanRoundRobin(r) PROVE FairWeighted' /\ FairRoundRobin'
    <2>1. Strategy = "round_robin" /\ bad' = bad
      BY Zenon, <1>7 DEF ScanRoundRobin, Pick, Pass
    <2> QED
      BY Zenon, <1>7, <2>1, FairRoundRobinPick DEF FairWeighted, FairRoundRobin
  <1>8. ASSUME NEW r \in Requests, ScanWeighted(r) PROVE FairWeighted' /\ FairRoundRobin'
    <2> DEFINE t == scan.checked
    <2>1. /\ t \in Targets /\ mu # None /\ mu' = mu
          /\ UNCHANGED <<weight, next, picked, bad>>
      BY <1>0, <1>8, ScanFields, RouterOptions DEF Targets, ScanWeighted, Pass
    <2>2. ASSUME bad = 0
          PROVE  \A u \in Targets :
                   (IF u < scan'.checked THEN currentWeight'[u] - weight[u] ELSE currentWeight'[u])
                     = (IF u < t THEN currentWeight[u] - weight[u] ELSE currentWeight[u])
      <3>1. NoMisses(breakers[t]) /\ WellFormed(breakers[t]) /\ t \notin excluded[r]
        BY Zenon, <1>0, <2>1, <2>2 DEF Healthy, Breakers
      <3>2. Candidate(r, t)
        BY Zenon, <3>1, NoMissesKept DEF Candidate
      <3>3. /\ currentWeight' = [currentWeight EXCEPT ![t] = @ + weight[t]]
            /\ scan'.checked = t + 1
        BY SMTT(20), <1>8, <3>2 DEF ScanWeighted
      <3>4. \A u \in Targets : weight[u] \in Int /\ currentWeight[u] \in Int /\ u \in Int
        BY <1>0, WeightType, RouterOptions DEF TypeOK, Targets
      <3>5. currentWeight \in [Targets -> Int]
        BY Zenon, <1>0 DEF TypeOK
      <3> HIDE DEF t
      <3>6. ASSUME NEW u \in Targets PROVE
              (IF u < scan'.checked THEN currentWeight'[u] - weight[u] ELSE currentWeight'[u])
                = (IF u < t THEN currentWeight[u] - weight[u] ELSE currentWeight[u])
        <4>1. CASE u = t
          <5>1. currentWeight'[u] = currentWeight[u] + weight[u] /\ u < scan'.checked /\ ~(u < t)
            BY SMTT(20), <2>1, <3>3, <3>4, <3>5, <4>1
          <5> QED
            BY <3>4, <5>1
        <4>2. CASE u # t
          <5>1. currentWeight'[u] = currentWeight[u] /\ (u < scan'.checked <=> u < t)
            BY SMTT(20), <2>1, <3>3, <3>4, <3>5, <4>2
          <5> QED
            BY Zenon, <5>1
        <4> QED
          BY Zenon, <4>1, <4>2
      <3> QED
        BY Zenon, <3>6
    <2> HIDE DEF t
    <2>3. FairWeighted'
      <3> SUFFICES ASSUME bad' = 0, Strategy # "round_robin"
                   PROVE  /\ Count' <= Whole'
                          /\ \A u \in Targets :
                              /\ 0 - Whole' < Owed(u)'
                              /\ Owed(u)' = IF mu' # None /\ u < scan'.checked
                                            THEN currentWeight'[u] - weight'[u]
                                            ELSE currentWeight'[u]
        BY Zenon DEF FairWeighted
      <3>1. /\ Count <= Whole
            /\ \A u \in Targets :
                /\ 0 - Whole < Owed(u)
                /\ Owed(u) = IF mu # None /\ u < scan.checked THEN currentWeight[u] - weight[u]
                             ELSE currentWeight[u]
        BY Zenon, <1>0, <2>1 DEF FairWeighted
      <3> QED
        BY Zenon, <1>5, <2>1, <2>2, <3>1 DEF t
    <2> QED
      BY Zenon, <1>5, <2>1, <2>3
  <1>9. ASSUME NEW r \in Requests, EndWeighted(r) PROVE FairWeighted' /\ FairRoundRobin'
    <2>1. mu' = None /\ bad' = bad /\ mu # None /\ scan.selected # None
      BY Zenon, <1>9, RouterOptions DEF EndWeighted, Pick
    <2>2. Strategy # "round_robin"
      BY Zenon, <1>0, <2>1 DEF Settling, Seen
    <2> QED
      BY Zenon, <1>9, <2>1, <2>2, FairWeightedEnd DEF FairWeighted, FairRoundRobin
  <1>10. ASSUME NEW r \in Requests, NoneHealthy(r) PROVE FairWeighted' /\ FairRoundRobin'
    <2>1. /\ mu = r /\ mu # None /\ scan.checked = N /\ scan.selected = None
          /\ UNCHANGED <<weight, next, picked, bad>>
      BY Zenon, <1>10, RouterOptions DEF NoneHealthy
    <2>2. Strategy # "round_robin" => bad # 0
      <3> SUFFICES ASSUME Strategy # "round_robin", bad = 0 PROVE FALSE
        BY Zenon
      <3>1. PICK C \in SUBSET Targets : Seen(C)
        BY Zenon, <1>0, <2>1 DEF Settling
      <3>2. 0 \in Targets /\ 0 < N
        BY RouterOptions DEF Targets
      <3> QED
        BY Zenon, <2>1, <3>1, <3>2 DEF Seen
    <2> QED
      BY Zenon, <1>5, <2>1, <2>2 DEF FairWeighted
  <1> QED
    BY Zenon, <1>1, <1>2, <1>3, <1>4, <1>6, <1>7, <1>8, <1>9, <1>10, NextCases

\* FairShare from the invariant, for each strategy.
LEMMA FairShareRoundRobin ==
    ASSUME FairInv, bad = 0, Strategy = "round_robin"
    PROVE  FairShare
  <1>0. TypeOK /\ FairRoundRobin /\ N \in Nat \ {0}
    BY Zenon, RouterOptions DEF FairInv, SettleInv, HealthyInv, TypeInv
  <1>1. PICK n \in 0..N : /\ Count = n
                          /\ \A t \in Targets : picked[t] = IF t < n THEN 1 ELSE 0
    BY Zenon, <1>0 DEF FairRoundRobin
  <1>2. Cycle = N /\ SumFunction(picked) = n /\ \A t \in Targets : Share(t) = 1
    BY Zenon, <1>0, <1>1, CycleSums DEF Cycle, Share
  <1>3. ASSUME NEW t \in Targets
        PROVE  /\ n = N => picked[t] = 1
               /\ picked[t] * N - n * 1 < N
               /\ 0 - (N - 1) * 1 <= picked[t] * N - n * 1
    <2>1. t \in 0..(N - 1)
      BY Zenon, <1>3 DEF Targets
    <2>2. CASE t < n
      <3>1. picked[t] = 1
        BY Zenon, <1>1, <1>3, <2>2
      <3> QED
        BY <1>0, <2>1, <2>2, <3>1
    <2>3. CASE ~(t < n)
      <3>1. picked[t] = 0
        BY Zenon, <1>1, <1>3, <2>3
      <3> QED
        BY <1>0, <2>1, <2>3, <3>1
    <2> QED
      BY Zenon, <2>2, <2>3
  <1> QED
    BY Zenon, <1>2, <1>3 DEF FairShare

\* What a target is owed bounds its share: the weighted strategies are fair.
LEMMA FairShareWeighted ==
    ASSUME FairInv, bad = 0, Strategy # "round_robin"
    PROVE  FairShare
  <1>0. TypeOK /\ FairWeighted /\ Settling /\ N \in Nat \ {0}
    BY Zenon, RouterOptions DEF FairInv, SettleInv, HealthyInv, TypeInv
  <1>1. /\ Cycle = Whole /\ SumFunction(picked) = Count /\ \A t \in Targets : Share(t) = weight[t]
        /\ Count \in Nat /\ Whole \in Nat \ {0}
    BY Zenon, <1>0, CycleSums DEF Share
  <1>2. \A t \in Targets : 0 - Whole < Owed(t)
    BY Zenon, <1>0 DEF FairWeighted
  <1>3. \E b \in [Targets -> Int] : Settled(Targets, b, weight) /\ \A t \in Targets : Owed(t) = b[t]
    <2>1. CASE mu = None
      BY Zenon, <1>0, <2>1 DEF FairWeighted, Settling, TypeOK
    <2>2. CASE mu # None
      <3>1. PICK C \in SUBSET Targets : Seen(C)
        BY Zenon, <1>0, <2>2 DEF Settling
      <3>2. \A t \in Targets : t \in C <=> t < scan.checked
        BY Zenon, <3>1 DEF Seen
      <3>3. \A t \in Targets : Owed(t) = Base(C)[t]
        BY Zenon, <1>0, <2>2, <3>2 DEF FairWeighted, Base
      <3> QED
        BY Zenon, <1>0, <3>1, <3>3, BaseGained DEF Seen
    <2> QED
      BY Zenon, <2>1, <2>2
  <1>4. PICK b \in [Targets -> Int] : Settled(Targets, b, weight) /\ \A t \in Targets : Owed(t) = b[t]
    BY Zenon, <1>3
  <1>5. ASSUME NEW t \in Targets
        PROVE  /\ picked[t] * Whole - Count * weight[t] < Whole
               /\ \E u \in Targets :
                    0 - (N - 1) * weight[u] <= picked[t] * Whole - Count * weight[t]
    <2>1. PICK u \in Targets : b[t] <= (N - 1) * weight[u]
      BY Zenon, <1>0, <1>4, <1>5, SettledBound, TargetsFinite, WeightType
    <2> DEFINE x == Count * weight[t]
               y == picked[t] * Whole
               z == (N - 1) * weight[u]
    <2>2. x \in Int /\ y \in Int /\ z \in Int
      BY <1>0, <1>1, WeightType DEF TypeOK
    <2>3. Owed(t) = x - y
      BY Zenon DEF Owed
    <2> HIDE DEF x, y, z
    <2>4. 0 - Whole < x - y /\ x - y <= z
      BY Zenon, <1>2, <1>4, <1>5, <2>1, <2>3 DEF z
    <2>5. y - x < Whole /\ 0 - z <= y - x
      BY <1>1, <2>2, <2>4
    <2> QED
      BY Zenon, <2>5 DEF x, y, z
  <1>6. Count = Whole => \A t \in Targets : picked[t] = weight[t]
    BY Zenon, <1>0, <1>2, CycleOver
  <1> QED
    BY Zenon, <1>1, <1>5, <1>6 DEF FairShare

\* README.md:227 for every number of targets and all weights: while no call fails,
\* selectTarget gives every target exactly its share of each cycle, and on the way
\* never a whole selection more.
THEOREM SharesAreFair == Spec => []FairShare
  <1>1. Init => FairInv
    BY Zenon, TypeInit, HealthyInit, SettlingInit, FairInit DEF FairInv, SettleInv, HealthyInv
  <1>2. FairInv /\ [Next]_vars => FairInv'
    BY Zenon, TypeStep, HealthyStep, SettlingStep, FairStep DEF FairInv, SettleInv, HealthyInv
  <1>3. FairInv => FairShare
    BY Zenon, FairShareRoundRobin, FairShareWeighted DEF FairShare
  <1> QED
    BY <1>1, <1>2, <1>3, PTL DEF Spec
=============================================================================
