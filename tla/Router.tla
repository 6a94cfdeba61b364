------------------------------- MODULE Router -------------------------------
(***************************************************************************)
(* internal/routing/router.go with the circuit breakers of its targets.    *)
(* A request selects a target under the router's mutex, reading every      *)
(* candidate's breaker on the way, then calls it; a target that refuses    *)
(* the call after all (the breaker moved in between) is excluded and the   *)
(* request selects again.  The scan over the targets is one step per       *)
(* target: breakers change while it runs.  Requests come back for ever.    *)
(* Targets are the indices 0..N-1 of Router.targets.                       *)
(***************************************************************************)
EXTENDS CircuitBreaker, Functions

CONSTANTS
    Requests,
    N,           \* number of targets
    Weights,     \* the weights of all targets, as they may be configured
    Strategy,    \* ROUTING_STRATEGY
    MaxBad,      \* bound: calls that end other than with success
    None         \* no request, no target

ASSUME RouterOptions ==
    /\ N \in Nat \ {0}
    /\ Weights \subseteq [0..(N - 1) -> Nat \ {0}]
    /\ Strategy \in {"round_robin", "weighted_round_robin"}
    /\ MaxBad \in Nat
    /\ None \notin Requests \union (0..(N - 1))

Targets == 0..(N - 1)

VARIABLES
    breakers,       \* the breaker of each target
    weight,         \* the configured weights
    currentWeight,
    next,
    mu,             \* the request that holds Router.mu
    scan,           \* its loop variables in selectTarget
    pc,
    excluded,       \* targets that refused the request
    target,         \* the target it calls
    permit,
    bad,            \* calls that ended other than with success (for MaxBad)
    found,          \* history: targets the request found unavailable
    picked          \* history: selections of each target in this cycle, until
                    \* a call fails

router == <<weight, currentWeight, next, mu, scan>>
vars == <<breakers, router, pc, excluded, target, permit, bad, found, picked>>

NewScan == [checked |-> 0, selected |-> None, total |-> 0]
NoPermit == [permitOf(New) EXCEPT !.done = TRUE]

\* A target's share of one cycle: as many selections as the shares add up to.
Share(t) == IF Strategy = "round_robin" THEN 1 ELSE weight[t]
Cycle == IF Strategy = "round_robin" THEN N ELSE SumFunction(weight)

TypeOK ==
    /\ breakers \in [Targets -> BreakerType]
    /\ weight \in Weights
    /\ currentWeight \in [Targets -> Int]
    /\ next \in Targets
    /\ mu \in Requests \union {None}
    /\ scan \in [checked : 0..N, selected : Targets \union {None}, total : Nat]
    /\ pc \in [Requests -> {"idle", "select", "scan", "call", "working"}]
    /\ excluded \in [Requests -> SUBSET Targets]
    /\ target \in [Requests -> Targets \union {None}]
    /\ permit \in [Requests -> PermitType]
    /\ bad \in 0..MaxBad
    /\ found \in [Requests -> SUBSET Targets]
    /\ picked \in [Targets -> Nat]

Init ==
    /\ breakers = [t \in Targets |-> New]
    /\ weight \in Weights
    /\ currentWeight = [t \in Targets |-> 0]
    /\ next = 0
    /\ mu = None
    /\ scan = NewScan
    /\ pc = [r \in Requests |-> "idle"]
    /\ excluded = [r \in Requests |-> {}]
    /\ target = [r \in Requests |-> None]
    /\ permit = [r \in Requests |-> NoPermit]
    /\ bad = 0
    /\ found = [r \in Requests |-> {}]
    /\ picked = [t \in Targets |-> 0]

-----------------------------------------------------------------------------
Arrive(r) ==
    /\ pc[r] = "idle"
    /\ pc' = [pc EXCEPT ![r] = "select"]
    /\ UNCHANGED <<breakers, router, excluded, target, permit, bad, found, picked>>

\* The request ends, with a response or with an error.
Leave(r) ==
    /\ pc' = [pc EXCEPT ![r] = "idle"]
    /\ excluded' = [excluded EXCEPT ![r] = {}]
    /\ target' = [target EXCEPT ![r] = None]
    /\ permit' = [permit EXCEPT ![r] = NoPermit]
    /\ found' = [found EXCEPT ![r] = {}]

\* The loop of Chat and ChatStream: select again while a target is left ...
Lock(r) ==
    /\ pc[r] = "select"
    /\ excluded[r] # Targets
    /\ mu = None
    /\ mu' = r
    /\ scan' = NewScan
    /\ pc' = [pc EXCEPT ![r] = "scan"]
    /\ UNCHANGED <<breakers, weight, currentWeight, next, excluded, target, permit,
                   bad, found, picked>>

\* ... and give up when every target has refused.
Exhausted(r) ==
    /\ pc[r] = "select"
    /\ excluded[r] = Targets
    /\ Leave(r)
    /\ UNCHANGED <<breakers, router, bad, picked>>

\* selectTarget returns t and unlocks the router.
Pick(r, t) ==
    /\ mu' = None
    /\ scan' = NewScan
    /\ pc' = [pc EXCEPT ![r] = "call"]
    /\ target' = [target EXCEPT ![r] = t]
    /\ picked' = [u \in Targets |->
                    IF bad > 0 THEN 0
                    ELSE (IF SumFunction(picked) < Cycle THEN picked[u] ELSE 0)
                         + (IF u = t THEN 1 ELSE 0)]
    /\ UNCHANGED <<weight, excluded, permit, bad>>

\* Available is asked of t, unless the request has excluded it.
Asked(r, t) ==
    breakers' = IF t \in excluded[r] THEN breakers
                ELSE [breakers EXCEPT ![t] = advanceLocked(@)]

Candidate(r, t) == t \notin excluded[r] /\ available(advanceLocked(breakers[t]))

Pass(r, t) ==
    /\ found' = [found EXCEPT ![r] = @ \union {t}]
    /\ UNCHANGED <<weight, mu, pc, excluded, target, permit, bad, picked>>

\* Faulty variant: next runs past the last target.
ScanRoundRobin_NoWrap(r) ==
    /\ mu = r /\ Strategy = "round_robin" /\ scan.checked < N
    /\ next' = next + 1
    /\ Asked(r, next)
    /\ IF Candidate(r, next)
       THEN Pick(r, next) /\ UNCHANGED found
       ELSE Pass(r, next) /\ scan' = [scan EXCEPT !.checked = @ + 1]
    /\ UNCHANGED currentWeight

\* One round of the Round Robin loop.
ScanRoundRobin(r) ==
    /\ mu = r /\ Strategy = "round_robin" /\ scan.checked < N
    /\ next' = (next + 1) % N
    /\ Asked(r, next)
    /\ IF Candidate(r, next)
       THEN Pick(r, next) /\ UNCHANGED found
       ELSE Pass(r, next) /\ scan' = [scan EXCEPT !.checked = @ + 1]
    /\ UNCHANGED currentWeight

\* Faulty variant: compares the configured weights, not the current ones.
Better_StaticWeight(t, selected) ==
    selected = None \/ weight[t] > weight[selected]

Better(t, selected) ==
    selected = None \/ currentWeight[t] + weight[t] > currentWeight[selected]

\* One round of the smooth Weighted Round Robin loop.
ScanWeighted(r) ==
    LET t == scan.checked
    IN  /\ mu = r /\ Strategy = "weighted_round_robin" /\ t < N
        /\ Asked(r, t)
        /\ IF Candidate(r, t)
           THEN /\ currentWeight' = [currentWeight EXCEPT ![t] = @ + weight[t]]
                /\ scan' = [checked  |-> t + 1,
                            selected |-> IF Better(t, scan.selected) THEN t
                                         ELSE scan.selected,
                            total    |-> scan.total + weight[t]]
                /\ UNCHANGED <<weight, mu, pc, excluded, target, permit, bad, found, picked>>
           ELSE /\ scan' = [scan EXCEPT !.checked = t + 1]
                /\ Pass(r, t)
                /\ UNCHANGED currentWeight
        /\ UNCHANGED next

\* Faulty variant: the selected target pays its own weight only.
EndWeighted_OwnWeight(r) ==
    /\ mu = r /\ scan.checked = N /\ scan.selected # None
    /\ currentWeight' =
           [currentWeight EXCEPT ![scan.selected] = @ - weight[scan.selected]]
    /\ Pick(r, scan.selected)
    /\ UNCHANGED <<breakers, next, found>>

EndWeighted(r) ==
    /\ mu = r /\ scan.checked = N /\ scan.selected # None
    /\ currentWeight' = [currentWeight EXCEPT ![scan.selected] = @ - scan.total]
    /\ Pick(r, scan.selected)
    /\ UNCHANGED <<breakers, next, found>>

\* Faulty variant: the loop stops one target short.
NoneHealthy_Early(r) ==
    /\ mu = r /\ scan.checked >= N - 1 /\ scan.selected = None
    /\ mu' = None
    /\ scan' = NewScan
    /\ Leave(r)
    /\ UNCHANGED <<breakers, weight, currentWeight, next, bad, picked>>

\* ErrNoHealthyProviders.
NoneHealthy(r) ==
    /\ mu = r /\ scan.checked = N /\ scan.selected = None
    /\ mu' = None
    /\ scan' = NewScan
    /\ Leave(r)
    /\ UNCHANGED <<breakers, weight, currentWeight, next, bad, picked>>

-----------------------------------------------------------------------------
\* The target's breaker admits the call ...
CallAdmitted(r) ==
    LET t == target[r]
        b == advanceLocked(breakers[t])
    IN  /\ pc[r] = "call"
        /\ available(b)
        /\ breakers' = [breakers EXCEPT ![t] = admit(b)]
        /\ permit' = [permit EXCEPT ![r] = permitOf(b)]
        /\ pc' = [pc EXCEPT ![r] = "working"]
        /\ UNCHANGED <<router, excluded, target, bad, found, picked>>

\* ... or returns ErrOpen although Available said otherwise.
CallRefused(r) ==
    LET t == target[r]
        b == advanceLocked(breakers[t])
    IN  /\ pc[r] = "call"
        /\ ~available(b)
        /\ breakers' = [breakers EXCEPT ![t] = b]
        /\ excluded' = [excluded EXCEPT ![r] = @ \union {t}]
        /\ target' = [target EXCEPT ![r] = None]
        /\ found' = [found EXCEPT ![r] = @ \union {t}]
        /\ pc' = [pc EXCEPT ![r] = "select"]
        /\ UNCHANGED <<router, permit, bad, picked>>

\* The request's context ends while it waits for one of the target's slots.
CallCanceled(r) ==
    /\ pc[r] = "call"
    /\ bad < MaxBad
    /\ bad' = bad + 1
    /\ Leave(r)
    /\ UNCHANGED <<breakers, router, picked>>

\* The call ends; whatever its outcome, no other target is called.
CallEnds(r, outcome) ==
    /\ pc[r] = "working"
    /\ outcome # "success" => bad < MaxBad
    /\ breakers' = [breakers EXCEPT ![target[r]] = complete(@, permit[r], outcome)]
    /\ bad' = IF outcome = "success" THEN bad ELSE bad + 1
    /\ Leave(r)
    /\ UNCHANGED <<router, picked>>

Tick ==
    /\ breakers' = [t \in Targets |-> elapse(breakers[t])]
    /\ UNCHANGED <<router, pc, excluded, target, permit, bad, found, picked>>

Select(r) ==
    \/ Lock(r) \/ Exhausted(r)
    \/ ScanRoundRobin(r) \/ ScanWeighted(r) \/ EndWeighted(r) \/ NoneHealthy(r)

Call(r) ==
    \/ CallAdmitted(r) \/ CallRefused(r) \/ CallCanceled(r)
    \/ \E outcome \in Outcomes : CallEnds(r, outcome)

Next ==
    \/ \E r \in Requests : Arrive(r) \/ Select(r) \/ Call(r)
    \/ Tick

Spec == Init /\ [][Next]_vars

\* Time passes, requests keep coming, every call ends (it has a deadline), and
\* the mutex lets every waiting request in eventually (sync.Mutex starvation mode).
Fairness ==
    /\ WF_vars(Tick)
    /\ \A r \in Requests : WF_vars(Arrive(r)) /\ SF_vars(Select(r)) /\ WF_vars(Call(r))

FairSpec == Spec /\ Fairness

-----------------------------------------------------------------------------
\* A request is turned away with ErrNoHealthyProviders only after it has found
\* every single target unavailable, although the round robin starts anywhere and
\* other requests move it (selectTarget and the loops of Chat and ChatStream).
TurnedAwayHonestly ==
    [][\A r \in Requests :
         pc[r] \in {"select", "scan"} /\ pc'[r] = "idle" => found[r] = Targets]_vars

\* Between selections the smooth weights add up to zero: what the candidates gain
\* the selected one pays, also when targets drop out in the middle of a scan.  And
\* however targets come and go, no current weight gets further from zero than the
\* heaviest weight for each of the other targets, so a returning target is neither
\* starved nor flooded.  (The sum of the weights is no bound: 5, 1, 1, 1 reaches it.)
WeightsSettle ==
    mu = None =>
        /\ SumFunction(currentWeight) = 0
        /\ \A t \in Targets : \E u \in Targets :
            /\ 0 - (N - 1) * weight[u] <= currentWeight[t]
            /\ currentWeight[t] <= (N - 1) * weight[u]

\* README.md:227, "Round Robin distributes evenly; smooth Weighted Round Robin
\* follows static weights": as long as no call has failed and all targets are
\* available, every target has been selected exactly as often as its weight says
\* when a cycle is over.  On the way there none is a whole selection ahead of its
\* share, nor behind it by more than WeightsSettle allows.
FairShare ==
    bad = 0 =>
        LET n == SumFunction(picked)
        IN  /\ n = Cycle => \A t \in Targets : picked[t] = Share(t)
            /\ \A t \in Targets :
                LET ahead == picked[t] * Cycle - n * Share(t)
                IN  /\ ahead < Cycle
                    /\ \E u \in Targets : 0 - (N - 1) * Share(u) <= ahead

\* Once calls stop failing, every target is back in rotation: requests are routed
\* to a HALF_OPEN target until it closes.
AllRecover == <>[](\A t \in Targets : breakers[t].state = "closed")
=============================================================================
