------------------------------ MODULE Circuit ------------------------------
(***************************************************************************)
(* What a circuit breaker promises its callers, without windows, counters, *)
(* generations or permits.  A call that was let in counts until the        *)
(* circuit changes state; only a call that counts can change the state.    *)
(* Breaker implements this specification.                                  *)
(***************************************************************************)
EXTENDS Integers, FiniteSets

CONSTANTS
    Callers,    \* who asks to be let in
    Probes      \* calls let into a half-open circuit, and successes to close it

VARIABLES
    state,      \* "closed", "open" or "half_open"
    cooled,     \* an open circuit has been open for long enough
    inside,     \* callers that were let in and whose outcome counts
    passed      \* successes since the circuit became half open

vars == <<state, cooled, inside, passed>>

Init == state = "closed" /\ cooled = FALSE /\ inside = {} /\ passed = 0

\* Every state change leaves the calls that are under way behind.
Become(s, callers) ==
    /\ state' = s
    /\ cooled' = FALSE
    /\ inside' = callers
    /\ passed' = 0

Enter(c) ==
    /\ c \notin inside
    /\ \/ state = "closed"
       \/ state = "half_open" /\ Cardinality(inside) < Probes
    /\ inside' = inside \union {c}
    /\ UNCHANGED <<state, cooled, passed>>

\* An open circuit stays open until it has cooled; the next caller probes it.
Cool ==
    /\ state = "open"
    /\ cooled' = TRUE
    /\ UNCHANGED <<state, inside, passed>>

HalfOpen == state = "open" /\ cooled /\ Become("half_open", {})
Probe(c) == state = "open" /\ cooled /\ Become("half_open", {c})

\* A call that counts ends and leaves the state as it is.
Leave(c) ==
    /\ c \in inside
    /\ inside' = inside \ {c}
    /\ \/ UNCHANGED passed
       \/ state = "half_open" /\ passed + 1 < Probes /\ passed' = passed + 1
    /\ UNCHANGED <<state, cooled>>

\* A call that counts ends and opens the circuit.
Trip(c) == c \in inside /\ state # "open" /\ Become("open", {})

\* The last of Probes successful probes closes the circuit.
Recover(c) ==
    /\ c \in inside
    /\ state = "half_open" /\ passed + 1 >= Probes
    /\ Become("closed", {})

Next ==
    \/ Cool \/ HalfOpen
    \/ \E c \in Callers : Enter(c) \/ Probe(c) \/ Leave(c) \/ Trip(c) \/ Recover(c)

Spec == Init /\ [][Next]_vars
=============================================================================
