---------------------------- MODULE BreakerGauge ----------------------------
(***************************************************************************)
(* The breaker with the state-change callback of cmd/server/main.go, which *)
(* exports the state as a Prometheus gauge:                                *)
(*     telemetry.SetCircuitState(providerName, breaker.State())            *)
(* The method that changed the state calls it after releasing b.mu, in the *)
(* goroutine of its caller.  The callback first calls breaker.State(),     *)
(* which takes the lock again and may itself advance the breaker and run a *)
(* nested callback, and only then sets the gauge.                          *)
(***************************************************************************)
EXTENDS Breaker

VARIABLES
    gauge,     \* modelgate_circuit_breaker_state of this provider
    callback   \* per caller, its stack of running callbacks: "read" before
               \* breaker.State() returns, then the state to be exported

gaugeVars == <<vars, gauge, callback>>

\* buildProviderRouter exports CLOSED for a new breaker.
GaugeInit ==
    /\ Init
    /\ gauge = "closed"
    /\ callback = [c \in Callers |-> <<>>]

-----------------------------------------------------------------------------
Idle(c) == callback[c] = <<>>

\* if changed { b.options.OnStateChange(state) }
Notify(c, stack) ==
    callback' = [callback EXCEPT ![c] =
        IF breaker'.state # breaker.state THEN Append(stack, "read") ELSE stack]

\* A breaker method returns to the caller, or enters its callback.
Call(c) ==
    /\ Idle(c)
    /\ \/ Allow(c)
       \/ \E outcome \in Outcomes : Done(c, outcome)
       \/ Observe
    /\ Notify(c, <<>>)
    /\ UNCHANGED gauge

\* The callback's call of breaker.State().
ReadState(c) ==
    LET stack == callback[c]
        depth == Len(stack)
    IN  /\ depth > 0 /\ stack[depth] = "read"
        /\ Observe
        /\ Notify(c, [stack EXCEPT ![depth] = breaker'.state])
        /\ UNCHANGED gauge

\* telemetry.SetCircuitState, and the return of the callback.
SetCircuitState(c) ==
    LET stack == callback[c]
        depth == Len(stack)
    IN  /\ depth > 0 /\ stack[depth] \in States
        /\ gauge' = stack[depth]
        /\ callback' = [callback EXCEPT ![c] = SubSeq(stack, 1, depth - 1)]
        /\ UNCHANGED vars

GaugeTick == Tick /\ UNCHANGED <<gauge, callback>>

GaugeNext ==
    \/ \E c \in Callers : Call(c) \/ ReadState(c) \/ SetCircuitState(c)
    \/ GaugeTick

GaugeSpec == GaugeInit /\ [][GaugeNext]_gaugeVars
-----------------------------------------------------------------------------
\* What the comment in buildProviderRouter promises of the callback: when no
\* callback is running, the gauge shows the breaker's state, not an older one.
GaugeNotOlder ==
    (\A c \in Callers : Idle(c)) => gauge = breaker.state
=============================================================================
