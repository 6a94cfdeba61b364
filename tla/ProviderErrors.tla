--------------------------- MODULE ProviderErrors ---------------------------
(***************************************************************************)
(* internal/provider/error.go: how the gateway classifies the errors of an *)
(* upstream call.  An error is abstracted to what the classification       *)
(* reads: the UpstreamError fields (kind = "none" for an error that is not *)
(* an UpstreamError) and the cause at the end of its Unwrap chain.         *)
(***************************************************************************)
EXTENDS Integers

Kinds == {"none", "http_status", "network", "invalid_response", "unavailable"}

\* What errors.Is / errors.As can find in the chain: a context error, a
\* truncated body, a DNS error, another timeout, a dial/read/write OpError,
\* the breaker's ErrOpen, or something else.
Causes == {"none", "canceled", "deadline", "unexpected_eof", "dns", "dns_timeout",
           "timeout", "op", "circuit_open", "other"}

ErrorType == [kind : Kinds, status : Nat, retryable : BOOLEAN, cause : Causes]

\* A call that returned no error.
Nil == [kind |-> "none", status |-> 0, retryable |-> FALSE, cause |-> "none"]

retryableTransportError(cause) ==
    cause \in {"deadline", "unexpected_eof", "dns_timeout", "timeout", "op"}

\* The errors doRequest, Chat and ChatStream build.
HTTPError(status) ==
    [kind |-> "http_status", status |-> status,
     retryable |-> status \in {429, 503}, cause |-> "none"]

NetworkError(cause) ==
    [kind |-> "network", status |-> 0,
     retryable |-> retryableTransportError(cause), cause |-> cause]

InvalidResponse ==
    [kind |-> "invalid_response", status |-> 0, retryable |-> FALSE, cause |-> "other"]

\* An error that is no UpstreamError: ctx.Err(), ErrOpen, an SSE error.
PlainError(cause) ==
    [kind |-> "none", status |-> 0, retryable |-> FALSE, cause |-> cause]

\* The router found no target that takes the request.
unavailable ==
    [kind |-> "unavailable", status |-> 0, retryable |-> FALSE, cause |-> "other"]

IsRetryable(err) ==
    /\ err.cause # "canceled"
    /\ err.cause = "deadline" \/ (err.kind # "none" /\ err.retryable)

IsCircuitFailure(err) ==
    /\ err # Nil
    /\ err.cause # "canceled"
    /\ \/ err.kind \in {"none", "network", "invalid_response"}
       \/ err.status = 429
       \/ err.status >= 500

ErrorCode(err) ==
    CASE err.cause = "deadline" -> "upstream_timeout"
      [] err.cause = "canceled" -> "request_canceled"
      [] err.cause \notin {"deadline", "canceled"} ->
            CASE err.status = 429                -> "provider_rate_limited"
              [] err.status = 503                -> "provider_unavailable"
              [] err.kind = "network"            -> "provider_network_error"
              [] err.kind = "invalid_response"   -> "invalid_provider_response"
              [] err.kind = "unavailable"        -> "no_healthy_provider"
              [] OTHER                           -> "provider_request_failed"

\* What a governed call that returned err reports to its circuit breaker.
circuitOutcome(err) ==
    IF err = Nil THEN "success" ELSE IF IsCircuitFailure(err) THEN "failure" ELSE "ignored"
=============================================================================
