---------------------------- MODULE GatewayErrors ----------------------------
(***************************************************************************)
(* The errors of the gateway service, and the two places that name them:   *)
(* gatewayErrorCode for the row of the request (internal/service) and      *)
(* writeMappedError for the answer to the client (internal/api).           *)
(***************************************************************************)
EXTENDS ProviderErrors

\* class tells the Go type; code is its Code field; err is a provider's error.
ValidationError(code) == [class |-> "validation", code |-> code, err |-> Nil]
IdempotencyError(code) == [class |-> "idempotency", code |-> code, err |-> Nil]
DependencyError(code) == [class |-> "dependency", code |-> code, err |-> Nil]
RateLimitError == [class |-> "rate_limit", code |-> "", err |-> Nil]
ProviderError(err) == [class |-> "provider", code |-> "", err |-> err]

statusForGatewayError(e) == IF e.class = "rate_limit" THEN "rate_limited" ELSE "failed"

\* Faulty variant: a context error that no provider wrapped has no code of its own.
gatewayErrorCode_NoContext(e) ==
    CASE e.class \in {"validation", "idempotency", "dependency"} -> e.code
      [] e.class = "rate_limit" -> "rate_limit_exceeded"
      [] e.class = "provider" ->
            IF e.err.kind # "none" THEN ErrorCode(e.err) ELSE "provider_request_failed"

gatewayErrorCode(e) ==
    CASE e.class \in {"validation", "idempotency", "dependency"} -> e.code
      [] e.class = "rate_limit" -> "rate_limit_exceeded"
      [] e.class = "provider" ->
            CASE e.err.kind # "none"         -> ErrorCode(e.err)
              [] e.err = PlainError("canceled") -> "request_canceled"
              [] e.err = PlainError("deadline") -> "upstream_timeout"
              [] OTHER                       -> "provider_request_failed"

\* The HTTP status and the code of the JSON body.
writeMappedError(e) ==
    CASE e.class = "validation"  -> <<400, e.code>>
      [] e.class = "rate_limit"  -> <<429, "rate_limit_exceeded">>
      [] e.class = "idempotency" -> <<409, e.code>>
      [] e.class = "dependency"  -> <<503, e.code>>
      [] e.class = "provider" /\ e.err.kind # "none" ->
            LET code == ErrorCode(e.err)
            IN  <<CASE code = "upstream_timeout"    -> 504
                    [] code = "no_healthy_provider" -> 503
                    [] OTHER                        -> 502, code>>
      [] e.class = "provider" /\ e.err.kind = "none" ->
            CASE e.err.cause = "deadline" -> <<504, "upstream_timeout">>
              [] e.err.cause = "canceled" -> <<408, "request_canceled">>
              [] OTHER                    -> <<502, "provider_request_failed">>
=============================================================================
