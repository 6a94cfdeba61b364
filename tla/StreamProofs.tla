---------------------------- MODULE StreamProofs ----------------------------
(***************************************************************************)
(* Proofs about StreamLifecycle, for streams and events of any length.     *)
(***************************************************************************)
EXTENDS StreamLifecycle, TLAPS

\* What Recv returns when it returns no chunk.
RecvErrors == {PlainError(cause) : cause \in {"canceled", "deadline", "other"}}

\* Before ChatStream has a stream.
Fresh ==
    /\ managed = "none" /\ body = "none" /\ ~finished
    /\ rows = 0 /\ row = "none" /\ chunks = 0 /\ sent = 0
    /\ ended = "chunk" /\ client = "waiting"

\* The stream is open in both wrappers, and nothing is recorded.
Reading == managed = "open" /\ ~finished /\ rows = 0 /\ row = "none"

\* The managedStream has reported what Recv returned.
Reported ==
    /\ ended \in {"eof", "error"}
    /\ err \in (IF ended = "eof" THEN {Nil} ELSE RecvErrors)
    /\ managed = circuitOutcome(err)

\* The meteredStream has written its row, ...
Recorded ==
    /\ finished /\ canceled /\ rows = 1 /\ observed = lastUsage
    /\ managed \notin {"none", "open"}
    /\ row # "none" =>
        /\ rowUsage = lastUsage
        /\ row = IF managed = "success" THEN "succeeded" ELSE "failed"

\* ... with the code of what Recv returned, ...
CodeKept ==
    ended = "error" /\ row # "none" => rowCode = gatewayErrorCode(ProviderError(err))

\* ... and the handler has answered.
Finished ==
    /\ Recorded
    /\ client = "completed" => managed = "success" /\ sent = chunks
    /\ client = "cut" => managed # "success"
    /\ client = "error" => ended \in {"eof", "error"}
    /\ client = "error" /\ ended = "eof" =>
        managed = "success" /\ answer = <<502, "provider_request_failed">>
    /\ client = "error" /\ ended = "error" /\ row # "none" => rowCode = answer[2]

\* ChatStream returned an error.
Refused ==
    /\ managed = "none" /\ body = "none" /\ canceled
    /\ ended = "chunk" /\ client \in {"error", "gone"}
    /\ row # "succeeded" /\ (row # "none" => rowCode = answer[2])

StreamInv ==
    /\ pc \in {"start", "open", "recv", "scan", "meter", "write", "reply", "close", "done"}
    /\ ctx \in {"live", "canceled", "deadline"}
    /\ chunks \in Nat /\ sent \in Nat /\ usage = lastUsage
    /\ pc \in {"start", "open"} => Fresh
    /\ pc \in {"recv", "scan", "write"} => Reading /\ ended = "chunk"
    /\ pc \in {"recv", "scan", "write", "meter", "reply"} =>
        client \in {"waiting", "streaming", "gone"}
    /\ pc \in {"recv", "scan", "meter", "reply"} /\ client # "gone" => sent = chunks
    /\ pc = "write" /\ client # "gone" => chunks = sent + 1
    /\ pc = "meter" => ~finished /\ rows = 0 /\ row = "none" /\ Reported
    /\ pc = "reply" => Recorded /\ Reported /\ CodeKept
    /\ pc = "close" => (Reading /\ ended = "chunk" /\ client = "cut") \/ Finished
    /\ pc = "done" => Refused \/ (Finished /\ body = "closed")

-----------------------------------------------------------------------------
(* What the errors are called                                              *)

\* The breaker is told success exactly of the end of the stream.
LEMMA OutcomeFacts ==
    /\ circuitOutcome(Nil) = "success"
    /\ \A e \in RecvErrors : circuitOutcome(e) \in {"failure", "ignored"}
PROOF
  <1>1. \A cause \in {"canceled", "deadline", "other"} : PlainError(cause) # Nil
    BY Zenon DEF PlainError, Nil
  <1> QED BY Zenon, <1>1 DEF circuitOutcome, RecvErrors

\* gatewayErrorCode and writeMappedError agree on every error of an upstream
\* that the classification of the provider package covers, ...
LEMMA UpstreamCodes ==
    ASSUME NEW e, e.kind # "none"
    PROVE  gatewayErrorCode(ProviderError(e)) = writeMappedError(ProviderError(e))[2]
PROOF
  <1> DEFINE p == ProviderError(e)
  <1>1. p.class = "provider" /\ p.err = e
    BY Zenon DEF ProviderError
  <1> HIDE DEF p
  <1>2. gatewayErrorCode(p) = ErrorCode(e)
    <2>1. e # PlainError("canceled") /\ e # PlainError("deadline")
      BY DEF PlainError
    <2> QED BY Zenon, <1>1, <2>1 DEF gatewayErrorCode
  <1>3. writeMappedError(p)[2] = ErrorCode(e)
    <2> DEFINE code == ErrorCode(e)
               status == CASE code = "upstream_timeout"    -> 504
                           [] code = "no_healthy_provider" -> 503
                           [] OTHER                        -> 502
    <2>1. writeMappedError(p) = <<status, code>>
      BY <1>1, Zenon DEF writeMappedError
    <2> HIDE DEF status, code
    <2>2. writeMappedError(p)[2] = code
      BY <2>1
    <2> QED BY Zenon, <2>2 DEF code
  <1> QED BY Zenon, <1>2, <1>3 DEF p

\* ... on those that it does not cover, ...
LEMMA PlainCodes ==
    ASSUME NEW e \in RecvErrors
    PROVE  gatewayErrorCode(ProviderError(e)) = writeMappedError(ProviderError(e))[2]
PROOF
  <1> DEFINE p == ProviderError(e)
  <1>1. p.class = "provider" /\ p.err = e
    BY Zenon DEF ProviderError
  <1> HIDE DEF p
  <1>2. PICK cause \in {"canceled", "deadline", "other"} : e = PlainError(cause)
    BY Zenon DEF RecvErrors
  <1>3. e.kind = "none" /\ e.cause = cause
    BY Zenon, <1>2 DEF PlainError
  <1>4. PlainError("other") \notin {PlainError("canceled"), PlainError("deadline")}
        /\ PlainError("canceled") # PlainError("deadline")
    BY Zenon DEF PlainError
  <1>5. CASE cause = "canceled"
    BY Zenon, <1>1, <1>2, <1>3, <1>4, <1>5 DEF gatewayErrorCode, writeMappedError, p
  <1>6. CASE cause = "deadline"
    BY Zenon, <1>1, <1>2, <1>3, <1>4, <1>6 DEF gatewayErrorCode, writeMappedError, p
  <1>7. CASE cause = "other"
    BY Zenon, <1>1, <1>2, <1>3, <1>4, <1>7 DEF gatewayErrorCode, writeMappedError, p
  <1> QED BY Zenon, <1>5, <1>6, <1>7

\* ... and on what the rate limit refuses with.
LEMMA RateLimitCodes ==
    \A e \in {RateLimitError, DependencyError("rate_limiter_unavailable")} :
        gatewayErrorCode(e) = writeMappedError(e)[2] /\ statusForGatewayError(e) # "succeeded"
PROOF
  <1> DEFINE r == RateLimitError
             d == DependencyError("rate_limiter_unavailable")
  <1>1. r.class = "rate_limit" /\ d.class = "dependency"
    BY Zenon DEF RateLimitError, DependencyError
  <1> HIDE DEF r, d
  <1>2. gatewayErrorCode(r) = writeMappedError(r)[2] /\ statusForGatewayError(r) # "succeeded"
    BY Zenon, <1>1 DEF gatewayErrorCode, writeMappedError, statusForGatewayError
  <1>3. gatewayErrorCode(d) = writeMappedError(d)[2] /\ statusForGatewayError(d) # "succeeded"
    BY Zenon, <1>1 DEF gatewayErrorCode, writeMappedError, statusForGatewayError
  <1> QED BY Zenon, <1>2, <1>3 DEF r, d

\* An error at opening has the same code in the usage row and in the
\* response.
LEMMA OpenCodes ==
    \A e \in OpenErrors :
        gatewayErrorCode(ProviderError(e)) = writeMappedError(ProviderError(e))[2]
PROOF
  <1>1. \A e \in OpenErrors : e.kind # "none" \/ e \in RecvErrors
    BY DEF OpenErrors, RecvErrors, HTTPError, NetworkError, InvalidResponse, unavailable
  <1> QED BY Zenon, <1>1, UpstreamCodes, PlainCodes

-----------------------------------------------------------------------------
(* Every step keeps the invariant                                          *)

\* The initial state satisfies the stream invariant.
LEMMA StreamInit == Init => StreamInv
PROOF
  <1> SUFFICES ASSUME Init PROVE StreamInv
    BY Zenon
  <1>1. Fresh
    BY Zenon DEF Init, Fresh
  <1>2. pc = "start" /\ ctx = "live" /\ chunks = 0 /\ sent = 0 /\ usage = lastUsage
    BY Zenon DEF Init
  <1> QED BY Zenon, <1>1, <1>2 DEF StreamInv

\* ChatStream refuses the request.
LEMMA RefuseStep ==
    ASSUME StreamInv, NEW e, Refuse(e), pc \in {"start", "open"}, pc' = "done",
           row' = "none" \/ (row' # "succeeded" /\ rowCode' = writeMappedError(e)[2])
    PROVE  StreamInv'
PROOF
  <1>1. Fresh /\ chunks \in Nat /\ sent \in Nat /\ usage = lastUsage
        /\ ctx \in {"live", "canceled", "deadline"}
    BY Zenon DEF StreamInv
  <1>2. Refused'
    BY Zenon, <1>1 DEF Refuse, Refused, Fresh, stream
  <1>3. UNCHANGED <<ctx, chunks, sent, usage, lastUsage>>
    BY Zenon DEF Refuse, stream, traffic
  <1> QED BY Zenon, <1>1, <1>2, <1>3 DEF StreamInv

\* Forwarding a chunk keeps the stream invariant.
LEMMA ChunkStep ==
    ASSUME StreamInv, pc \in {"recv", "scan"}, NEW withUsage \in BOOLEAN, Chunk(withUsage)
    PROVE  StreamInv'
  BY DEF StreamInv, Chunk, Reading, record, told

\* The end of the stream, by EOF or by an error, keeps the stream invariant.
LEMMA EndsStep ==
    ASSUME StreamInv, pc \in {"recv", "scan"}, NEW how \in {"eof", "error"}, NEW e,
           e \in (IF how = "eof" THEN {Nil} ELSE RecvErrors), Ends(how, e)
    PROVE  StreamInv'
PROOF
  <1>1. /\ pc' = "meter" /\ ended' = how /\ err' = e /\ managed' = circuitOutcome(e)
        /\ UNCHANGED <<ctx, finished, rows, row, chunks, sent, usage, lastUsage, client>>
    BY Zenon DEF Ends, record, told, traffic
  <1>2. Reported'
    BY Zenon, <1>1 DEF Reported
  <1> QED BY Zenon, <1>1, <1>2 DEF StreamInv, Reading

\* Going back to the head of the receive loop keeps the stream invariant.
LEMMA AgainStep ==
    ASSUME StreamInv, pc = "scan", NEW data, NEW bytes, Again(data, bytes)
    PROVE  StreamInv'
  BY Zenon DEF StreamInv, Again, Reading, record, told, traffic

\* Recv of the sseStream and of the mockStream.
LEMMA RecvStep ==
    ASSUME StreamInv, CheckContext \/ ScanLine \/ ScanEnds \/ ScanFails \/ MockRecv
    PROVE  StreamInv'
PROOF
  <1>1. pc \in {"recv", "scan"}
    BY Zenon DEF CheckContext, ScanLine, ScanEnds, ScanFails, MockRecv
  <1>2. ctx # "live" => PlainError(ctx) \in RecvErrors
    BY Zenon DEF StreamInv, RecvErrors
  <1>3. PlainError("other") \in RecvErrors
    BY Zenon DEF RecvErrors
  <1>4. ASSUME NEW data, decode(data) PROVE StreamInv'
    <2>1. CASE data = "done" /\ Ends("eof", Nil)
      BY Zenon, <1>1, <2>1, EndsStep
    <2>2. CASE data = "bad" /\ Ends("error", PlainError("other"))
      BY Zenon, <1>1, <1>3, <2>2, EndsStep
    <2>3. CASE data \in {"chunk", "usage"} /\ Chunk(data = "usage")
      BY Zenon, <1>1, <2>3, ChunkStep
    <2> QED BY Zenon, <1>4, <2>1, <2>2, <2>3 DEF decode
  <1>5. CASE CheckContext
    <2>1. CASE ctx # "live" /\ Ends("error", PlainError(ctx))
      BY Zenon, <1>1, <1>2, <2>1, EndsStep
    <2>2. CASE pc' = "scan" /\ UNCHANGED <<ctx, canceled, stream, record, traffic, told>>
      BY Zenon, <1>1, <2>2 DEF StreamInv, Reading, stream, record, traffic, told
    <2> QED BY Zenon, <1>5, <2>1, <2>2 DEF CheckContext
  <1>6. CASE ScanLine
    <2>1. CASE Ends("error", PlainError("other"))
      BY Zenon, <1>1, <1>3, <2>1, EndsStep
    <2>2. CASE \E data, bytes : Again(data, bytes)
      BY Zenon, <1>6, <2>2, AgainStep DEF ScanLine
    <2>3. CASE decode(event)
      BY Zenon, <1>4, <2>3
    <2> QED BY Zenon, <1>6, <2>1, <2>2, <2>3 DEF ScanLine
  <1>7. CASE ScanEnds
    BY Zenon, <1>1, <1>4, <1>7, EndsStep DEF ScanEnds
  <1>8. CASE ScanFails
    <2>1. PlainError(IF ctx = "live" THEN "other" ELSE ctx) \in RecvErrors
      BY Zenon, <1>2, <1>3
    <2> QED BY Zenon, <1>1, <1>8, <2>1, EndsStep DEF ScanFails
  <1>9. CASE MockRecv
    BY Zenon, <1>1, <1>2, <1>9, EndsStep, ChunkStep DEF MockRecv
  <1> QED BY Zenon, <1>5, <1>6, <1>7, <1>8, <1>9

\* Recv of the meteredStream.
LEMMA MeterStep ==
    ASSUME StreamInv, Meter
    PROVE  StreamInv'
PROOF
  <1>1. /\ pc = "meter" /\ pc' = "reply" /\ ~finished /\ rows = 0 /\ row = "none" /\ Reported
        /\ usage = lastUsage
    BY Zenon DEF Meter, Go, StreamInv
  <1>2. UNCHANGED <<ctx, managed, ended, err, usage, chunks, sent, lastUsage, client>>
    BY Zenon DEF Meter, innermost, traffic, told
  <1>3. /\ ended \in {"eof", "error"}
        /\ ended = "eof" => managed = "success"
        /\ ended = "error" => managed \in {"failure", "ignored"}
    BY Zenon, <1>1, OutcomeFacts DEF Reported
  <1>4. /\ finished' = TRUE /\ canceled' = TRUE /\ rows' = 1 /\ observed' = lastUsage
        /\ row' # "none" =>
            /\ rowUsage' = lastUsage
            /\ row' = IF ended = "eof" THEN "succeeded" ELSE "failed"
            /\ ended = "error" => rowCode' = gatewayErrorCode(ProviderError(err))
    <2>1. CASE ended = "eof"
      <3> DEFINE code == ""
      <3>1. finishOnce("succeeded", code)
        BY Zenon, <2>1 DEF Meter
      <3> HIDE DEF code
      <3> QED BY <1>1, <2>1, <3>1 DEF finishOnce, Record
    <2>2. CASE ended = "error"
      BY <1>1, <2>2 DEF Meter, finishOnce, Record
    <2> QED BY Zenon, <1>3, <2>1, <2>2
  <1>5. Recorded' /\ CodeKept'
    BY Zenon, <1>2, <1>3, <1>4 DEF Recorded, CodeKept
  <1>6. Reported'
    BY Zenon, <1>1, <1>2 DEF Reported
  <1> QED BY Zenon, <1>1, <1>2, <1>5, <1>6 DEF StreamInv

\* What the handler tells its client when Recv has failed.
LEMMA ReplyStep ==
    ASSUME StreamInv, Reply
    PROVE  StreamInv'
PROOF
  <1> DEFINE failed == ProviderError(err)
  <1>1. /\ pc = "reply" /\ pc' = "close" /\ Recorded /\ Reported /\ CodeKept
        /\ client # "gone" => sent = chunks
        /\ chunks \in Nat
    BY Zenon DEF Reply, Go, StreamInv
  <1>2. /\ UNCHANGED <<ctx, managed, ended, err, finished, canceled, usage>>
        /\ UNCHANGED <<chunks, sent, lastUsage, rows, row, rowUsage, rowCode, observed>>
    BY Zenon DEF Reply, stream, record, traffic
  <1>3. /\ ended \in {"eof", "error"}
        /\ ended = "eof" => managed = "success"
        /\ ended = "error" => err \in RecvErrors /\ managed \in {"failure", "ignored"}
    BY Zenon, <1>1, OutcomeFacts DEF Reported
  <1>4. /\ client' = "completed" => ended = "eof" /\ client # "gone"
        /\ client' = "cut" => ended = "error"
        /\ client' = "error" => chunks = 0
    <2>1. /\ "completed" \in Told => ended = "eof" /\ client # "gone"
          /\ "cut" \in Told => ended = "error"
          /\ "error" \in Told => chunks = 0
      BY <1>1, <1>3 DEF Told
    <2> QED BY Zenon, <2>1 DEF Reply
  <1>5. client' = "error" =>
            answer' = writeMappedError(ProviderError(
                          IF ended = "eof" THEN PlainError("other") ELSE err))
    <2>1. chunks = 0 => ~(chunks > 0)
      OBVIOUS
    <2> QED BY Zenon, <1>4, <2>1 DEF Reply
  <1>6. client' = "error" /\ ended = "eof" => answer' = <<502, "provider_request_failed">>
    <2> DEFINE p == ProviderError(PlainError("other"))
    <2>1. p.class = "provider" /\ p.err.kind = "none" /\ p.err.cause = "other"
      BY Zenon DEF ProviderError, PlainError
    <2> HIDE DEF p
    <2>2. writeMappedError(p) = <<502, "provider_request_failed">>
      BY <2>1 DEF writeMappedError
    <2> QED BY Zenon, <1>5, <2>2 DEF p
  <1>7. client' = "error" /\ ended = "error" => answer' = writeMappedError(failed)
    BY Zenon, <1>5
  <1>8. ended = "error" => gatewayErrorCode(failed) = writeMappedError(failed)[2]
    BY Zenon, <1>3, PlainCodes
  <1>9. ended = "error" /\ row # "none" => rowCode = gatewayErrorCode(failed)
    BY Zenon, <1>1 DEF CodeKept
  <1> HIDE DEF failed
  <1>10. Recorded'
    BY Zenon, <1>1, <1>2 DEF Recorded
  <1>11. Finished'
    BY Zenon, <1>1, <1>2, <1>3, <1>4, <1>6, <1>7, <1>8, <1>9, <1>10 DEF Finished
  <1> QED BY Zenon, <1>1, <1>2, <1>11 DEF StreamInv

\* Closing the stream keeps the stream invariant.
LEMMA CloseStep ==
    ASSUME StreamInv, Close
    PROVE  StreamInv'
PROOF
  <1>1. /\ pc = "close" /\ pc' = "done" /\ body' = "closed"
        /\ UNCHANGED <<ctx, ended, usage, chunks, sent, lastUsage, client, answer>>
    BY Zenon DEF Close, Go, traffic, told, innermost
  <1>2. CASE Finished
    <2>1. UNCHANGED <<managed, rows, row, rowUsage, rowCode, observed>>
          /\ finished' = TRUE /\ canceled' = TRUE
      BY Zenon, <1>2 DEF Close, Finished, Recorded, finishOnce, record
    <2>2. Finished'
      BY <1>1, <1>2, <2>1 DEF Finished, Recorded
    <2> QED BY Zenon, <1>1, <2>2 DEF StreamInv
  <1>3. CASE Reading /\ client = "cut" /\ ended = "chunk"
    <2>1. /\ managed' \in {"ignored", "failure"} /\ finished' = TRUE /\ canceled' = TRUE
          /\ rows' = 1 /\ observed' = lastUsage
          /\ row' # "none" => row' = "failed" /\ rowUsage' = lastUsage
      BY <1>3 DEF Close, Reading, finishOnce, Record, StreamInv
    <2>2. Finished'
      BY Zenon, <1>1, <1>3, <2>1 DEF Finished, Recorded
    <2> QED BY Zenon, <1>1, <2>2 DEF StreamInv
  <1> QED BY Zenon, <1>1, <1>2, <1>3 DEF StreamInv

\* Every step keeps the stream invariant.
LEMMA StreamStep ==
    ASSUME StreamInv, [Next]_vars
    PROVE  StreamInv'
PROOF
  <1>1. CASE UNCHANGED vars
    BY <1>1 DEF StreamInv, Fresh, Reading, Reported, Recorded, CodeKept, Finished, Refused, vars, stream,
                record, traffic, told
  <1>2. CASE \E why \in {"canceled", "deadline"} : ContextEnds(why)
    BY <1>2 DEF ContextEnds, StreamInv, Fresh, Reading, stream, record, traffic, told
  <1>3. CASE Invalid
    <2>1. PICK e : Refuse(e)
      BY Zenon, <1>3 DEF Invalid
    <2> QED BY Zenon, <1>3, <2>1, RefuseStep DEF Invalid, Go, record, StreamInv, Fresh
  <1>4. CASE RateLimitRejected
    <2>1. PICK e \in {RateLimitError, DependencyError("rate_limiter_unavailable")} :
              Record(statusForGatewayError(e), 0, gatewayErrorCode(e)) /\ Refuse(e)
      BY Zenon, <1>4 DEF RateLimitRejected
    <2>2. pc = "start" /\ pc' = "done" /\ row = "none"
      BY Zenon, <1>4 DEF RateLimitRejected, Go, StreamInv, Fresh
    <2>3. row' = "none" \/ (row' # "succeeded" /\ rowCode' = writeMappedError(e)[2])
      BY Zenon, <2>1, <2>2, RateLimitCodes DEF Record
    <2> QED BY Zenon, <2>1, <2>2, <2>3, RefuseStep
  <1>5. CASE OpenFails
    <2>1. PICK e \in OpenErrors :
              /\ Record("failed", 0, gatewayErrorCode(ProviderError(e)))
              /\ Refuse(ProviderError(e))
      BY Zenon, <1>5 DEF OpenFails
    <2>2. pc = "open" /\ pc' = "done" /\ row = "none"
      BY Zenon, <1>5 DEF OpenFails, Go, StreamInv, Fresh
    <2>3. row' = "none"
          \/ (row' # "succeeded" /\ rowCode' = writeMappedError(ProviderError(e))[2])
      BY Zenon, <2>1, <2>2, OpenCodes DEF Record
    <2> QED BY Zenon, <2>1, <2>2, <2>3, RefuseStep
  <1>6. CASE RateLimitPassed
    BY Zenon, <1>6 DEF RateLimitPassed, Go, StreamInv, Fresh, stream, record, traffic, told
  <1>7. CASE Opens
    BY Zenon, <1>7 DEF Opens, Go, StreamInv, Fresh, Reading, record, traffic, told
  <1>8. CASE WriteChunk
    <2>1. /\ pc = "write" /\ pc' = "recv"
          /\ \/ client # "gone" /\ client' = "streaming" /\ sent' = sent + 1
             \/ client' = "gone" /\ sent' = sent
          /\ UNCHANGED <<ctx, managed, finished, rows, row, ended, usage, chunks, lastUsage>>
      BY Zenon, <1>8 DEF WriteChunk, Go, stream, record
    <2> QED BY <2>1 DEF StreamInv, Reading
  <1>9. CASE WriteFails
    BY Zenon, <1>9 DEF WriteFails, Go, StreamInv, Reading, stream, record, traffic
  <1> QED BY Zenon, <1>1, <1>2, <1>3, <1>4, <1>5, <1>6, <1>7, <1>8, <1>9, RecvStep, MeterStep, ReplyStep,
             CloseStep
          DEF Next, Step, Done

\* The stream invariant holds in every reachable state.
LEMMA StreamInvariant == Spec => []StreamInv
  BY StreamInit, StreamStep, PTL DEF Spec

-----------------------------------------------------------------------------
\* When the handler of a stream returns, the context, the upstream body, the
\* slot and the probe are given back and the request is recorded, whichever
\* of Recv, the write and Close ended it.
THEOREM StreamReturnsAll == Spec => []AllReturned
PROOF
  <1>1. StreamInv => AllReturned
    BY Zenon DEF StreamInv, AllReturned, Refused, Finished, Recorded
  <1> QED BY <1>1, StreamInvariant, PTL

\* managedStream and meteredStream, which end apart, agree on the outcome.
THEOREM StreamTellsOneStory == Spec => []RowMatchesOutcome
PROOF
  <1>1. StreamInv => RowMatchesOutcome
    BY Zenon DEF StreamInv, RowMatchesOutcome, Refused, Finished, Recorded
  <1> QED BY <1>1, StreamInvariant, PTL

\* The last usage the upstream sent is what the row and the metrics say.
THEOREM StreamKeepsUsage == Spec => []UsageKept
PROOF
  <1>1. StreamInv => UsageKept
    BY Zenon DEF StreamInv, UsageKept, Fresh, Reading, Refused, Finished, Recorded
  <1> QED BY <1>1, StreamInvariant, PTL

\* gatewayErrorCode and writeMappedError name the error of a stream alike.
THEOREM StreamErrorsNamedAlike == Spec => []ToldAsRecorded
PROOF
  <1>1. StreamInv => ToldAsRecorded
    BY Zenon DEF StreamInv, ToldAsRecorded, Fresh, Reading, Refused, Finished, Recorded
  <1> QED BY <1>1, StreamInvariant, PTL

\* A client that sees [DONE] got every chunk of a stream that is not recorded as
\* failed, and a response that the handler cuts is not recorded as served.  (A
\* connection that is lost unseen is neither.)
THEOREM StreamDoneMeansServed == Spec => []DoneMeansServed
PROOF
  <1>1. StreamInv => DoneMeansServed
    BY Zenon DEF StreamInv, DoneMeansServed, Fresh, Reading, Refused, Finished, Recorded
  <1> QED BY <1>1, StreamInvariant, PTL

-----------------------------------------------------------------------------
(* Types                                                                   *)

Labels ==
    /\ canceled \in BOOLEAN /\ finished \in BOOLEAN
    /\ managed \in {"none", "open", "success", "failure", "ignored"}
    /\ body \in {"none", "open", "closed"}
    /\ ended \in {"chunk", "eof", "error"} /\ err \in ErrorType
    /\ source \in {"none", "sse", "mock"}
    /\ row \in {"none", "succeeded", "failed", "rate_limited"}
    /\ client \in {"waiting", "streaming", "completed", "error", "cut", "gone"}

\* An event that carries a chunk was begun while the upstream had one to send.
Buffered ==
    /\ event \in Payloads \cup {"none"}
    /\ size \in 0..maxSSEEventBytes /\ (event # "none" => size > 0)
    /\ event \in {"chunk", "usage"} => chunks < MaxChunks

Counts ==
    /\ rows \in 0..1
    /\ chunks \in 0..MaxChunks /\ sent \in 0..chunks
    /\ rowUsage \in 0..chunks /\ lastUsage \in 0..chunks
    /\ observed \in -1..chunks

DataInv == Labels /\ Buffered /\ Counts

\* What Recv returns, an error or none, is of the error type.
LEMMA RecvErrorType ==
    /\ Nil \in ErrorType
    /\ \A e \in RecvErrors : e \in ErrorType
PROOF
  <1>1. Nil \in ErrorType
    BY Zenon DEF Nil, ErrorType, Kinds, Causes
  <1>2. \A cause \in {"canceled", "deadline", "other"} : PlainError(cause) \in ErrorType
    BY Zenon DEF PlainError, ErrorType, Kinds, Causes
  <1> QED BY Zenon, <1>1, <1>2 DEF RecvErrors

\* The circuit outcome of any error is success, failure or ignored.
LEMMA OutcomeType == \A e : circuitOutcome(e) \in {"success", "failure", "ignored"}
  BY Zenon DEF circuitOutcome

\* GatewayService.record, for a request that has no row yet.
LEMMA RecordType ==
    ASSUME StreamInv, DataInv, NEW status \in {"succeeded", "failed", "rate_limited"},
           NEW u \in {0, lastUsage}, NEW code, Record(status, u, code), rows = 0
    PROVE  /\ rows' \in 0..1
           /\ row' \in {"none", "succeeded", "failed", "rate_limited"}
           /\ rowUsage' \in 0..chunks
  BY DEF Record, DataInv, Labels, Counts

\* A refusal keeps the data well typed.
LEMMA RefuseType ==
    ASSUME StreamInv, DataInv, NEW e, Refuse(e), UNCHANGED observed,
           /\ rows' \in 0..1
           /\ row' \in {"none", "succeeded", "failed", "rate_limited"}
           /\ rowUsage' \in 0..chunks
    PROVE  DataInv'
PROOF
  <1>1. /\ canceled' = TRUE /\ client' \in {"error", "gone"}
        /\ UNCHANGED <<managed, source, event, size, body, ended, err, finished>>
        /\ UNCHANGED <<chunks, sent, lastUsage>>
    BY Zenon DEF Refuse, stream, innermost, traffic
  <1>2. Labels'
    BY Zenon, <1>1 DEF DataInv, Labels
  <1>3. Buffered'
    BY Zenon, <1>1 DEF DataInv, Buffered
  <1>4. Counts'
    BY Zenon, <1>1 DEF DataInv, Counts
  <1> QED BY Zenon, <1>2, <1>3, <1>4 DEF DataInv

\* Forwarding a chunk keeps the data well typed.
LEMMA ChunkType ==
    ASSUME StreamInv, DataInv, NEW withUsage \in BOOLEAN, Chunk(withUsage),
           chunks < MaxChunks
    PROVE  DataInv'
PROOF
  <1>1. /\ chunks' = chunks + 1 /\ event' = "none" /\ size' = 0
        /\ lastUsage' \in {chunks', lastUsage}
        /\ UNCHANGED <<canceled, managed, source, body, ended, err, finished>>
        /\ UNCHANGED <<rows, row, rowUsage, observed, sent, client>>
    BY Zenon DEF Chunk, record, told
  <1>2. Labels'
    BY <1>1 DEF DataInv, Labels
  <1>3. Buffered'
    BY <1>1, StreamOptions DEF Buffered
  <1>4. Counts'
    BY <1>1, StreamOptions DEF DataInv, Counts
  <1> QED BY Zenon, <1>2, <1>3, <1>4 DEF DataInv

\* The end of the stream keeps the data well typed.
LEMMA EndsType ==
    ASSUME StreamInv, DataInv, NEW how \in {"eof", "error"}, NEW e,
           e \in {Nil} \cup RecvErrors, Ends(how, e)
    PROVE  DataInv'
PROOF
  <1>1. /\ event' = "none" /\ size' = 0 /\ ended' = how /\ err' = e
        /\ managed' = circuitOutcome(e)
        /\ UNCHANGED <<canceled, source, body, finished, row, client>>
        /\ UNCHANGED <<rows, rowUsage, observed, chunks, sent, lastUsage>>
    BY Zenon DEF Ends, record, told, traffic
  <1>2. e \in ErrorType
    BY Zenon, RecvErrorType
  <1>3. Labels'
    BY Zenon, <1>1, <1>2, OutcomeType DEF DataInv, Labels
  <1>4. Buffered'
    BY <1>1, StreamOptions DEF Buffered
  <1>5. Counts'
    BY Zenon, <1>1 DEF DataInv, Counts
  <1> QED BY Zenon, <1>3, <1>4, <1>5 DEF DataInv

\* Going back to the head of the receive loop keeps the data well typed.
LEMMA AgainType ==
    ASSUME StreamInv, DataInv, NEW data, NEW bytes, Again(data, bytes),
           /\ data \in Payloads \cup {"none"}
           /\ bytes \in 0..maxSSEEventBytes /\ (data # "none" => bytes > 0)
           /\ data \in {"chunk", "usage"} => chunks < MaxChunks
    PROVE  DataInv'
PROOF
  <1>1. /\ event' = data /\ size' = bytes
        /\ UNCHANGED <<canceled, managed, source, body, ended, err, finished, row, client>>
        /\ UNCHANGED <<rows, rowUsage, observed, chunks, sent, lastUsage>>
    BY Zenon DEF Again, record, told, traffic
  <1>2. Labels'
    BY <1>1 DEF DataInv, Labels
  <1>3. Buffered'
    BY Zenon, <1>1 DEF Buffered
  <1>4. Counts'
    BY Zenon, <1>1 DEF DataInv, Counts
  <1> QED BY Zenon, <1>2, <1>3, <1>4 DEF DataInv

\* Recv of the sseStream and of the mockStream.
LEMMA RecvType ==
    ASSUME StreamInv, DataInv, CheckContext \/ ScanLine \/ ScanEnds \/ ScanFails \/ MockRecv
    PROVE  DataInv'
PROOF
  <1>1. /\ ctx # "live" => PlainError(ctx) \in RecvErrors
        /\ PlainError("other") \in RecvErrors
    BY Zenon DEF StreamInv, RecvErrors
  <1>2. ASSUME decode(event) PROVE DataInv'
    <2>1. CASE Ends("eof", Nil) \/ Ends("error", PlainError("other"))
      BY Zenon, <1>1, <2>1, EndsType
    <2>2. CASE event \in {"chunk", "usage"} /\ Chunk(event = "usage")
      <3>1. chunks < MaxChunks
        BY Zenon, <2>2 DEF DataInv, Buffered
      <3> QED BY Zenon, <2>2, <3>1, ChunkType
    <2> QED BY Zenon, <1>2, <2>1, <2>2 DEF decode
  <1>3. CASE CheckContext
    <2>1. CASE ctx # "live" /\ Ends("error", PlainError(ctx))
      BY Zenon, <1>1, <2>1, EndsType
    <2>2. CASE UNCHANGED <<canceled, stream, record, traffic, told>>
      BY <2>2 DEF DataInv, Labels, Buffered, Counts, stream, innermost, record, traffic, told
    <2> QED BY Zenon, <1>3, <2>1, <2>2 DEF CheckContext
  <1>4. CASE ScanLine
    <2>1. CASE Ends("error", PlainError("other"))
      BY Zenon, <1>1, <2>1, EndsType
    <2>2. CASE decode(event)
      BY Zenon, <1>2, <2>2
    <2>3. CASE Again("none", 0)
      BY <2>3, AgainType, StreamOptions
    <2>4. ASSUME size < maxSSEEventBytes, NEW data \in Sendable, Again(data, size + 1)
          PROVE  DataInv'
      <3>1. size + 1 \in 0..maxSSEEventBytes /\ size + 1 > 0
        BY <2>4, StreamOptions DEF DataInv, Buffered
      <3>2. data \in Payloads /\ (data \in {"chunk", "usage"} => chunks < MaxChunks)
        BY Zenon DEF Sendable, Payloads
      <3> QED BY Zenon, <2>4, <3>1, <3>2, AgainType
    <2>5. CASE size < maxSSEEventBytes /\ Again(event, size + 1)
      <3>1. size + 1 \in 0..maxSSEEventBytes /\ size + 1 > 0
        BY <2>5, StreamOptions DEF DataInv, Buffered
      <3>2. /\ event \in Payloads \cup {"none"}
            /\ event \in {"chunk", "usage"} => chunks < MaxChunks
        BY Zenon DEF DataInv, Buffered
      <3> QED BY Zenon, <2>5, <3>1, <3>2, AgainType
    <2> QED BY Zenon, <1>4, <2>1, <2>2, <2>3, <2>4, <2>5 DEF ScanLine
  <1>5. CASE ScanEnds
    BY Zenon, <1>2, <1>5, EndsType DEF ScanEnds
  <1>6. CASE ScanFails
    <2>1. PlainError(IF ctx = "live" THEN "other" ELSE ctx) \in RecvErrors
      BY Zenon, <1>1
    <2> QED BY Zenon, <1>6, <2>1, EndsType DEF ScanFails
  <1>7. CASE MockRecv
    BY Zenon, <1>1, <1>7, EndsType, ChunkType DEF MockRecv
  <1> QED BY Zenon, <1>3, <1>4, <1>5, <1>6, <1>7

\* The steps that record the end of a stream that was opened.
LEMMA FinishType ==
    ASSUME StreamInv, DataInv, NEW status \in {"succeeded", "failed"}, NEW code,
           finishOnce(status, code), finished \/ rows = 0
    PROVE  /\ finished' = TRUE /\ canceled' = TRUE
           /\ rows' \in 0..1
           /\ row' \in {"none", "succeeded", "failed", "rate_limited"}
           /\ rowUsage' \in 0..chunks
           /\ observed' \in -1..chunks
PROOF
  <1>1. CASE finished
    BY Zenon, <1>1 DEF finishOnce, record, DataInv, Labels, Counts
  <1>2. CASE ~finished
    <2>1. Record(status, lastUsage, code) /\ observed' = lastUsage /\ rows = 0
      BY Zenon, <1>2 DEF finishOnce, StreamInv
    <2>2. observed' \in -1..chunks
      BY <2>1 DEF DataInv, Counts
    <2> QED BY Zenon, <2>1, <2>2, RecordType DEF finishOnce
  <1> QED BY Zenon, <1>1, <1>2

\* Passing the end on to the handler, with the usage row, keeps the data well
\* typed.
LEMMA MeterType ==
    ASSUME StreamInv, DataInv, Meter
    PROVE  DataInv'
PROOF
  <1>1. /\ rows = 0
        /\ UNCHANGED <<managed, source, event, size, body, ended, err, client>>
        /\ UNCHANGED <<chunks, sent, lastUsage>>
    BY Zenon DEF Meter, Go, StreamInv, innermost, traffic, told
  <1>2. \E status \in {"succeeded", "failed"} : \E code : finishOnce(status, code)
    BY Zenon DEF Meter
  <1>3. /\ finished' = TRUE /\ canceled' = TRUE
        /\ rows' \in 0..1
        /\ row' \in {"none", "succeeded", "failed", "rate_limited"}
        /\ rowUsage' \in 0..chunks
        /\ observed' \in -1..chunks
    BY Zenon, <1>1, <1>2, FinishType
  <1>4. Labels'
    BY Zenon, <1>1, <1>3 DEF DataInv, Labels
  <1>5. Buffered'
    BY Zenon, <1>1 DEF DataInv, Buffered
  <1>6. Counts'
    BY Zenon, <1>1, <1>3 DEF DataInv, Counts
  <1> QED BY Zenon, <1>4, <1>5, <1>6 DEF DataInv

\* The answer of the handler keeps the data well typed.
LEMMA ReplyType ==
    ASSUME StreamInv, DataInv, Reply
    PROVE  DataInv'
PROOF
  <1>1. /\ pc = "reply" /\ client' \in Told /\ chunks \in Nat /\ ended \in {"eof", "error"}
        /\ UNCHANGED <<canceled, managed, source, event, size, body, ended, err, finished>>
        /\ UNCHANGED <<rows, row, rowUsage, observed, chunks, sent, lastUsage>>
    BY Zenon DEF Reply, Go, StreamInv, Reported, stream, innermost, record, traffic
  <1>2. client' \in {"completed", "cut", "error", "gone"}
    BY <1>1 DEF Told
  <1>3. Labels'
    BY <1>1, <1>2 DEF DataInv, Labels
  <1>4. Buffered'
    BY Zenon, <1>1 DEF DataInv, Buffered
  <1>5. Counts'
    BY Zenon, <1>1 DEF DataInv, Counts
  <1> QED BY Zenon, <1>3, <1>4, <1>5 DEF DataInv

\* Closing the stream keeps the data well typed.
LEMMA CloseType ==
    ASSUME StreamInv, DataInv, Close
    PROVE  DataInv'
PROOF
  <1>1. /\ body' = "closed"
        /\ UNCHANGED <<source, event, size, ended, err, client>>
        /\ UNCHANGED <<chunks, sent, lastUsage>>
    BY Zenon DEF Close, innermost, traffic, told
  <1>2. finished \/ rows = 0
    BY Zenon DEF Close, Go, StreamInv, Reading, Finished, Recorded
  <1>3. managed' \in {managed, "failure", "ignored"}
    BY Zenon DEF Close
  <1>4. \E code : finishOnce("failed", code)
    BY Zenon DEF Close
  <1>5. /\ finished' = TRUE /\ canceled' = TRUE
        /\ rows' \in 0..1
        /\ row' \in {"none", "succeeded", "failed", "rate_limited"}
        /\ rowUsage' \in 0..chunks
        /\ observed' \in -1..chunks
    BY Zenon, <1>2, <1>4, FinishType
  <1>6. Labels'
    BY Zenon, <1>1, <1>3, <1>5 DEF DataInv, Labels
  <1>7. Buffered'
    BY Zenon, <1>1 DEF DataInv, Buffered
  <1>8. Counts'
    BY Zenon, <1>1, <1>5 DEF DataInv, Counts
  <1> QED BY Zenon, <1>6, <1>7, <1>8 DEF DataInv

\* Every step before the stream is open keeps the data well typed.
LEMMA OpeningType ==
    ASSUME StreamInv, DataInv, Invalid \/ RateLimitRejected \/ RateLimitPassed \/ OpenFails \/ Opens
    PROVE  DataInv'
PROOF
  <1>1. CASE Invalid
    <2>1. PICK e : Refuse(e)
      BY Zenon, <1>1 DEF Invalid
    <2>2. UNCHANGED <<rows, row, rowUsage, observed>>
      BY Zenon, <1>1 DEF Invalid, record
    <2>3. chunks' = chunks
      BY Zenon, <2>1 DEF Refuse, traffic
    <2>4. /\ rows' \in 0..1
          /\ row' \in {"none", "succeeded", "failed", "rate_limited"}
          /\ rowUsage' \in 0..chunks
      BY Zenon, <2>2 DEF DataInv, Labels, Counts
    <2> QED BY Zenon, <2>1, <2>2, <2>4, RefuseType
  <1>2. CASE RateLimitRejected
    <2>1. PICK e : Record(statusForGatewayError(e), 0, gatewayErrorCode(e)) /\ Refuse(e)
      BY Zenon, <1>2 DEF RateLimitRejected
    <2>2. rows = 0 /\ UNCHANGED observed
      BY Zenon, <1>2 DEF RateLimitRejected, Go, StreamInv, Fresh
    <2>3. statusForGatewayError(e) \in {"failed", "rate_limited"}
      BY Zenon DEF statusForGatewayError
    <2>4. /\ rows' \in 0..1
          /\ row' \in {"none", "succeeded", "failed", "rate_limited"}
          /\ rowUsage' \in 0..chunks
      BY Zenon, <2>1, <2>2, <2>3, RecordType
    <2> QED BY Zenon, <2>1, <2>2, <2>4, RefuseType
  <1>3. CASE OpenFails
    <2>1. PICK e : Record("failed", 0, gatewayErrorCode(e)) /\ Refuse(e)
      BY Zenon, <1>3 DEF OpenFails
    <2>2. rows = 0 /\ UNCHANGED observed
      BY Zenon, <1>3 DEF OpenFails, Go, StreamInv, Fresh
    <2>3. /\ rows' \in 0..1
          /\ row' \in {"none", "succeeded", "failed", "rate_limited"}
          /\ rowUsage' \in 0..chunks
      BY Zenon, <2>1, <2>2, RecordType
    <2> QED BY Zenon, <2>1, <2>2, <2>3, RefuseType
  <1>4. CASE RateLimitPassed
    BY <1>4 DEF RateLimitPassed, DataInv, Labels, Buffered, Counts, stream, innermost, record,
                traffic, told
  <1>5. CASE Opens
    BY <1>5 DEF Opens, DataInv, Labels, Buffered, Counts, record, traffic, told
  <1> QED BY Zenon, <1>1, <1>2, <1>3, <1>4, <1>5

\* Every step keeps the data well typed.
LEMMA DataStep ==
    ASSUME StreamInv, DataInv, [Next]_vars
    PROVE  DataInv'
PROOF
  <1>1. CASE UNCHANGED vars
    BY <1>1 DEF DataInv, Labels, Buffered, Counts, vars, stream, innermost, record, traffic, told
  <1>2. CASE \E why \in {"canceled", "deadline"} : ContextEnds(why)
    BY Zenon, <1>2 DEF ContextEnds, DataInv, Labels, Buffered, Counts, stream, innermost, record,
                traffic, told
  <1>3. CASE WriteChunk
    <2>1. /\ \/ client' = "streaming" /\ sent' = sent + 1 /\ chunks = sent + 1
             \/ client' = "gone" /\ sent' = sent
          /\ UNCHANGED <<canceled, managed, source, event, size, body, ended, err, finished>>
          /\ UNCHANGED <<rows, row, rowUsage, observed, chunks, lastUsage>>
      BY Zenon, <1>3 DEF WriteChunk, Go, StreamInv, stream, innermost, record
    <2>2. Labels'
      BY <2>1 DEF DataInv, Labels
    <2>3. Buffered'
      BY Zenon, <2>1 DEF DataInv, Buffered
    <2>4. Counts'
      BY <2>1 DEF DataInv, Counts
    <2> QED BY Zenon, <2>2, <2>3, <2>4 DEF DataInv
  <1>4. CASE WriteFails
    BY <1>4 DEF WriteFails, DataInv, Labels, Buffered, Counts, stream, innermost, record, traffic
  <1> QED BY Zenon, <1>1, <1>2, <1>3, <1>4, OpeningType, RecvType, MeterType, ReplyType, CloseType
          DEF Next, Step, Done

\* A request asks for at most one row, an event never grows past the limit of
\* the SSE reader, and no counter of a stream, however long, runs ahead of the
\* chunks that were received.
THEOREM StreamTypeCorrect == Spec => []TypeOK
PROOF
  <1>1. Init => DataInv
    <2> SUFFICES ASSUME Init PROVE DataInv
      BY Zenon
    <2>1. Labels
      BY RecvErrorType, Zenon DEF Init, Labels
    <2>2. event = "none" /\ size = 0 /\ rows = 0 /\ chunks = 0 /\ sent = 0 /\ rowUsage = 0
          /\ lastUsage = 0 /\ observed = -1
      BY Zenon DEF Init
    <2>3. Buffered /\ Counts
      BY <2>2, StreamOptions DEF Buffered, Counts
    <2> QED BY Zenon, <2>1, <2>3 DEF DataInv
  <1>2. StreamInv /\ DataInv => TypeOK
    BY Zenon DEF StreamInv, DataInv, Labels, Buffered, Counts, TypeOK
  <1>3. StreamInv /\ DataInv /\ [Next]_vars => DataInv'
    BY Zenon, DataStep
  <1> QED BY <1>1, <1>2, <1>3, StreamInvariant, PTL DEF Spec
=============================================================================
