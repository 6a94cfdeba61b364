-------------------------- MODULE StreamLifecycle --------------------------
(***************************************************************************)
(* One streaming request, from GatewayService.ChatStream through the SSE   *)
(* loop of the handler to its deferred Close.  The stream the handler      *)
(* reads is a meteredStream (which writes the row of the request) around   *)
(* a managedStream (which reports to the circuit breaker and gives the     *)
(* provider's slot back); each of them ends once, by itself.  Streaming    *)
(* requests share no state here: the slots and breakers they compete for   *)
(* are in Governance.  The innermost stream is an sseStream, read line by  *)
(* line, or the mockStream, a list of chunks.                              *)
(*                                                                         *)
(*   start   in ChatStream, before the rate limit                          *)
(*   open    in the upstream call                                          *)
(*   recv    in Recv, at the head of its loop                              *)
(*   scan    in Recv of the sseStream, waiting for a line                  *)
(*   meter   Recv of the managedStream has returned, that of the           *)
(*           meteredStream has not                                         *)
(*   write   a chunk is to be written to the client                        *)
(*   reply   Recv has failed, the handler has not answered                 *)
(*   close   the handler has returned, its deferred Close has not          *)
(*   done                                                                  *)
(***************************************************************************)
EXTENDS GatewayErrors

CONSTANTS
    MaxChunks,          \* bound: chunks the upstream sends
    maxSSEEventBytes,   \* of one event, counted in lines
    Faults              \* the database may fail

ASSUME StreamOptions ==
    MaxChunks \in Nat \ {0} /\ maxSSEEventBytes \in Nat \ {0} /\ Faults \in BOOLEAN

VARIABLES
    pc,
    ctx,        \* the context the upstream stream runs under
    canceled,   \* the cancel function of ChatStream's context was called
    managed,    \* none, open, or the outcome the managedStream reported
    source,     \* the innermost stream: none, sse or mock
    body,       \* the upstream body: none, open or closed
    event,      \* what dataLines decodes to; "none" while it is empty
    size,       \* eventBytes
    ended,      \* what Recv returned last: chunk, eof or error
    err,        \* the error it returned
    usage,      \* the usage of the meteredStream, named by its chunk
    finished,   \* the sync.Once of the meteredStream
    rows,       \* history: rows the request asked the recorder to write
    row,        \* the status in the request's row; "none" when there is none
    rowUsage,   \* the usage in it
    rowCode,    \* the error code in it
    observed,   \* the usage ObserveTokens was given; -1 when it was not called
    chunks,     \* chunks received
    sent,       \* chunks written to the client
    lastUsage,  \* history: the last chunk that carried usage
    client,     \* what it has seen: nothing (waiting), chunks (streaming), all and
                \* [DONE] (completed), an error, a response that the handler cut;
                \* or gone: its connection was lost, unseen by the handler
    answer      \* HTTP status and error code the handler answered with

innermost == <<source, event, size>>
stream == <<managed, innermost, body, ended, err, usage, finished>>
record == <<rows, row, rowUsage, rowCode, observed>>
told == <<client, answer>>
traffic == <<chunks, sent, lastUsage>>
vars == <<pc, ctx, canceled, stream, record, traffic, told>>

\* What an event's data decodes to: a chunk, one with usage, [DONE], or neither.
Payloads == {"chunk", "usage", "done", "bad"}

TypeOK ==
    /\ pc \in {"start", "open", "recv", "scan", "meter", "write", "reply", "close", "done"}
    /\ ctx \in {"live", "canceled", "deadline"}
    /\ canceled \in BOOLEAN /\ finished \in BOOLEAN
    /\ managed \in {"none", "open", "success", "failure", "ignored"}
    /\ body \in {"none", "open", "closed"}
    /\ ended \in {"chunk", "eof", "error"} /\ err \in ErrorType
    /\ source \in {"none", "sse", "mock"} /\ event \in Payloads \cup {"none"}
    /\ size \in 0..maxSSEEventBytes /\ (event # "none" => size > 0)
    /\ rows \in 0..1
    /\ row \in {"none", "succeeded", "failed", "rate_limited"}
    /\ chunks \in 0..MaxChunks /\ sent \in 0..chunks
    /\ usage \in 0..chunks /\ rowUsage \in 0..chunks /\ lastUsage \in 0..chunks
    /\ observed \in -1..chunks
    /\ client \in {"waiting", "streaming", "completed", "error", "cut", "gone"}

Init ==
    /\ pc = "start" /\ ctx = "live" /\ canceled = FALSE
    /\ managed = "none" /\ body = "none" /\ ended = "chunk" /\ err = Nil
    /\ source = "none" /\ event = "none" /\ size = 0
    /\ usage = 0 /\ finished = FALSE
    /\ rows = 0 /\ row = "none" /\ rowUsage = 0 /\ rowCode = "" /\ observed = -1
    /\ chunks = 0 /\ sent = 0 /\ lastUsage = 0
    /\ client = "waiting" /\ answer = <<0, "">>

-----------------------------------------------------------------------------
Go(from, to) == pc = from /\ pc' = to

\* GatewayService.record detaches from the request's context; an error of the
\* database is only logged.
Record(status, u, code) ==
    /\ rows' = rows + 1
    /\ \/ row' = status /\ rowUsage' = u /\ rowCode' = code
       \/ Faults /\ UNCHANGED <<row, rowUsage, rowCode>>

\* ChatStream returns an error, which the handler maps; no stream is left.
Refuse(e) ==
    /\ canceled' = TRUE
    /\ client' \in {"error", "gone"} /\ answer' = writeMappedError(e)
    /\ UNCHANGED <<ctx, stream, traffic>>

\* The request is invalid, or carries an Idempotency-Key, or has no id: no row.
Invalid ==
    /\ Go("start", "done")
    /\ \E e \in {ValidationError("invalid"), DependencyError("request_id_unavailable")} : Refuse(e)
    /\ UNCHANGED record

RateLimitRejected ==
    /\ Go("start", "done")
    /\ \E e \in {RateLimitError, DependencyError("rate_limiter_unavailable")} :
        Record(statusForGatewayError(e), 0, gatewayErrorCode(e)) /\ Refuse(e)
    /\ UNCHANGED observed

RateLimitPassed ==
    /\ Go("start", "open")
    /\ UNCHANGED <<ctx, canceled, stream, record, traffic, told>>

\* What the upstream call, its governance and the router return.
OpenErrors ==
    {HTTPError(status) : status \in {400, 429, 500, 503}}
        \cup {NetworkError(cause) : cause \in Causes \ {"none", "circuit_open"}}
        \cup {PlainError(cause) : cause \in {"canceled", "deadline", "other"}}
        \cup {InvalidResponse, unavailable}

OpenFails ==
    /\ Go("open", "done")
    /\ \E e \in OpenErrors :
        LET failed == ProviderError(e)
        IN  Record("failed", 0, gatewayErrorCode(failed)) /\ Refuse(failed)
    /\ UNCHANGED observed

Opens ==
    /\ Go("open", "recv")
    /\ managed' = "open" /\ body' = "open"
    /\ source' \in {"sse", "mock"}
    /\ UNCHANGED <<ctx, canceled, event, size, ended, err, usage, finished, record, traffic, told>>

-----------------------------------------------------------------------------
(* Recv of the innermost stream, through managedStream and meteredStream.  *)

\* Faulty variant: only the first usage is kept.
Chunk_FirstUsage(withUsage) ==
    /\ pc' = "write"
    /\ chunks' = chunks + 1
    /\ event' = "none" /\ size' = 0
    /\ usage' = IF withUsage /\ usage = 0 THEN chunks' ELSE usage
    /\ lastUsage' = IF withUsage THEN chunks' ELSE lastUsage
    /\ UNCHANGED <<ctx, canceled, managed, source, body, ended, err, finished, record, sent, told>>

\* A chunk is returned; the meteredStream keeps the usage it carries.
Chunk(withUsage) ==
    /\ pc' = "write"
    /\ chunks' = chunks + 1
    /\ event' = "none" /\ size' = 0
    /\ usage' = IF withUsage THEN chunks' ELSE usage
    /\ lastUsage' = IF withUsage THEN chunks' ELSE lastUsage
    /\ UNCHANGED <<ctx, canceled, managed, source, body, ended, err, finished, record, sent, told>>

\* EOF or an error is returned; the managedStream reports it.
Ends(how, e) ==
    /\ pc' = "meter"
    /\ ended' = how /\ err' = e
    /\ event' = "none" /\ size' = 0
    /\ managed' = circuitOutcome(e)
    /\ UNCHANGED <<ctx, canceled, source, body, usage, finished, record, traffic, told>>

\* Back to the head of the loop.
Again(data, bytes) ==
    /\ pc' = "recv"
    /\ event' = data /\ size' = bytes
    /\ UNCHANGED <<ctx, canceled, managed, source, body, ended, err, usage, finished>>
    /\ UNCHANGED <<record, traffic, told>>

\* decodeSSEData
decode(data) ==
    \/ data = "done" /\ Ends("eof", Nil)
    \/ data = "bad" /\ Ends("error", PlainError("other"))
    \/ data \in {"chunk", "usage"} /\ Chunk(data = "usage")

\* The head of the loop of sseStream.Recv.
CheckContext ==
    /\ pc = "recv" /\ source = "sse"
    /\ \/ ctx # "live" /\ Ends("error", PlainError(ctx))
       \/ /\ ctx = "live" /\ pc' = "scan"
          /\ UNCHANGED <<ctx, canceled, stream, record, traffic, told>>

\* What the upstream may still send.
Sendable == IF chunks < MaxChunks THEN Payloads ELSE {"done", "bad"}

\* A line: blank, a data field (which may be one of several lines of a JSON
\* value, but then not [DONE]), or a comment or another field.
ScanLine ==
    /\ pc = "scan"
    /\ \/ size = maxSSEEventBytes /\ Ends("error", PlainError("other"))
       \/ /\ size < maxSSEEventBytes
          /\ \/ event = "none" /\ Again("none", 0)
             \/ event # "none" /\ decode(event)
             \/ \E data \in Sendable \ (IF event = "none" THEN {} ELSE {"done"}) :
                    Again(data, size + 1)
             \/ Again(event, size + 1)

\* The body ends; data that no blank line followed is an event all the same.
ScanEnds ==
    /\ pc = "scan"
    /\ IF event # "none" THEN decode(event) ELSE Ends("eof", Nil)

\* Faulty variant: reading the body is not bound to the context.
ScanFails_Unbound ==
    /\ pc = "scan" /\ ctx = "live"
    /\ Ends("error", PlainError("other"))

\* The read fails: the context has ended, the connection broke, a line is too long.
ScanFails ==
    /\ pc = "scan"
    /\ Ends("error", PlainError(IF ctx = "live" THEN "other" ELSE ctx))

\* mockStream.Recv looks at its context only while it has chunks left.
MockRecv ==
    /\ pc = "recv" /\ source = "mock"
    /\ \/ chunks = MaxChunks /\ Ends("eof", Nil)
       \/ chunks < MaxChunks /\ ctx # "live" /\ Ends("error", PlainError(ctx))
       \/ chunks < MaxChunks /\ ctx = "live" /\ Chunk(FALSE)

\* meteredStream.finishOnce, and the finish function of ChatStream.
finishOnce(status, code) ==
    /\ finished' = TRUE
    /\ canceled' = TRUE
    /\ IF finished THEN UNCHANGED record
       ELSE Record(status, usage, code) /\ observed' = usage

\* Faulty variant: EOF does not finish the meteredStream.
Meter_NotAtEOF ==
    /\ Go("meter", "reply")
    /\ IF ended = "eof" THEN UNCHANGED <<finished, canceled, record>>
       ELSE finishOnce("failed", gatewayErrorCode(ProviderError(err)))
    /\ UNCHANGED <<ctx, managed, innermost, body, ended, err, usage, traffic, told>>

\* meteredStream.Recv passes EOF or the error on to the handler.
Meter ==
    /\ Go("meter", "reply")
    /\ IF ended = "eof" THEN finishOnce("succeeded", "")
       ELSE finishOnce("failed", gatewayErrorCode(ProviderError(err)))
    /\ UNCHANGED <<ctx, managed, innermost, body, ended, err, usage, traffic, told>>

\* Faulty variant: the loop ends every stream with [DONE].
Told_AlwaysDone == IF chunks = 0 THEN {"error"} ELSE {"completed"}

\* What the client may see of the end.  The results of writing [DONE] and of
\* every Flush are discarded: a connection lost there goes unseen.
Told ==
    CASE chunks = 0                    -> {"error", "gone"}
      [] chunks > 0 /\ ended = "eof"   ->
            IF client = "gone" THEN {"gone"} ELSE {"completed", "gone"}
      [] chunks > 0 /\ ended = "error" -> {"cut"}

\* Recv has failed: the handler answers with [DONE] after EOF, with an error when
\* nothing was sent yet, and returns.
Reply ==
    /\ Go("reply", "close")
    /\ client' \in Told
    /\ answer' = IF chunks > 0 THEN answer
                 ELSE writeMappedError(ProviderError(
                          IF ended = "eof" THEN PlainError("other") ELSE err))
    /\ UNCHANGED <<ctx, canceled, stream, record, traffic>>

\* writeSSEChunk succeeds: the chunk is in the writer, whose Flush may fail unseen.
WriteChunk ==
    /\ Go("write", "recv")
    /\ \/ client # "gone" /\ client' = "streaming" /\ sent' = sent + 1
       \/ client' = "gone" /\ sent' = sent
    /\ answer' = <<200, "">>
    /\ UNCHANGED <<ctx, canceled, stream, record, chunks, lastUsage>>

\* Faulty variant: no Close is deferred.
WriteFails_NoClose ==
    /\ Go("write", "done")
    /\ client' = "cut" /\ UNCHANGED answer
    /\ UNCHANGED <<ctx, canceled, stream, record, traffic>>

WriteFails ==
    /\ Go("write", "close")
    /\ client' = "cut" /\ UNCHANGED answer
    /\ UNCHANGED <<ctx, canceled, stream, record, traffic>>

\* Faulty variant: Close records whether or not the stream was recorded.
Close_NotOnce ==
    /\ Go("close", "done")
    /\ body' = "closed"
    /\ \/ managed = "open" /\ managed' \in {"ignored", "failure"}
       \/ managed # "open" /\ UNCHANGED managed
    /\ finished' = TRUE /\ canceled' = TRUE
    /\ Record("failed", usage, "stream_closed") /\ observed' = usage
    /\ UNCHANGED <<ctx, innermost, ended, err, usage, traffic, told>>

\* The deferred Close: the body, managedStream.finish, meteredStream.finishOnce.
\* An error of closing the body is a failure of the provider.
Close ==
    /\ Go("close", "done")
    /\ body' = "closed"
    /\ \E failed \in IF source = "mock" THEN {FALSE} ELSE BOOLEAN :
        /\ managed' = IF managed # "open" THEN managed
                      ELSE IF failed THEN "failure" ELSE "ignored"
        /\ finishOnce("failed", IF failed THEN "stream_close_failed" ELSE "stream_closed")
    /\ UNCHANGED <<ctx, innermost, ended, err, usage, traffic, told>>

-----------------------------------------------------------------------------
\* The client goes away, or a deadline (of the request or the attempt) passes.
ContextEnds(why) ==
    /\ pc \in {"start", "open", "recv", "scan", "write"}
    /\ ctx = "live"
    /\ ctx' = why
    /\ UNCHANGED <<pc, canceled, stream, record, traffic, told>>

Done == pc = "done" /\ UNCHANGED vars

Step ==
    \/ Invalid \/ RateLimitRejected \/ RateLimitPassed \/ OpenFails \/ Opens
    \/ CheckContext \/ ScanLine \/ ScanEnds \/ ScanFails \/ MockRecv \/ Meter
    \/ WriteChunk \/ WriteFails \/ Reply \/ Close

Next ==
    \/ Step
    \/ \E why \in {"canceled", "deadline"} : ContextEnds(why)
    \/ Done

Spec == Init /\ [][Next]_vars

\* The handler is in a write to its client.  (An error answer stays in the
\* server's buffer until the handler has returned.)
Writing == pc = "write" \/ (pc = "reply" /\ ended = "eof" /\ chunks > 0)

\* The upstream may stall for ever, or send lines for ever: only an ended context
\* makes Recv return.  A write may block for ever: the server has no write
\* timeout.  The deadline comes, and every other step is taken.
Runs ==
    \/ pc # "scan" /\ ~Writing /\ Step
    \/ ctx # "live" /\ ScanFails

FairSpec == Spec /\ WF_vars(Runs) /\ WF_vars(ContextEnds("deadline"))

-----------------------------------------------------------------------------
\* When the handler is done with a request that was let in, all that the request
\* held has been given back, each by the layer that owns it: the context of
\* ChatStream, the upstream body, the slot and the probe; and it has been
\* recorded.  (A request that is invalid leaves no row.)
AllReturned ==
    pc = "done" =>
        /\ canceled
        /\ body # "open" /\ managed # "open"
        /\ managed # "none" => rows = 1

\* The two wrappers end independently, but tell the same story: the row says
\* succeeded exactly when the breaker was told success, and never otherwise.
RowMatchesOutcome ==
    pc = "done" /\ row # "none" => (row = "succeeded" <=> managed = "success")

\* The row carries the last usage the upstream sent, even if the chunk with it
\* could not be written to the client, and the token metrics count it once,
\* whether or not the row could be written.
UsageKept ==
    /\ row # "none" /\ managed # "none" => rowUsage = lastUsage
    /\ pc = "done" /\ managed # "none" => observed = lastUsage

\* The row and the client are told the same error code, although two functions
\* name it, one of them in a layer that only sees the wrapped error.  The one
\* exception: a stream that ends before its first chunk is an error to the client
\* and a success in the row.
ToldAsRecorded ==
    client = "error" /\ row # "none" =>
        IF ended = "eof" THEN row = "succeeded" /\ answer = <<502, "provider_request_failed">>
        ELSE rowCode = answer[2]

\* A client that sees [DONE] got every chunk, and its request is not recorded as
\* failed; when the handler cuts a response, at an error of the stream or of a
\* write, the request is not recorded as served.  A connection that is lost
\* unseen is in neither case: its request may be recorded as served, for the row
\* is written before [DONE] and no result of Flush is looked at
\* (handler.go:114-115,131).
DoneMeansServed ==
    /\ client = "completed" => sent = chunks /\ row \in {"succeeded", "none"}
    /\ client = "cut" => row # "succeeded"

\* However the upstream behaves, the request ends, unless a write to its client
\* blocks for ever, which no WriteTimeout prevents (main.go:144-149).
StreamEnds == <>(pc = "done") \/ <>[]Writing
=============================================================================
