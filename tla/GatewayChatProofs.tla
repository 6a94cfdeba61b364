------------------------- MODULE GatewayChatProofs -------------------------
(***************************************************************************)
(* Theorems about GatewayChat, for any number of requests, keys and        *)
(* payloads.  With Redis faults, repeated commands and crashes: answers    *)
(* and usage rows always agree with the payload, and when the lock TTL is  *)
(* longer than all the work done under it, a key has one executing         *)
(* request, but for reservations that a repeated Complete or Release took. *)
(* Without faults, a completed answer is replayed.                         *)
(***************************************************************************)
EXTENDS GatewayChat, TLAPS

-----------------------------------------------------------------------------
(* The Lua scripts.                                                        *)

\* Every script leaves a well-formed hash behind.
LEMMA ScriptTypes ==
    ASSUME NEW e \in EntryType, NEW fp \in Payloads \union {None},
           NEW x \in Responses \union {None}
    PROVE  /\ beginScript(e, fp) \in EntryType
           /\ completeScript(e, fp, x) \in EntryType
           /\ releaseScript(e, fp) \in EntryType
           /\ expire(e) \in EntryType
           /\ NoEntry \in EntryType
  <1>1. NoEntry \in EntryType
    BY StoreOptions DEF EntryType, NoEntry
  <1>2. beginScript(e, fp) \in EntryType
    BY StoreOptions DEF EntryType, beginScript
  <1>3. completeScript(e, fp, x) \in EntryType
    <2>1. 0 \in 0..LockTTL
      BY StoreOptions
    <2>2. [e EXCEPT !.state = "completed", !.response = x, !.ttl = 0] \in EntryType
      BY Zenon, <2>1 DEF EntryType
    <2> QED
      BY Zenon, <2>2 DEF completeScript
  <1>4. releaseScript(e, fp) \in EntryType
    BY Zenon, <1>1 DEF releaseScript
  <1>5. expire(e) \in EntryType
    <2>1. CASE e.ttl > 1
      <3> DEFINE t == e.ttl - 1
      <3>1. t \in 0..LockTTL
        BY <2>1, StoreOptions DEF EntryType
      <3>2. expire(e) = [e EXCEPT !.ttl = t]
        BY <2>1 DEF expire, EntryType
      <3> HIDE DEF t
      <3> QED
        BY Zenon, <3>1, <3>2 DEF EntryType
    <2>2. CASE e.ttl = 1
      BY <1>1, <2>2 DEF expire
    <2>3. CASE e.ttl = 0
      BY <2>3 DEF expire
    <2>4. e.ttl \in Nat
      BY StoreOptions DEF EntryType
    <2> QED
      BY <2>1, <2>2, <2>3, <2>4
  <1> QED
    BY Zenon, <1>1, <1>2, <1>3, <1>4, <1>5

-----------------------------------------------------------------------------
(* Moving between stages.                                                  *)

\* Go changes the stage and the time of one request.
LEMMA GoFacts ==
    ASSUME TypeOK, NEW r \in Requests, NEW from,
           NEW to \in Stages \union {"done"}, Go(r, from, to)
    PROVE  /\ pc' \in [Requests -> Stages \union {"idle", "done", "crashed"}]
           /\ left' \in [Requests -> 0..(RequestTimeout + OpTimeout)]
           /\ pc[r] = from /\ pc'[r] = to
           /\ \A s \in Requests \ {r} : pc'[s] = pc[s] /\ left'[s] = left[s]
           /\ to \in {"store", "complete", "release"} => left'[r] = OpTimeout
           /\ to = "limit" => left'[r] = RequestTimeout
           /\ to \in {"begin", "lookup", "call"} => left'[r] = left[r]
  <1> DEFINE t == CASE to \in {"store", "complete", "release"} -> OpTimeout
                    [] to = "limit" -> RequestTimeout
                    [] to = "done"  -> 0
                    [] OTHER        -> left[r]
  <1>1. /\ to \in {"store", "complete", "release"} => t = OpTimeout
        /\ to = "limit" => t = RequestTimeout
        /\ to = "done" => t = 0
        /\ to \in {"begin", "lookup", "call"} => t = left[r]
    BY Zenon
  <1>2. left' = [left EXCEPT ![r] = t]
    BY Zenon DEF Go
  <1> HIDE DEF t
  <1>3. t \in 0..(RequestTimeout + OpTimeout)
    BY <1>1, GatewayOptions DEF TypeOK, Stages
  <1> QED
    BY <1>1, <1>2, <1>3 DEF Go, TypeOK

\* The scripts run under a request's own key keep the store well formed.
LEMMA EntryUpdate ==
    ASSUME TypeOK, NEW r \in Requests, NEW e \in EntryType
    PROVE  [entry EXCEPT ![key[r]] = e] \in [Keys -> EntryType]
  BY Zenon DEF TypeOK

\* Recording a request keeps the rows well formed.
LEMMA RecordType ==
    ASSUME TypeOK, NEW r \in Requests, NEW statuses \in SUBSET Statuses,
           record(r, statuses)
    PROVE  recorded' \in [Requests -> Statuses \union {None}]
  BY Zenon DEF TypeOK, record

\* The history of answers stays well formed.
LEMMA AnswersType ==
    ASSUME TypeOK, NEW r \in Requests, NEW with \in Requests \union {None},
           Answers(r, with)
    PROVE  answered' \in [Keys -> Answer]
  <1>1. [payload |-> payload[r], response |-> with] \in Answer
    BY Zenon DEF TypeOK, Answer
  <1> QED
    BY Zenon, <1>1 DEF Answers, TypeOK

\* The stages in which a request may hold a reservation.
Holding == {"lookup", "call", "store", "complete", "release"}

\* A request that has arrived has a payload, one that uses the idempotency store
\* has a key, and a reservation is held only between Begin and Complete; what
\* has a copy under way has arrived, and is over when the copy is of Complete or
\* Release.
Arrived ==
    \A r \in Requests :
        /\ pc[r] # "idle" => payload[r] \in Payloads
        /\ pc[r] = "begin" \/ acquired[r] => key[r] \in Keys
        /\ acquired[r] => pc[r] \in Holding
        /\ <<r, "begin">> \in copies \/ EndRepeats(r) => key[r] \in Keys
        /\ r \in robbed \/ (\E op \in Commands : <<r, op>> \in copies) => pc[r] # "idle"
        /\ EndRepeats(r) => pc[r] = "done"

TypeInv == TypeOK /\ Arrived

\* What a command of r may leave on its way.
LEMMA RepeatFacts ==
    ASSUME TypeOK, NEW r \in Requests, NEW op \in Commands, MayRepeat(r, op)
    PROVE  /\ copies' \subseteq Requests \X Commands
           /\ copies \subseteq copies'
           /\ \A c \in copies' : c \in copies \/ c = <<r, op>>
  BY DEF TypeOK, MayRepeat

\* Whose reservation a script of r may end.
LEMMA EndsFacts ==
    ASSUME TypeOK, NEW r \in Requests, NEW e, Ends(r, e)
    PROVE  /\ robbed' \subseteq Requests
           /\ robbed \subseteq robbed'
           /\ \A v \in robbed' : v \in robbed \/
                  (v # r /\ acquired[v] /\ key[v] = key[r]
                     /\ reservedFor(entry[key[r]], payload[r]))
           /\ \A v \in Requests :
                  /\ v # r /\ acquired[v] /\ key[v] = key[r]
                  /\ reservedFor(entry[key[r]], payload[r])
                  => v \in robbed'
  <1>1. CASE reservedFor(entry[key[r]], payload[r])
    BY Zenon, <1>1 DEF TypeOK, Ends, Holders
  <1>2. CASE ~reservedFor(entry[key[r]], payload[r])
    BY Zenon, <1>2 DEF TypeOK, Ends
  <1> QED
    BY Zenon, <1>1, <1>2

\* The commands that a step of r may leave on their way, and the reservations
\* it may end.
LEMMA ServeWire ==
    ASSUME TypeInv, NEW r \in Requests, Serve(r)
    PROVE  /\ copies' \subseteq Requests \X Commands
           /\ copies \subseteq copies'
           /\ \A c \in copies' :
                  \/ c \in copies
                  \/ c = <<r, "begin">> /\ pc[r] = "begin"
                  \/ c = <<r, "store">>
                  \/ c \in {<<r, "complete">>, <<r, "release">>} /\ acquired[r] /\ pc'[r] = "done"
           /\ <<r, "complete">> \in copies' => <<r, "complete">> \in copies \/ pc[r] = "complete"
           /\ robbed' \subseteq Requests
           /\ robbed \subseteq robbed'
           /\ \A v \in robbed' : v \in robbed \/
                  (/\ v # r /\ acquired[v] /\ key[v] = key[r] /\ acquired[r]
                   /\ reservedFor(entry[key[r]], payload[r]))
  <1> USE DEF store, request, wire
  <1>0. TypeOK
    BY Zenon DEF TypeInv
  <1>1. CASE \/ RateLimitPassed(r) \/ RateLimitRejected(r) \/ LookupHit(r) \/ LookupMiss(r)
             \/ CallSucceeds(r) \/ CallFails(r)
    <2>1. copies' = copies /\ robbed' = robbed
      BY Zenon, <1>1
      DEF RateLimitPassed, RateLimitRejected, LookupHit, LookupMiss, CallSucceeds, CallFails
    <2> QED
      BY <1>0, <2>1 DEF TypeOK
  <1>2. CASE BeginAcquired(r) \/ BeginRefused(r) \/ BeginReplays(r) \/ BeginFails(r)
    <2>1. MayRepeat(r, "begin") /\ robbed' = robbed /\ pc[r] = "begin"
      BY Zenon, <1>2 DEF BeginAcquired, BeginRefused, BeginReplays, BeginFails, Go
    <2>2. "begin" \in Commands /\ <<r, "begin">> # <<r, "complete">>
      BY DEF Commands
    <2> QED
      BY <1>0, <2>1, <2>2, RepeatFacts DEF TypeOK
  <1>3. CASE StoreCached(r)
    <2>1. MayRepeat(r, "store") /\ robbed' = robbed
      BY Zenon, <1>3 DEF StoreCached
    <2>2. "store" \in Commands /\ <<r, "store">> # <<r, "complete">>
      BY DEF Commands
    <2> QED
      BY <1>0, <2>1, <2>2, RepeatFacts DEF TypeOK
  <1>4. CASE Complete(r)
    <2>1. completeIdempotency(r) /\ pc[r] = "complete" /\ pc'[r] = "done"
      BY Zenon, <1>0, <1>4 DEF Complete, Go, TypeOK
    <2>2. CASE ~acquired[r]
      <3>1. copies' = copies /\ robbed' = robbed
        BY Zenon, <2>1, <2>2 DEF completeIdempotency
      <3> QED
        BY <1>0, <3>1 DEF TypeOK
    <2>3. CASE acquired[r]
      <3>1. /\ MayRepeat(r, "complete")
            /\ robbed' = robbed \/ Completes(r)
        BY Zenon, <2>1, <2>3 DEF completeIdempotency
      <3>2. "complete" \in Commands
        BY DEF Commands
      <3>3. /\ copies' \subseteq Requests \X Commands
            /\ copies \subseteq copies'
            /\ \A c \in copies' : c \in copies \/ c = <<r, "complete">>
        BY Zenon, <1>0, <3>1, <3>2, RepeatFacts
      <3>4. /\ robbed' \subseteq Requests
            /\ robbed \subseteq robbed'
            /\ \A v \in robbed' : v \in robbed \/
                  (v # r /\ acquired[v] /\ key[v] = key[r]
                     /\ reservedFor(entry[key[r]], payload[r]))
        BY <1>0, <3>1, EndsFacts DEF TypeOK, Completes
      <3> QED
        BY <1>0, <2>1, <2>3, <3>1, <3>2, <3>3, <3>4
    <2> QED
      BY Zenon, <2>2, <2>3
  <1>5. CASE Release(r)
    <2>1. releaseIdempotency(r) /\ pc'[r] = "done"
      BY Zenon, <1>0, <1>5 DEF Release, Go, TypeOK
    <2>2. CASE ~acquired[r]
      <3>1. copies' = copies /\ robbed' = robbed
        BY Zenon, <2>1, <2>2 DEF releaseIdempotency
      <3> QED
        BY <1>0, <3>1 DEF TypeOK
    <2>3. CASE acquired[r]
      <3>1. /\ MayRepeat(r, "release")
            /\ robbed' = robbed \/ Releases(r)
        BY Zenon, <2>1, <2>3 DEF releaseIdempotency
      <3>2. "release" \in Commands /\ <<r, "release">> # <<r, "complete">>
        BY DEF Commands
      <3>3. /\ copies' \subseteq Requests \X Commands
            /\ copies \subseteq copies'
            /\ \A c \in copies' : c \in copies \/ c = <<r, "release">>
        BY Zenon, <1>0, <3>1, <3>2, RepeatFacts
      <3>4. /\ robbed' \subseteq Requests
            /\ robbed \subseteq robbed'
            /\ \A v \in robbed' : v \in robbed \/
                  (v # r /\ acquired[v] /\ key[v] = key[r]
                     /\ reservedFor(entry[key[r]], payload[r]))
        BY <1>0, <3>1, EndsFacts DEF TypeOK, Releases
      <3> QED
        BY <1>0, <2>1, <2>3, <3>1, <3>2, <3>3, <3>4
    <2> QED
      BY Zenon, <2>2, <2>3
  <1> QED
    BY Zenon, <1>1, <1>2, <1>3, <1>4, <1>5 DEF Serve

\* What the scripts that end a reservation leave under a key.
LEMMA EndsType ==
    ASSUME TypeOK, NEW r \in Requests, key[r] \in Keys, Completes(r) \/ Releases(r)
    PROVE  entry' \in [Keys -> EntryType]
  <1>1. Responses = Requests /\ entry[key[r]] \in EntryType
    BY Zenon, GatewayOptions DEF TypeOK
  <1>2. /\ completeScript(entry[key[r]], payload[r], response[r]) \in EntryType
        /\ releaseScript(entry[key[r]], payload[r]) \in EntryType
    BY Zenon, <1>1, ScriptTypes DEF TypeOK
  <1> QED
    BY Zenon, <1>2, EntryUpdate DEF Completes, Releases, Ends

\* What a repeated command leaves alone.
LEMMA AgainFrame ==
    ASSUME NEW r \in Requests, Again(r)
    PROVE  /\ UNCHANGED <<pc, key, payload, expected, acquired, response, left, copies>>
           /\ UNCHANGED <<recorded, answered>>
           /\ \E op \in Commands : <<r, op>> \in copies
  BY Zenon
  DEF Again, BeginAgain, StoreAgain, CompleteAgain, ReleaseAgain, Later, request, Commands

\* Every step of a request keeps the types.
LEMMA ServeType ==
    ASSUME TypeInv, NEW r \in Requests, Serve(r)
    PROVE  TypeOK'
  <1> USE DEF store, request, wire
  <1>0. TypeOK /\ Responses = Requests
    BY Zenon, GatewayOptions DEF TypeInv
  <1>w. copies' \subseteq Requests \X Commands /\ robbed' \subseteq Requests
    BY Zenon, ServeWire
  <1>1. CASE RateLimitPassed(r)
    BY Zenon, <1>0, <1>w, <1>1, GoFacts DEF RateLimitPassed, TypeOK, Stages
  <1>2. CASE RateLimitRejected(r)
    <2>1. recorded' \in [Requests -> Statuses \union {None}]
      BY Zenon, <1>0, <1>2, RecordType DEF RateLimitRejected, Statuses
    <2> QED
      BY Zenon, <1>0, <1>w, <1>2, <2>1, GoFacts DEF RateLimitRejected, TypeOK
  <1>e. ASSUME Reserve(r) PROVE entry' \in [Keys -> EntryType]
    <2>1. CASE key[r] \in Keys
      <3>1. beginScript(entry[key[r]], payload[r]) \in EntryType
        BY Zenon, <1>0, <2>1, ScriptTypes DEF TypeOK
      <3> QED
        BY Zenon, <1>0, <1>e, <3>1, EntryUpdate DEF Reserve
    <2>2. CASE key[r] \notin Keys
      BY Zenon, <1>0, <1>e, <2>2 DEF Reserve, TypeOK
    <2> QED
      BY Zenon, <2>1, <2>2
  <1>3. CASE BeginAcquired(r)
    <2>1. entry' \in [Keys -> EntryType]
      BY Zenon, <1>3, <1>e DEF BeginAcquired
    <2> QED
      BY Zenon, <1>0, <1>w, <1>3, <2>1, GoFacts DEF BeginAcquired, TypeOK, Stages
  <1>4. CASE BeginRefused(r)
    <2>1. recorded' \in [Requests -> Statuses \union {None}]
      BY Zenon, <1>0, <1>4, RecordType DEF BeginRefused, Statuses
    <2> QED
      BY Zenon, <1>0, <1>w, <1>4, <2>1, GoFacts DEF BeginRefused, TypeOK
  <1>5. CASE BeginReplays(r)
    <2>1. recorded' \in [Requests -> Statuses \union {None}]
      BY Zenon, <1>0, <1>5, RecordType DEF BeginReplays, Statuses
    <2>2. key[r] \in Keys
      BY Zenon, <1>5 DEF BeginReplays, Go, TypeInv, Arrived
    <2>3. entry[key[r]].response \in Requests \union {None}
      BY Zenon, <1>0, <2>2 DEF TypeOK, EntryType
    <2>4. answered' \in [Keys -> Answer]
      BY Zenon, <1>0, <1>5, <2>3, AnswersType DEF BeginReplays
    <2>5. response' \in [Requests -> Requests \union {None}]
      BY Zenon, <1>0, <1>5, <2>3 DEF BeginReplays, Respond, TypeOK
    <2> QED
      BY Zenon, <1>0, <1>w, <1>5, <2>1, <2>4, <2>5, GoFacts DEF BeginReplays, TypeOK
  <1>6. CASE BeginFails(r)
    <2>1. entry' \in [Keys -> EntryType]
      BY Zenon, <1>0, <1>6, <1>e DEF BeginFails, TypeOK
    <2>2. recorded' \in [Requests -> Statuses \union {None}]
      BY Zenon, <1>0, <1>6, RecordType DEF BeginFails, Statuses, TypeOK
    <2> QED
      BY Zenon, <1>0, <1>w, <1>6, <2>1, <2>2, GoFacts DEF BeginFails, TypeOK
  <1>7. CASE LookupHit(r)
    <2>1. payload[r] \in Payloads
      BY Zenon, <1>7 DEF LookupHit, Go, TypeInv, Arrived
    <2>2. response' \in [Requests -> Requests \union {None}]
      BY Zenon, <1>0, <1>7, <2>1 DEF LookupHit, Respond, TypeOK
    <2> QED
      BY Zenon, <1>0, <1>w, <1>7, <2>2, GoFacts DEF LookupHit, TypeOK, Stages
  <1>8. CASE LookupMiss(r)
    BY Zenon, <1>0, <1>w, <1>8, GoFacts DEF LookupMiss, TypeOK, Stages
  <1>9. CASE CallSucceeds(r)
    BY Zenon, <1>0, <1>w, <1>9, GoFacts DEF CallSucceeds, Respond, TypeOK, Stages
  <1>10. CASE CallFails(r)
    BY Zenon, <1>0, <1>w, <1>10, GoFacts DEF CallFails, TypeOK, Stages
  <1>11. CASE StoreCached(r)
    BY Zenon, <1>0, <1>w, <1>11, GoFacts DEF StoreCached, TypeOK, Stages
  <1>12. CASE Complete(r)
    <2>1. entry' \in [Keys -> EntryType]
      <3>1. CASE acquired[r]
        <4>1. key[r] \in Keys
          BY Zenon, <3>1 DEF TypeInv, Arrived
        <4> QED
          BY Zenon, <1>0, <1>12, <3>1, <4>1, EndsType DEF Complete, completeIdempotency, TypeOK
      <3>2. CASE ~acquired[r]
        BY Zenon, <1>0, <1>12, <3>2 DEF Complete, completeIdempotency, TypeOK
      <3> QED
        BY Zenon, <3>1, <3>2
    <2>2. recorded' \in [Requests -> Statuses \union {None}]
      BY Zenon, <1>0, <1>12, RecordType DEF Complete, Statuses
    <2>3. answered' \in [Keys -> Answer]
      BY Zenon, <1>0, <1>12, AnswersType DEF Complete, TypeOK
    <2> QED
      BY Zenon, <1>0, <1>w, <1>12, <2>1, <2>2, <2>3, GoFacts DEF Complete, TypeOK
  <1>13. CASE Release(r)
    <2>1. entry' \in [Keys -> EntryType]
      <3>1. CASE acquired[r]
        <4>1. key[r] \in Keys
          BY Zenon, <3>1 DEF TypeInv, Arrived
        <4> QED
          BY Zenon, <1>0, <1>13, <3>1, <4>1, EndsType DEF Release, releaseIdempotency, TypeOK
      <3>2. CASE ~acquired[r]
        BY Zenon, <1>0, <1>13, <3>2 DEF Release, releaseIdempotency, TypeOK
      <3> QED
        BY Zenon, <3>1, <3>2
    <2>2. recorded' \in [Requests -> Statuses \union {None}]
      BY Zenon, <1>0, <1>13, RecordType DEF Release, Statuses
    <2> QED
      BY Zenon, <1>0, <1>w, <1>13, <2>1, <2>2, GoFacts DEF Release, TypeOK
  <1> QED
    BY Zenon, <1>1, <1>2, <1>3, <1>4, <1>5, <1>6, <1>7, <1>8, <1>9, <1>10, <1>11, <1>12, <1>13
    DEF Serve

\* What a step of one request leaves alone.
LEMMA ServeFrame ==
    ASSUME TypeInv, NEW r \in Requests, Serve(r)
    PROVE  /\ key' = key /\ payload' = payload
           /\ pc[r] \in Stages /\ pc'[r] # "idle"
           /\ \A s \in Requests \ {r} :
                  /\ pc'[s] = pc[s]
                  /\ left'[s] = left[s]
                  /\ acquired'[s] = acquired[s]
           /\ pc'[r] = "begin" => key[r] \in Keys
           /\ acquired'[r] => (acquired[r] \/ pc[r] = "begin") /\ pc'[r] \in Holding
  <1> USE DEF store, request, wire, Holding
  <1>0. TypeOK /\ (acquired[r] => pc[r] \in Holding)
    BY Zenon DEF TypeInv, Arrived
  <1>1. CASE RateLimitPassed(r)
    BY <1>0, <1>1, GoFacts DEF RateLimitPassed, TypeOK, Stages
  <1>2. CASE RateLimitRejected(r) \/ BeginRefused(r) \/ BeginReplays(r) \/ BeginFails(r)
    BY <1>0, <1>2, GoFacts
    DEF RateLimitRejected, BeginRefused, BeginReplays, BeginFails, Stages
  <1>3. CASE BeginAcquired(r)
    BY <1>0, <1>3, GoFacts DEF BeginAcquired, TypeOK, Stages
  <1>4. CASE LookupHit(r) \/ LookupMiss(r) \/ CallFails(r) \/ StoreCached(r)
    BY <1>0, <1>4, GoFacts DEF LookupHit, LookupMiss, CallFails, StoreCached, Stages
  <1>5. CASE CallSucceeds(r)
    BY <1>0, <1>5, GoFacts DEF CallSucceeds, Stages
  <1>6. CASE Complete(r) \/ Release(r)
    BY <1>0, <1>6, GoFacts DEF Complete, Release, TypeOK, Stages
  <1> QED
    BY Zenon, <1>1, <1>2, <1>3, <1>4, <1>5, <1>6 DEF Serve

\* The types hold in every reachable state: no script, timeout, fault or crash
\* leaves a malformed reservation, row or clock behind.
THEOREM TypeCorrect == Spec => [](TypeOK /\ Arrived)
  <1> USE DEF store, request, wire
  <1>1. Init => TypeOK /\ Arrived
    <2> SUFFICES ASSUME Init PROVE TypeOK /\ Arrived
      BY Zenon
    <2>1. NoEntry \in EntryType /\ NoAnswer \in Answer
      BY StoreOptions DEF NoEntry, EntryType, NoAnswer, Answer
    <2> QED
      BY <2>1, GatewayOptions DEF Init, TypeOK, Arrived, EndRepeats
  <1>2. TypeInv /\ [Next]_vars => TypeInv'
    <2> SUFFICES ASSUME TypeInv, [Next]_vars PROVE TypeInv'
      BY Zenon
    <2>0. TypeOK
      BY Zenon DEF TypeInv
    <2>1. ASSUME NEW r \in Requests, Start(r) PROVE TypeInv'
      <3>1. PICK k \in Keys \union {None}, p \in Payloads :
              /\ key' = [key EXCEPT ![r] = k]
              /\ payload' = [payload EXCEPT ![r] = p]
              /\ expected' = IF k = None \/ answered[k].payload # p THEN expected
                             ELSE [expected EXCEPT ![r] = answered[k]]
        BY Zenon, <2>1 DEF Start
      <3>2. expected' \in [Requests -> Answer]
        BY Zenon, <2>0, <3>1 DEF TypeOK
      <3>3. /\ pc[r] = "idle" /\ pc'[r] = "limit"
            /\ pc' \in [Requests -> Stages \union {"idle", "done", "crashed"}]
            /\ left' \in [Requests -> 0..(RequestTimeout + OpTimeout)]
            /\ \A s \in Requests \ {r} : pc'[s] = pc[s]
        BY Zenon, <2>0, <2>1, GoFacts DEF Start, Stages
      <3>4. TypeOK'
        BY Zenon, <2>0, <2>1, <3>1, <3>2, <3>3 DEF Start, TypeOK
      <3>5. ~acquired[r]
        BY Zenon, <3>3 DEF TypeInv, Arrived, Holding
      <3>6. Arrived'
        <4>1. copies' = copies /\ robbed' = robbed /\ acquired' = acquired
          BY Zenon, <2>1 DEF Start
        <4>2. \A s \in Requests : EndRepeats(s)' <=> EndRepeats(s)
          BY Zenon, <4>1 DEF EndRepeats
        <4>3. /\ <<r, "begin">> \notin copies /\ ~EndRepeats(r) /\ r \notin robbed
              /\ \A op \in Commands : <<r, op>> \notin copies
          BY Zenon, <3>3 DEF TypeInv, Arrived, Commands
        <4> QED
          BY Zenon, <2>0, <3>1, <3>3, <3>5, <4>1, <4>2, <4>3 DEF TypeInv, Arrived, TypeOK
      <3> QED
        BY Zenon, <3>4, <3>6 DEF TypeInv
    <2>2. ASSUME NEW r \in Requests, Serve(r) PROVE TypeInv'
      <3>1. TypeOK'
        BY Zenon, <2>2, ServeType
      <3>2. Arrived'
        <4> SUFFICES ASSUME NEW s \in Requests
                     PROVE  /\ pc'[s] # "idle" => payload'[s] \in Payloads
                            /\ pc'[s] = "begin" \/ acquired'[s] => key'[s] \in Keys
                            /\ acquired'[s] => pc'[s] \in Holding
                            /\ <<s, "begin">> \in copies' \/ EndRepeats(s)' => key'[s] \in Keys
                            /\ s \in robbed' \/ (\E op \in Commands : <<s, op>> \in copies')
                                  => pc'[s] # "idle"
                            /\ EndRepeats(s)' => pc'[s] = "done"
          BY Zenon DEF Arrived
        <4>1. /\ pc'[s] # "idle" => payload'[s] \in Payloads
              /\ pc'[s] = "begin" \/ acquired'[s] => key'[s] \in Keys
              /\ acquired'[s] => pc'[s] \in Holding
          BY Zenon, <2>2, ServeFrame DEF TypeInv, Arrived, Stages
        <4>2. /\ key' = key /\ pc[r] \in Stages /\ pc'[r] # "idle"
              /\ s # r => pc'[s] = pc[s]
          BY Zenon, <2>2, ServeFrame
        <4>3. EndRepeats(s)' => EndRepeats(s) \/ (s = r /\ acquired[r] /\ pc'[r] = "done")
          <5>1. ASSUME NEW op \in {"complete", "release"}, <<s, op>> \in copies',
                       <<s, op>> \notin copies
                PROVE  s = r /\ acquired[r] /\ pc'[r] = "done"
            BY <2>2, <5>1, ServeWire
          <5> QED
            BY <5>1 DEF EndRepeats
        <4>4. EndRepeats(s) => s # r
          BY Zenon, <4>2 DEF TypeInv, Arrived, Stages
        <4>5. <<s, "begin">> \in copies' => <<s, "begin">> \in copies \/ pc[s] = "begin"
          BY <2>2, ServeWire
        <4>6. s \in robbed' => s \in robbed \/ acquired[s]
          BY Zenon, <2>2, ServeWire
        <4>7. \A op \in Commands : <<s, op>> \in copies' => <<s, op>> \in copies \/ s = r
          BY <2>2, ServeWire
        <4> QED
          BY Zenon, <4>1, <4>2, <4>3, <4>4, <4>5, <4>6, <4>7 DEF TypeInv, Arrived, Holding
      <3> QED
        BY Zenon, <3>1, <3>2 DEF TypeInv
    <2>3. ASSUME NEW r \in Requests, Crash(r) PROVE TypeInv'
      <3>1. \A s \in Requests : EndRepeats(s)' <=> EndRepeats(s)
        BY Zenon, <2>3 DEF Crash, EndRepeats
      <3>2. TypeOK'
        BY <2>0, <2>3, GatewayOptions DEF Crash, TypeOK
      <3>3. /\ pc[r] \in Stages /\ pc'[r] = "crashed" /\ ~acquired'[r]
            /\ \A s \in Requests \ {r} : pc'[s] = pc[s] /\ acquired'[s] = acquired[s]
            /\ UNCHANGED <<key, payload, copies, robbed>>
        BY Zenon, <2>0, <2>3 DEF Crash, Active, TypeOK
      <3>4. ~EndRepeats(r)
        BY Zenon, <3>3 DEF TypeInv, Arrived, Stages
      <3>5. Arrived'
        BY <3>1, <3>3, <3>4 DEF TypeInv, Arrived, Stages
      <3> QED
        BY Zenon, <3>2, <3>5 DEF TypeInv
    <2>4. ASSUME NEW k \in Keys, ResultExpires(k) PROVE TypeInv'
      <3>1. NoEntry \in EntryType /\ NoAnswer \in Answer
        BY StoreOptions DEF NoEntry, EntryType, NoAnswer, Answer
      <3> QED
        BY Zenon, <2>4, <3>1 DEF ResultExpires, TypeInv, TypeOK, Arrived, EndRepeats
    <2>5. ASSUME NEW p \in Payloads, CacheExpires(p) PROVE TypeInv'
      BY Zenon, <2>5 DEF CacheExpires, TypeInv, TypeOK, Arrived, EndRepeats
    <2>6. CASE Tick
      <3>1. entry' \in [Keys -> EntryType]
        BY Zenon, <2>0, <2>6, ScriptTypes DEF Tick, TypeOK
      <3>2. left' \in [Requests -> 0..(RequestTimeout + OpTimeout)]
        BY <2>0, <2>6, GatewayOptions DEF Tick, TypeOK
      <3> QED
        BY Zenon, <2>6, <3>1, <3>2 DEF Tick, TypeInv, TypeOK, Arrived, EndRepeats
    <2>7. CASE UNCHANGED vars
      BY Zenon, <2>7 DEF vars, TypeInv, TypeOK, Arrived, EndRepeats
    <2>8. ASSUME NEW r \in Requests, Again(r) PROVE TypeInv'
      <3>1. /\ UNCHANGED <<pc, key, payload, expected, acquired, response, left, copies>>
            /\ UNCHANGED <<recorded, answered>>
            /\ payload[r] \in Payloads
        BY Zenon, <2>8, AgainFrame DEF TypeInv, Arrived
      <3>2. CASE BeginAgain(r)
        <4>1. key[r] \in Keys
          BY Zenon, <3>2 DEF BeginAgain, Later, TypeInv, Arrived
        <4>2. beginScript(entry[key[r]], payload[r]) \in EntryType
          BY Zenon, <2>0, <4>1, ScriptTypes, StoreOptions DEF TypeOK
        <4>3. entry' \in [Keys -> EntryType]
          BY Zenon, <2>0, <3>2, <4>2, EntryUpdate DEF BeginAgain, Reserve
        <4> QED
          BY Zenon, <3>1, <3>2, <4>3 DEF BeginAgain, TypeInv, TypeOK, Arrived, EndRepeats
      <3>3. CASE StoreAgain(r)
        <4>1. cached' \in [Payloads -> Requests \union {None}]
          BY Zenon, <2>0, <3>3 DEF StoreAgain, TypeOK
        <4> QED
          BY Zenon, <3>1, <3>3, <4>1 DEF StoreAgain, TypeInv, TypeOK, Arrived, EndRepeats
      <3>4. CASE CompleteAgain(r) \/ ReleaseAgain(r)
        <4>1. EndRepeats(r) /\ (Completes(r) \/ Releases(r)) /\ cached' = cached
          BY Zenon, <3>4 DEF CompleteAgain, ReleaseAgain, Later, EndRepeats
        <4>2. entry' \in [Keys -> EntryType]
          BY Zenon, <2>0, <4>1, EndsType DEF TypeInv, Arrived
        <4>3. /\ robbed' \subseteq Requests
              /\ \A v \in robbed' : v \in robbed \/ acquired[v]
          BY Zenon, <2>0, <4>1, EndsFacts DEF Completes, Releases
        <4>4. TypeOK'
          BY Zenon, <2>0, <3>1, <4>1, <4>2, <4>3 DEF TypeOK
        <4>5. \A s \in Requests : EndRepeats(s)' <=> EndRepeats(s)
          BY Zenon, <3>1 DEF EndRepeats
        <4>6. Arrived'
          BY Zenon, <3>1, <4>3, <4>5 DEF TypeInv, Arrived, Holding
        <4> QED
          BY Zenon, <4>4, <4>6 DEF TypeInv
      <3> QED
        BY Zenon, <2>8, <3>2, <3>3, <3>4 DEF Again
    <2> QED
      BY Zenon, <2>1, <2>2, <2>3, <2>4, <2>5, <2>6, <2>7, <2>8 DEF Next
  <1> QED
    BY <1>1, <1>2, PTL DEF Spec, TypeInv

-----------------------------------------------------------------------------
(* One executing request per key.                                          *)

\* The configuration under which the lock is safe.  IDEMPOTENCY_LOCK_TTL and
\* REQUEST_TIMEOUT are configured independently; their defaults are equal.
LockLongEnough == LockTTL > RequestTimeout + 2 * OpTimeout

\* Up to the end of the upstream call a request stays within REQUEST_TIMEOUT.
InTime ==
    \A r \in Requests :
        pc[r] \in {"limit", "begin", "lookup", "call"} => left[r] <= RequestTimeout

LockInv == TypeInv /\ InTime /\ LockOutlives /\ OneRunner

\* TimeAfter by cases.
LEMMA TimeAfterValues ==
    /\ TimeAfter("lookup") = 2 * OpTimeout
    /\ TimeAfter("call") = 2 * OpTimeout
    /\ TimeAfter("store") = OpTimeout
    /\ TimeAfter("complete") = 0
    /\ TimeAfter("release") = 0
  BY Zenon DEF TimeAfter

\* A script that ends a reservation leaves the ones it does not take alone.
LEMMA EndsSpares ==
    ASSUME TypeOK, NEW r \in Requests, Completes(r) \/ Releases(r),
           NEW s \in Requests, s # r, acquired[s], s \notin robbed', key[s] \in Keys
    PROVE  entry'[key[s]] = entry[key[s]]
  <1>1. CASE key[s] = key[r]
    <2>1. ~reservedFor(entry[key[r]], payload[r])
      BY Zenon, <1>1, EndsFacts DEF Completes, Releases
    <2> QED
      BY Zenon, <1>1, <2>1 DEF Completes, Releases, Ends, completeScript, releaseScript, TypeOK
  <1>2. CASE key[s] # key[r]
    BY Zenon, <1>2 DEF Completes, Releases, Ends, TypeOK
  <1> QED
    BY Zenon, <1>1, <1>2

\* No step of another request touches the reservation of a holder it does not
\* rob.
LEMMA EntryKept ==
    ASSUME LockInv, NEW r \in Requests, Serve(r),
           NEW s \in Requests, s # r, acquired[s], s \notin robbed'
    PROVE  entry'[key[s]] = entry[key[s]]
  <1> USE DEF store, request, wire
  <1>0. /\ TypeOK /\ key[s] \in Keys
        /\ entry[key[s]].state = "pending"
    <2>1. TypeOK /\ TypeInv /\ LockOutlives
      BY Zenon DEF LockInv, TypeInv
    <2>2. s \notin robbed
      BY Zenon, <2>1, ServeWire
    <2> QED
      BY Zenon, <2>1, <2>2 DEF LockOutlives, reservedFor
  <1>1. CASE Reserve(r)
    BY Zenon, <1>0, <1>1 DEF Reserve, beginScript, TypeOK
  <1>2. CASE entry' = entry
    BY Zenon, <1>2
  <1>3. CASE Completes(r) \/ Releases(r)
    BY Zenon, <1>0, <1>3, EndsSpares
  <1> QED
    BY Zenon, <1>1, <1>2, <1>3
    DEF Serve, RateLimitPassed, RateLimitRejected, BeginAcquired, BeginRefused,
        BeginReplays, BeginFails, LookupHit, LookupMiss, CallSucceeds, CallFails,
        StoreCached, Complete, Release, completeIdempotency, releaseIdempotency

\* A step keeps the holder's own reservation until it is completed or released.
LEMMA OwnLockKept ==
    ASSUME LockLongEnough, LockInv, NEW r \in Requests, Serve(r), acquired'[r], r \notin robbed
    PROVE  /\ reservedFor(entry'[key[r]], payload[r])
           /\ entry'[key[r]].ttl > left'[r] + TimeAfter(pc'[r])
  <1> USE DEF store, request, wire
  <1>0. /\ TypeOK
        /\ left[r] \in Nat /\ OpTimeout \in Nat /\ RequestTimeout \in Nat
        /\ LockTTL \in Nat
    BY GatewayOptions, StoreOptions DEF LockInv, TypeInv, TypeOK
  <1>1. CASE BeginAcquired(r)
    <2>1. key[r] \in Keys /\ left[r] <= RequestTimeout
      BY Zenon, <1>1 DEF BeginAcquired, Go, LockInv, TypeInv, Arrived, InTime
    <2>2. entry[key[r]].state = "absent"
      BY Zenon, <1>0, <1>1, <2>1 DEF BeginAcquired, Status, beginStatus, TypeOK, EntryType
    <2>3. entry'[key[r]] = [state |-> "pending", fingerprint |-> payload[r],
                            response |-> None, ttl |-> LockTTL]
      BY Zenon, <1>0, <1>1, <2>1, <2>2 DEF BeginAcquired, Reserve, beginScript, TypeOK
    <2>4. pc'[r] = "lookup" /\ left'[r] = left[r]
      BY Zenon, <1>0, <1>1, GoFacts DEF BeginAcquired, Stages
    <2> QED
      BY <1>0, <2>1, <2>3, <2>4, TimeAfterValues DEF reservedFor, LockLongEnough
  <1>2. ASSUME acquired[r], entry' = entry,
               left'[r] + TimeAfter(pc'[r]) <= left[r] + TimeAfter(pc[r]),
               left'[r] + TimeAfter(pc'[r]) \in Nat,
               left[r] + TimeAfter(pc[r]) \in Nat
        PROVE  /\ reservedFor(entry'[key[r]], payload[r])
               /\ entry'[key[r]].ttl > left'[r] + TimeAfter(pc'[r])
    <2>1. /\ key[r] \in Keys
          /\ reservedFor(entry[key[r]], payload[r])
          /\ entry[key[r]].ttl > left[r] + TimeAfter(pc[r])
      BY Zenon, <1>2 DEF LockInv, LockOutlives
    <2>2. entry[key[r]].ttl \in Nat
      BY <1>0, <2>1 DEF TypeOK, EntryType
    <2>3. \A ttl, now, after \in Nat : ttl > now /\ after <= now => ttl > after
      OBVIOUS
    <2>4. entry[key[r]].ttl > left'[r] + TimeAfter(pc'[r])
      BY Zenon, <1>2, <2>1, <2>2, <2>3
    <2> QED
      BY Zenon, <1>2, <2>1, <2>4
  <1>3. CASE LookupHit(r)
    <2>1. acquired[r] /\ entry' = entry
      BY Zenon, <1>3 DEF LookupHit
    <2>2. pc[r] = "lookup" /\ pc'[r] = "complete" /\ left'[r] = OpTimeout
      BY <1>0, <1>3, GoFacts DEF LookupHit, Stages
    <2>3. TimeAfter(pc[r]) = 2 * OpTimeout /\ TimeAfter(pc'[r]) = 0
      BY Zenon, <2>2, TimeAfterValues
    <2>4. /\ left'[r] + TimeAfter(pc'[r]) = OpTimeout
          /\ left[r] + TimeAfter(pc[r]) = left[r] + 2 * OpTimeout
      BY <1>0, <2>2, <2>3
    <2> QED
      BY <1>0, <1>2, <2>1, <2>4
  <1>4. CASE LookupMiss(r)
    <2>1. acquired[r] /\ entry' = entry
      BY Zenon, <1>4 DEF LookupMiss
    <2>2. pc[r] = "lookup" /\ pc'[r] = "call" /\ left'[r] = left[r]
      BY Zenon, <1>0, <1>4, GoFacts DEF LookupMiss, Stages
    <2> QED
      BY <1>0, <1>2, <2>1, <2>2, TimeAfterValues
  <1>5. CASE CallSucceeds(r) \/ CallFails(r)
    <2>1. acquired[r] /\ entry' = entry
      BY Zenon, <1>5 DEF CallSucceeds, CallFails
    <2>2. pc[r] = "call" /\ pc'[r] \in {"store", "complete", "release"}
          /\ left'[r] = OpTimeout
      BY Zenon, <1>0, <1>5, GoFacts DEF CallSucceeds, CallFails, Stages
    <2> QED
      BY <1>0, <1>2, <2>1, <2>2, TimeAfterValues
  <1>6. CASE StoreCached(r)
    <2>1. acquired[r] /\ entry' = entry
      BY Zenon, <1>6 DEF StoreCached
    <2>2. pc[r] = "store" /\ pc'[r] = "complete" /\ left'[r] = OpTimeout
      BY Zenon, <1>0, <1>6, GoFacts DEF StoreCached, Stages
    <2> QED
      BY <1>0, <1>2, <2>1, <2>2, TimeAfterValues
  <1>7. CASE \/ RateLimitPassed(r) \/ RateLimitRejected(r) \/ BeginRefused(r)
             \/ BeginReplays(r) \/ BeginFails(r)
    <2>1. acquired' = acquired /\ pc[r] \in {"limit", "begin"}
      BY Zenon, <1>7 DEF RateLimitPassed, RateLimitRejected, BeginRefused, BeginReplays,
                  BeginFails, Go
    <2> QED
      BY Zenon, <2>1 DEF LockInv, TypeInv, Arrived, Holding
  <1>8. CASE Complete(r) \/ Release(r)
    BY Zenon, <1>0, <1>8 DEF Complete, Release, TypeOK
  <1> QED
    BY Zenon, <1>1, <1>3, <1>4, <1>5, <1>6, <1>7, <1>8 DEF Serve

\* Serving a request keeps the lock invariant.
LEMMA ServeKeepsLock ==
    ASSUME LockLongEnough, LockInv, TypeInv', NEW r \in Requests, Serve(r)
    PROVE  LockInv'
  <1> USE DEF store, request, wire
  <1>0. TypeOK
    BY Zenon DEF LockInv, TypeInv
  <1>1. InTime'
    <2>1. pc'[r] \in {"limit", "begin", "lookup", "call"} =>
              left'[r] = left[r] /\ pc[r] \in {"limit", "begin", "lookup", "call"}
      <3>1. CASE RateLimitPassed(r)
        <4>1. \E to \in {"begin", "lookup"} : Go(r, "limit", to)
          BY Zenon, <3>1 DEF RateLimitPassed
        <4> QED
          BY Zenon, <1>0, <4>1, GoFacts DEF Stages
      <3>2. CASE BeginAcquired(r)
        BY Zenon, <1>0, <3>2, GoFacts DEF BeginAcquired, Stages
      <3>3. CASE LookupMiss(r)
        BY Zenon, <1>0, <3>3, GoFacts DEF LookupMiss, Stages
      <3>4. CASE \/ RateLimitRejected(r) \/ BeginRefused(r) \/ BeginReplays(r)
                 \/ BeginFails(r) \/ Complete(r) \/ Release(r)
        <4>1. \E from \in Stages : Go(r, from, "done")
          BY Zenon, <3>4 DEF RateLimitRejected, BeginRefused, BeginReplays, BeginFails,
                      Complete, Release, Stages
        <4> QED
          BY <1>0, <4>1, GoFacts DEF Stages
      <3>5. CASE LookupHit(r) \/ CallSucceeds(r) \/ CallFails(r) \/ StoreCached(r)
        <4>1. \E from \in Stages, to \in {"store", "complete", "release"} :
                  Go(r, from, to)
          BY Zenon, <3>5 DEF LookupHit, CallSucceeds, CallFails, StoreCached, Stages
        <4> QED
          BY Zenon, <1>0, <4>1, GoFacts DEF Stages
      <3> QED
        BY Zenon, <3>1, <3>2, <3>3, <3>4, <3>5 DEF Serve
    <2> QED
      BY Zenon, <2>1, ServeFrame DEF LockInv, InTime
  <1>2. LockOutlives'
    <2>1. \A s \in Requests : acquired'[s] => Active(s)' /\ key'[s] \in Keys
      BY Zenon DEF TypeInv, Arrived, Active, Holding, Stages
    <2> SUFFICES ASSUME NEW s \in Requests, acquired'[s], s \notin robbed'
                 PROVE  /\ reservedFor(entry'[key'[s]], payload'[s])
                        /\ entry'[key'[s]].ttl > left'[s] + TimeAfter(pc'[s])
      BY Zenon, <2>1 DEF LockOutlives, Active
    <2>0. s \notin robbed
      BY Zenon, ServeWire DEF LockInv
    <2>2. CASE s = r
      BY Zenon, <2>0, <2>2, OwnLockKept, ServeFrame DEF LockInv
    <2>3. CASE s # r
      <3>1. /\ key' = key /\ payload' = payload
            /\ pc'[s] = pc[s] /\ left'[s] = left[s] /\ acquired[s]
        BY Zenon, <2>3, ServeFrame DEF LockInv
      <3>2. entry'[key[s]] = entry[key[s]]
        BY Zenon, <2>3, <3>1, EntryKept
      <3> QED
        BY Zenon, <2>0, <3>1, <3>2 DEF LockInv, LockOutlives
    <2> QED
      BY Zenon, <2>2, <2>3
  <1>3. ASSUME NEW s \in Requests, NEW t \in Requests, s # t,
               acquired'[s], acquired'[t], key'[s] = key'[t], key'[s] \in Keys,
               s \notin robbed', t \notin robbed'
        PROVE  FALSE
    <2>0. s \notin robbed /\ t \notin robbed
      BY Zenon, <1>3, ServeWire DEF LockInv
    <2>1. key' = key
      BY Zenon, ServeFrame DEF LockInv
    <2>2. ~(acquired[s] /\ acquired[t])
      <3> SUFFICES ASSUME acquired[s], acquired[t] PROVE FALSE
        BY Zenon
      <3>1. s \in Holders(key[s]) \ robbed /\ t \in Holders(key[s]) \ robbed /\ key[s] \in Keys
        BY Zenon, <1>3, <2>0, <2>1 DEF Holders
      <3> QED
        BY Zenon, <1>3, <3>1 DEF LockInv, OneRunner
    <2>3. \A u \in Requests : acquired'[u] /\ ~acquired[u] => u = r /\ BeginAcquired(r)
      BY Zenon, <1>0
      DEF Serve, RateLimitPassed, RateLimitRejected, BeginAcquired, BeginRefused,
          BeginReplays, BeginFails, LookupHit, LookupMiss, CallSucceeds, CallFails,
          StoreCached, Complete, Release, TypeOK
    <2>4. PICK u \in {s, t} : u # r /\ acquired[u] /\ key[u] = key[r] /\ u \notin robbed
      <3>1. CASE ~acquired[s]
        <4>1. s = r /\ t # r /\ acquired[t]
          BY Zenon, <1>3, <2>3, <3>1
        <4> QED
          BY Zenon, <1>3, <2>0, <2>1, <4>1
      <3>2. CASE ~acquired[t]
        <4>1. t = r /\ s # r /\ acquired[s]
          BY Zenon, <1>3, <2>3, <3>2
        <4> QED
          BY Zenon, <1>3, <2>0, <2>1, <4>1
      <3> QED
        BY Zenon, <2>2, <3>1, <3>2
    <2>5. reservedFor(entry[key[r]], payload[u])
      BY Zenon, <2>4 DEF LockInv, LockOutlives
    <2>6. Status(r) = "acquired" /\ key[r] \in Keys
      BY Zenon, <1>3, <2>1, <2>2, <2>3 DEF BeginAcquired
    <2> QED
      BY Zenon, <1>0, <2>5, <2>6 DEF Status, beginStatus, reservedFor, TypeOK, EntryType
  <1>4. ASSUME NEW v \in robbed'
        PROVE  \E s \in Requests \ {v} :
                   EndRepeats(s)' /\ key'[s] = key'[v] /\ payload'[s] = payload'[v]
    <2>1. /\ key' = key /\ payload' = payload /\ copies \subseteq copies' /\ TypeInv
      BY Zenon, ServeFrame, ServeWire DEF LockInv
    <2>2. \A s \in Requests : EndRepeats(s) => EndRepeats(s)'
      BY <2>1 DEF EndRepeats
    <2>3. CASE v \in robbed
      <3>1. PICK s \in Requests \ {v} :
                EndRepeats(s) /\ key[s] = key[v] /\ payload[s] = payload[v]
        BY Zenon, <2>3 DEF LockInv, OneRunner
      <3> QED
        BY Zenon, <2>1, <2>2, <3>1
    <2>4. CASE v \notin robbed
      <3>1. /\ v \in Requests /\ v # r /\ acquired[v] /\ key[v] = key[r] /\ acquired[r]
            /\ reservedFor(entry[key[r]], payload[r])
        BY Zenon, <1>4, <2>1, <2>4, ServeWire
      <3>2. key[v] \in Keys /\ reservedFor(entry[key[v]], payload[v])
        BY Zenon, <2>4, <3>1 DEF LockInv, LockOutlives
      <3>3. payload[v] = payload[r]
        BY Zenon, <3>1, <3>2 DEF reservedFor
      <3>4. r \in robbed
        BY Zenon, <2>4, <3>1, <3>2 DEF LockInv, OneRunner, Holders
      <3>5. PICK s \in Requests \ {r} :
                EndRepeats(s) /\ key[s] = key[r] /\ payload[s] = payload[r]
        BY Zenon, <3>4 DEF LockInv, OneRunner
      <3>6. s # v
        BY Zenon, <2>1, <3>1, <3>5 DEF TypeInv, Arrived, Holding
      <3> QED
        BY Zenon, <2>1, <2>2, <3>1, <3>3, <3>5, <3>6
    <2> QED
      BY Zenon, <2>3, <2>4
  <1>5. OneRunner'
    BY Zenon, <1>3, <1>4 DEF OneRunner, Holders
  <1> QED
    BY Zenon, <1>1, <1>2, <1>5 DEF LockInv

\* A repeated command keeps the lock invariant: the reservations it ends are
\* marked as taken.
LEMMA AgainKeepsLock ==
    ASSUME LockInv, TypeInv', NEW r \in Requests, Again(r)
    PROVE  LockInv'
  <1>0. TypeOK /\ TypeInv
    BY Zenon DEF LockInv, TypeInv
  <1>1. UNCHANGED <<pc, key, payload, expected, acquired, response, left, copies>>
    BY Zenon, AgainFrame
  <1>2. \A s \in Requests : EndRepeats(s)' <=> EndRepeats(s)
    BY Zenon, <1>1 DEF EndRepeats
  <1>3. InTime'
    BY Zenon, <1>1 DEF LockInv, InTime
  <1>4. ASSUME robbed \subseteq robbed',
               \A s \in Requests : acquired[s] /\ s \notin robbed' => entry'[key[s]] = entry[key[s]],
               \A v \in robbed' : v \in robbed \/
                   \E s \in Requests \ {v} :
                       EndRepeats(s) /\ key[s] = key[v] /\ payload[s] = payload[v]
        PROVE  LockInv'
    <2>1. LockOutlives'
      BY Zenon, <1>1, <1>4 DEF LockInv, LockOutlives, Active
    <2>2. \A k \in Keys : \A s, t \in Holders(k)' \ robbed' : s = t
      <3>1. \A k \in Keys : Holders(k)' = Holders(k)
        BY Zenon, <1>1 DEF Holders
      <3>2. \A k \in Keys : \A s, t \in Holders(k) \ robbed : s = t
        BY Zenon DEF LockInv, OneRunner
      <3> QED
        BY <1>4, <3>1, <3>2
    <2>3. \A v \in robbed' : \E s \in Requests \ {v} :
              EndRepeats(s)' /\ key'[s] = key'[v] /\ payload'[s] = payload'[v]
      <3> SUFFICES ASSUME NEW v \in robbed'
                   PROVE  \E s \in Requests \ {v} :
                              EndRepeats(s)' /\ key'[s] = key'[v] /\ payload'[s] = payload'[v]
        BY Zenon
      <3>1. PICK s \in Requests \ {v} :
                EndRepeats(s) /\ key[s] = key[v] /\ payload[s] = payload[v]
        BY Zenon, <1>4 DEF LockInv, OneRunner
      <3> QED
        BY Zenon, <1>1, <1>2, <3>1
    <2>4. OneRunner'
      BY Zenon, <2>2, <2>3 DEF OneRunner
    <2> QED
      BY Zenon, <1>3, <2>1, <2>4 DEF LockInv
  <1>5. CASE BeginAgain(r)
    <2>1. robbed' = robbed /\ Reserve(r)
      BY Zenon, <1>5 DEF BeginAgain
    <2>2. ASSUME NEW s \in Requests, acquired[s], s \notin robbed
          PROVE  entry'[key[s]] = entry[key[s]]
      <3>1. key[s] \in Keys /\ entry[key[s]].state = "pending"
        BY Zenon, <2>2 DEF LockInv, LockOutlives, reservedFor
      <3> QED
        BY Zenon, <1>0, <2>1, <3>1 DEF Reserve, beginScript, TypeOK
    <2> QED
      BY Zenon, <1>4, <2>1, <2>2
  <1>6. CASE StoreAgain(r)
    BY Zenon, <1>4, <1>6 DEF StoreAgain
  <1>7. CASE CompleteAgain(r) \/ ReleaseAgain(r)
    <2>1. EndRepeats(r) /\ (Completes(r) \/ Releases(r))
      BY Zenon, <1>7 DEF CompleteAgain, ReleaseAgain, Later, EndRepeats
    <2>2. ~acquired[r]
      BY Zenon, <1>0, <2>1 DEF TypeInv, Arrived, Holding
    <2>3. ASSUME NEW s \in Requests, acquired[s], s \notin robbed'
          PROVE  entry'[key[s]] = entry[key[s]]
      BY Zenon, <1>0, <2>1, <2>2, <2>3, EndsSpares DEF TypeInv, Arrived
    <2>4. robbed \subseteq robbed'
      BY Zenon, <1>0, <2>1, EndsFacts DEF Completes, Releases
    <2>5. ASSUME NEW v \in robbed', v \notin robbed
          PROVE  \E s \in Requests \ {v} :
                     EndRepeats(s) /\ key[s] = key[v] /\ payload[s] = payload[v]
      <3>1. /\ v \in Requests /\ v # r /\ acquired[v] /\ key[v] = key[r]
            /\ reservedFor(entry[key[r]], payload[r])
        BY Zenon, <1>0, <2>1, <2>5, EndsFacts DEF Completes, Releases
      <3>2. reservedFor(entry[key[v]], payload[v])
        BY Zenon, <2>5, <3>1 DEF LockInv, LockOutlives
      <3>3. payload[v] = payload[r]
        BY Zenon, <3>1, <3>2 DEF reservedFor
      <3> QED
        BY Zenon, <2>1, <3>1, <3>3
    <2> QED
      BY Zenon, <1>4, <2>3, <2>4, <2>5
  <1> QED
    BY Zenon, <1>5, <1>6, <1>7 DEF Again


\* What OneRunner is about.
LEMMA RunnerFrame ==
    ASSUME OneRunner, UNCHANGED <<key, payload, acquired, copies, robbed>>
    PROVE  OneRunner'
  <1>1. \A k \in Keys : Holders(k)' = Holders(k)
    BY Zenon DEF Holders
  <1>2. \A r \in Requests : EndRepeats(r)' = EndRepeats(r)
    BY Zenon DEF EndRepeats
  <1> QED
    BY <1>1, <1>2 DEF OneRunner

\* The clock runs no faster for a reservation than for its holder.
LEMMA TickKeepsLock ==
    ASSUME LockInv, TypeInv', Tick
    PROVE  LockInv'
  <1> USE DEF store, request, wire
  <1>0. TypeOK
    BY Zenon DEF LockInv, TypeInv
  <1>1. InTime'
    BY <1>0, GatewayOptions DEF Tick, LockInv, InTime, TypeOK, Active, Stages
  <1>2. OneRunner'
    BY Zenon, RunnerFrame DEF Tick, LockInv
  <1>3. LockOutlives'
    <2> SUFFICES ASSUME NEW r \in Requests, acquired[r], r \notin robbed
                 PROVE  /\ reservedFor(entry'[key[r]], payload[r])
                        /\ entry'[key[r]].ttl > left'[r] + TimeAfter(pc[r])
      BY Zenon DEF Tick, LockInv, LockOutlives, Active
    <2> DEFINE e == entry[key[r]]
    <2>1. /\ Active(r) /\ key[r] \in Keys
          /\ reservedFor(e, payload[r]) /\ e.ttl > left[r] + TimeAfter(pc[r])
      BY Zenon DEF LockInv, LockOutlives
    <2>2. left[r] > 0 /\ left[r] \in Nat /\ left'[r] = left[r] - 1
      BY <1>0, <2>1, GatewayOptions DEF Tick, TypeOK
    <2>3. TimeAfter(pc[r]) \in Nat
      <3>1. pc[r] \in Holding
        BY Zenon DEF LockInv, TypeInv, Arrived
      <3> QED
        BY <3>1, TimeAfterValues, GatewayOptions DEF Holding
    <2>4. e \in EntryType /\ e.ttl \in Nat
      BY <1>0, <2>1, StoreOptions DEF TypeOK, EntryType
    <2>5. e.ttl > 1
      BY <2>1, <2>2, <2>3, <2>4
    <2>6. entry'[key[r]] = [e EXCEPT !.ttl = @ - 1]
      BY <2>1, <2>5 DEF Tick, expire
    <2>7. /\ entry'[key[r]].ttl = e.ttl - 1
          /\ entry'[key[r]].state = e.state
          /\ entry'[key[r]].fingerprint = e.fingerprint
      BY Zenon, <2>4, <2>6 DEF EntryType
    <2> QED
      BY <2>1, <2>2, <2>3, <2>4, <2>7 DEF reservedFor
  <1> QED
    BY Zenon, <1>1, <1>2, <1>3 DEF LockInv

\* With a lock that outlives the work, the reservation invariant holds in
\* every reachable state.
LEMMA LockInvariant ==
    ASSUME LockLongEnough
    PROVE  Spec => []LockInv
  <1> USE DEF store, request, wire
  <1>1. Init => InTime /\ LockOutlives /\ OneRunner
    BY Zenon DEF Init, InTime, LockOutlives, OneRunner, Holders
  <1>2. LockInv /\ TypeInv' /\ [Next]_vars => LockInv'
    <2> SUFFICES ASSUME LockInv, TypeInv', [Next]_vars PROVE LockInv'
      BY Zenon
    <2>0. TypeOK
      BY Zenon DEF LockInv, TypeInv
    <2>1. ASSUME NEW r \in Requests, Start(r) PROVE LockInv'
      <3>1. /\ pc[r] = "idle" /\ pc'[r] = "limit" /\ left'[r] = RequestTimeout
            /\ \A s \in Requests \ {r} : pc'[s] = pc[s] /\ left'[s] = left[s]
        BY Zenon, <2>0, <2>1, GoFacts DEF Start, Stages
      <3>2. ~acquired[r] /\ acquired' = acquired /\ entry' = entry
        BY Zenon, <2>1, <3>1 DEF Start, LockInv, TypeInv, Arrived, Holding
      <3>3. \A s \in Requests \ {r} : key'[s] = key[s] /\ payload'[s] = payload[s]
        BY Zenon, <2>0, <2>1 DEF Start, TypeOK
      <3>4. InTime'
        BY <3>1, GatewayOptions DEF LockInv, InTime
      <3>5. LockOutlives'
        <4>1. robbed' = robbed
          BY Zenon, <2>1 DEF Start
        <4> QED
          BY Zenon, <3>1, <3>2, <3>3, <4>1 DEF LockInv, LockOutlives, Active
      <3>6. OneRunner'
        <4>1. r \notin robbed /\ ~EndRepeats(r) /\ robbed' = robbed /\ copies' = copies
          BY Zenon, <2>1, <3>1 DEF Start, LockInv, TypeInv, Arrived
        <4>2. \A s \in Requests : EndRepeats(s)' <=> EndRepeats(s)
          BY Zenon, <4>1 DEF EndRepeats
        <4>3. \A k \in Keys : \A s, t \in Holders(k)' \ robbed' : s = t
          BY <3>2, <3>3, <4>1 DEF LockInv, OneRunner, Holders
        <4>4. ASSUME NEW v \in robbed
              PROVE  \E s \in Requests \ {v} :
                         EndRepeats(s)' /\ key'[s] = key'[v] /\ payload'[s] = payload'[v]
          <5>1. PICK s \in Requests \ {v} :
                    EndRepeats(s) /\ key[s] = key[v] /\ payload[s] = payload[v]
            BY Zenon, <4>4 DEF LockInv, OneRunner
          <5>2. v \in Requests /\ v # r /\ s # r
            BY Zenon, <2>0, <4>1, <4>4, <5>1 DEF TypeOK
          <5> QED
            BY Zenon, <3>3, <4>2, <5>1, <5>2
        <4> QED
          BY Zenon, <4>1, <4>3, <4>4 DEF OneRunner
      <3> QED
        BY Zenon, <3>4, <3>5, <3>6 DEF LockInv
    <2>2. ASSUME NEW r \in Requests, Serve(r) PROVE LockInv'
      BY Zenon, <2>2, ServeKeepsLock
    <2>3. ASSUME NEW r \in Requests, Crash(r) PROVE LockInv'
      <3>1. ~acquired'[r] /\ pc'[r] = "crashed" /\ key' = key /\ payload' = payload
            /\ entry' = entry /\ robbed' = robbed /\ copies' = copies
            /\ \A s \in Requests \ {r} : /\ pc'[s] = pc[s] /\ left'[s] = left[s]
                                         /\ acquired'[s] = acquired[s]
        BY Zenon, <2>0, <2>3 DEF Crash, TypeOK
      <3> QED
        BY <3>1 DEF LockInv, InTime, LockOutlives, OneRunner, Holders, Active, EndRepeats
    <2>4. ASSUME NEW k \in Keys, ResultExpires(k) PROVE LockInv'
      <3>1. \A r \in Requests : acquired[r] /\ r \notin robbed => entry'[key[r]] = entry[key[r]]
        BY Zenon, <2>0, <2>4
        DEF ResultExpires, LockInv, LockOutlives, reservedFor, TypeOK
      <3> QED
        BY Zenon, <2>4, <3>1, RunnerFrame
        DEF ResultExpires, LockInv, InTime, LockOutlives, Active
    <2>5. ASSUME NEW p \in Payloads, CacheExpires(p) PROVE LockInv'
      BY Zenon, <2>5 DEF CacheExpires, LockInv, InTime, LockOutlives, OneRunner, Holders, Active, EndRepeats
    <2>6. CASE Tick
      BY Zenon, <2>6, TickKeepsLock
    <2>7. CASE UNCHANGED vars
      BY Zenon, <2>7 DEF vars, LockInv, InTime, LockOutlives, OneRunner, Holders, Active, EndRepeats
    <2>8. ASSUME NEW r \in Requests, Again(r) PROVE LockInv'
      BY Zenon, <2>8, AgainKeepsLock
    <2> QED
      BY Zenon, <2>1, <2>2, <2>3, <2>4, <2>5, <2>6, <2>7, <2>8 DEF Next
  <1> QED
    BY <1>1, <1>2, TypeCorrect, PTL DEF Spec, LockInv, TypeInv

\* With a lock TTL longer than REQUEST_TIMEOUT plus two Redis operations, the
\* reservation of an executing request, unless a repeated script took it, is its
\* own and lasts until the request completes or releases it, whatever Redis calls
\* fail, take effect unnoticed or run again and whatever processes crash (Chat
\* in gateway.go, redis.go's Lua scripts).
THEOREM ReservationOutlivesWork ==
    ASSUME LockLongEnough
    PROVE  Spec => []LockOutlives
  <1>1. LockInv => LockOutlives
    BY Zenon DEF LockInv
  <1> QED
    BY <1>1, LockInvariant, PTL

\* Under the same condition and with the same faults no two requests execute
\* under one idempotency key, but for requests whose reservation was taken; and
\* none is taken unless an earlier request with the same key and payload has a
\* Complete or Release of which Redis runs another copy (redis.go).
THEOREM OneExecution ==
    ASSUME LockLongEnough
    PROVE  Spec => []OneRunner
  <1>1. LockInv => OneRunner
    BY Zenon DEF LockInv
  <1> QED
    BY <1>1, LockInvariant, PTL

-----------------------------------------------------------------------------
(* What requests are answered with.                                        *)

\* The stages a request is in once its upstream call has succeeded, and the
\* ones in which it has nothing to answer with.
Produced == {"store", "complete", "done", "crashed"}
Unanswered == {"idle", "limit", "begin", "lookup", "call", "release"}

\* x is the response of a call that was made for the payload p.
From(x, p) == x \in Requests /\ pc[x] \in Produced /\ payload[x] = p

\* Every copy of a response, in the cache, in a hash or about to be sent, comes
\* from a call for the payload it is filed under.
Cached(p) == cached[p] # None => From(cached[p], p)

Stored(k) ==
    /\ entry[k].response # None => From(entry[k].response, entry[k].fingerprint)
    /\ entry[k].state = "completed" => entry[k].response # None

Traced(r) ==
    /\ response[r] # None => From(response[r], payload[r])
    /\ pc[r] \in Unanswered => response[r] = None
    /\ pc[r] \in {"store", "complete"} => response[r] # None

\* The row is the last thing a request writes.
Row(r) ==
    recorded[r] # None =>
        /\ pc[r] = "done"
        /\ response[r] = None <=> recorded[r] \in {"failed", "rejected", "rate_limited"}
        /\ response[r] = r    <=> recorded[r] = "succeeded"

\* A Complete that may run again has something to store.
Sent(r) == <<r, "complete">> \in copies => response[r] # None

AnswerInv ==
    /\ \A p \in Payloads : Cached(p)
    /\ \A k \in Keys : Stored(k)
    /\ \A r \in Requests : Traced(r) /\ Row(r)
    /\ \A r \in Requests : Sent(r)

\* What the scripts do to a stored response.
LEMMA ScriptAnswers ==
    ASSUME NEW e \in EntryType, NEW fp \in Payloads, NEW x \in Responses
    PROVE  /\ beginScript(e, fp) # e => beginScript(e, fp).response = None
                                        /\ beginScript(e, fp).state = "pending"
           /\ completeScript(e, fp, x) # e =>
                /\ completeScript(e, fp, x).response = x
                /\ completeScript(e, fp, x).fingerprint = fp
           /\ releaseScript(e, fp) \in {e, NoEntry}
           /\ NoEntry.response = None /\ NoEntry.state = "absent"
  <1>1. /\ beginScript(e, fp) # e => beginScript(e, fp).response = None
                                     /\ beginScript(e, fp).state = "pending"
        /\ releaseScript(e, fp) \in {e, NoEntry}
        /\ NoEntry.response = None /\ NoEntry.state = "absent"
    BY Zenon DEF beginScript, releaseScript, NoEntry
  <1>2. ASSUME completeScript(e, fp, x) # e
        PROVE  /\ completeScript(e, fp, x).response = x
               /\ completeScript(e, fp, x).fingerprint = fp
    <2>1. reservedFor(e, fp)
      BY Zenon, <1>2 DEF completeScript
    <2>2. completeScript(e, fp, x)
            = [e EXCEPT !.state = "completed", !.response = x, !.ttl = 0]
      BY Zenon, <2>1 DEF completeScript
    <2> QED
      BY Zenon, <2>1, <2>2 DEF reservedFor, EntryType
  <1> QED
    BY Zenon, <1>1, <1>2

\* A reservation that expires leaves no response; otherwise time changes none.
LEMMA ExpireAnswers ==
    ASSUME NEW e \in EntryType, expire(e) # NoEntry
    PROVE  /\ expire(e).response = e.response
           /\ expire(e).fingerprint = e.fingerprint
           /\ expire(e).state = e.state
  <1>1. e.ttl \in Nat
    BY StoreOptions DEF EntryType
  <1>2. CASE e.ttl > 1
    <2> DEFINE t == e.ttl - 1
    <2>1. expire(e) = [e EXCEPT !.ttl = t]
      BY <1>2 DEF expire, EntryType
    <2> HIDE DEF t
    <2> QED
      BY Zenon, <2>1 DEF EntryType
  <1>3. CASE e.ttl = 1
    BY <1>3 DEF expire
  <1>4. CASE e.ttl = 0
    BY <1>4 DEF expire
  <1> QED
    BY <1>1, <1>2, <1>3, <1>4

\* Once a call has succeeded it stays so, and its payload is fixed.
LEMMA FromKept ==
    ASSUME TypeInv, NEW r \in Requests, Serve(r), NEW x, NEW p, From(x, p)
    PROVE  x \in Requests /\ pc'[x] \in Produced /\ payload'[x] = p
  <1>0. TypeOK
    BY Zenon DEF TypeInv
  <1>1. payload' = payload /\ \A s \in Requests \ {r} : pc'[s] = pc[s]
    BY Zenon, ServeFrame
  <1>2. pc[r] \in {"store", "complete"} => pc'[r] \in {"complete", "done"}
    <2>1. CASE StoreCached(r) \/ Complete(r)
      BY Zenon, <1>0, <2>1, GoFacts DEF StoreCached, Complete, Stages
    <2>2. CASE ~(StoreCached(r) \/ Complete(r))
      BY Zenon, <2>2
      DEF Serve, RateLimitPassed, RateLimitRejected, BeginAcquired, BeginRefused,
          BeginReplays, BeginFails, LookupHit, LookupMiss, CallSucceeds, CallFails,
          Release, Go
    <2> QED
      BY Zenon, <2>1, <2>2
  <1>3. pc[r] \in Stages
    BY Zenon, ServeFrame
  <1> QED
    BY Zenon, <1>1, <1>2, <1>3 DEF From, Produced, Stages

\* The hashes after a step of r, and the cache.
LEMMA ServeStored ==
    ASSUME TypeInv, AnswerInv, NEW r \in Requests, Serve(r)
    PROVE  (\A k \in Keys : Stored(k)') /\ (\A p \in Payloads : Cached(p)')
  <1> USE DEF store, request, wire
  <1>0. /\ TypeOK /\ Responses = Requests /\ pc[r] \in Stages /\ payload[r] \in Payloads
        /\ \A k \in Keys : entry[k] \in EntryType
    BY Zenon, ServeFrame, GatewayOptions DEF TypeInv, Arrived, TypeOK, Stages
  <1>1. ASSUME NEW k \in Keys, entry'[k] = entry[k] PROVE Stored(k)'
    BY Zenon, <1>1, FromKept DEF AnswerInv, Stored, From
  <1>2. ASSUME NEW k \in Keys, entry'[k].response = None, entry'[k].state # "completed"
        PROVE  Stored(k)'
    BY Zenon, <1>2 DEF Stored
  <1>3. ASSUME NEW k \in Keys PROVE Stored(k)'
    <2>1. CASE UNCHANGED entry
      BY Zenon, <1>1, <2>1
    <2>2. CASE Reserve(r)
      <3>1. entry'[k] = IF k = key[r] THEN beginScript(entry[k], payload[r]) ELSE entry[k]
        BY Zenon, <1>0, <2>2 DEF Reserve, TypeOK
      <3> QED
        BY <1>0, <1>1, <1>2, <3>1, ScriptAnswers
    <2>3. CASE Complete(r) /\ acquired[r]
      <3>1. /\ entry' = entry \/ Completes(r)
            /\ pc[r] = "complete"
        BY Zenon, <2>3 DEF Complete, completeIdempotency, Go
      <3>2. response[r] \in Requests /\ response[r] # None /\ From(response[r], payload[r])
        BY Zenon, <1>0, <3>1 DEF AnswerInv, Traced, TypeOK
      <3>3. pc'[response[r]] \in Produced /\ payload'[response[r]] = payload[r]
        BY Zenon, <3>2, FromKept
      <3>4. CASE entry'[k] = entry[k]
        BY Zenon, <1>1, <3>4
      <3>5. CASE entry'[k] # entry[k]
        <4>1. entry'[k] = completeScript(entry[k], payload[r], response[r])
          BY Zenon, <1>0, <3>1, <3>5 DEF TypeOK, Completes, Ends
        <4>2. entry'[k].response = response[r] /\ entry'[k].fingerprint = payload[r]
          BY <1>0, <3>2, <3>5, <4>1, ScriptAnswers
        <4>3. response' = response /\ payload' = payload
          BY Zenon, <2>3 DEF Complete
        <4> QED
          BY Zenon, <3>2, <3>3, <4>2, <4>3 DEF Stored, From
      <3> QED
        BY Zenon, <3>4, <3>5
    <2>4. CASE Release(r) /\ acquired[r]
      <3>1. entry' = entry \/ Releases(r)
        BY Zenon, <2>4 DEF Release, releaseIdempotency
      <3>2. entry'[k] = entry[k] \/ entry'[k] = releaseScript(entry[k], payload[r])
        BY Zenon, <1>0, <3>1 DEF TypeOK, Releases, Ends
      <3> QED
        BY Zenon, <1>0, <1>1, <1>2, <3>2, ScriptAnswers DEF releaseScript, NoEntry
    <2> QED
      BY Zenon, <2>1, <2>2, <2>3, <2>4
      DEF Serve, RateLimitPassed, RateLimitRejected, BeginAcquired, BeginRefused,
          BeginReplays, BeginFails, LookupHit, LookupMiss, CallSucceeds, CallFails,
          StoreCached, Complete, Release, completeIdempotency, releaseIdempotency
  <1>4. ASSUME NEW p \in Payloads PROVE Cached(p)'
    <2>1. CASE cached'[p] = cached[p]
      BY Zenon, <2>1, FromKept DEF AnswerInv, Cached, From
    <2>2. CASE StoreCached(r) /\ cached'[p] # cached[p]
      <3>1. cached'[p] = response[r] /\ p = payload[r] /\ pc[r] = "store"
        BY Zenon, <1>0, <2>2 DEF StoreCached, Go, TypeOK
      <3>2. From(response[r], p)
        BY Zenon, <3>1 DEF AnswerInv, Traced
      <3>3. response[r] \in Requests /\ pc'[response[r]] \in Produced /\ payload'[response[r]] = p
        BY Zenon, <3>2, FromKept
      <3> QED
        BY Zenon, <3>1, <3>3 DEF Cached, From
    <2> QED
      BY Zenon, <2>1, <2>2
      DEF Serve, RateLimitPassed, RateLimitRejected, BeginAcquired, BeginRefused,
          BeginReplays, BeginFails, LookupHit, LookupMiss, CallSucceeds, CallFails,
          StoreCached, Complete, Release
  <1> QED
    BY Zenon, <1>3, <1>4

\* The answer and the row after a step of r: of the other requests ...
LEMMA ServeOthers ==
    ASSUME TypeInv, AnswerInv, NEW r \in Requests, Serve(r), NEW s \in Requests, s # r
    PROVE  Traced(s)' /\ Row(s)'
  <1> USE DEF store, request, wire
  <1>1. response'[s] = response[s] /\ recorded'[s] = recorded[s]
    <2>1. TypeOK
      BY Zenon DEF TypeInv
    <2>2. response'[s] = response[s]
      BY Zenon, <2>1
      DEF Serve, RateLimitPassed, RateLimitRejected, BeginAcquired, BeginRefused,
          BeginReplays, BeginFails, LookupHit, LookupMiss, CallSucceeds, CallFails,
          StoreCached, Complete, Release, Respond, TypeOK
    <2>3. recorded'[s] = recorded[s]
      BY <2>1
      DEF Serve, RateLimitPassed, RateLimitRejected, BeginAcquired, BeginRefused,
          BeginReplays, BeginFails, LookupHit, LookupMiss, CallSucceeds, CallFails,
          StoreCached, Complete, Release, record, TypeOK
    <2> QED
      BY Zenon, <2>2, <2>3
  <1>2. pc'[s] = pc[s] /\ payload' = payload
    BY Zenon, ServeFrame
  <1>3. response[s] # None => /\ response[s] \in Requests /\ pc'[response[s]] \in Produced
                              /\ payload'[response[s]] = payload[s]
    BY Zenon, FromKept DEF AnswerInv, Traced
  <1> QED
    BY <1>1, <1>2, <1>3 DEF AnswerInv, Traced, Row, From

\* ... and of r itself.
LEMMA ServeOwn ==
    ASSUME TypeInv, AnswerInv, NEW r \in Requests, Serve(r)
    PROVE  Traced(r)' /\ Row(r)'
  <1> USE DEF store, request, wire
  <1>0. /\ TypeOK /\ pc[r] \in Stages /\ payload[r] \in Payloads /\ payload' = payload
        /\ recorded[r] = None /\ r # None
    <2>1. TypeOK /\ pc[r] \in Stages /\ payload' = payload /\ payload[r] \in Payloads
      BY Zenon, ServeFrame DEF TypeInv, Arrived, Stages
    <2>2. recorded[r] = None
      BY Zenon, <2>1 DEF AnswerInv, Row, Stages
    <2> QED
      BY Zenon, <2>1, <2>2, StoreOptions, GatewayOptions
  <1>1. ASSUME pc[r] \in Unanswered, response' = response, pc'[r] \in Unanswered,
               recorded' = recorded
        PROVE  Traced(r)' /\ Row(r)'
    BY Zenon, <1>0, <1>1 DEF AnswerInv, Traced, Row, Unanswered
  <1>2. ASSUME pc[r] \in Unanswered, response' = response, pc'[r] = "done",
               \/ recorded' = recorded
               \/ \E status \in {"failed", "rejected", "rate_limited"} :
                     recorded' = [recorded EXCEPT ![r] = status]
        PROVE  Traced(r)' /\ Row(r)'
    <2>1. response'[r] = None
      BY Zenon, <1>2 DEF AnswerInv, Traced
    <2>2. recorded'[r] \in {None, "failed", "rejected", "rate_limited"}
      BY Zenon, <1>0, <1>2 DEF TypeOK
    <2> QED
      BY Zenon, <1>0, <1>2, <2>1, <2>2 DEF Traced, Row, Unanswered
  <1>3. CASE RateLimitPassed(r) \/ BeginAcquired(r) \/ LookupMiss(r) \/ CallFails(r)
    <2>1. \E from, to \in Unanswered \cap Stages : Go(r, from, to)
      BY Zenon, <1>3 DEF RateLimitPassed, BeginAcquired, LookupMiss, CallFails, Unanswered, Stages
    <2>2. pc[r] \in Unanswered /\ pc'[r] \in Unanswered
      BY Zenon, <1>0, <2>1, GoFacts
    <2> QED
      BY Zenon, <1>1, <1>3, <2>2 DEF RateLimitPassed, BeginAcquired, LookupMiss, CallFails
  <1>4. CASE RateLimitRejected(r) \/ BeginRefused(r) \/ BeginFails(r) \/ Release(r)
    <2>1. \E from \in Unanswered \cap Stages : Go(r, from, "done")
      BY Zenon, <1>4 DEF RateLimitRejected, BeginRefused, BeginFails, Release, Unanswered, Stages
    <2>2. pc[r] \in Unanswered /\ pc'[r] = "done"
      BY Zenon, <1>0, <2>1, GoFacts
    <2>3. response' = response
      BY Zenon, <1>4 DEF RateLimitRejected, BeginRefused, BeginFails, Release
    <2>4. \/ recorded' = recorded
          \/ \E status \in {"failed", "rejected", "rate_limited"} :
                recorded' = [recorded EXCEPT ![r] = status]
      BY Zenon, <1>4 DEF RateLimitRejected, BeginRefused, BeginFails, Release, record
    <2> QED
      BY Zenon, <1>2, <2>2, <2>3, <2>4
  <1>5. CASE BeginReplays(r)
    <2>1. pc[r] = "begin" /\ pc'[r] = "done" /\ key[r] \in Keys
      BY Zenon, <1>0, <1>5, GoFacts DEF BeginReplays, TypeInv, Arrived, Stages
    <2> DEFINE x == entry[key[r]].response
    <2>2. entry[key[r]].state = "completed" /\ entry[key[r]].fingerprint = payload[r]
      BY Zenon, <1>0, <1>5, <2>1 DEF BeginReplays, Status, beginStatus, TypeOK, EntryType
    <2>3. x # None /\ From(x, payload[r])
      BY Zenon, <2>1, <2>2 DEF AnswerInv, Stored
    <2>4. /\ x # r /\ x \in Requests
          /\ pc'[x] \in Produced /\ payload'[x] = payload'[r]
      <3> HIDE DEF x
      <3>1. x \in Requests /\ pc'[x] \in Produced /\ payload'[x] = payload[r]
        BY Zenon, <2>3, FromKept
      <3> QED
        BY Zenon, <1>0, <2>1, <2>3, <3>1 DEF From, Produced
    <2>5. response'[r] = x
      BY Zenon, <1>0, <1>5 DEF BeginReplays, Respond, TypeOK
    <2>6. recorded'[r] \in {None, "idempotency_replay"}
      BY Zenon, <1>0, <1>5 DEF BeginReplays, record, TypeOK
    <2> HIDE DEF x
    <2> QED
      BY Zenon, <1>0, <2>1, <2>3, <2>4, <2>5, <2>6 DEF Traced, Row, Unanswered, From
  <1>6. CASE LookupHit(r)
    <2> DEFINE x == cached[payload[r]]
    <2>1. pc[r] = "lookup" /\ pc'[r] = "complete" /\ recorded' = recorded
      BY Zenon, <1>0, <1>6 DEF LookupHit, Go, TypeOK
    <2>2. x # None /\ From(x, payload[r])
      BY Zenon, <1>0, <1>6 DEF LookupHit, AnswerInv, Cached
    <2>3. response'[r] = x
      BY Zenon, <1>0, <1>6 DEF LookupHit, Respond, TypeOK
    <2> HIDE DEF x
    <2>4. x \in Requests /\ pc'[x] \in Produced /\ payload'[x] = payload[r]
      BY Zenon, <2>2, FromKept
    <2> QED
      BY Zenon, <1>0, <2>1, <2>2, <2>3, <2>4 DEF Traced, Row, Unanswered, From
  <1>7. CASE CallSucceeds(r)
    <2>1. pc'[r] \in {"store", "complete"} /\ recorded' = recorded
      BY Zenon, <1>0, <1>7, GoFacts DEF CallSucceeds, Stages
    <2>2. response'[r] = r
      BY Zenon, <1>0, <1>7 DEF CallSucceeds, Respond, TypeOK
    <2> QED
      BY Zenon, <1>0, <2>1, <2>2 DEF Traced, Row, Unanswered, From, Produced
  <1>8. ASSUME pc[r] \in {"store", "complete"}, response' = response
        PROVE  /\ response'[r] # None
               /\ response'[r] \in Requests /\ pc'[response'[r]] \in Produced
               /\ payload'[response'[r]] = payload'[r]
    <2>1. response[r] # None /\ From(response[r], payload[r])
      BY Zenon, <1>8 DEF AnswerInv, Traced
    <2> QED
      BY Zenon, <1>0, <1>8, <2>1, FromKept
  <1>9. CASE StoreCached(r)
    <2>1. pc[r] = "store" /\ pc'[r] = "complete" /\ recorded' = recorded /\ response' = response
      BY <1>0, <1>9, GoFacts DEF StoreCached, Stages
    <2> QED
      BY Zenon, <1>0, <1>8, <2>1 DEF Traced, Row, Unanswered, From
  <1>10. CASE Complete(r)
    <2>1. pc[r] = "complete" /\ pc'[r] = "done" /\ response' = response
      BY <1>0, <1>10, GoFacts DEF Complete, Stages
    <2>2. recorded'[r] \in {None, IF response[r] = r THEN "succeeded" ELSE "cache_hit"}
      BY Zenon, <1>0, <1>10 DEF Complete, record, TypeOK
    <2> QED
      BY Zenon, <1>0, <1>8, <2>1, <2>2 DEF Traced, Row, Unanswered, From
  <1> QED
    BY Zenon, <1>3, <1>4, <1>5, <1>6, <1>7, <1>9, <1>10 DEF Serve

\* What may run again after a step of r.
LEMMA ServeSent ==
    ASSUME TypeInv, AnswerInv, NEW r \in Requests, Serve(r), NEW s \in Requests
    PROVE  Sent(s)'
  <1> USE DEF store, request, wire
  <1>0. TypeOK /\ pc[r] \in Stages
    BY Zenon, ServeFrame DEF TypeInv
  <1> SUFFICES ASSUME <<s, "complete">> \in copies' PROVE response'[s] # None
    BY Zenon DEF Sent
  <1>1. CASE s # r
    <2>1. <<s, "complete">> \in copies
      BY <1>1, ServeWire
    <2>2. response'[s] = response[s]
      BY Zenon, <1>0, <1>1
      DEF Serve, RateLimitPassed, RateLimitRejected, BeginAcquired, BeginRefused,
          BeginReplays, BeginFails, LookupHit, LookupMiss, CallSucceeds, CallFails,
          StoreCached, Complete, Release, Respond, TypeOK
    <2> QED
      BY Zenon, <2>1, <2>2 DEF AnswerInv, Sent
  <1>2. CASE s = r
    <2>1. <<r, "complete">> \notin copies
      BY Zenon, <1>0 DEF TypeInv, Arrived, EndRepeats, Stages
    <2>2. pc[r] = "complete"
      BY Zenon, <1>2, <2>1, ServeWire
    <2>3. response[r] # None
      BY Zenon, <2>2 DEF AnswerInv, Traced
    <2>4. Complete(r)
      BY Zenon, <2>2
      DEF Serve, RateLimitPassed, RateLimitRejected, BeginAcquired, BeginRefused,
          BeginReplays, BeginFails, LookupHit, LookupMiss, CallSucceeds, CallFails,
          StoreCached, Release, Go
    <2> QED
      BY Zenon, <1>2, <2>3, <2>4 DEF Complete
  <1> QED
    BY Zenon, <1>1, <1>2

\* Steps that are not of a request: nothing is written.
LEMMA AnswersKept ==
    ASSUME TypeInv, AnswerInv, UNCHANGED <<payload, response, recorded, copies>>,
           \A r \in Requests : pc'[r] = pc[r],
           \A p \in Payloads : cached'[p] \in {cached[p], None},
           \A k \in Keys : \/ entry'[k].response = None /\ entry'[k].state # "completed"
                           \/ /\ entry'[k].response = entry[k].response
                              /\ entry'[k].fingerprint = entry[k].fingerprint
                              /\ entry'[k].state = entry[k].state
    PROVE  AnswerInv'
  <1>1. ASSUME NEW p \in Payloads PROVE Cached(p)'
    <2>1. Cached(p) /\ payload' = payload /\ cached'[p] \in {cached[p], None}
      BY Zenon DEF AnswerInv
    <2> QED
      BY <2>1 DEF Cached, From
  <1>2. ASSUME NEW k \in Keys PROVE Stored(k)'
    <2>1. Stored(k) /\ payload' = payload
      BY Zenon DEF AnswerInv
    <2> QED
      BY Zenon, <2>1 DEF Stored, From
  <1>3. ASSUME NEW r \in Requests PROVE Traced(r)' /\ Row(r)'
    <2>1. Traced(r) /\ Row(r)
      BY Zenon DEF AnswerInv
    <2> QED
      BY Zenon, <2>1 DEF Traced, Row, From
  <1> QED
    BY Zenon, <1>1, <1>2, <1>3 DEF AnswerInv, Sent

\* A repeated command writes again what its request wrote.
LEMMA AnswersAgain ==
    ASSUME TypeInv, AnswerInv, NEW r \in Requests, Again(r)
    PROVE  AnswerInv'
  <1>0. /\ TypeOK /\ Responses = Requests /\ payload[r] \in Payloads
        /\ UNCHANGED <<pc, payload, response, recorded, copies>>
        /\ \A k \in Keys : entry[k] \in EntryType
    BY Zenon, AgainFrame, GatewayOptions DEF TypeInv, TypeOK, Arrived
  <1>1. \A x, p : From(x, p)' <=> From(x, p)
    BY Zenon, <1>0 DEF From
  <1>2. \A s \in Requests : Traced(s)' /\ Row(s)' /\ Sent(s)'
    BY Zenon, <1>0, <1>1 DEF AnswerInv, Traced, Row, Sent
  <1>3. ASSUME NEW p \in Payloads PROVE Cached(p)'
    <2>1. cached'[p] = cached[p] \/ (p = payload[r] /\ cached'[p] = response[r])
      BY Zenon, <1>0
      DEF Again, BeginAgain, StoreAgain, CompleteAgain, ReleaseAgain, TypeOK
    <2> QED
      <3>1. /\ cached[p] # None => From(cached[p], p)
            /\ response[r] # None => From(response[r], payload[r])
        BY Zenon DEF AnswerInv, Cached, Traced
      <3> QED
        BY <1>0, <2>1, <3>1 DEF Cached, From
  <1>4. ASSUME NEW k \in Keys PROVE Stored(k)'
    <2>1. Stored(k)
      BY Zenon DEF AnswerInv
    <2>2. CASE entry'[k] = entry[k]
      BY Zenon, <1>1, <2>1, <2>2 DEF Stored
    <2>3. CASE entry'[k] # entry[k]
      <3>1. CASE BeginAgain(r)
        <4>1. entry'[k] = beginScript(entry[k], payload[r])
          BY Zenon, <1>0, <2>3, <3>1 DEF BeginAgain, Reserve, TypeOK
        <4>2. entry'[k].response = None /\ entry'[k].state = "pending"
          BY <2>3, <4>1 DEF beginScript
        <4> QED
          BY <4>2 DEF Stored
      <3>2. CASE CompleteAgain(r)
        <4>1. entry'[k] = completeScript(entry[k], payload[r], response[r])
          BY Zenon, <1>0, <2>3, <3>2 DEF CompleteAgain, Completes, Ends, TypeOK
        <4>2. response[r] # None /\ response[r] \in Responses
          BY Zenon, <1>0, <3>2 DEF CompleteAgain, Later, AnswerInv, Sent, TypeOK
        <4>3. entry'[k].response = response[r] /\ entry'[k].fingerprint = payload[r]
          BY <1>0, <2>3, <4>1, <4>2, ScriptAnswers
        <4>4. From(response[r], payload[r])'
          BY Zenon, <1>0, <4>2 DEF AnswerInv, Traced, From
        <4> QED
          BY Zenon, <1>0, <4>2, <4>3, <4>4 DEF Stored, From
      <3>3. CASE ReleaseAgain(r)
        <4>1. entry'[k] = releaseScript(entry[k], payload[r])
          BY Zenon, <1>0, <2>3, <3>3 DEF ReleaseAgain, Releases, Ends, TypeOK
        <4>2. entry'[k] = NoEntry
          BY Zenon, <2>3, <4>1 DEF releaseScript
        <4> QED
          BY <4>2 DEF Stored, NoEntry
      <3>4. ~StoreAgain(r)
        BY Zenon, <2>3 DEF StoreAgain
      <3> QED
        BY Zenon, <3>1, <3>2, <3>3, <3>4 DEF Again
    <2> QED
      BY Zenon, <2>2, <2>3
  <1> QED
    BY Zenon, <1>2, <1>3, <1>4 DEF AnswerInv

\* No answer and no record exists at the start.
LEMMA AnswerInit == Init => AnswerInv
  BY DEF Init, AnswerInv, Cached, Stored, Traced, Row, Sent, NoEntry, Produced

\* Every step of a request, of the store or of the clock keeps each answer
\* tied to a payload.
LEMMA AnswerStep == TypeInv /\ AnswerInv /\ [Next]_vars => AnswerInv'
  <1> USE DEF store, request, wire
  <1> SUFFICES ASSUME TypeInv, AnswerInv, [Next]_vars PROVE AnswerInv'
    BY Zenon
  <1>0. TypeOK /\ Responses = Requests
    BY Zenon, GatewayOptions DEF TypeInv
  <1>1. ASSUME NEW r \in Requests, Start(r) PROVE AnswerInv'
    <2>1. /\ pc[r] = "idle" /\ pc'[r] = "limit"
          /\ \A s \in Requests \ {r} : pc'[s] = pc[s] /\ payload'[s] = payload[s]
          /\ UNCHANGED <<cached, entry, response, recorded, copies>>
      BY <1>0, <1>1, GoFacts DEF Start, Stages, TypeOK
    <2>2. \A x : x \in Requests /\ pc[x] \in Produced =>
                  pc'[x] \in Produced /\ payload'[x] = payload[x]
      BY Zenon, <2>1 DEF Produced
    <2>3. \A p \in Payloads : Cached(p)'
      BY Zenon, <2>1, <2>2 DEF AnswerInv, Cached, From
    <2>4. \A k \in Keys : Stored(k)'
      BY Zenon, <2>1, <2>2 DEF AnswerInv, Stored, From
    <2>5. response[r] = None /\ recorded[r] = None
      BY Zenon, <2>1 DEF AnswerInv, Traced, Row, Unanswered
    <2>6. ASSUME NEW s \in Requests PROVE Traced(s)' /\ Row(s)'
      <3>1. CASE s = r
        BY Zenon, <2>1, <2>5, <3>1 DEF Traced, Row
      <3>2. CASE s # r
        BY <2>1, <2>2, <3>2 DEF AnswerInv, Traced, Row, From
      <3> QED
        BY Zenon, <3>1, <3>2
    <2> QED
      BY Zenon, <2>1, <2>3, <2>4, <2>6 DEF AnswerInv, Sent
  <1>2. ASSUME NEW r \in Requests, Serve(r) PROVE AnswerInv'
    BY Zenon, <1>2, ServeStored, ServeOthers, ServeOwn, ServeSent DEF AnswerInv
  <1>3. ASSUME NEW r \in Requests, Crash(r) PROVE AnswerInv'
    <2>1. /\ pc[r] \in Stages /\ pc'[r] = "crashed"
          /\ \A s \in Requests \ {r} : pc'[s] = pc[s]
          /\ UNCHANGED <<cached, entry, payload, response, recorded, copies>>
      BY Zenon, <1>0, <1>3 DEF Crash, Active, TypeOK
    <2>2. \A x : x \in Requests /\ pc[x] \in Produced => pc'[x] \in Produced
      BY Zenon, <2>1 DEF Produced
    <2>3. \A p \in Payloads : Cached(p)'
      BY Zenon, <2>1, <2>2 DEF AnswerInv, Cached, From
    <2>4. \A k \in Keys : Stored(k)'
      BY Zenon, <2>1, <2>2 DEF AnswerInv, Stored, From
    <2>5. recorded[r] = None
      BY Zenon, <2>1 DEF AnswerInv, Row, Stages
    <2>6. ASSUME NEW s \in Requests PROVE Traced(s)' /\ Row(s)'
      <3>1. CASE s = r
        BY Zenon, <2>1, <2>2, <2>5, <3>1 DEF AnswerInv, Traced, Row, From, Unanswered
      <3>2. CASE s # r
        BY <2>1, <2>2, <3>2 DEF AnswerInv, Traced, Row, From
      <3> QED
        BY Zenon, <3>1, <3>2
    <2> QED
      BY Zenon, <2>1, <2>3, <2>4, <2>6 DEF AnswerInv, Sent
  <1>4. ASSUME NEW k \in Keys, ResultExpires(k) PROVE AnswerInv'
    <2>1. \A j \in Keys : entry'[j] \in {entry[j], NoEntry}
      BY Zenon, <1>0, <1>4 DEF ResultExpires, TypeOK
    <2> QED
      BY <1>4, <2>1, AnswersKept DEF ResultExpires, NoEntry
  <1>5. ASSUME NEW p \in Payloads, CacheExpires(p) PROVE AnswerInv'
    BY Zenon, <1>0, <1>5, AnswersKept DEF CacheExpires, TypeOK
  <1>6. CASE Tick
    <2>1. ASSUME NEW k \in Keys
          PROVE  \/ entry'[k].response = None /\ entry'[k].state # "completed"
                 \/ /\ entry'[k].response = entry[k].response
                    /\ entry'[k].fingerprint = entry[k].fingerprint
                    /\ entry'[k].state = entry[k].state
      <3>1. entry'[k] = expire(entry[k]) /\ entry[k] \in EntryType
        BY Zenon, <1>0, <1>6 DEF Tick, TypeOK
      <3> QED
        BY <3>1, ExpireAnswers DEF NoEntry
    <2> QED
      BY Zenon, <1>6, <2>1, AnswersKept DEF Tick
  <1>7. CASE UNCHANGED vars
    BY Zenon, <1>7, AnswersKept DEF vars
  <1>8. ASSUME NEW r \in Requests, Again(r) PROVE AnswerInv'
    BY Zenon, <1>8, AnswersAgain
  <1> QED
    BY Zenon, <1>1, <1>2, <1>3, <1>4, <1>5, <1>6, <1>7, <1>8 DEF Next

\* The answer invariant holds in every reachable state, whatever the timing.
LEMMA AnswersTraced == Spec => []AnswerInv
  BY AnswerInit, AnswerStep, TypeCorrect, PTL DEF Spec, TypeInv

\* Whatever Redis calls fail, take effect unnoticed, run again or come after the
\* lock has expired, and whatever processes crash, no client gets a response that was
\* produced for another payload, from the upstream, the cache or the replay.
THEOREM AnswersAreForThePayload == Spec => []AnswersMatchPayload
  <1>1. AnswerInv => AnswersMatchPayload
    BY Zenon DEF AnswerInv, Traced, From, AnswersMatchPayload
  <1> QED
    BY <1>1, AnswersTraced, PTL

\* Every row that Chat writes agrees with the answer of its request, and only
\* the request whose call produced the response is billed as succeeded.
THEOREM RowsMatchAnswers == Spec => []RecordMatchesAnswer
  <1>1. AnswerInv => RecordMatchesAnswer
    BY Zenon DEF AnswerInv, Row, RecordMatchesAnswer
  <1> QED
    BY <1>1, AnswersTraced, PTL

-----------------------------------------------------------------------------
(* Replay.  Without faults every request that passes Begin under a key      *)
(* holds the reservation, so the first success under the key is stored.     *)

\* The stored response of a key is the answer its clients got.
Completed(k) ==
    /\ entry[k].state = "completed" <=> answered[k] # NoAnswer
    /\ entry[k].state = "completed" =>
        /\ entry[k].ttl = 0
        /\ answered[k] = [payload |-> entry[k].fingerprint, response |-> entry[k].response]

\* What a request expects is what its key is answered with.
Expecting(r) ==
    /\ key[r] # None /\ pc[r] \in Holding => acquired[r]
    /\ pc[r] = "idle" => expected[r] = NoAnswer
    /\ expected[r] # NoAnswer =>
        /\ key[r] \in Keys /\ expected[r] = answered[key[r]]
        /\ expected[r].payload = payload[r]

Replayed(r) ==
    pc[r] = "done" /\ response[r] # None /\ expected[r] # NoAnswer
        => response[r] = expected[r].response

ReplayInv ==
    /\ \A k \in Keys : Completed(k)
    /\ \A r \in Requests : Expecting(r) /\ Replayed(r)
    /\ copies = {}

\* A request that expects an answer does not execute: its key is completed.
LEMMA ExpectingWaits ==
    ASSUME LockInv, ReplayInv, NEW r \in Requests, acquired[r]
    PROVE  /\ key[r] \in Keys /\ entry[key[r]].state = "pending"
           /\ entry[key[r]].fingerprint = payload[r]
           /\ answered[key[r]] = NoAnswer /\ expected[r] = NoAnswer
  <1>1. /\ key[r] \in Keys /\ entry[key[r]].state = "pending"
        /\ entry[key[r]].fingerprint = payload[r]
    <2>1. r \notin robbed
      BY DEF LockInv, OneRunner, EndRepeats, ReplayInv
    <2> QED
      BY Zenon, <2>1 DEF LockInv, LockOutlives, reservedFor
  <1>2. answered[key[r]] = NoAnswer
    <2>1. Completed(key[r])
      BY Zenon, <1>1 DEF ReplayInv
    <2> QED
      BY Zenon, <1>1, <2>1 DEF Completed
  <1> QED
    BY Zenon, <1>1, <1>2 DEF ReplayInv, Expecting

\* A step that answers nobody and completes no key.
LEMMA ReplayFrame ==
    ASSUME LockInv, ReplayInv, NEW r \in Requests,
           UNCHANGED <<key, payload, expected, answered, copies>>,
           \A s \in Requests \ {r} : /\ pc'[s] = pc[s] /\ acquired'[s] = acquired[s]
                                     /\ response'[s] = response[s],
           pc'[r] # "idle", key[r] # None /\ pc'[r] \in Holding => acquired'[r],
           pc'[r] = "done" => response'[r] = None \/ expected[r] = NoAnswer,
           \A k \in Keys : \/ entry'[k] = entry[k]
                           \/ entry[k].state # "completed" /\ entry'[k].state # "completed"
    PROVE  ReplayInv'
  <1>1. ASSUME NEW k \in Keys PROVE Completed(k)'
    <2>1. Completed(k)
      BY Zenon DEF ReplayInv
    <2>2. CASE entry'[k] = entry[k]
      BY Zenon, <2>1, <2>2 DEF Completed
    <2>3. CASE entry[k].state # "completed" /\ entry'[k].state # "completed"
      BY Zenon, <2>1, <2>3 DEF Completed
    <2> QED
      BY Zenon, <2>2, <2>3
  <1>2. ASSUME NEW s \in Requests PROVE Expecting(s)' /\ Replayed(s)'
    <2>1. Expecting(s) /\ Replayed(s)
      BY Zenon DEF ReplayInv
    <2>2. CASE s = r
      BY Zenon, <2>1, <2>2 DEF Expecting, Replayed
    <2>3. CASE s # r
      BY Zenon, <2>1, <2>3 DEF Expecting, Replayed
    <2> QED
      BY Zenon, <2>2, <2>3
  <1> QED
    BY Zenon, <1>1, <1>2 DEF ReplayInv

\* Without store faults every step of a request keeps the replay invariant.
LEMMA ReplayServe ==
    ASSUME Faults = FALSE, LockInv, AnswerInv, ReplayInv, NEW r \in Requests, Serve(r)
    PROVE  ReplayInv'
  <1> USE DEF store, request, wire
  <1>0. /\ TypeOK /\ TypeInv /\ pc[r] \in Stages /\ pc'[r] # "idle"
        /\ payload[r] \in Payloads /\ key' = key /\ payload' = payload
        /\ \A s \in Requests \ {r} : pc'[s] = pc[s] /\ acquired'[s] = acquired[s]
        /\ \A k \in Keys : entry[k] \in EntryType
    BY Zenon, ServeFrame DEF LockInv, TypeInv, Arrived, TypeOK, Stages
  <1>1. \A s \in Requests \ {r} : response'[s] = response[s]
    BY Zenon, <1>0
    DEF Serve, RateLimitPassed, RateLimitRejected, BeginAcquired, BeginRefused,
        BeginReplays, BeginFails, LookupHit, LookupMiss, CallSucceeds, CallFails,
        StoreCached, Complete, Release, Respond, TypeOK
  <1>2. expected' = expected /\ copies' = copies
    BY Zenon DEF Serve, RateLimitPassed, RateLimitRejected, BeginAcquired, BeginRefused,
        BeginReplays, BeginFails, LookupHit, LookupMiss, CallSucceeds, CallFails,
        StoreCached, Complete, Release, completeIdempotency, releaseIdempotency, MayRepeat
  <1>3. CASE RateLimitPassed(r)
    <2>1. /\ pc'[r] = IF key[r] = None THEN "lookup" ELSE "begin"
          /\ UNCHANGED <<entry, answered>>
      BY Zenon, <1>0, <1>3 DEF RateLimitPassed, Go, TypeOK
    <2> QED
      BY Zenon, <1>0, <1>1, <1>2, <2>1, ReplayFrame DEF Holding
  <1>4. CASE RateLimitRejected(r) \/ BeginRefused(r)
    <2>1. /\ pc[r] \in {"limit", "begin"} /\ pc'[r] = "done"
          /\ UNCHANGED <<entry, answered, response>>
      BY Zenon, <1>0, <1>4 DEF RateLimitRejected, BeginRefused, Go, TypeOK
    <2>2. response[r] = None
      BY Zenon, <2>1 DEF AnswerInv, Traced, Unanswered
    <2> QED
      BY Zenon, <1>0, <1>1, <1>2, <2>1, <2>2, ReplayFrame DEF Holding
  <1>5. CASE BeginAcquired(r)
    <2>1. pc[r] = "begin" /\ pc'[r] = "lookup" /\ acquired'[r] /\ answered' = answered
      BY Zenon, <1>0, <1>5 DEF BeginAcquired, Go, TypeOK
    <2>2. key[r] \in Keys
      BY Zenon, <1>0, <2>1 DEF TypeInv, Arrived
    <2>3. entry[key[r]].state = "absent"
      BY Zenon, <1>0, <1>5, <2>2 DEF BeginAcquired, Status, beginStatus, TypeOK, EntryType
    <2>4. ASSUME NEW k \in Keys
          PROVE  \/ entry'[k] = entry[k]
                 \/ entry[k].state # "completed" /\ entry'[k].state # "completed"
      <3>1. entry'[k] = IF k = key[r] THEN beginScript(entry[k], payload[r]) ELSE entry[k]
        BY Zenon, <1>0, <1>5 DEF BeginAcquired, Reserve, TypeOK
      <3> QED
        BY <2>3, <3>1 DEF beginScript
    <2> QED
      BY Zenon, <1>0, <1>1, <1>2, <2>1, <2>4, ReplayFrame
  <1>6. CASE BeginReplays(r)
    <2>1. pc[r] = "begin" /\ pc'[r] = "done" /\ acquired' = acquired /\ entry' = entry
      BY Zenon, <1>0, <1>6 DEF BeginReplays, Go, TypeOK
    <2>2. key[r] \in Keys
      BY Zenon, <1>0, <2>1 DEF TypeInv, Arrived
    <2>3. entry[key[r]].state = "completed" /\ response'[r] = entry[key[r]].response
      BY Zenon, <1>0, <1>6, <2>2
      DEF BeginReplays, Status, beginStatus, Respond, TypeOK, EntryType
    <2>4. /\ answered[key[r]] # NoAnswer
          /\ answered[key[r]].response = entry[key[r]].response
      <3>1. Completed(key[r])
        BY Zenon, <2>2 DEF ReplayInv
      <3> QED
        BY <2>3, <3>1 DEF Completed
    <2>5. answered' = answered
      BY Zenon, <1>6, <2>4 DEF BeginReplays, Answers
    <2>6. \A k \in Keys : Completed(k)'
      BY Zenon, <2>1, <2>5 DEF ReplayInv, Completed
    <2>7. ASSUME NEW s \in Requests PROVE Expecting(s)' /\ Replayed(s)'
      <3>1. Expecting(s) /\ Replayed(s)
        BY Zenon DEF ReplayInv
      <3>2. CASE s = r
        BY Zenon, <1>0, <1>2, <2>1, <2>3, <2>4, <2>5, <3>1, <3>2 DEF Expecting, Replayed, Holding
      <3>3. CASE s # r
        BY Zenon, <1>0, <1>1, <1>2, <2>1, <2>5, <3>1, <3>3 DEF Expecting, Replayed
      <3> QED
        BY Zenon, <3>2, <3>3
    <2> QED
      BY Zenon, <1>2, <2>6, <2>7 DEF ReplayInv
  <1>7. CASE LookupHit(r) \/ LookupMiss(r) \/ CallSucceeds(r) \/ CallFails(r) \/ StoreCached(r)
    <2>1. /\ pc[r] \in Holding /\ pc'[r] \in Holding
          /\ UNCHANGED <<entry, answered, acquired>>
      BY Zenon, <1>0, <1>7
      DEF LookupHit, LookupMiss, CallSucceeds, CallFails, StoreCached, Go, Holding, TypeOK
    <2>2. key[r] # None => acquired'[r]
      BY Zenon, <2>1 DEF ReplayInv, Expecting
    <2> QED
      BY Zenon, <1>0, <1>1, <1>2, <2>1, <2>2, ReplayFrame DEF Holding
  <1>8. CASE Release(r)
    <2>1. /\ pc[r] = "release" /\ pc'[r] = "done" /\ UNCHANGED <<response, answered>>
          /\ (acquired[r] /\ Releases(r)) \/ entry' = entry
      BY Zenon, <1>0, <1>8 DEF Release, releaseIdempotency, Go, TypeOK
    <2>2. response[r] = None
      BY Zenon, <2>1 DEF AnswerInv, Traced, Unanswered
    <2>3. ASSUME NEW k \in Keys
          PROVE  \/ entry'[k] = entry[k]
                 \/ entry[k].state # "completed" /\ entry'[k].state # "completed"
      <3>1. entry'[k] \in {entry[k], releaseScript(entry[k], payload[r])}
        BY Zenon, <1>0, <2>1 DEF Releases, Ends, TypeOK
      <3> QED
        BY <3>1 DEF releaseScript, reservedFor, NoEntry
    <2> QED
      BY Zenon, <1>0, <1>1, <1>2, <2>1, <2>2, <2>3, ReplayFrame DEF Holding
  <1>9. CASE Complete(r)
    <2>1. /\ pc[r] = "complete" /\ pc'[r] = "done" /\ response' = response
          /\ response[r] # None /\ response[r] \in Requests
      BY Zenon, <1>0, <1>9 DEF Complete, Go, TypeOK, AnswerInv, Traced
    <2>2. CASE ~acquired[r]
      <3>1. key[r] = None
        BY Zenon, <2>1, <2>2 DEF ReplayInv, Expecting, Holding
      <3>2. UNCHANGED <<entry, answered>>
        BY Zenon, <1>9, <2>2, <3>1 DEF Complete, completeIdempotency, Answers
      <3>3. expected[r] = NoAnswer
        BY Zenon, <3>1, GatewayOptions DEF ReplayInv, Expecting
      <3> QED
        BY Zenon, <1>0, <1>1, <1>2, <2>1, <3>2, <3>3, ReplayFrame DEF Holding
    <2>3. CASE acquired[r]
      <3>1. /\ key[r] \in Keys /\ key[r] # None
            /\ entry[key[r]].state = "pending" /\ entry[key[r]].fingerprint = payload[r]
            /\ answered[key[r]] = NoAnswer /\ expected[r] = NoAnswer
        BY Zenon, <2>3, ExpectingWaits, GatewayOptions
      <3> DEFINE a == [payload |-> payload[r], response |-> response[r]]
      <3>2. entry' = [entry EXCEPT ![key[r]] = completeScript(@, payload[r], response[r])]
        BY Zenon, <1>9, <2>3 DEF Complete, completeIdempotency, Completes, Ends
      <3>3. answered' = [answered EXCEPT ![key[r]] = a]
        BY Zenon, <1>9, <2>1, <3>1 DEF Complete, Answers
      <3>4. a # NoAnswer /\ a.payload = payload[r] /\ a.response = response[r]
        BY Zenon, <1>0, StoreOptions DEF NoAnswer
      <3>5. ASSUME NEW k \in Keys PROVE Completed(k)'
        <4>1. CASE k = key[r]
          <5>1. entry'[k] = [entry[k] EXCEPT !.state = "completed",
                                             !.response = response[r], !.ttl = 0]
            BY Zenon, <1>0, <3>1, <3>2, <4>1 DEF TypeOK, completeScript, reservedFor
          <5>2. /\ entry'[k].state = "completed" /\ entry'[k].ttl = 0
                /\ entry'[k].fingerprint = payload[r] /\ entry'[k].response = response[r]
            BY Zenon, <1>0, <3>1, <4>1, <5>1 DEF EntryType
          <5>3. answered'[k] = a
            BY Zenon, <1>0, <3>1, <3>3, <4>1 DEF TypeOK
          <5> QED
            BY Zenon, <3>4, <5>2, <5>3 DEF Completed, NoAnswer
        <4>2. CASE k # key[r]
          <5>1. entry'[k] = entry[k] /\ answered'[k] = answered[k]
            BY Zenon, <1>0, <3>2, <3>3, <4>2 DEF TypeOK
          <5> QED
            BY Zenon, <5>1 DEF ReplayInv, Completed
        <4> QED
          BY Zenon, <4>1, <4>2
      <3>6. \A s \in Requests : expected[s] # NoAnswer /\ key[s] \in Keys =>
                                  key[s] # key[r] /\ answered'[key[s]] = answered[key[s]]
        BY <1>0, <3>1, <3>3 DEF ReplayInv, Expecting, TypeOK
      <3>7. ASSUME NEW s \in Requests PROVE Expecting(s)' /\ Replayed(s)'
        <4>1. Expecting(s) /\ Replayed(s)
          BY Zenon DEF ReplayInv
        <4>2. CASE s = r
          BY Zenon, <1>0, <1>2, <2>1, <3>1, <4>1, <4>2 DEF Expecting, Replayed, Holding
        <4>3. CASE s # r
          BY Zenon, <1>0, <1>1, <1>2, <3>6, <4>1, <4>3 DEF Expecting, Replayed
        <4> QED
          BY Zenon, <4>2, <4>3
      <3> QED
        BY Zenon, <1>2, <3>5, <3>7 DEF ReplayInv
    <2> QED
      BY Zenon, <2>2, <2>3
  <1>10. ~BeginFails(r)
    BY Zenon DEF BeginFails
  <1> QED
    BY Zenon, <1>3, <1>4, <1>5, <1>6, <1>7, <1>8, <1>9, <1>10 DEF Serve

\* Nothing has completed at the start.
LEMMA ReplayInit == Init => ReplayInv
  BY DEF Init, ReplayInv, Completed, Expecting, Replayed, NoEntry, Holding

\* Without store faults every step keeps the replay invariant.
LEMMA ReplayStep ==
    ASSUME Faults = FALSE
    PROVE  LockInv /\ AnswerInv /\ ReplayInv /\ [Next]_vars => ReplayInv'
  <1> USE DEF store, request, wire
  <1> SUFFICES ASSUME LockInv, AnswerInv, ReplayInv, [Next]_vars PROVE ReplayInv'
    BY Zenon
  <1>0. TypeOK
    BY Zenon DEF LockInv, TypeInv
  <1>1. ASSUME NEW r \in Requests, Start(r) PROVE ReplayInv'
    <2>1. PICK k \in Keys \union {None}, p \in Payloads :
              /\ key' = [key EXCEPT ![r] = k]
              /\ payload' = [payload EXCEPT ![r] = p]
              /\ expected' = IF k = None \/ answered[k].payload # p THEN expected
                             ELSE [expected EXCEPT ![r] = answered[k]]
      BY Zenon, <1>1 DEF Start
    <2>2. /\ pc[r] = "idle" /\ pc'[r] = "limit"
          /\ \A s \in Requests \ {r} : pc'[s] = pc[s]
          /\ UNCHANGED <<entry, acquired, response, answered, copies>>
      BY Zenon, <1>0, <1>1, GoFacts DEF Start, Stages
    <2>3. \A j \in Keys : Completed(j)'
      BY Zenon, <2>2 DEF ReplayInv, Completed
    <2>4. ASSUME NEW s \in Requests PROVE Expecting(s)' /\ Replayed(s)'
      <3>1. Expecting(s) /\ Replayed(s)
        BY Zenon DEF ReplayInv
      <3>2. CASE s = r
        <4>1. key'[s] = k /\ payload'[s] = p /\ expected[s] = NoAnswer
          BY Zenon, <1>0, <2>1, <2>2, <3>1, <3>2 DEF TypeOK, Expecting
        <4>2. expected'[s] = IF k = None \/ answered[k].payload # p THEN NoAnswer
                             ELSE answered[k]
          BY Zenon, <1>0, <2>1, <3>2, <4>1 DEF TypeOK
        <4> QED
          BY Zenon, <2>1, <2>2, <3>2, <4>1, <4>2 DEF Expecting, Replayed, Holding
      <3>3. CASE s # r
        <4>1. key'[s] = key[s] /\ payload'[s] = payload[s] /\ expected'[s] = expected[s]
          BY Zenon, <1>0, <2>1, <3>3 DEF TypeOK
        <4> QED
          BY Zenon, <2>2, <3>1, <3>3, <4>1 DEF Expecting, Replayed
      <3> QED
        BY Zenon, <3>2, <3>3
    <2> QED
      BY Zenon, <2>2, <2>3, <2>4 DEF ReplayInv
  <1>2. ASSUME NEW r \in Requests, Serve(r) PROVE ReplayInv'
    BY Zenon, <1>2, ReplayServe
  <1>3. ASSUME NEW r \in Requests, Crash(r) PROVE ReplayInv'
    BY Zenon, <1>3 DEF Crash
  <1>4. ASSUME NEW k \in Keys, ResultExpires(k) PROVE ReplayInv'
    <2>1. /\ entry'[k] = NoEntry /\ answered'[k] = NoAnswer
          /\ \A j \in Keys \ {k} : entry'[j] = entry[j] /\ answered'[j] = answered[j]
          /\ \A r \in Requests : expected'[r] = IF key[r] = k THEN NoAnswer ELSE expected[r]
          /\ UNCHANGED <<pc, key, payload, acquired, response, copies>>
      BY Zenon, <1>0, <1>4 DEF ResultExpires, TypeOK
    <2>2. ASSUME NEW j \in Keys PROVE Completed(j)'
      BY <2>1 DEF ReplayInv, Completed, NoEntry
    <2>3. ASSUME NEW r \in Requests PROVE Expecting(r)' /\ Replayed(r)'
      <3>1. Expecting(r) /\ Replayed(r)
        BY Zenon DEF ReplayInv
      <3> QED
        BY Zenon, <2>1, <3>1 DEF Expecting, Replayed
    <2> QED
      BY Zenon, <2>1, <2>2, <2>3 DEF ReplayInv
  <1>5. ASSUME NEW p \in Payloads, CacheExpires(p) PROVE ReplayInv'
    BY Zenon, <1>5 DEF CacheExpires, ReplayInv, Completed, Expecting, Replayed
  <1>6. CASE Tick
    <2>1. ASSUME NEW k \in Keys PROVE Completed(k)'
      <3>1. /\ entry'[k] = expire(entry[k]) /\ entry[k] \in EntryType /\ Completed(k)
            /\ answered' = answered
        BY Zenon, <1>0, <1>6 DEF Tick, TypeOK, ReplayInv
      <3>2. CASE entry[k].state = "completed"
        <4>1. entry'[k] = entry[k]
          BY <3>1, <3>2 DEF Completed, expire
        <4> QED
          BY Zenon, <3>1, <4>1 DEF Completed
      <3>3. CASE entry[k].state # "completed"
        <4>1. entry'[k].state # "completed"
          BY <3>1, <3>3, ExpireAnswers DEF NoEntry
        <4> QED
          BY Zenon, <3>1, <3>3, <4>1 DEF Completed
      <3> QED
        BY Zenon, <3>2, <3>3
    <2>2. \A r \in Requests : Expecting(r)' /\ Replayed(r)'
      BY Zenon, <1>6 DEF Tick, ReplayInv, Expecting, Replayed
    <2> QED
      BY Zenon, <1>6, <2>1, <2>2 DEF Tick, ReplayInv
  <1>7. CASE UNCHANGED vars
    BY Zenon, <1>7 DEF vars, ReplayInv, Completed, Expecting, Replayed
  <1>8. ASSUME NEW r \in Requests, Again(r) PROVE ReplayInv'
    BY Zenon, <1>8, AgainFrame DEF ReplayInv
  <1> QED
    BY Zenon, <1>1, <1>2, <1>3, <1>4, <1>5, <1>6, <1>7, <1>8 DEF Next

\* With a lock TTL that outlives the work and with Redis answering, a request
\* that arrives after a client got an answer under its key and payload, and
\* succeeds before that answer expires, gets the same answer
\* (Begin and Complete in redis.go, the replay in Chat; README.md:213).
THEOREM AnswersAreReplayed ==
    ASSUME LockLongEnough, Faults = FALSE
    PROVE  Spec => []CompletedReplayed
  <1>1. ReplayInv => CompletedReplayed
    BY Zenon DEF ReplayInv, Replayed, CompletedReplayed
  <1>2. Spec => []ReplayInv
    BY ReplayInit, ReplayStep, LockInvariant, AnswersTraced, PTL DEF Spec
  <1> QED
    BY <1>1, <1>2, PTL
=============================================================================
