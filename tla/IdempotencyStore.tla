-------------------------- MODULE IdempotencyStore --------------------------
(***************************************************************************)
(* internal/idempotency/redis.go: the three Lua scripts as functions on    *)
(* the hash stored under one scoped key.  Redis runs a script atomically.  *)
(* A fingerprint is the payload it is the digest of.                       *)
(***************************************************************************)
EXTENDS Integers

CONSTANTS
    Payloads,    \* request bodies of a client
    Responses,   \* stored responses
    LockTTL,     \* IDEMPOTENCY_LOCK_TTL, in ticks
    None         \* no payload, no response, no key

ASSUME StoreOptions ==
    /\ LockTTL \in Nat \ {0}
    /\ None \notin Payloads \union Responses

\* The hash under a key.  ttl is the time left of a reservation; completed
\* responses live for the much longer IDEMPOTENCY_TTL and expire on their own.
EntryType ==
    [state       : {"absent", "pending", "completed"},
     fingerprint : Payloads \union {None},
     response    : Responses \union {None},
     ttl         : 0..LockTTL]

NoEntry == [state |-> "absent", fingerprint |-> None, response |-> None, ttl |-> 0]

\* Faulty variant: the stored fingerprint is not compared.
beginStatus_NoConflict(e, fingerprint) ==
    CASE e.state = "absent"    -> "acquired"
      [] e.state = "completed" -> "completed"
      [] e.state = "pending"   -> "pending"

\* Faulty variant: a request in progress does not stop a second one.
beginStatus_Reenters(e, fingerprint) ==
    CASE e.state \in {"absent", "pending"}                    -> "acquired"
      [] e.state = "completed" /\ e.fingerprint # fingerprint -> "conflict"
      [] e.state = "completed" /\ e.fingerprint = fingerprint -> "completed"

\* The reply of beginScript ...
beginStatus(e, fingerprint) ==
    CASE e.state = "absent"                                     -> "acquired"
      [] e.state # "absent" /\ e.fingerprint # fingerprint      -> "conflict"
      [] e.state = "completed" /\ e.fingerprint = fingerprint   -> "completed"
      [] e.state = "pending" /\ e.fingerprint = fingerprint     -> "pending"

\* Faulty variant: PEXPIRE is forgotten.
beginScript_NoExpiry(e, fingerprint) ==
    IF e.state = "absent"
    THEN [state |-> "pending", fingerprint |-> fingerprint,
          response |-> None, ttl |-> 0]
    ELSE e

\* Faulty variant: the lock TTL is passed in the wrong unit.
beginScript_WrongUnit(e, fingerprint) ==
    IF e.state = "absent"
    THEN [state |-> "pending", fingerprint |-> fingerprint,
          response |-> None, ttl |-> 1000 * LockTTL]
    ELSE e

\* ... and what it leaves behind.
beginScript(e, fingerprint) ==
    IF e.state = "absent"
    THEN [state |-> "pending", fingerprint |-> fingerprint,
          response |-> None, ttl |-> LockTTL]
    ELSE e

\* The reservation is recognised by its fingerprint, not by its owner.
reservedFor(e, fingerprint) ==
    e.state = "pending" /\ e.fingerprint = fingerprint

completeScript(e, fingerprint, response) ==
    IF reservedFor(e, fingerprint)
    THEN [e EXCEPT !.state = "completed", !.response = response, !.ttl = 0]
    ELSE e

releaseScript(e, fingerprint) ==
    IF reservedFor(e, fingerprint) THEN NoEntry ELSE e

\* A tick of Redis's clock: a reservation whose time is up is gone.  A hash
\* without a TTL stays.
expire(e) ==
    CASE e.ttl > 1 -> [e EXCEPT !.ttl = @ - 1]
      [] e.ttl = 1 -> NoEntry
      [] e.ttl = 0 -> e
=============================================================================
