----------------------------- MODULE MapsAdapter -----------------------------
(***************************************************************************)
(* Calls of a maps adapter to the provider: BaseMapsAdapter wraps the HTTP *)
(* request of an operation in RetryService, that in CircuitBreakerService, *)
(* and that in the memory cache.                                           *)
(*                                                                         *)
(* Node runs to the next timer or socket event without interruption, so    *)
(* what a call does from its start, from the provider's answer or from its *)
(* retry timer to its next wait is one step.  Circuits are per operation   *)
(* and share nothing: one is enough.  The retry delay is jittered and its  *)
(* length left open, as is the time the provider takes; each attempt ends, *)
(* for axios is given a timeout.                                           *)
(***************************************************************************)
EXTENDS CircuitBreaker, MapsExceptions

CONSTANTS
    Calls,          \* callers that may have a call in flight
    Queries,        \* what may be asked of the provider
    KeyOf,          \* the cache key of each query
    Failures,       \* what an attempt may throw
    MaxAttempts,    \* RETRY_MAX_ATTEMPTS
    CacheEnabled,   \* MAPS_CACHE_ENABLED
    CacheTtl,       \* MAPS_CACHE_TTL
    None

VARIABLES
    circuit,   \* the CircuitInfo of the operation
    cache,     \* the entry of each key: whose answer it is, how long it lives
    call       \* what each caller waits for, and what came of its last call

vars == <<circuit, cache, call>>

Keys == {KeyOf[q] : q \in Queries}

ASSUME AdapterConfig ==
    /\ MaxAttempts \in Nat \ {0}
    /\ CacheEnabled \in BOOLEAN
    /\ CacheTtl \in Nat
    /\ None \notin Queries \cup Failures
    /\ Queries \cap (Failures \cup {Unavailable}) = {}
    /\ DOMAIN KeyOf = Queries

\* left = -1: expired and still in the map.
Entry == [of : Queries, left : -1..CacheTtl]

Call == [at      : {"idle", "asking", "waiting"},
         query   : Queries \cup {None},
         attempt : 0..MaxAttempts,
         outcome : Queries \cup Failures \cup {Unavailable, None}]

TypeOK ==
    /\ circuit \in Circuit
    /\ cache \in [Keys -> Entry \cup {None}]
    /\ call \in [Calls -> Call]

Init ==
    /\ circuit = NewCircuit
    /\ cache = [k \in Keys |-> None]
    /\ call = [c \in Calls |-> [at |-> "idle", query |-> None, attempt |-> 0,
                                outcome |-> None]]

-----------------------------------------------------------------------------
(* MemoryCacheService. *)

Fresh(k) == CacheEnabled /\ cache[k] # None /\ cache[k].left >= 0
Expired(k) == cache[k] # None /\ cache[k].left < 0

\* get drops the entry it finds expired.
Looked(k) == [cache EXCEPT ![k] = IF CacheEnabled /\ Expired(k) THEN None ELSE @]

\* Mutant: the key leaves the query out.
StoredForAll(q) == IF CacheEnabled
                   THEN [k \in Keys |-> [of |-> q, left |-> CacheTtl]]
                   ELSE cache

Stored(q) == IF CacheEnabled
             THEN [cache EXCEPT ![KeyOf[q]] = [of |-> q, left |-> CacheTtl]]
             ELSE cache

CleanExpired ==
    /\ \E k \in Keys : Expired(k)
    /\ cache' = [k \in Keys |-> IF Expired(k) THEN None ELSE cache[k]]
    /\ UNCHANGED <<circuit, call>>

-----------------------------------------------------------------------------
(* A call. *)

Idle(c) == call[c].at = "idle"
Ends(c, q, attempt, outcome) ==
    call' = [call EXCEPT ![c] = [at |-> "idle", query |-> q, attempt |-> attempt,
                                 outcome |-> outcome]]

ServedFromCache(c, q) ==
    /\ Idle(c)
    /\ Fresh(KeyOf[q])
    /\ Ends(c, q, 0, cache[KeyOf[q]].of)
    /\ UNCHANGED <<circuit, cache>>

\* Mutant: a rejected call makes the circuit wait anew.
RejectedProlongs(c, q) ==
    /\ Idle(c)
    /\ ~Fresh(KeyOf[q])
    /\ updateCircuitState(circuit).state = "OPEN"
    /\ circuit' = tripCircuit(circuit)
    /\ cache' = Looked(KeyOf[q])
    /\ Ends(c, q, 0, Unavailable)

Rejected(c, q) ==
    /\ Idle(c)
    /\ ~Fresh(KeyOf[q])
    /\ updateCircuitState(circuit).state = "OPEN"
    /\ circuit' = updateCircuitState(circuit)
    /\ cache' = Looked(KeyOf[q])
    /\ Ends(c, q, 0, Unavailable)

\* A half-open circuit admits every call, not one at a time.
Admitted(c, q) ==
    /\ Idle(c)
    /\ ~Fresh(KeyOf[q])
    /\ updateCircuitState(circuit).state # "OPEN"
    /\ circuit' = updateCircuitState(circuit)
    /\ cache' = Looked(KeyOf[q])
    /\ call' = [call EXCEPT ![c] = [at |-> "asking", query |-> q, attempt |-> 1,
                                    outcome |-> None]]

\* An answer of the provider, a refused address included.
Answered(c) ==
    LET q == call[c].query IN
    /\ call[c].at = "asking"
    /\ circuit' = onSuccess(circuit)
    /\ cache' = Stored(q)
    /\ Ends(c, q, call[c].attempt, q)

\* Mutant: one attempt too many.
TriesOnceMore(c, e) == call[c].attempt <= MaxAttempts /\ isGenericRetryableError(e)

TriesAgain(c, e) == call[c].attempt < MaxAttempts /\ isGenericRetryableError(e)

\* The circuit hears of the last attempt only.
AttemptFails(c, e) ==
    /\ call[c].at = "asking"
    /\ TriesAgain(c, e)
    /\ call' = [call EXCEPT ![c].at = "waiting"]
    /\ UNCHANGED <<circuit, cache>>

\* Mutant: attempts are not counted.
RetryNowUncounted(c) ==
    /\ call[c].at = "waiting"
    /\ call' = [call EXCEPT ![c].at = "asking"]
    /\ UNCHANGED <<circuit, cache>>

RetryNow(c) ==
    /\ call[c].at = "waiting"
    /\ call' = [call EXCEPT ![c].at = "asking", ![c].attempt = @ + 1]
    /\ UNCHANGED <<circuit, cache>>

GivesUp(c, e) ==
    /\ call[c].at = "asking"
    /\ ~TriesAgain(c, e)
    /\ circuit' = onFailure(circuit)
    /\ Ends(c, call[c].query, call[c].attempt, e)
    /\ UNCHANGED cache

Tick ==
    /\ circuit' = aged(circuit)
    /\ cache' = [k \in Keys |->
                   IF cache[k] = None \/ Expired(k) THEN cache[k]
                   ELSE [cache[k] EXCEPT !.left = @ - 1]]
    /\ UNCHANGED call

-----------------------------------------------------------------------------
Asks(c) == \E q \in Queries : ServedFromCache(c, q) \/ Rejected(c, q) \/ Admitted(c, q)
Fails(c) == \E e \in Failures : AttemptFails(c, e) \/ GivesUp(c, e)
Proceeds(c) == Answered(c) \/ Fails(c) \/ RetryNow(c)

Next == (\E c \in Calls : Asks(c) \/ Proceeds(c)) \/ Tick \/ CleanExpired

Spec == Init /\ [][Next]_vars

\* Attempts end and timers fire; time passes.  Nobody has to call.
FairSpec == Spec /\ (\A c \in Calls : WF_vars(Proceeds(c))) /\ WF_vars(Tick)

-----------------------------------------------------------------------------
\* The circuit's counters agree with its state after any mix of late answers,
\* late failures, probes and expiries.
CircuitIsSound == Sound(circuit)

\* A caller gets the answer to its own query or to one with the same cache key.
\* (optimizeRoute's key leaves the orders' ids out: see the README.)
AnswersShareTheKey ==
    \A c \in Calls : (Idle(c) /\ call[c].outcome \in Queries) =>
        KeyOf[call[c].outcome] = KeyOf[call[c].query]

\* Every call comes back, however often its attempts fail.
CallsEnd == \A c \in Calls : ~Idle(c) ~> Idle(c)

\* An open circuit becomes ready to test the provider again: neither the calls
\* it rejects nor those admitted before it opened keep it shut for ever.
OpenPeriodEnds ==
    circuit.state = "OPEN" ~> (circuit.state # "OPEN" \/ circuit.untilAttempt = 0)

\* When from some time on no attempt fails and the provider keeps being asked,
\* the circuit closes and stays closed.
RecoversWithTheProvider ==
    /\ <>[][~ \E c \in Calls : Fails(c)]_vars
    /\ []<>(\E c \in Calls : call[c].at = "asking")
    => <>[](circuit.state = "CLOSED")

\* An exception that declares itself worth another try (isRetryable) is given
\* up only after all the attempts the retry service allows.
RetryableIsRetried ==
    \A c \in Calls :
        (Idle(c) /\ call[c].attempt > 0 /\ call[c].outcome \in Failures
         /\ call[c].outcome.isRetryable)
        => call[c].attempt = MaxAttempts
=============================================================================
