-------------------------- MODULE MapsAdapterProofs --------------------------
(***************************************************************************)
(* The circuit and the cache of a maps adapter, for any thresholds and     *)
(* periods and any number of callers, queries and kinds of failure.        *)
(***************************************************************************)
EXTENDS MapsAdapter, TLAPS

\* updateCircuitState takes a sound circuit to a sound circuit.
LEMMA UpdateKeepsSound ==
    ASSUME NEW c \in Circuit, Sound(c)
    PROVE  updateCircuitState(c) \in Circuit /\ Sound(updateCircuitState(c))
<1> USE BreakerConfig DEF Circuit, CircuitState, Sound
<1>1. CASE c.state = "OPEN" /\ c.untilAttempt = 0
  <2> DEFINE n == [c EXCEPT !.state = "HALF_OPEN", !.successes = 0]
  <2>1. updateCircuitState(c) = n BY <1>1 DEF updateCircuitState
  <2>2. n \in Circuit OBVIOUS
  <2>3. Sound(n) OBVIOUS
  <2> QED BY <2>1, <2>2, <2>3
<1>2. CASE ~(c.state = "OPEN" /\ c.untilAttempt = 0) /\ c.sinceFailure > MonitoringPeriod
  <2> DEFINE n == [c EXCEPT !.failures = 0]
  <2>1. updateCircuitState(c) = n BY <1>2 DEF updateCircuitState
  <2>2. n \in Circuit OBVIOUS
  <2>3. Sound(n) OBVIOUS
  <2> QED BY <2>1, <2>2, <2>3
<1>3. CASE ~(c.state = "OPEN" /\ c.untilAttempt = 0) /\ ~(c.sinceFailure > MonitoringPeriod)
  BY <1>3 DEF updateCircuitState
<1> QED BY <1>1, <1>2, <1>3

\* onSuccess takes a sound circuit to a sound circuit.
LEMMA SuccessKeepsSound ==
    ASSUME NEW c \in Circuit, Sound(c)
    PROVE  onSuccess(c) \in Circuit /\ Sound(onSuccess(c))
<1> USE BreakerConfig DEF Circuit, CircuitState, Sound
<1>1. CASE c.state # "HALF_OPEN"
  <2> DEFINE n == [c EXCEPT !.failures = IF @ = 0 THEN 0 ELSE @ - 1]
  <2>1. onSuccess(c) = n BY <1>1 DEF onSuccess
  <2>2. n \in Circuit OBVIOUS
  <2>3. Sound(n) BY <1>1
  <2> QED BY <2>1, <2>2, <2>3
<1>2. CASE c.state = "HALF_OPEN" /\ c.successes + 1 >= SuccessThreshold
  <2> DEFINE n == [c EXCEPT !.state = "CLOSED", !.failures = 0, !.successes = 0]
  <2>1. onSuccess(c) = n BY <1>2 DEF onSuccess, resetCircuit
  <2>2. n \in Circuit OBVIOUS
  <2>3. Sound(n) OBVIOUS
  <2> QED BY <2>1, <2>2, <2>3
<1>3. CASE c.state = "HALF_OPEN" /\ ~(c.successes + 1 >= SuccessThreshold)
  <2> DEFINE n == [c EXCEPT !.successes = @ + 1]
  <2>1. onSuccess(c) = n BY <1>3 DEF onSuccess
  <2>2. n \in Circuit OBVIOUS
  <2>3. Sound(n) BY <1>3
  <2> QED BY <2>1, <2>2, <2>3
<1> QED BY <1>1, <1>2, <1>3

\* onFailure takes a sound circuit to a sound circuit.
LEMMA FailureKeepsSound ==
    ASSUME NEW c \in Circuit, Sound(c)
    PROVE  onFailure(c) \in Circuit /\ Sound(onFailure(c))
<1> USE BreakerConfig DEF Circuit, CircuitState, Sound
<1> DEFINE counted == [c EXCEPT !.failures = @ + 1, !.sinceFailure = 0]
<1>0. /\ c.failures + 1 \in Nat
      /\ 0 \in 0..(MonitoringPeriod + 1)
      /\ ResetTimeout \in 0..ResetTimeout
  OBVIOUS
<1>1. counted \in Circuit
  <2> DEFINE more == c.failures + 1
  <2>1. counted = [c EXCEPT !.failures = more, !.sinceFailure = 0] OBVIOUS
  <2>2. more \in Nat BY <1>0
  <2> HIDE DEF more
  <2> QED BY <1>0, <2>1, <2>2
<1>2. CASE c.state = "HALF_OPEN" \/ counted.failures >= FailureThreshold
  <2> DEFINE n == [counted EXCEPT !.state = "OPEN", !.untilAttempt = ResetTimeout]
  <2>1. onFailure(c) = n BY <1>2 DEF onFailure, tripCircuit
  <2>2. n \in Circuit BY <1>0, <1>1
  <2>3. Sound(n) OBVIOUS
  <2> QED BY <2>1, <2>2, <2>3
<1>3. CASE ~(c.state = "HALF_OPEN" \/ counted.failures >= FailureThreshold)
  <2>1. onFailure(c) = counted BY <1>3 DEF onFailure
  <2>2. Sound(counted) BY <1>3
  <2> QED BY <1>1, <2>1, <2>2
<1> QED BY <1>2, <1>3

\* Time takes a sound circuit to a sound circuit.
LEMMA AgeKeepsSound ==
    ASSUME NEW c \in Circuit, Sound(c)
    PROVE  aged(c) \in Circuit /\ Sound(aged(c))
<1> USE BreakerConfig DEF Circuit, CircuitState, Sound
<1>1. aged(c) \in Circuit
  <2> DEFINE since == IF c.sinceFailure > MonitoringPeriod THEN c.sinceFailure
                      ELSE c.sinceFailure + 1
             until == IF c.untilAttempt = 0 THEN 0 ELSE c.untilAttempt - 1
  <2>1. since \in 0..(MonitoringPeriod + 1) /\ until \in 0..ResetTimeout
    OBVIOUS
  <2>2. aged(c) = [c EXCEPT !.sinceFailure = since, !.untilAttempt = until]
    BY DEF aged
  <2> HIDE DEF since, until
  <2> QED BY <2>1, <2>2
<1>2. Sound(aged(c)) BY DEF aged
<1> QED BY <1>1, <1>2

\* A new circuit is sound.
LEMMA NewCircuitIsSound == NewCircuit \in Circuit /\ Sound(NewCircuit)
BY BreakerConfig DEF NewCircuit, Circuit, CircuitState, Sound

-----------------------------------------------------------------------------
\* The cache keeps answers under the key of the query they were given to; that
\* a caller gets one with its own query's key needs this of the entry it is
\* served, and of its own query while it waits.  One that waits for its retry
\* timer has an attempt left.
EntriesUnderTheirKey == \A k \in Keys : cache[k] # None => KeyOf[cache[k].of] = k
Waiters ==
    \A c \in Calls : ~Idle(c) =>
        /\ call[c].query \in Queries
        /\ call[c].at = "waiting" => call[c].attempt < MaxAttempts

AdapterInv == /\ TypeOK
              /\ CircuitIsSound
              /\ EntriesUnderTheirKey
              /\ Waiters
              /\ AnswersShareTheKey

\* It holds initially.
LEMMA InitAdapter == Init => AdapterInv
<1> SUFFICES ASSUME Init PROVE AdapterInv OBVIOUS
<1> USE AdapterConfig, BreakerConfig
<1>1. TypeOK BY NewCircuitIsSound DEF Init, TypeOK, Call
<1>2. CircuitIsSound BY NewCircuitIsSound DEF Init, CircuitIsSound
<1>3. EntriesUnderTheirKey BY DEF Init, EntriesUnderTheirKey
<1>4. Waiters BY DEF Init, Waiters, Idle
<1>5. AnswersShareTheKey BY DEF Init, AnswersShareTheKey
<1> QED BY <1>1, <1>2, <1>3, <1>4, <1>5 DEF AdapterInv

\* A lookup leaves a well-typed cache whose entries are under their keys.
LEMMA LookedIsCache ==
    ASSUME TypeOK, EntriesUnderTheirKey, NEW k \in Keys
    PROVE  /\ Looked(k) \in [Keys -> Entry \cup {None}]
           /\ \A j \in Keys : Looked(k)[j] # None => KeyOf[Looked(k)[j].of] = j
BY DEF TypeOK, EntriesUnderTheirKey, Looked

\* So does storing an answer.
LEMMA StoredIsCache ==
    ASSUME TypeOK, EntriesUnderTheirKey, NEW q \in Queries
    PROVE  /\ Stored(q) \in [Keys -> Entry \cup {None}]
           /\ \A j \in Keys : Stored(q)[j] # None => KeyOf[Stored(q)[j].of] = j
<1> DEFINE e == [of |-> q, left |-> CacheTtl]
<1>1. e \in Entry /\ e.of = q BY AdapterConfig DEF Entry
<1>2. KeyOf[q] \in Keys BY DEF Keys
<1> HIDE DEF e
<1>3. Stored(q) = IF CacheEnabled THEN [cache EXCEPT ![KeyOf[q]] = e] ELSE cache
  BY DEF Stored, e
<1> QED BY <1>1, <1>2, <1>3 DEF TypeOK, EntriesUnderTheirKey

\* A caller that ends keeps its record well typed and the others' untouched.
LEMMA EndsCall ==
    ASSUME TypeOK, Waiters, AnswersShareTheKey,
           NEW c \in Calls, NEW q \in Queries, NEW n \in 0..MaxAttempts,
           NEW out \in Queries \cup Failures \cup {Unavailable},
           out \in Queries => KeyOf[out] = KeyOf[q],
           Ends(c, q, n, out)
    PROVE  call' \in [Calls -> Call] /\ Waiters' /\ AnswersShareTheKey'
<1> DEFINE f == [at |-> "idle", query |-> q, attempt |-> n, outcome |-> out]
<1>1. f \in Call BY DEF Call
<1>2. f.at = "idle" /\ f.query = q /\ f.outcome = out OBVIOUS
<1> HIDE DEF f
<1>3. call' = [call EXCEPT ![c] = f] BY DEF Ends, f
<1>4. call' \in [Calls -> Call] BY <1>1, <1>3 DEF TypeOK
<1>5. Waiters' BY <1>2, <1>3 DEF TypeOK, Waiters, Idle
<1>6. AnswersShareTheKey' BY <1>2, <1>3 DEF TypeOK, AnswersShareTheKey, Idle
<1> QED BY <1>4, <1>5, <1>6

\* A caller that waits on has no answer yet.
LEMMA WaitsCall ==
    ASSUME TypeOK, Waiters, AnswersShareTheKey,
           NEW c \in Calls, NEW f \in Call, f.at # "idle", f.query \in Queries,
           f.at = "waiting" => f.attempt < MaxAttempts,
           call' = [call EXCEPT ![c] = f]
    PROVE  call' \in [Calls -> Call] /\ Waiters' /\ AnswersShareTheKey'
<1>1. call' \in [Calls -> Call] BY DEF TypeOK
<1>2. Waiters' BY DEF TypeOK, Waiters, Idle
<1>3. AnswersShareTheKey' BY DEF TypeOK, AnswersShareTheKey, Idle
<1> QED BY <1>1, <1>2, <1>3

\* Every step keeps it.
LEMMA StepAdapter == AdapterInv /\ [Next]_vars => AdapterInv'
<1> SUFFICES ASSUME AdapterInv, [Next]_vars PROVE AdapterInv' OBVIOUS
<1> USE DEF AdapterInv
<1>0. circuit \in Circuit /\ Sound(circuit) BY DEF TypeOK, CircuitIsSound
<1>1. ASSUME NEW c \in Calls, NEW q \in Queries, ServedFromCache(c, q)
      PROVE  AdapterInv'
  <2> DEFINE out == cache[KeyOf[q]].of
  <2>1. KeyOf[q] \in Keys BY DEF Keys
  <2>2. out \in Queries /\ KeyOf[out] = KeyOf[q]
    BY <1>1, <2>1 DEF ServedFromCache, Fresh, TypeOK, Entry, EntriesUnderTheirKey
  <2>3. Ends(c, q, 0, out) /\ UNCHANGED <<circuit, cache>> BY <1>1 DEF ServedFromCache
  <2>4. 0 \in 0..MaxAttempts BY AdapterConfig
  <2> HIDE DEF out
  <2>5. call' \in [Calls -> Call] /\ Waiters' /\ AnswersShareTheKey'
    BY <2>2, <2>3, <2>4, EndsCall
  <2> QED BY <2>3, <2>5 DEF TypeOK, CircuitIsSound, EntriesUnderTheirKey
<1>2. ASSUME NEW c \in Calls, NEW q \in Queries, Rejected(c, q)
      PROVE  AdapterInv'
  <2>1. circuit' \in Circuit /\ Sound(circuit')
    BY <1>0, <1>2, UpdateKeepsSound DEF Rejected
  <2>2. KeyOf[q] \in Keys BY DEF Keys
  <2>3. cache' \in [Keys -> Entry \cup {None}] /\ EntriesUnderTheirKey'
    BY <1>2, <2>2, LookedIsCache DEF Rejected, EntriesUnderTheirKey
  <2>4. 0 \in 0..MaxAttempts /\ Unavailable \notin Queries BY AdapterConfig
  <2>5. call' \in [Calls -> Call] /\ Waiters' /\ AnswersShareTheKey'
    BY <1>2, <2>4, EndsCall DEF Rejected
  <2> QED BY <2>1, <2>3, <2>5 DEF TypeOK, CircuitIsSound
<1>3. ASSUME NEW c \in Calls, NEW q \in Queries, Admitted(c, q)
      PROVE  AdapterInv'
  <2> DEFINE f == [at |-> "asking", query |-> q, attempt |-> 1, outcome |-> None]
  <2>1. circuit' \in Circuit /\ Sound(circuit')
    BY <1>0, <1>3, UpdateKeepsSound DEF Admitted
  <2>2. KeyOf[q] \in Keys BY DEF Keys
  <2>3. cache' \in [Keys -> Entry \cup {None}] /\ EntriesUnderTheirKey'
    BY <1>3, <2>2, LookedIsCache DEF Admitted, EntriesUnderTheirKey
  <2>4. f \in Call /\ f.at = "asking" /\ f.query = q BY AdapterConfig DEF Call
  <2>5. call' = [call EXCEPT ![c] = f] BY <1>3 DEF Admitted
  <2> HIDE DEF f
  <2>6. call' \in [Calls -> Call] /\ Waiters' /\ AnswersShareTheKey'
    BY <2>4, <2>5, WaitsCall
  <2> QED BY <2>1, <2>3, <2>6 DEF TypeOK, CircuitIsSound
<1>4. ASSUME NEW c \in Calls, Answered(c)
      PROVE  AdapterInv'
  <2> DEFINE q == call[c].query
  <2>1. circuit' \in Circuit /\ Sound(circuit')
    BY <1>0, <1>4, SuccessKeepsSound DEF Answered
  <2>2. q \in Queries BY <1>4 DEF Answered, Waiters, Idle
  <2>3. cache' \in [Keys -> Entry \cup {None}] /\ EntriesUnderTheirKey'
    BY <1>4, <2>2, StoredIsCache DEF Answered, EntriesUnderTheirKey
  <2>4. call[c].attempt \in 0..MaxAttempts BY DEF TypeOK, Call
  <2>5. Ends(c, q, call[c].attempt, q) BY <1>4 DEF Answered
  <2>6. call' \in [Calls -> Call] /\ Waiters' /\ AnswersShareTheKey'
    BY <2>2, <2>4, <2>5, EndsCall
  <2> QED BY <2>1, <2>3, <2>6 DEF TypeOK, CircuitIsSound
<1>5. ASSUME NEW c \in Calls, NEW e \in Failures, AttemptFails(c, e)
      PROVE  AdapterInv'
  <2> DEFINE f == [call[c] EXCEPT !.at = "waiting"]
  <2>1. f \in Call /\ f.at = "waiting" /\ f.query \in Queries /\ f.attempt < MaxAttempts
    BY <1>5 DEF AttemptFails, TriesAgain, Waiters, Idle, TypeOK, Call
  <2>2. call' = [call EXCEPT ![c] = f] /\ UNCHANGED <<circuit, cache>>
    BY <1>5 DEF AttemptFails
  <2> HIDE DEF f
  <2>3. call' \in [Calls -> Call] /\ Waiters' /\ AnswersShareTheKey'
    BY <2>1, <2>2, WaitsCall
  <2> QED BY <2>2, <2>3 DEF TypeOK, CircuitIsSound, EntriesUnderTheirKey
<1>6. ASSUME NEW c \in Calls, RetryNow(c)
      PROVE  AdapterInv'
  <2> DEFINE next == call[c].attempt + 1
             f == [call[c] EXCEPT !.at = "asking", !.attempt = next]
  <2>1. next \in 0..MaxAttempts
    BY <1>6, AdapterConfig DEF RetryNow, Waiters, Idle, TypeOK, Call
  <2>2. call[c].query \in Queries BY <1>6 DEF RetryNow, Waiters, Idle
  <2>3. call' = [call EXCEPT ![c] = f] /\ UNCHANGED <<circuit, cache>>
    BY <1>6 DEF RetryNow
  <2> HIDE DEF next
  <2>4. f \in Call /\ f.at = "asking" /\ f.query \in Queries
    BY <2>1, <2>2 DEF TypeOK, Call
  <2> HIDE DEF f
  <2>5. call' \in [Calls -> Call] /\ Waiters' /\ AnswersShareTheKey'
    BY <2>3, <2>4, WaitsCall
  <2> QED BY <2>3, <2>5 DEF TypeOK, CircuitIsSound, EntriesUnderTheirKey
<1>7. ASSUME NEW c \in Calls, NEW e \in Failures, GivesUp(c, e)
      PROVE  AdapterInv'
  <2>1. circuit' \in Circuit /\ Sound(circuit')
    BY <1>0, <1>7, FailureKeepsSound DEF GivesUp
  <2>2. call[c].query \in Queries BY <1>7 DEF GivesUp, Waiters, Idle
  <2>3. call[c].attempt \in 0..MaxAttempts BY DEF TypeOK, Call
  <2>4. e \notin Queries BY AdapterConfig
  <2>5. Ends(c, call[c].query, call[c].attempt, e) /\ UNCHANGED cache
    BY <1>7 DEF GivesUp
  <2>6. call' \in [Calls -> Call] /\ Waiters' /\ AnswersShareTheKey'
    BY <2>2, <2>3, <2>4, <2>5, EndsCall
  <2> QED BY <2>1, <2>5, <2>6 DEF TypeOK, CircuitIsSound, EntriesUnderTheirKey
<1>8. CASE Tick
  <2>1. circuit' \in Circuit /\ Sound(circuit') BY <1>0, <1>8, AgeKeepsSound DEF Tick
  <2>2. \A k \in Keys : /\ cache'[k] \in Entry \cup {None}
                        /\ cache'[k] # None => KeyOf[cache'[k].of] = k
    <3> SUFFICES ASSUME NEW k \in Keys
                 PROVE  /\ cache'[k] \in Entry \cup {None}
                        /\ cache'[k] # None => KeyOf[cache'[k].of] = k
      OBVIOUS
    <3>1. CASE cache[k] = None \/ Expired(k)
      BY <1>8, <3>1 DEF Tick, TypeOK, EntriesUnderTheirKey
    <3>2. CASE ~(cache[k] = None \/ Expired(k))
      <4> DEFINE older == cache[k].left - 1
      <4>1. cache[k] \in Entry BY <3>2 DEF TypeOK
      <4>2. older \in -1..CacheTtl
        BY <3>2, <4>1, AdapterConfig DEF Expired, Entry
      <4>3. cache'[k] = [cache[k] EXCEPT !.left = older] BY <1>8, <3>2 DEF Tick
      <4> HIDE DEF older
      <4>4. cache'[k] \in Entry /\ cache'[k].of = cache[k].of
        BY <4>1, <4>2, <4>3 DEF Entry
      <4> QED BY <3>2, <4>4 DEF EntriesUnderTheirKey
    <3> QED BY <3>1, <3>2
  <2>3. cache' \in [Keys -> Entry \cup {None}] /\ EntriesUnderTheirKey'
    BY <1>8, <2>2 DEF Tick, EntriesUnderTheirKey
  <2> QED BY <1>8, <2>1, <2>3
      DEF Tick, TypeOK, CircuitIsSound, Waiters, AnswersShareTheKey, Idle
<1>9. CASE CleanExpired
  <2>1. cache' \in [Keys -> Entry \cup {None}] /\ EntriesUnderTheirKey'
    BY <1>9 DEF CleanExpired, TypeOK, EntriesUnderTheirKey
  <2> QED BY <1>9, <2>1
      DEF CleanExpired, TypeOK, CircuitIsSound, Waiters, AnswersShareTheKey, Idle
<1>10. CASE UNCHANGED vars
  BY <1>10 DEF vars, TypeOK, CircuitIsSound, EntriesUnderTheirKey,
               Waiters, AnswersShareTheKey, Idle
<1> QED
  BY <1>1, <1>2, <1>3, <1>4, <1>5, <1>6, <1>7, <1>8, <1>9, <1>10
  DEF Next, Asks, Proceeds, Fails

\* So it always holds.
LEMMA AdapterInvariant == Spec => []AdapterInv
BY InitAdapter, StepAdapter, PTL DEF Spec

\* A maps adapter's state is well typed; in particular no call makes more than
\* MaxAttempts attempts.
THEOREM TypeCorrect == Spec => []TypeOK
<1>1. AdapterInv => TypeOK BY DEF AdapterInv
<1> QED BY <1>1, AdapterInvariant, PTL

\* CircuitBreakerService's counters always agree with its state, for all
\* thresholds and periods and any number of late answers.
THEOREM CircuitStaysSound == Spec => []CircuitIsSound
<1>1. AdapterInv => CircuitIsSound BY DEF AdapterInv
<1> QED BY <1>1, AdapterInvariant, PTL

\* withCache never answers a query with an answer stored under another key.
THEOREM AnswersAlwaysShareTheKey == Spec => []AnswersShareTheKey
<1>1. AdapterInv => AnswersShareTheKey BY DEF AdapterInv
<1> QED BY <1>1, AdapterInvariant, PTL
=============================================================================
