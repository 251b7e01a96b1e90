---------------------------- MODULE CircuitBreaker ----------------------------
(***************************************************************************)
(* One circuit of CircuitBreakerService, as a record and what each of the  *)
(* service's methods makes of it.                                          *)
(*                                                                         *)
(* The service keeps two instants and compares them with the clock.  Only  *)
(* the distances matter, so they are kept instead: sinceFailure since      *)
(* lastFailureTime, which stops growing once it exceeds MonitoringPeriod,  *)
(* and untilAttempt to nextAttemptTime, which stops at zero.  A circuit    *)
(* that never failed is one whose last failure is out of the period.       *)
(***************************************************************************)
EXTENDS Integers

CONSTANTS
    FailureThreshold,   \* failures that open a closed circuit
    SuccessThreshold,   \* successes that close a half-open one
    ResetTimeout,       \* how long an open circuit rejects
    MonitoringPeriod    \* how long failures are remembered

ASSUME BreakerConfig ==
    /\ FailureThreshold \in Nat \ {0}
    /\ SuccessThreshold \in Nat \ {0}
    /\ ResetTimeout \in Nat
    /\ MonitoringPeriod \in Nat

CircuitState == {"CLOSED", "OPEN", "HALF_OPEN"}

Circuit == [state        : CircuitState,
            failures     : Nat,
            successes    : Nat,
            sinceFailure : 0..(MonitoringPeriod + 1),
            untilAttempt : 0..ResetTimeout]

NewCircuit == [state |-> "CLOSED", failures |-> 0, successes |-> 0,
               sinceFailure |-> MonitoringPeriod + 1, untilAttempt |-> 0]

\* Mutant: any call that finds the circuit half-open starts the probes afresh.
updateCircuitStateAfresh(c) ==
    IF c.state # "CLOSED" /\ c.untilAttempt = 0
    THEN [c EXCEPT !.state = "HALF_OPEN", !.successes = 0]
    ELSE IF c.sinceFailure > MonitoringPeriod
    THEN [c EXCEPT !.failures = 0]
    ELSE c

\* What execute does with the clock before it decides.  (A circuit that turns
\* half-open keeps its failures.)
updateCircuitState(c) ==
    IF c.state = "OPEN" /\ c.untilAttempt = 0
    THEN [c EXCEPT !.state = "HALF_OPEN", !.successes = 0]
    ELSE IF c.sinceFailure > MonitoringPeriod
    THEN [c EXCEPT !.failures = 0]
    ELSE c

resetCircuit(c) == [c EXCEPT !.state = "CLOSED", !.failures = 0, !.successes = 0]
tripCircuit(c) == [c EXCEPT !.state = "OPEN", !.untilAttempt = ResetTimeout]

\* A call that was admitted before the circuit opened may end when it is open,
\* or half-open: its success is then counted as any other.
onSuccess(c) ==
    IF c.state # "HALF_OPEN"
    THEN [c EXCEPT !.failures = IF @ = 0 THEN 0 ELSE @ - 1]
    ELSE IF c.successes + 1 >= SuccessThreshold
    THEN resetCircuit(c)
    ELSE [c EXCEPT !.successes = @ + 1]

\* Mutant: the circuit opens one failure too late.
onFailurePastThreshold(c) ==
    LET counted == [c EXCEPT !.failures = @ + 1, !.sinceFailure = 0] IN
    IF c.state = "HALF_OPEN" \/ counted.failures > FailureThreshold
    THEN tripCircuit(counted)
    ELSE counted

onFailure(c) ==
    LET counted == [c EXCEPT !.failures = @ + 1, !.sinceFailure = 0] IN
    IF c.state = "HALF_OPEN" \/ counted.failures >= FailureThreshold
    THEN tripCircuit(counted)
    ELSE counted

\* One unit of time.
aged(c) ==
    [c EXCEPT !.sinceFailure = IF @ > MonitoringPeriod THEN @ ELSE @ + 1,
              !.untilAttempt = IF @ = 0 THEN 0 ELSE @ - 1]

-----------------------------------------------------------------------------
\* A closed circuit has seen fewer failures than open it, a half-open one fewer
\* successes than close it, and an open one rejects for no longer than
\* ResetTimeout after the last failure it counted.
Sound(c) ==
    /\ c.state = "CLOSED" => c.failures < FailureThreshold
    /\ c.state = "HALF_OPEN" => c.successes < SuccessThreshold
    /\ (c.state = "OPEN" /\ c.untilAttempt > 0) =>
          c.sinceFailure + c.untilAttempt <= ResetTimeout
=============================================================================
