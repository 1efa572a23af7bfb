--------------------------- MODULE CircuitBreaker ---------------------------
(***************************************************************************)
(* The circuit breaker of lib/jobs/circuitBreaker.js as operators on the   *)
(* value of one breaker.  JobEngine holds the breaker of the job worker in *)
(* a variable and applies these operators to it.                           *)
(*                                                                         *)
(* Abstractions.  openedAt and cooldownMs become the flag "cooled": FALSE  *)
(* when the breaker trips, TRUE once the cooldown has run out.  The count  *)
(* of consecutive failures saturates at the threshold, which every         *)
(* comparison the code makes of it leaves unchanged.                       *)
(***************************************************************************)
EXTENDS Naturals

CONSTANT FailureThreshold   \* circuitBreaker.js failureThreshold (default 5)

ASSUME ThresholdAssumption == FailureThreshold \in Nat \ {0}

Breaker == [state : {"CLOSED", "OPEN", "HALF_OPEN"},
            consecutiveFailures : 0..FailureThreshold,
            cooled : BOOLEAN,
            probe : BOOLEAN]

NewBreaker == [state |-> "CLOSED", consecutiveFailures |-> 0,
               cooled |-> FALSE, probe |-> FALSE]

\* canAttempt() would start a HALF_OPEN probe.
MayProbe(b) == \/ b.state = "OPEN" /\ b.cooled
               \/ b.state = "HALF_OPEN" /\ ~b.probe

\* The value canAttempt() returns, and the breaker it leaves behind.
CanAttempt(b) == b.state = "CLOSED" \/ MayProbe(b)

AfterCanAttempt(b) ==
    IF MayProbe(b) THEN [b EXCEPT !.state = "HALF_OPEN", !.probe = TRUE] ELSE b

RecordSuccess(b) ==
    [b EXCEPT !.state = "CLOSED", !.consecutiveFailures = 0, !.probe = FALSE]

Trip(b) == [b EXCEPT !.state = "OPEN", !.cooled = FALSE]

\* Mutant of CountFailure: the count never reaches the threshold.
CountFailureForever(b) == [b EXCEPT !.consecutiveFailures = @ + 1]

CountFailure(b) ==
    IF b.consecutiveFailures + 1 >= FailureThreshold
    THEN Trip([b EXCEPT !.consecutiveFailures = FailureThreshold])
    ELSE [b EXCEPT !.consecutiveFailures = @ + 1]

RecordFailure(b, category) ==
    IF category # "TRANSIENT" THEN b
    ELSE IF b.state = "HALF_OPEN" THEN Trip([b EXCEPT !.probe = FALSE])
    ELSE CountFailure(b)

=============================================================================
