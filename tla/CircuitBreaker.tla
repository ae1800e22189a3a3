-------------------------------- MODULE CircuitBreaker --------------------------------
(* app/core/circuit_breaker.py as functions of its record: allow_request, record_success *)
(* and record_failure, called by the tasks of FirmwareGateway. failed_ago is the time     *)
(* since last_failure_time in ticks, counted no further than RecoveryTimeout; the count   *)
(* of failures stops at the threshold, which is all it is compared with.                  *)
EXTENDS Integers

CONSTANTS FailureThreshold, SuccessThreshold, RecoveryTimeout

ASSUME BreakerAssumption == /\ FailureThreshold \in Nat \ {0}
                            /\ SuccessThreshold \in Nat \ {0}
                            /\ RecoveryTimeout \in Nat

States == {"CLOSED", "OPEN", "HALF_OPEN"}

BreakerType == [state         : States,
                failure_count : 0 .. FailureThreshold,
                success_count : 0 .. SuccessThreshold - 1,
                failed_ago    : 0 .. RecoveryTimeout]

Reset == [state |-> "CLOSED", failure_count |-> 0, success_count |-> 0,
          failed_ago |-> RecoveryTimeout]

ShouldAttemptReset(b) == b.failed_ago >= RecoveryTimeout

(* allow_request: its answer, and the breaker it leaves                                   *)
Allows(b) == b.state # "OPEN" \/ ShouldAttemptReset(b)

AskedEachTime(b) ==
  IF b.state = "HALF_OPEN" \/ (b.state = "OPEN" /\ ShouldAttemptReset(b))
  THEN [b EXCEPT !.state = "HALF_OPEN", !.success_count = 0] ELSE b

Asked(b) ==
  IF b.state = "OPEN" /\ ShouldAttemptReset(b)
  THEN [b EXCEPT !.state = "HALF_OPEN", !.success_count = 0] ELSE b

RecordSuccessAlways(b) ==
  IF b.state = "HALF_OPEN" /\ b.success_count + 1 >= SuccessThreshold THEN Reset
  ELSE [b EXCEPT !.failure_count = 0,
                 !.success_count = IF b.state = "HALF_OPEN" THEN @ + 1 ELSE @]

RecordSuccess(b) ==
  CASE b.state = "HALF_OPEN" -> IF b.success_count + 1 >= SuccessThreshold THEN Reset
                                ELSE [b EXCEPT !.success_count = @ + 1]
    [] b.state = "CLOSED"    -> [b EXCEPT !.failure_count = 0]
    [] b.state = "OPEN"      -> b

RecordFailure(b) ==
  LET count == IF b.failure_count < FailureThreshold THEN b.failure_count + 1
               ELSE FailureThreshold
  IN  [b EXCEPT !.failure_count = count, !.failed_ago = 0,
                !.state = IF count >= FailureThreshold THEN "OPEN" ELSE @]

(* time.time() - last_failure_time a tick later                                           *)
Aged(b) == [b EXCEPT !.failed_ago = IF @ < RecoveryTimeout THEN @ + 1 ELSE @]
=======================================================================================
