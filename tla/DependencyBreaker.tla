------------------------- MODULE DependencyBreaker -------------------------
(***************************************************************************)
(* DependencyTimeoutBreaker (governance/circuit_breakers.py): one circuit  *)
(* breaker for each tool.  Two quantities are kept only as far as the code *)
(* can tell them apart.  The consecutive failures are only compared with   *)
(* FailureThreshold and stop there.  The trip time is only subtracted from *)
(* the clock and compared with RecoveryTime: tripAge is that difference,   *)
(* it stops at RecoveryTime + 1, where an unset trip time (0.0) also is.   *)
(***************************************************************************)
EXTENDS Integers

CONSTANTS Tools, FailureThreshold, RecoveryTime

ASSUME BreakerAssumption ==
    /\ FailureThreshold \in Nat \ {0}
    /\ RecoveryTime \in Nat

VARIABLES
    breaker,    \* _states, CLOSED when there is no entry
    failures,   \* _failures
    tripAge     \* time.time() - _trip_times

breakerVars == <<breaker, failures, tripAge>>

BreakerStates == {"CLOSED", "OPEN", "HALF_OPEN"}

BreakerTypeOK ==
    /\ breaker \in [Tools -> BreakerStates]
    /\ failures \in [Tools -> 0 .. FailureThreshold]
    /\ tripAge \in [Tools -> 0 .. RecoveryTime + 1]

BreakerInit ==
    /\ breaker = [t \in Tools |-> "CLOSED"]
    /\ failures = [t \in Tools |-> 0]
    /\ tripAge = [t \in Tools |-> RecoveryTime + 1]

\* Mutated form of BreakerState: probed when the recovery time is reached.
BreakerStateEarly(t) ==
    IF breaker[t] = "OPEN" /\ tripAge[t] >= RecoveryTime
    THEN "HALF_OPEN" ELSE breaker[t]

\* get_state: an open breaker whose recovery time has passed is half open,
\* and only a call of get_state makes it so.
BreakerState(t) ==
    IF breaker[t] = "OPEN" /\ tripAge[t] > RecoveryTime
    THEN "HALF_OPEN" ELSE breaker[t]

CanDispatch(t) == BreakerState(t) # "OPEN"

\* Mutated form of Poll: a refused call restarts the recovery time.
PollRestarts(t) ==
    /\ breaker' = [breaker EXCEPT ![t] = BreakerState(t)]
    /\ tripAge' = [tripAge EXCEPT ![t] = IF CanDispatch(t) THEN @ ELSE 0]
    /\ UNCHANGED failures

Poll(t) ==
    /\ breaker' = [breaker EXCEPT ![t] = BreakerState(t)]
    /\ UNCHANGED <<failures, tripAge>>

\* Mutated form of RecordSuccess: the failures are not reset.
RecordSuccessKeepsCount(t) ==
    /\ breaker' = [breaker EXCEPT ![t] = "CLOSED"]
    /\ UNCHANGED <<failures, tripAge>>

RecordSuccess(t) ==
    /\ failures' = [failures EXCEPT ![t] = 0]
    /\ breaker' = [breaker EXCEPT ![t] = "CLOSED"]
    /\ UNCHANGED tripAge

OneMoreFailure(t) ==
    IF failures[t] < FailureThreshold THEN failures[t] + 1 ELSE failures[t]

\* Mutated form of RecordFailureOrTimeout: only a closed breaker trips.
RecordFailureWhenClosed(t) ==
    /\ failures' = [failures EXCEPT ![t] = OneMoreFailure(t)]
    /\ IF OneMoreFailure(t) >= FailureThreshold /\ breaker[t] = "CLOSED"
       THEN /\ breaker' = [breaker EXCEPT ![t] = "OPEN"]
            /\ tripAge' = [tripAge EXCEPT ![t] = 0]
       ELSE UNCHANGED <<breaker, tripAge>>

RecordFailureOrTimeout(t) ==
    /\ failures' = [failures EXCEPT ![t] = OneMoreFailure(t)]
    /\ IF OneMoreFailure(t) >= FailureThreshold
       THEN /\ breaker' = [breaker EXCEPT ![t] = "OPEN"]
            /\ tripAge' = [tripAge EXCEPT ![t] = 0]
       ELSE UNCHANGED <<breaker, tripAge>>

\* An age one unit of time later.
Older(age) == IF age <= RecoveryTime THEN age + 1 ELSE age

Tick ==
    /\ tripAge' = [t \in Tools |-> Older(tripAge[t])]
    /\ UNCHANGED <<breaker, failures>>
=============================================================================
