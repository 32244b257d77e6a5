------------------------- MODULE GovernanceRuntime -------------------------
(***************************************************************************)
(* GovernanceRuntime (middleware.py) as the owner of the trust engine, the *)
(* dependency breaker and the tool gate, together with the host that calls *)
(* it.  validate_tool runs to its end without yielding, so a call is one   *)
(* step; it has one action for each way it can return.  The host runs the  *)
(* admitted calls itself and tells the breaker of their outcome later, in  *)
(* any order.  Nothing ties an outcome to a call: the host may report a    *)
(* call not at all, once, or twice (timed out, and then done after all).   *)
(* `pending' counts the reports on a tool that the host has yet to make.   *)
(*                                                                         *)
(* strikes and successes are history variables: the calls of an agent that *)
(* the gate refused, and its successful turns, since the operator last set *)
(* its state.  sinceFailure is the age of the last failure that the host   *)
(* reported of a tool, up to RecoveryTime + 1.  Nothing in the code reads  *)
(* these three.                                                            *)
(***************************************************************************)
EXTENDS TrustEngine, DependencyBreaker, ToolGate

CONSTANTS
    MaxPending,     \* bound: reports on a tool that are still to come
    MaxStrikes,     \* bound: strikes are counted up to here
    MaxSuccesses    \* bound: successful turns between operator actions

ASSUME BoundsAssumption ==
    MaxPending \in Nat /\ MaxStrikes \in Nat /\ MaxSuccesses \in Nat

VARIABLES pending, strikes, successes, sinceFailure

history == <<strikes, successes, sinceFailure>>
vars == <<trustVars, breakerVars, pending, history>>

TypeOK ==
    /\ TrustTypeOK
    /\ BreakerTypeOK
    /\ pending \in [Tools -> 0 .. MaxPending]
    /\ strikes \in [Agents -> 0 .. MaxStrikes]
    /\ successes \in [Agents -> 0 .. MaxSuccesses]
    /\ sinceFailure \in [Tools -> 0 .. RecoveryTime + 1]

Init ==
    /\ TrustInit
    /\ BreakerInit
    /\ pending = [t \in Tools |-> 0]
    /\ strikes = [a \in Agents |-> 0]
    /\ successes = [a \in Agents |-> 0]
    /\ sinceFailure = [t \in Tools |-> RecoveryTime + 1]

-----------------------------------------------------------------------------
(* validate_tool *)

BlockedByTrust(a) ==
    /\ ~CanDispatchTools(a)
    /\ Read(a)
    /\ UNCHANGED <<breakerVars, pending, history>>

FallbackByBreaker(a, t) ==
    /\ CanDispatchTools(a)
    /\ ~CanDispatch(t)
    /\ Read(a)
    /\ Poll(t)
    /\ UNCHANGED <<pending, history>>

\* Mutated form of PenaltyType: a name that the table of penalties lacks.
PenaltyTypeUnlisted(verdict) ==
    IF verdict = "ASI-01" THEN "UNAUTHORIZED_TOOL_ATTEMPT" ELSE "OTHER"

PenaltyType(verdict) ==
    IF verdict = "ASI-01" THEN "UNAUTHORIZED_TOOL_ATTEMPT"
    ELSE "REGEX_TRIGGER_LAYER1"

RejectedByGate(a, t, q) ==
    /\ CanDispatchTools(a)
    /\ CanDispatch(t)
    /\ ~IsSafe(t, q)
    /\ Poll(t)
    /\ ApplyPenalty(a, PenaltyType(Verdict(t, q)))
    /\ strikes' = [strikes EXCEPT ![a] = IF @ < MaxStrikes THEN @ + 1 ELSE @]
    /\ UNCHANGED <<pending, successes, sinceFailure>>

\* How often a host reports the outcome of one call.
Reports == 0 .. 2

Admitted(a, t, q) ==
    /\ CanDispatchTools(a)
    /\ CanDispatch(t)
    /\ IsSafe(t, q)
    /\ Read(a)
    /\ Poll(t)
    /\ \E n \in Reports :
          /\ pending[t] + n <= MaxPending
          /\ pending' = [pending EXCEPT ![t] = @ + n]
    /\ UNCHANGED history

ValidateTool(a, t, q) ==
    \/ BlockedByTrust(a)
    \/ FallbackByBreaker(a, t)
    \/ RejectedByGate(a, t, q)
    \/ Admitted(a, t, q)

-----------------------------------------------------------------------------
(* What the host does with the runtime's parts. *)

ToolSucceeded(t) ==
    /\ pending[t] > 0
    /\ pending' = [pending EXCEPT ![t] = @ - 1]
    /\ RecordSuccess(t)
    /\ UNCHANGED <<trustVars, history>>

ToolFailed(t) ==
    /\ pending[t] > 0
    /\ pending' = [pending EXCEPT ![t] = @ - 1]
    /\ RecordFailureOrTimeout(t)
    /\ sinceFailure' = [sinceFailure EXCEPT ![t] = 0]
    /\ UNCHANGED <<trustVars, strikes, successes>>

TurnSucceeded(a) ==
    /\ successes[a] < MaxSuccesses
    /\ RecordSuccessfulTurn(a)
    /\ successes' = [successes EXCEPT ![a] = @ + 1]
    /\ UNCHANGED <<breakerVars, pending, strikes, sinceFailure>>

HostPenalises(a, v) ==
    /\ ApplyPenalty(a, v)
    /\ UNCHANGED <<breakerVars, pending, history>>

OperatorSetsState(a, st) ==
    /\ SetState(a, st)
    /\ strikes' = [strikes EXCEPT ![a] = 0]
    /\ successes' = [successes EXCEPT ![a] = 0]
    /\ UNCHANGED <<breakerVars, pending, sinceFailure>>

TimePasses ==
    /\ Tick
    /\ sinceFailure' = [t \in Tools |-> Older(sinceFailure[t])]
    /\ UNCHANGED <<trustVars, pending, strikes, successes>>

Next ==
    \/ \E a \in Agents, t \in Tools, q \in Queries : ValidateTool(a, t, q)
    \/ \E t \in Tools : ToolSucceeded(t) \/ ToolFailed(t)
    \/ \E a \in Agents : TurnSucceeded(a)
    \/ \E a \in Agents, v \in Violations : HostPenalises(a, v)
    \/ \E a \in Agents, st \in TrustStates : OperatorSetsState(a, st)
    \/ TimePasses

Spec == Init /\ [][Next]_vars

\* Nothing in the runtime has a timer.  What is assumed is that the clock
\* moves and that every agent keeps calling validate_tool on every tool.
Fairness ==
    /\ WF_vars(TimePasses)
    /\ \A a \in Agents, t \in Tools :
          WF_vars(\E q \in Queries : ValidateTool(a, t, q))

FairSpec == Spec /\ Fairness

-----------------------------------------------------------------------------
(* Properties *)

\* An agent that the gate struck and whose score is at the threshold or
\* below is quarantined: no order of penalties, recovered turns and reads
\* leaves a struck agent at a critical score but free (trust.py:72).
CriticalScoreIsQuarantined ==
    \A a \in Agents :
        strikes[a] > 0 /\ GetScore(a) <= QuarantineThreshold
            => GetState(a) = "QUARANTINED"

\* How often an agent may be refused by the gate and still dispatch: each
\* refusal costs at least the 25 points of the cheaper penalty, and only
\* successful turns earn points back (middleware.py:154, trust.py:57,94).
\* The first refusal after an operator's action may find any score.
StrikeBudget ==
    \A a \in Agents :
        strikes[a] > 0 /\ CanDispatchTools(a) =>
            25 * strikes[a]
                < MaxScore - QuarantineThreshold + RecoveryRate * successes[a]

\* Quarantine is one way for the program: an agent with a score stays
\* quarantined and earns nothing back, by late successes of calls admitted
\* before or by anything else, until the operator sets its state
\* (trust.py:88,91).
HeldOrLifted(a) ==
    \/ state'[a] = "QUARANTINED" /\ score'[a] <= score[a]
    \/ \E st \in TrustStates : OperatorSetsState(a, st)
QuarantineIsSticky ==
    [][\A a \in known : state[a] = "QUARANTINED" => HeldOrLifted(a)]_vars

\* Whatever the order in which late outcomes reach the breaker, and though
\* some calls are reported twice and others never, it is closed exactly
\* while the consecutive failures are below the threshold: half open is not
\* a clean slate, one more failure opens it again
\* (circuit_breakers.py:86,89,100).
ClosedIffBelowThreshold ==
    \A t \in Tools : breaker[t] = "CLOSED" <=> failures[t] < FailureThreshold

\* A tool that failed FailureThreshold times in a row gets no call until
\* more than RecoveryTime has passed since the last of these failures, or a
\* success of an earlier call has closed the breaker
\* (circuit_breakers.py:79, middleware.py:140).
Call(t) == \E a \in Agents, q \in Queries : Admitted(a, t, q)
QuietPeriod ==
    [][\A t \in Tools : Call(t) =>
         failures[t] < FailureThreshold \/ sinceFailure[t] > RecoveryTime]_vars

\* What the proofs need besides.  An agent without a score has no strikes;
\* refusals and recovered turns bound the score of an agent that is not
\* quarantined; the trip time of a breaker at its threshold is the time of
\* the last failure, and a half-open breaker stays past its recovery time
\* (trust.py:36-39,57,94, circuit_breakers.py:79-81,100-102).
UnknownIsPristine ==
    \A a \in Agents \ known : strikes[a] = 0 /\ score[a] = MaxScore
ScoreIsEarned ==
    \A a \in Agents : GetState(a) # "QUARANTINED" =>
        GetScore(a) + 25 * strikes[a] <= MaxScore + RecoveryRate * successes[a]
TripIsLastFailure ==
    \A t \in Tools :
        failures[t] >= FailureThreshold => tripAge[t] = sinceFailure[t]
HalfOpenIsRecovered ==
    \A t \in Tools : breaker[t] = "HALF_OPEN" => tripAge[t] > RecoveryTime
IndInv ==
    /\ TypeOK
    /\ UnknownIsPristine
    /\ CriticalScoreIsQuarantined
    /\ ScoreIsEarned
    /\ ClosedIffBelowThreshold
    /\ TripIsLastFailure
    /\ HalfOpenIsRecovered

\* An open breaker does not stay open for good, however many late failures
\* of calls admitted before the trip, repeated ones too, restart its recovery
\* time: as long as some agent may dispatch, a call finds it half open or a
\* success closes it (circuit_breakers.py:77-81,100-102).
OpenIsProbed ==
    \A t \in Tools :
        breaker[t] = "OPEN"
            ~> breaker[t] # "OPEN" \/ \A a \in Agents : ~CanDispatchTools(a)

\* trust.py:103: "Returns False if agent is QUARANTINED or SHADOW_MODE."
RestrictedCannotDispatch ==
    \A a \in Agents :
        state[a] \in {"QUARANTINED", "SHADOW_MODE"} => ~CanDispatchTools(a)
=============================================================================
