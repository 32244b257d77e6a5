---------------------------- MODULE TrustEngine ----------------------------
(***************************************************************************)
(* AgentTrustEngine (core/trust.py): a trust score and a trust state for   *)
(* each agent, kept in the dictionaries _scores and _states.  An agent has *)
(* no entry in _scores until somebody reads its score; `known' is the set  *)
(* of agents that have one.  The violation history is only written, never  *)
(* read, and is left out.  Scores are whole numbers of points: every       *)
(* penalty, the ceiling and the recovery rate are.                         *)
(***************************************************************************)
EXTENDS Integers

CONSTANTS Agents, QuarantineThreshold, RecoveryRate

MaxScore == 100
RecoveredScore == 80

ASSUME ThresholdAssumption == QuarantineThreshold \in 0 .. MaxScore - 1
ASSUME RateAssumption == RecoveryRate \in Nat

VARIABLES
    known,   \* the agents with an entry in _scores
    score,   \* _scores: MaxScore for an agent that is not known
    state    \* _states: "ACTIVE" for an agent that has no entry

trustVars == <<known, score, state>>

TrustStates == {"ACTIVE", "DEGRADED", "QUARANTINED", "SHADOW_MODE"}

PENALTIES == [SCHEMA_VALIDATION_FAILURE |-> 10, REGEX_TRIGGER_LAYER1 |-> 25,
              UNAUTHORIZED_TOOL_ATTEMPT |-> 50, SIGNATURE_FAILURE |-> 100,
              TIMED_OUT |-> 15]

\* A violation the table does not list ("OTHER" here) costs 15 points.
Violations == DOMAIN PENALTIES \cup {"OTHER"}
Penalty(v) == IF v \in DOMAIN PENALTIES THEN PENALTIES[v] ELSE 15

TrustTypeOK ==
    /\ known \subseteq Agents
    /\ score \in [Agents -> 0 .. MaxScore]
    /\ state \in [Agents -> TrustStates]

TrustInit ==
    /\ known = {}
    /\ score = [a \in Agents |-> MaxScore]
    /\ state = [a \in Agents |-> "ACTIVE"]

\* What get_score and get_state return.  The first read of an agent creates
\* its entries, and writes ACTIVE over a state stored before that.
GetScore(a) == IF a \in known THEN score[a] ELSE MaxScore
GetState(a) == IF a \in known THEN state[a] ELSE "ACTIVE"
CanDispatchTools(a) == GetState(a) \in {"ACTIVE", "DEGRADED"}

\* The entries of agent a become <<s, st>>.
Store(a, s, st) ==
    /\ known' = known \cup {a}
    /\ score' = [score EXCEPT ![a] = s]
    /\ state' = [state EXCEPT ![a] = st]

\* The effect of reading an agent: get_score, get_state, can_dispatch_tools.
Read(a) == Store(a, GetScore(a), GetState(a))

SetState(a, st) ==
    /\ state' = [state EXCEPT ![a] = st]
    /\ UNCHANGED <<known, score>>

Penalised(a, v) ==
    IF GetScore(a) >= Penalty(v) THEN GetScore(a) - Penalty(v) ELSE 0

\* Mutated form of ApplyPenalty: the threshold itself is not critical.
ApplyPenaltyBelow(a, v) ==
    Store(a, Penalised(a, v),
          IF Penalised(a, v) < QuarantineThreshold
          THEN "QUARANTINED" ELSE GetState(a))

ApplyPenalty(a, v) ==
    Store(a, Penalised(a, v),
          IF Penalised(a, v) <= QuarantineThreshold
          THEN "QUARANTINED" ELSE GetState(a))

Recovered(a) ==
    IF GetScore(a) + RecoveryRate <= MaxScore
    THEN GetScore(a) + RecoveryRate ELSE MaxScore

\* Mutated form of RecordSuccessfulTurn: no early return in quarantine.
RecordTurnOfAnybody(a) ==
    Store(a, Recovered(a),
          IF Recovered(a) >= RecoveredScore THEN "ACTIVE" ELSE GetState(a))

RecordSuccessfulTurn(a) ==
    IF GetState(a) = "QUARANTINED"
    THEN Read(a)
    ELSE Store(a, Recovered(a),
               IF Recovered(a) >= RecoveredScore /\ GetState(a) = "DEGRADED"
               THEN "ACTIVE" ELSE GetState(a))
=============================================================================
