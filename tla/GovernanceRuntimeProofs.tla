---------------------- MODULE GovernanceRuntimeProofs ----------------------
(* Proofs about GovernanceRuntime, for any agents and tools, thresholds,   *)
(* recovery rate and times.  The inductive invariant falls into a part     *)
(* about the agents and a part about the tools; every action preserves     *)
(* each.                                                                   *)
EXTENDS GovernanceRuntime, TLAPS

Assumptions == /\ ThresholdAssumption /\ RateAssumption
               /\ BreakerAssumption /\ BoundsAssumption

AgentInv ==
    /\ TrustTypeOK
    /\ strikes \in [Agents -> 0 .. MaxStrikes]
    /\ successes \in [Agents -> 0 .. MaxSuccesses]
    /\ UnknownIsPristine
    /\ CriticalScoreIsQuarantined
    /\ ScoreIsEarned

ToolInv ==
    /\ BreakerTypeOK
    /\ pending \in [Tools -> 0 .. MaxPending]
    /\ sinceFailure \in [Tools -> 0 .. RecoveryTime + 1]
    /\ ClosedIffBelowThreshold
    /\ TripIsLastFailure
    /\ HalfOpenIsRecovered

agentVars == <<trustVars, strikes, successes>>
toolVars == <<breakerVars, pending, sinceFailure>>

-----------------------------------------------------------------------------
(* Agents *)

\* What an agent's entries satisfy: score s, state st, k strikes, e points
\* earned back since the operator's last action.
Entry(s, st, k, e) ==
    /\ s \in 0 .. MaxScore
    /\ st \in TrustStates
    /\ k \in 0 .. MaxStrikes
    /\ e \in Nat
    /\ k > 0 /\ s <= QuarantineThreshold => st = "QUARANTINED"
    /\ st # "QUARANTINED" => s + 25 * k <= MaxScore + e

Earned(a) == RecoveryRate * successes[a]

\* Reading an agent gives entries that satisfy the invariant.
LEMMA ReadEntry ==
  ASSUME AgentInv, NEW a \in Agents
  PROVE  Entry(GetScore(a), GetState(a), strikes[a], Earned(a))
<1> USE DEF AgentInv, TrustTypeOK, GetScore, GetState, TrustStates, MaxScore
<1>1. Earned(a) \in Nat
  BY RateAssumption, BoundsAssumption DEF Earned
<1>2. /\ GetScore(a) \in 0 .. MaxScore
      /\ GetState(a) \in TrustStates
      /\ strikes[a] \in 0 .. MaxStrikes
  OBVIOUS
<1>3. strikes[a] > 0 /\ GetScore(a) <= QuarantineThreshold
        => GetState(a) = "QUARANTINED"
  BY DEF CriticalScoreIsQuarantined
<1>4. GetState(a) # "QUARANTINED"
        => GetScore(a) + 25 * strikes[a] <= MaxScore + Earned(a)
  BY DEF ScoreIsEarned, Earned
<1> QED  BY <1>1, <1>2, <1>3, <1>4 DEF Entry

\* Storing such entries for one agent preserves the part about the agents.
LEMMA StoreEntry ==
  ASSUME AgentInv, NEW a \in Agents, NEW s, NEW st, Store(a, s, st),
         strikes' \in [Agents -> 0 .. MaxStrikes],
         successes' \in [Agents -> 0 .. MaxSuccesses],
         \A b \in Agents \ {a} :
            strikes'[b] = strikes[b] /\ successes'[b] = successes[b],
         Entry(s, st, strikes'[a], RecoveryRate * successes'[a])
  PROVE  AgentInv'
<1> USE DEF AgentInv, TrustTypeOK, Store, Entry
<1>1. TrustTypeOK' /\ UnknownIsPristine'
  BY DEF UnknownIsPristine
<1>2. \A b \in Agents : b = a => GetScore(b)' = s /\ GetState(b)' = st
  BY DEF GetScore, GetState
<1>3. \A b \in Agents : b # a =>
         GetScore(b)' = GetScore(b) /\ GetState(b)' = GetState(b)
  BY DEF GetScore, GetState
<1>4. CriticalScoreIsQuarantined'
  BY <1>2, <1>3 DEF CriticalScoreIsQuarantined
<1>5. ScoreIsEarned'
  BY <1>2, <1>3 DEF ScoreIsEarned
<1> QED  BY <1>1, <1>4, <1>5

\* A penalty, with or without a strike, leaves entries that satisfy the
\* invariant: a strike costs 25 points or more.
LEMMA PenaltyEntry ==
  ASSUME AgentInv, NEW a \in Agents, NEW v \in Violations,
         NEW k \in 0 .. MaxStrikes,
         \/ k = strikes[a]
         \/ k = strikes[a] + 1 /\ Penalty(v) >= 25
  PROVE  Entry(Penalised(a, v),
               IF Penalised(a, v) <= QuarantineThreshold
               THEN "QUARANTINED" ELSE GetState(a), k, Earned(a))
<1>1. Penalty(v) \in 10 .. 100
  BY DEF Violations, Penalty, PENALTIES
<1>2. Entry(GetScore(a), GetState(a), strikes[a], Earned(a))
  BY ReadEntry
<1> DEFINE g == GetScore(a)
           p == Penalised(a, v)
<1>3. /\ p \in 0 .. MaxScore
      /\ p <= g
      /\ p = 0 \/ p = g - Penalty(v)
  BY <1>1, <1>2 DEF Entry, Penalised, MaxScore
<1>4. CASE p <= QuarantineThreshold
  BY <1>2, <1>3, <1>4 DEF Entry, TrustStates
<1>5. CASE ~(p <= QuarantineThreshold)
  <2>1. p = g - Penalty(v)
    BY <1>3, <1>5, ThresholdAssumption
  <2>2. GetState(a) # "QUARANTINED" => p + 25 * k <= MaxScore + Earned(a)
    BY SMTT(30), <1>1, <1>2, <2>1, BoundsAssumption DEF Entry, MaxScore
  <2> QED  BY <1>2, <1>3, <1>5, <2>2 DEF Entry
<1> QED  BY <1>4, <1>5

\* One more successful turn leaves entries that satisfy the invariant.
LEMMA TurnEntry ==
  ASSUME AgentInv, NEW a \in Agents, GetState(a) # "QUARANTINED",
         NEW st \in TrustStates \ {"QUARANTINED"}
  PROVE  Entry(Recovered(a), st, strikes[a], Earned(a) + RecoveryRate)
<1>1. Entry(GetScore(a), GetState(a), strikes[a], Earned(a))
  BY ReadEntry
<1>2. /\ Recovered(a) \in 0 .. MaxScore
      /\ GetScore(a) <= Recovered(a)
      /\ Recovered(a) <= GetScore(a) + RecoveryRate
  BY <1>1, RateAssumption DEF Entry, Recovered, MaxScore
<1>3. strikes[a] > 0 => GetScore(a) > QuarantineThreshold
  BY <1>1, ThresholdAssumption DEF Entry, MaxScore
<1>4. Recovered(a) + 25 * strikes[a] <= MaxScore + (Earned(a) + RecoveryRate)
  <2>1. \A g, r, k, e, d \in Int :
           g + 25 * k <= 100 + e /\ r <= g + d => r + 25 * k <= 100 + (e + d)
    OBVIOUS
  <2>2. GetScore(a) + 25 * strikes[a] <= MaxScore + Earned(a)
    BY <1>1 DEF Entry
  <2>3. /\ GetScore(a) \in Int /\ Recovered(a) \in Int /\ strikes[a] \in Int
        /\ Earned(a) \in Int /\ RecoveryRate \in Int
    BY <1>1, <1>2, RateAssumption, BoundsAssumption DEF Entry, MaxScore
  <2> QED  BY <1>2, <2>1, <2>2, <2>3 DEF MaxScore
<1>5. ~(strikes[a] > 0 /\ Recovered(a) <= QuarantineThreshold)
  BY <1>1, <1>2, <1>3, ThresholdAssumption DEF Entry, MaxScore
<1>6. Earned(a) + RecoveryRate \in Nat
  BY <1>1, RateAssumption DEF Entry
<1> QED  BY <1>1, <1>2, <1>4, <1>5, <1>6 DEF Entry

\* Reading an agent preserves the part about the agents.
LEMMA ReadStep ==
  ASSUME AgentInv, NEW a \in Agents, Read(a), UNCHANGED <<strikes, successes>>
  PROVE  AgentInv'
<1>1. Entry(GetScore(a), GetState(a), strikes'[a], RecoveryRate * successes'[a])
  BY ReadEntry DEF Earned
<1>2. Store(a, GetScore(a), GetState(a))
  BY DEF Read
<1>3. /\ strikes' \in [Agents -> 0 .. MaxStrikes]
      /\ successes' \in [Agents -> 0 .. MaxSuccesses]
      /\ \A b \in Agents \ {a} :
            strikes'[b] = strikes[b] /\ successes'[b] = successes[b]
  BY DEF AgentInv
<1> QED  BY <1>1, <1>2, <1>3, StoreEntry

\* So does a penalty, with or without a strike.
LEMMA PenaltyStep ==
  ASSUME AgentInv, NEW a \in Agents, NEW v \in Violations, ApplyPenalty(a, v),
         UNCHANGED successes,
         \/ UNCHANGED strikes
         \/ /\ Penalty(v) >= 25
            /\ strikes' = [strikes EXCEPT ![a] = IF @ < MaxStrikes THEN @ + 1
                                                 ELSE @]
  PROVE  AgentInv'
<1> DEFINE st == IF Penalised(a, v) <= QuarantineThreshold
                 THEN "QUARANTINED" ELSE GetState(a)
<1>1. /\ strikes' \in [Agents -> 0 .. MaxStrikes]
      /\ successes' \in [Agents -> 0 .. MaxSuccesses]
      /\ \A b \in Agents \ {a} :
            strikes'[b] = strikes[b] /\ successes'[b] = successes[b]
      /\ \/ strikes'[a] = strikes[a]
         \/ strikes'[a] = strikes[a] + 1 /\ Penalty(v) >= 25
      /\ successes'[a] = successes[a]
  BY BoundsAssumption DEF AgentInv
<1>2. Entry(Penalised(a, v), st, strikes'[a], Earned(a))
  BY <1>1, PenaltyEntry
<1>3. Entry(Penalised(a, v), st, strikes'[a], RecoveryRate * successes'[a])
  BY <1>1, <1>2 DEF Earned
<1>4. Store(a, Penalised(a, v), st)
  BY DEF ApplyPenalty
<1> QED  BY <1>1, <1>3, <1>4, StoreEntry

\* So does a successful turn, whether it recovers points or not.
LEMMA TurnStep ==
  ASSUME AgentInv, NEW a \in Agents, TurnSucceeded(a)
  PROVE  AgentInv'
<1> USE DEF TurnSucceeded
<1>1. /\ strikes' \in [Agents -> 0 .. MaxStrikes]
      /\ successes' \in [Agents -> 0 .. MaxSuccesses]
      /\ \A b \in Agents \ {a} :
            strikes'[b] = strikes[b] /\ successes'[b] = successes[b]
      /\ strikes'[a] = strikes[a]
      /\ successes'[a] = successes[a] + 1
  BY BoundsAssumption DEF AgentInv
<1>2. RecoveryRate * successes'[a] = Earned(a) + RecoveryRate
  <2>1. successes[a] \in Int
    BY BoundsAssumption DEF AgentInv
  <2>2. \A m, n \in Int : m * (n + 1) = m * n + m
    OBVIOUS
  <2> QED  BY <1>1, <2>1, <2>2, RateAssumption DEF Earned
<1>3. CASE GetState(a) = "QUARANTINED"
  <2>1. Entry(GetScore(a), GetState(a), strikes[a], Earned(a) + RecoveryRate)
    BY ReadEntry, RateAssumption, <1>3 DEF Entry
  <2>2. Store(a, GetScore(a), GetState(a))
    BY <1>3 DEF RecordSuccessfulTurn, Read
  <2>3. Entry(GetScore(a), GetState(a), strikes'[a], RecoveryRate * successes'[a])
    BY <1>1, <1>2, <2>1
  <2> QED  BY <1>1, <2>2, <2>3, StoreEntry
<1>4. CASE GetState(a) # "QUARANTINED"
  <2> DEFINE st == IF Recovered(a) >= RecoveredScore /\ GetState(a) = "DEGRADED"
                   THEN "ACTIVE" ELSE GetState(a)
  <2>1. st \in TrustStates \ {"QUARANTINED"}
    BY <1>4, ReadEntry DEF Entry, TrustStates
  <2>2. Entry(Recovered(a), st, strikes[a], Earned(a) + RecoveryRate)
    BY <1>4, <2>1, TurnEntry
  <2>3. Store(a, Recovered(a), st)
    BY <1>4 DEF RecordSuccessfulTurn
  <2>4. Entry(Recovered(a), st, strikes'[a], RecoveryRate * successes'[a])
    BY <1>1, <1>2, <2>2
  <2> HIDE DEF st
  <2> QED  BY <1>1, <2>3, <2>4, StoreEntry
<1> QED  BY <1>3, <1>4

\* So does the operator, who starts the history of the agent anew.
LEMMA OperatorStep ==
  ASSUME AgentInv, NEW a \in Agents, NEW st \in TrustStates,
         OperatorSetsState(a, st)
  PROVE  AgentInv'
<1> USE DEF AgentInv, OperatorSetsState, SetState, TrustTypeOK
<1>1. /\ TrustTypeOK' /\ UnknownIsPristine'
      /\ strikes' \in [Agents -> 0 .. MaxStrikes]
      /\ successes' \in [Agents -> 0 .. MaxSuccesses]
  BY BoundsAssumption DEF UnknownIsPristine
<1>2. \A b \in Agents : GetScore(b)' = GetScore(b) /\ GetScore(b) <= MaxScore
  BY DEF GetScore, MaxScore
<1>3. \A b \in Agents : b # a =>
         /\ GetState(b)' = GetState(b)
         /\ strikes'[b] = strikes[b] /\ successes'[b] = successes[b]
  BY DEF GetState
<1>4. strikes'[a] = 0 /\ successes'[a] = 0
  OBVIOUS
<1>5. CriticalScoreIsQuarantined'
  BY <1>2, <1>3, <1>4 DEF CriticalScoreIsQuarantined
<1>6. ScoreIsEarned'
  <2>1. GetScore(a) + 25 * 0 <= MaxScore + RecoveryRate * 0
    <3>1. GetScore(a) \in Int /\ GetScore(a) <= MaxScore
      BY DEF GetScore, MaxScore
    <3> QED  BY <3>1, RateAssumption DEF MaxScore
  <2> QED  BY <1>2, <1>3, <1>4, <2>1 DEF ScoreIsEarned
<1> QED  BY <1>1, <1>5, <1>6

\* A step that changes nothing of the agents changes nothing of their part.
LEMMA AgentStutter ==
  ASSUME AgentInv, UNCHANGED agentVars PROVE AgentInv'
BY DEF AgentInv, agentVars, trustVars, TrustTypeOK, UnknownIsPristine,
       CriticalScoreIsQuarantined, ScoreIsEarned, GetScore, GetState

-----------------------------------------------------------------------------
(* Tools *)

\* Asking the breaker for its state, and admitting a call or not, preserves
\* the part about the tools.
LEMMA PollStep ==
  ASSUME ToolInv, NEW t \in Tools, Poll(t), UNCHANGED sinceFailure,
         pending' \in [Tools -> 0 .. MaxPending]
  PROVE  ToolInv'
BY DEF ToolInv, Poll, BreakerState, BreakerTypeOK, BreakerStates,
       ClosedIffBelowThreshold, TripIsLastFailure, HalfOpenIsRecovered

\* So does a success, early or late.
LEMMA SuccessStep ==
  ASSUME ToolInv, NEW t \in Tools, ToolSucceeded(t)
  PROVE  ToolInv'
BY BreakerAssumption, BoundsAssumption
DEF ToolInv, ToolSucceeded, RecordSuccess, BreakerTypeOK, BreakerStates,
    ClosedIffBelowThreshold, TripIsLastFailure, HalfOpenIsRecovered, history

\* So does a failure, in any state of the breaker.
LEMMA FailureStep ==
  ASSUME ToolInv, NEW t \in Tools, ToolFailed(t)
  PROVE  ToolInv'
<1> USE BreakerAssumption
    DEF ToolInv, ToolFailed, RecordFailureOrTimeout, BreakerTypeOK, BreakerStates
<1>1. OneMoreFailure(t) \in 0 .. FailureThreshold
  BY DEF OneMoreFailure
<1>2. CASE OneMoreFailure(t) >= FailureThreshold
  BY <1>1, <1>2, BoundsAssumption
  DEF ClosedIffBelowThreshold, TripIsLastFailure, HalfOpenIsRecovered
<1>3. CASE ~(OneMoreFailure(t) >= FailureThreshold)
  <2>1. failures[t] < FailureThreshold /\ OneMoreFailure(t) < FailureThreshold
    BY <1>1, <1>3 DEF OneMoreFailure
  <2> QED
    BY <1>1, <1>3, <2>1, BoundsAssumption
    DEF ClosedIffBelowThreshold, TripIsLastFailure, HalfOpenIsRecovered
<1> QED  BY <1>2, <1>3

\* So does the clock: both ages grow alike.
LEMMA TickStep ==
  ASSUME ToolInv, TimePasses
  PROVE  ToolInv'
<1> USE DEF ToolInv, TimePasses, Tick, BreakerTypeOK
<1>1. \A age \in 0 .. RecoveryTime + 1 : Older(age) \in 0 .. RecoveryTime + 1
  BY BreakerAssumption DEF Older
<1>2. /\ tripAge' \in [Tools -> 0 .. RecoveryTime + 1]
      /\ sinceFailure' \in [Tools -> 0 .. RecoveryTime + 1]
  BY <1>1
<1>3. \A t \in Tools : tripAge[t] > RecoveryTime => tripAge'[t] > RecoveryTime
  BY <1>2, BreakerAssumption DEF Older
<1> QED
  BY <1>2, <1>3
  DEF ClosedIffBelowThreshold, TripIsLastFailure, HalfOpenIsRecovered

\* A step that changes nothing of the tools changes nothing of their part.
LEMMA ToolStutter ==
  ASSUME ToolInv, UNCHANGED toolVars PROVE ToolInv'
BY DEF ToolInv, toolVars, breakerVars, BreakerTypeOK, ClosedIffBelowThreshold,
       TripIsLastFailure, HalfOpenIsRecovered

-----------------------------------------------------------------------------

\* The runtime's invariant is the two parts.
LEMMA Parts == IndInv <=> AgentInv /\ ToolInv
BY DEF IndInv, TypeOK, AgentInv, ToolInv

\* It holds before the first call.
LEMMA InitInd == Init => IndInv
<1> SUFFICES ASSUME Init PROVE IndInv
  OBVIOUS
<1> USE BoundsAssumption, ThresholdAssumption, RateAssumption, BreakerAssumption
    DEF Init, TrustInit, BreakerInit
<1>1. AgentInv
  <2>1. RecoveryRate * 0 = 0
    OBVIOUS
  <2> QED
    BY <2>1 DEF AgentInv, TrustTypeOK, TrustStates, UnknownIsPristine,
         CriticalScoreIsQuarantined, ScoreIsEarned, GetScore, GetState, MaxScore
<1>2. ToolInv
  BY DEF ToolInv, BreakerTypeOK, BreakerStates, ClosedIffBelowThreshold,
         TripIsLastFailure, HalfOpenIsRecovered
<1> QED  BY <1>1, <1>2, Parts

\* Each of the four ways validate_tool returns preserves both parts.
LEMMA ValidateToolStep ==
  ASSUME AgentInv, ToolInv, NEW a \in Agents, NEW t \in Tools,
         NEW q \in Queries, ValidateTool(a, t, q)
  PROVE  AgentInv' /\ ToolInv'
<1>1. CASE BlockedByTrust(a)
  <2> USE <1>1 DEF BlockedByTrust, history
  <2>1. AgentInv'
    BY ReadStep
  <2>2. ToolInv'
    BY ToolStutter DEF toolVars
  <2> QED  BY <2>1, <2>2
<1>2. CASE FallbackByBreaker(a, t)
  <2> USE <1>2 DEF FallbackByBreaker, history
  <2>1. AgentInv'
    BY ReadStep
  <2>2. ToolInv'
    BY PollStep DEF ToolInv
  <2> QED  BY <2>1, <2>2
<1>3. CASE RejectedByGate(a, t, q)
  <2> USE <1>3 DEF RejectedByGate
  <2> DEFINE v == PenaltyType(Verdict(t, q))
  <2>1. v \in Violations /\ Penalty(v) >= 25
    BY DEF PenaltyType, Violations, Penalty, PENALTIES
  <2> HIDE DEF v
  <2>2. ApplyPenalty(a, v)
    BY DEF v
  <2>3. AgentInv'
    BY <2>1, <2>2, PenaltyStep
  <2>4. ToolInv'
    BY PollStep DEF ToolInv
  <2> QED  BY <2>3, <2>4
<1>4. CASE Admitted(a, t, q)
  <2> USE <1>4 DEF Admitted, history
  <2>1. AgentInv'
    BY ReadStep
  <2>2. pending' \in [Tools -> 0 .. MaxPending]
    BY BoundsAssumption DEF ToolInv, Reports
  <2>3. ToolInv'
    BY <2>2, PollStep
  <2> QED  BY <2>1, <2>3
<1> QED  BY <1>1, <1>2, <1>3, <1>4 DEF ValidateTool

\* Every step of the runtime and its host preserves the invariant.
LEMMA StepInd == IndInv /\ [Next]_vars => IndInv'
<1> SUFFICES ASSUME AgentInv, ToolInv, [Next]_vars
             PROVE  AgentInv' /\ ToolInv'
  BY DEF IndInv, TypeOK, AgentInv, ToolInv
<1>1. ASSUME NEW a \in Agents, NEW t \in Tools, NEW q \in Queries,
             ValidateTool(a, t, q)
      PROVE  AgentInv' /\ ToolInv'
  BY <1>1, ValidateToolStep
<1>2. ASSUME NEW t \in Tools, ToolSucceeded(t)
      PROVE  AgentInv' /\ ToolInv'
  BY <1>2, SuccessStep, AgentStutter DEF ToolSucceeded, history, agentVars
<1>3. ASSUME NEW t \in Tools, ToolFailed(t)
      PROVE  AgentInv' /\ ToolInv'
  BY <1>3, FailureStep, AgentStutter DEF ToolFailed, agentVars
<1>4. ASSUME NEW a \in Agents, TurnSucceeded(a)
      PROVE  AgentInv' /\ ToolInv'
  BY <1>4, TurnStep, ToolStutter DEF TurnSucceeded, toolVars
<1>6. ASSUME NEW a \in Agents, NEW v \in Violations, HostPenalises(a, v)
      PROVE  AgentInv' /\ ToolInv'
  BY <1>6, PenaltyStep, ToolStutter DEF HostPenalises, history, toolVars
<1>7. ASSUME NEW a \in Agents, NEW st \in TrustStates, OperatorSetsState(a, st)
      PROVE  AgentInv' /\ ToolInv'
  BY <1>7, OperatorStep, ToolStutter DEF OperatorSetsState, toolVars
<1>8. CASE TimePasses
  BY <1>8, TickStep, AgentStutter DEF TimePasses, agentVars
<1>9. CASE UNCHANGED vars
  BY <1>9, AgentStutter, ToolStutter DEF vars, history, agentVars, toolVars
<1> QED
  BY <1>1, <1>2, <1>3, <1>4, <1>6, <1>7, <1>8, <1>9 DEF Next

THEOREM Invariance == Spec => []IndInv
  BY InitInd, StepInd, PTL DEF Spec

\* Every reachable state is well typed: no penalty takes a score below zero,
\* no recovery takes it above the ceiling.
THEOREM TypeCorrect == Spec => []TypeOK
<1>1. IndInv => TypeOK
  BY DEF IndInv
<1> QED  BY <1>1, Invariance, PTL

\* A struck agent at a critical score is quarantined.
THEOREM CriticalQuarantined == Spec => []CriticalScoreIsQuarantined
<1>1. IndInv => CriticalScoreIsQuarantined
  BY DEF IndInv
<1> QED  BY <1>1, Invariance, PTL

\* Refusals by the gate exhaust an agent's right to dispatch.
THEOREM StrikesAreBudgeted == Spec => []StrikeBudget
<1>1. IndInv => StrikeBudget
  <2> SUFFICES ASSUME IndInv, NEW a \in Agents, strikes[a] > 0,
                      CanDispatchTools(a)
               PROVE  25 * strikes[a] < MaxScore - QuarantineThreshold
                                        + RecoveryRate * successes[a]
    BY DEF StrikeBudget
  <2>1. Entry(GetScore(a), GetState(a), strikes[a], Earned(a))
    BY Parts, ReadEntry
  <2>2. GetState(a) # "QUARANTINED"
    BY DEF CanDispatchTools
  <2>3. GetScore(a) > QuarantineThreshold
    BY <2>1, <2>2, ThresholdAssumption DEF Entry, MaxScore
  <2>4. GetScore(a) + 25 * strikes[a] <= MaxScore + Earned(a)
    BY <2>1, <2>2 DEF Entry
  <2>5. \A g, k, e, h \in Int :
           g > h /\ g + 25 * k <= 100 + e => 25 * k < 100 - h + e
    OBVIOUS
  <2>6. /\ GetScore(a) \in Int /\ strikes[a] \in Int /\ Earned(a) \in Int
        /\ QuarantineThreshold \in Int
    BY <2>1, ThresholdAssumption, BoundsAssumption DEF Entry, MaxScore
  <2>7. 25 * strikes[a] < MaxScore - QuarantineThreshold + Earned(a)
    BY <2>3, <2>4, <2>5, <2>6 DEF MaxScore
  <2> QED  BY <2>7 DEF Earned
<1> QED  BY <1>1, Invariance, PTL

\* A breaker is closed exactly while its failures are below the threshold.
THEOREM ClosedBelowThreshold == Spec => []ClosedIffBelowThreshold
<1>1. IndInv => ClosedIffBelowThreshold
  BY DEF IndInv
<1> QED  BY <1>1, Invariance, PTL

\* After FailureThreshold failures in a row no call is admitted before the
\* recovery time is over.
THEOREM QuietAfterTrip == Spec => QuietPeriod
<1> DEFINE Quiet(t) == failures[t] < FailureThreshold \/ sinceFailure[t] > RecoveryTime
<1>1. IndInv => \A t \in Tools : Call(t) => Quiet(t)
  <2> SUFFICES ASSUME ToolInv, NEW t \in Tools, Call(t) PROVE Quiet(t)
    BY Parts
  <2>1. CanDispatch(t)
    BY DEF Call, Admitted
  <2>2. CASE breaker[t] = "OPEN"
    <3>1. tripAge[t] > RecoveryTime
      BY <2>1, <2>2 DEF CanDispatch, BreakerState
    <3> QED
      BY <3>1, BreakerAssumption DEF ToolInv, TripIsLastFailure, BreakerTypeOK
  <2>3. CASE breaker[t] = "CLOSED"
    BY <2>3 DEF ToolInv, ClosedIffBelowThreshold
  <2>4. CASE breaker[t] = "HALF_OPEN"
    <3>1. tripAge[t] > RecoveryTime
      BY <2>4 DEF ToolInv, HalfOpenIsRecovered
    <3> QED
      BY <3>1, BreakerAssumption DEF ToolInv, TripIsLastFailure, BreakerTypeOK
  <2> QED  BY <2>2, <2>3, <2>4 DEF ToolInv, BreakerTypeOK, BreakerStates
<1> QED  BY <1>1, Invariance, PTL DEF Spec, QuietPeriod

\* Only the operator ends a quarantine, and nothing recovers points in one.
THEOREM QuarantineSticky == Spec => QuarantineIsSticky
<1> DEFINE Held(a) == state'[a] = "QUARANTINED" /\ score'[a] <= score[a]
<1>1. IndInv /\ [Next]_vars =>
        \A a \in known : state[a] = "QUARANTINED" => HeldOrLifted(a)
  <2> SUFFICES ASSUME AgentInv, [Next]_vars,
                      NEW a \in known, state[a] = "QUARANTINED"
               PROVE  HeldOrLifted(a)
    BY Parts
  <2>1. /\ a \in Agents /\ score[a] \in 0 .. MaxScore
        /\ GetScore(a) = score[a] /\ GetState(a) = "QUARANTINED"
    BY DEF AgentInv, TrustTypeOK, GetScore, GetState
  <2>2. ASSUME NEW b \in Agents, NEW s, NEW st, Store(b, s, st),
               b = a => s <= score[a] /\ st = "QUARANTINED"
        PROVE  Held(a)
    BY <2>1, <2>2 DEF Store, AgentInv, TrustTypeOK, MaxScore
  <2>3. ASSUME NEW b \in Agents, Read(b) PROVE Held(a)
    <3>1. b = a => GetScore(b) <= score[a] /\ GetState(b) = "QUARANTINED"
      BY <2>1 DEF MaxScore
    <3> QED  BY <2>2, <2>3, <3>1 DEF Read
  <2>4. ASSUME NEW b \in Agents, NEW v \in Violations, ApplyPenalty(b, v)
        PROVE  Held(a)
    <3> DEFINE st == IF Penalised(b, v) <= QuarantineThreshold
                     THEN "QUARANTINED" ELSE GetState(b)
    <3>1. Penalty(v) \in 10 .. 100
      BY DEF Violations, Penalty, PENALTIES
    <3>2. b = a => Penalised(b, v) <= score[a] /\ st = "QUARANTINED"
      BY <2>1, <3>1 DEF Penalised, MaxScore
    <3>3. Store(b, Penalised(b, v), st)
      BY <2>4 DEF ApplyPenalty
    <3> HIDE DEF st
    <3> QED  BY <2>2, <3>2, <3>3
  <2>5. ASSUME NEW b \in Agents, TurnSucceeded(b) PROVE Held(a)
    <3>1. CASE GetState(b) = "QUARANTINED"
      BY <2>3, <2>5, <3>1 DEF TurnSucceeded, RecordSuccessfulTurn
    <3>2. CASE GetState(b) # "QUARANTINED"
      BY <2>1, <2>2, <2>5, <3>2 DEF TurnSucceeded, RecordSuccessfulTurn
    <3> QED  BY <3>1, <3>2
  <2>6. ASSUME NEW b \in Agents, NEW st \in TrustStates, OperatorSetsState(b, st)
        PROVE  HeldOrLifted(a)
    <3>1. CASE b = a
      BY <2>6, <3>1 DEF HeldOrLifted
    <3>2. CASE b # a
      BY <2>1, <2>6, <3>2
      DEF OperatorSetsState, SetState, AgentInv, TrustTypeOK, MaxScore,
          HeldOrLifted
    <3> QED  BY <3>1, <3>2
  <2>7. ASSUME UNCHANGED trustVars PROVE Held(a)
    BY <2>1, <2>7 DEF trustVars, MaxScore
  <2>8. ASSUME NEW b \in Agents, NEW t \in Tools, NEW q \in Queries,
               ValidateTool(b, t, q)
        PROVE  Held(a)
    <3>1. CASE RejectedByGate(b, t, q)
      <4>1. PenaltyType(Verdict(t, q)) \in Violations
        BY DEF PenaltyType, Violations, PENALTIES
      <4> QED  BY <2>4, <3>1, <4>1 DEF RejectedByGate
    <3>2. CASE ~RejectedByGate(b, t, q)
      BY <2>3, <2>8, <3>2
      DEF ValidateTool, BlockedByTrust, FallbackByBreaker, Admitted
    <3> QED  BY <3>1, <3>2
  <2> QED
    BY <2>4, <2>5, <2>6, <2>7, <2>8
    DEF Next, ToolSucceeded, ToolFailed, HostPenalises,
        TimePasses, vars, HeldOrLifted
<1> QED  BY <1>1, Invariance, PTL DEF Spec, QuarantineIsSticky

-----------------------------------------------------------------------------
(* Why an open breaker is probed.  OpenIsProbed needs fairness and stays     *)
(* with TLC; what makes it true is this.                                     *)

\* While a breaker stays open the reports to come only run out, and only one
\* of a failure restarts the recovery time, which the clock brings to its
\* end; then the first call by an agent that may dispatch ends it
\* (circuit_breakers.py:77-81,100-102).
OpenWearsOut ==
    [][\A t \in Tools : breaker[t] = "OPEN" /\ breaker'[t] = "OPEN" =>
         /\ pending'[t] <= pending[t]
         /\ pending'[t] = pending[t] => tripAge'[t] >= tripAge[t]
         /\ TimePasses => tripAge[t] > RecoveryTime \/ tripAge'[t] > tripAge[t]
         /\ \A a \in Agents, q \in Queries :
               CanDispatchTools(a) /\ ValidateTool(a, t, q)
                  => tripAge[t] <= RecoveryTime]_vars

\* Asking the breaker of one tool leaves the open breakers and their ages.
LEMMA PollOfOpen ==
  ASSUME ToolInv, NEW u \in Tools, Poll(u),
         NEW t \in Tools, breaker[t] = "OPEN", breaker'[t] = "OPEN"
  PROVE  tripAge'[t] = tripAge[t] /\ (u = t => tripAge[t] <= RecoveryTime)
<1>1. breaker'[u] = BreakerState(u) /\ tripAge' = tripAge
  BY DEF Poll, ToolInv, BreakerTypeOK
<1> QED  BY <1>1, BreakerAssumption DEF BreakerState, ToolInv, BreakerTypeOK

THEOREM OpenIsWornOut == Spec => OpenWearsOut
<1>1. IndInv /\ [Next]_vars =>
        \A t \in Tools : breaker[t] = "OPEN" /\ breaker'[t] = "OPEN" =>
          /\ pending'[t] <= pending[t]
          /\ pending'[t] = pending[t] => tripAge'[t] >= tripAge[t]
          /\ TimePasses => tripAge[t] > RecoveryTime \/ tripAge'[t] > tripAge[t]
          /\ \A a \in Agents, q \in Queries :
                CanDispatchTools(a) /\ ValidateTool(a, t, q)
                   => tripAge[t] <= RecoveryTime
  <2> SUFFICES ASSUME ToolInv, [Next]_vars, NEW t \in Tools,
                      breaker[t] = "OPEN", breaker'[t] = "OPEN"
               PROVE  /\ pending'[t] <= pending[t]
                      /\ pending'[t] = pending[t] => tripAge'[t] >= tripAge[t]
                      /\ TimePasses =>
                            tripAge[t] > RecoveryTime \/ tripAge'[t] > tripAge[t]
                      /\ \A a \in Agents, q \in Queries :
                            CanDispatchTools(a) /\ ValidateTool(a, t, q)
                               => tripAge[t] <= RecoveryTime
    BY Parts
  <2> DEFINE RunsOut == /\ pending'[t] <= pending[t]
                        /\ pending'[t] = pending[t] => tripAge'[t] >= tripAge[t]
  <2>1. /\ pending[t] \in 0 .. MaxPending /\ MaxPending \in Nat
        /\ tripAge[t] \in 0 .. RecoveryTime + 1 /\ RecoveryTime \in Nat
    BY BoundsAssumption, BreakerAssumption DEF ToolInv, BreakerTypeOK
  <2>2. ASSUME NEW a \in Agents, NEW u \in Tools, NEW q \in Queries,
               ValidateTool(a, u, q)
        PROVE  /\ RunsOut
               /\ CanDispatchTools(a) /\ u = t => tripAge[t] <= RecoveryTime
    <3>1. CASE BlockedByTrust(a)
      BY <2>1, <3>1 DEF BlockedByTrust, breakerVars
    <3>2. CASE FallbackByBreaker(a, u) \/ RejectedByGate(a, u, q)
      BY <2>1, <3>2, PollOfOpen DEF FallbackByBreaker, RejectedByGate
    <3>3. CASE Admitted(a, u, q)
      <4>1. Poll(u) /\ CanDispatch(u)
        BY <3>3 DEF Admitted
      <4>2. u # t
        BY <4>1 DEF Poll, CanDispatch, ToolInv, BreakerTypeOK
      <4> QED
        BY <2>1, <3>3, <4>1, <4>2, PollOfOpen DEF Admitted, ToolInv
    <3> QED  BY <2>2, <3>1, <3>2, <3>3 DEF ValidateTool
  <2>3. ASSUME NEW u \in Tools, ToolSucceeded(u) PROVE RunsOut
    BY <2>1, <2>3 DEF ToolSucceeded, RecordSuccess, ToolInv
  <2>4. ASSUME NEW u \in Tools, ToolFailed(u) PROVE RunsOut
    <3>1. pending' = [pending EXCEPT ![u] = @ - 1]
      BY <2>4 DEF ToolFailed
    <3>2. u # t => tripAge'[t] = tripAge[t]
      BY <2>4 DEF ToolFailed, RecordFailureOrTimeout, ToolInv, BreakerTypeOK
    <3> QED  BY <2>1, <3>1, <3>2 DEF ToolInv
  <2>5. ASSUME TimePasses
        PROVE  RunsOut /\ (tripAge[t] > RecoveryTime \/ tripAge'[t] > tripAge[t])
    BY <2>1, <2>5 DEF TimePasses, Tick, Older
  <2>6. ASSUME UNCHANGED <<pending, tripAge>> PROVE RunsOut
    BY <2>1, <2>6
  <2>7. RunsOut
    BY <2>2, <2>3, <2>4, <2>5, <2>6
    DEF Next, TurnSucceeded, HostPenalises, OperatorSetsState, breakerVars, vars
  <2> HIDE DEF RunsOut
  <2>8. \A a \in Agents, q \in Queries :
           CanDispatchTools(a) /\ ValidateTool(a, t, q) => tripAge[t] <= RecoveryTime
    BY <2>2
  <2> QED  BY <2>5, <2>7, <2>8 DEF RunsOut
<1> QED  BY <1>1, Invariance, PTL DEF Spec, OpenWearsOut
=============================================================================
