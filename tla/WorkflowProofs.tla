--------------------------- MODULE WorkflowProofs ---------------------------
(* Proofs about AgentWorkflows, for any loops, agents, sessions and tools. *)
(* The loops are first shown to use the runtime as its own specification   *)
(* says, so that what is proved of the runtime holds under them as well;   *)
(* the counting of turns and calls rests on that.                          *)
EXTENDS AgentWorkflows, FiniteSetTheorems, TLAPS

P == INSTANCE GovernanceRuntimeProofs

\* The part of the type invariant that is about the loops alone.
LoopTypeOK ==
    /\ pc \in [Workflows -> Places]
    /\ tool \in [Workflows -> Tools \cup {NoTool}]
    /\ \A w \in Workflows : tool[w] \in Tools <=> pc[w] \in {"cleared", "running"}

LEMMA LoopsTyped == Spec => []LoopTypeOK
<1> USE DEF Places
<1>1. Init => LoopTypeOK
  BY WorkflowAssumption DEF Init, LoopTypeOK
<1>2. LoopTypeOK /\ [Next]_vars => LoopTypeOK'
  BY WorkflowAssumption
  DEF LoopTypeOK, Next, WorkflowStep, ResetSession, RuntimeStep, TakeTurn,
      Inspect, Validate, Refused, Start, ToolReturns, Goto, vars, loopVars
<1> QED  BY <1>1, <1>2, PTL DEF Spec

\* The loops, and what happens beside them, are a host of the runtime: each
\* of their steps is by its form a step of the runtime or none.
LEMMA RuntimeIsUsed == Spec => R!Spec
<1>1. Init => R!Init
  BY DEF Init
<1>2. [Next]_vars => [R!Next]_(R!vars)
  <2> SUFFICES ASSUME [Next]_vars PROVE [R!Next]_(R!vars)
    OBVIOUS
  <2> USE DEF R!vars, R!trustVars, R!breakerVars, R!history, runtimeVars
  <2>1. ASSUME NEW w \in Workflows,
               \/ TakeTurn(w)
               \/ \E is_safe \in Scans : Inspect(w, is_safe)
               \/ Start(w)
               \/ ToolReturns(w)
        PROVE  UNCHANGED R!vars
    BY <2>1 DEF TakeTurn, Inspect, Start, ToolReturns
  <2>2. ASSUME NEW w \in Workflows, NEW t \in Tools, NEW q \in R!Queries,
               Validate(w, t, q) \/ Refused(w, t, q)
        PROVE  R!Next
    <3>1. agentOf[w] \in Agents
      BY WorkflowAssumption
    <3>2. R!ValidateTool(agentOf[w], t, q)
      BY <2>2 DEF Validate, Refused, R!ValidateTool
    <3> QED  BY <3>1, <3>2 DEF R!Next
  <2>3. ASSUME NEW s \in Sessions, ResetSession(s) PROVE UNCHANGED R!vars
    BY <2>3 DEF ResetSession
  <2>4. ASSUME RuntimeStep PROVE R!Next
    BY <2>4 DEF RuntimeStep, R!Next
  <2>5. ASSUME UNCHANGED vars PROVE UNCHANGED R!vars
    BY <2>5 DEF vars
  <2> QED
    BY <2>1, <2>2, <2>3, <2>4, <2>5 DEF Next, WorkflowStep
<1> QED  BY <1>1, <1>2, PTL DEF Spec, R!Spec

\* The two instances of the runtime's specification, by name and with its
\* proofs, are one.
LEMMA SameSpec == R!Spec <=> P!Spec
<1>1. (R!Init <=> P!Init) /\ (R!Next <=> P!Next) /\ R!vars = P!vars
  BY
  DEF R!Init, R!TrustInit, R!BreakerInit, R!Next, R!ValidateTool,
      R!BlockedByTrust, R!FallbackByBreaker, R!RejectedByGate, R!Admitted,
      R!ToolSucceeded, R!ToolFailed, R!TurnSucceeded, R!HostPenalises,
      R!OperatorSetsState, R!TimePasses, R!vars, R!history, R!trustVars,
      R!breakerVars, R!MaxScore, R!RecoveredScore, R!TrustStates,
      R!PENALTIES, R!Violations, R!Penalty, R!GetScore, R!GetState,
      R!CanDispatchTools, R!Store, R!Read, R!SetState, R!Penalised,
      R!ApplyPenalty, R!Recovered, R!RecordSuccessfulTurn, R!BreakerStates,
      R!BreakerState, R!CanDispatch, R!Poll, R!RecordSuccess,
      R!OneMoreFailure, R!RecordFailureOrTimeout, R!Older, R!Tick,
      R!allowed_tools, R!Queries, R!Verdict, R!IsSafe, R!PenaltyType, R!Reports,
      P!Init, P!TrustInit, P!BreakerInit, P!Next, P!ValidateTool,
      P!BlockedByTrust, P!FallbackByBreaker, P!RejectedByGate, P!Admitted,
      P!ToolSucceeded, P!ToolFailed, P!TurnSucceeded, P!HostPenalises,
      P!OperatorSetsState, P!TimePasses, P!vars, P!history, P!trustVars,
      P!breakerVars, P!MaxScore, P!RecoveredScore, P!TrustStates,
      P!PENALTIES, P!Violations, P!Penalty, P!GetScore, P!GetState,
      P!CanDispatchTools, P!Store, P!Read, P!SetState, P!Penalised,
      P!ApplyPenalty, P!Recovered, P!RecordSuccessfulTurn, P!BreakerStates,
      P!BreakerState, P!CanDispatch, P!Poll, P!RecordSuccess,
      P!OneMoreFailure, P!RecordFailureOrTimeout, P!Older, P!Tick,
      P!allowed_tools, P!Queries, P!Verdict, P!IsSafe, P!PenaltyType, P!Reports
<1>2. [R!Next]_(R!vars) <=> [P!Next]_(P!vars)
  BY <1>1
  DEF R!vars, R!trustVars, R!breakerVars, R!history,
      P!vars, P!trustVars, P!breakerVars, P!history
<1> QED  BY <1>1, <1>2, PTL DEF R!Spec, P!Spec

LEMMA SameInv == (R!IndInv <=> P!IndInv) /\ (R!StrikeBudget <=> P!StrikeBudget)
BY
  DEF R!TypeOK, R!IndInv, R!TrustTypeOK, R!BreakerTypeOK,
      R!UnknownIsPristine, R!CriticalScoreIsQuarantined, R!ScoreIsEarned,
      R!ClosedIffBelowThreshold, R!TripIsLastFailure,
      R!HalfOpenIsRecovered, R!StrikeBudget, P!TypeOK, P!IndInv,
      P!TrustTypeOK, P!BreakerTypeOK, P!UnknownIsPristine,
      P!CriticalScoreIsQuarantined, P!ScoreIsEarned,
      P!ClosedIffBelowThreshold, P!TripIsLastFailure,
      P!HalfOpenIsRecovered, P!StrikeBudget, R!MaxScore, R!TrustStates,
      R!BreakerStates, R!GetScore, R!GetState, R!CanDispatchTools,
      P!MaxScore, P!TrustStates, P!BreakerStates, P!GetScore, P!GetState,
      P!CanDispatchTools

\* What is proved of the runtime for any host holds under the loops.
LEMMA RuntimeInv == Spec => []R!IndInv
<1>1. P!Spec => []P!IndInv
  BY P!Invariance, RuntimeAssumption DEF P!MaxScore
<1> QED  BY <1>1, SameSpec, SameInv, RuntimeIsUsed, PTL

\* Refusals by the gate exhaust the right to dispatch of an agent that runs
\* in loops, however many of them.
THEOREM StrikesBudgetedInLoops == Spec => []R!StrikeBudget
<1>1. P!Spec => []P!StrikeBudget
  BY P!StrikesAreBudgeted, RuntimeAssumption DEF P!MaxScore
<1> QED  BY <1>1, SameSpec, SameInv, RuntimeIsUsed, PTL

\* So do the runtime's other guarantees: a refused agent at a critical score
\* is quarantined whichever of its loops was refused, breakers count the
\* failures of all loops, a tripped tool is left alone by all of them, and no
\* loop's late success lifts a quarantine (trust.py:72,91, circuit_breakers.py:79,100).
THEOREM GuaranteesInLoops ==
  Spec => /\ [](R!CriticalScoreIsQuarantined /\ R!ClosedIffBelowThreshold)
          /\ R!QuietPeriod
          /\ R!QuarantineIsSticky
<1>1. R!IndInv => R!CriticalScoreIsQuarantined /\ R!ClosedIffBelowThreshold
  BY DEF R!IndInv
<1>2. (P!Spec => P!QuietPeriod) /\ (P!Spec => P!QuarantineIsSticky)
  BY P!QuietAfterTrip, P!QuarantineSticky, RuntimeAssumption DEF P!MaxScore
<1> DEFINE QuietR ==
             \A t \in Tools : R!Call(t) =>
                failures[t] < FailureThreshold \/ sinceFailure[t] > RecoveryTime
           QuietP ==
             \A t \in Tools : P!Call(t) =>
                failures[t] < FailureThreshold \/ sinceFailure[t] > RecoveryTime
           StickyR ==
             \A a \in known : state[a] = "QUARANTINED" => R!HeldOrLifted(a)
           StickyP ==
             \A a \in known : state[a] = "QUARANTINED" => P!HeldOrLifted(a)
<1>3. R!vars = P!vars /\ (UNCHANGED R!vars <=> UNCHANGED P!vars)
  BY DEF R!vars, R!trustVars, R!breakerVars, R!history,
         P!vars, P!trustVars, P!breakerVars, P!history
<1>4. QuietR <=> QuietP
  BY DEF R!Call, R!Admitted, R!Poll, R!Read, R!Store, R!CanDispatchTools,
         R!GetState, R!GetScore, R!MaxScore, R!CanDispatch, R!BreakerState,
         R!Queries, R!Verdict, R!IsSafe, R!allowed_tools, R!Reports, R!history,
         P!Call, P!Admitted, P!Poll, P!Read, P!Store, P!CanDispatchTools,
         P!GetState, P!GetScore, P!MaxScore, P!CanDispatch, P!BreakerState,
         P!Queries, P!Verdict, P!IsSafe, P!allowed_tools, P!Reports, P!history
<1>5. [QuietR]_(R!vars) <=> [QuietP]_(P!vars)
  BY <1>3, <1>4
<1>6. StickyR <=> StickyP
  BY DEF R!HeldOrLifted, R!OperatorSetsState, R!SetState, R!TrustStates,
         R!breakerVars, P!HeldOrLifted, P!OperatorSetsState, P!SetState,
         P!TrustStates, P!breakerVars
<1>7. [StickyR]_(R!vars) <=> [StickyP]_(P!vars)
  BY <1>3, <1>6
<1>8. (R!QuietPeriod <=> P!QuietPeriod) /\ (R!QuarantineIsSticky <=> P!QuarantineIsSticky)
  BY <1>5, <1>7, PTL
  DEF R!QuietPeriod, P!QuietPeriod, R!QuarantineIsSticky, P!QuarantineIsSticky
<1> QED
  BY <1>1, <1>2, <1>8, RuntimeInv, SameSpec, RuntimeIsUsed, PTL
 
-----------------------------------------------------------------------------
(* Turns and calls *)

CountTypeOK ==
    /\ CeilingTypeOK
    /\ calls \in [Sessions -> Nat]
    /\ carried \in [Sessions -> 0 .. Cardinality(Workflows)]
    /\ resets \in [Sessions -> 0 .. MaxResets]

\* Sets of loops are finite.
LEMMA LoopSets ==
  ASSUME NEW s
  PROVE  /\ IsFiniteSet(InTurn(s))
         /\ Cardinality(Workflows) \in Nat
         /\ Cardinality(InTurn(s)) \in 0 .. Cardinality(Workflows)
<1>1. InTurn(s) \subseteq Workflows
  BY DEF InTurn, Of
<1>2. IsFiniteSet(InTurn(s)) /\ Cardinality(InTurn(s)) <= Cardinality(Workflows)
  BY <1>1, WorkflowAssumption, FS_Subset
<1>3. Cardinality(InTurn(s)) \in Nat /\ Cardinality(Workflows) \in Nat
  BY <1>2, WorkflowAssumption, FS_CardinalityType
<1> QED  BY <1>2, <1>3

LEMMA CountsTyped == Spec => []CountTypeOK
<1> USE WorkflowAssumption, CeilingAssumption, LoopSets DEF CountTypeOK, CeilingTypeOK
<1>1. Init => CountTypeOK
  BY DEF Init, CeilingInit
<1>2. CountTypeOK /\ [Next]_vars => CountTypeOK'
  <2> SUFFICES ASSUME CountTypeOK, [Next]_vars PROVE CountTypeOK'
    OBVIOUS
  <2>1. ASSUME NEW w \in Workflows, TakeTurn(w) PROVE CountTypeOK'
    BY <2>1 DEF TakeTurn, CountTurn
  <2>2. ASSUME NEW w \in Workflows, NEW t \in Tools, NEW q \in R!Queries,
               Validate(w, t, q)
        PROVE  CountTypeOK'
    BY <2>2 DEF Validate
  <2>3. ASSUME NEW s \in Sessions, ResetSession(s) PROVE CountTypeOK'
    BY <2>3 DEF ResetSession, Reset
  <2>4. ASSUME UNCHANGED ceilingVars PROVE CountTypeOK'
    BY <2>4 DEF ceilingVars
  <2> QED
    BY <2>1, <2>2, <2>3, <2>4
    DEF Next, WorkflowStep, Inspect, Refused, Start, ToolReturns, RuntimeStep, vars
<1> QED  BY <1>1, <1>2, PTL DEF Spec

\* What one step does to the turns under way in a session: the loop w may
\* begin one, end one or neither.
LEMMA TurnsMove ==
  ASSUME NEW s, NEW w \in Workflows, LoopTypeOK,
         \A v \in Workflows \ {w} : pc'[v] = pc[v]
  PROVE  LET before == Cardinality(InTurn(s))
             after == Cardinality(InTurn(s)')
         IN  /\ w \notin InTurn(s) /\ w \in InTurn(s)' => after = before + 1
             /\ w \in InTurn(s) /\ w \notin InTurn(s)' => after = before - 1
             /\ (w \in InTurn(s) <=> w \in InTurn(s)') => after = before
<1> DEFINE old == InTurn(s)
           new == InTurn(s)'
<1>1. \A v \in Workflows \ {w} : v \in old <=> v \in new
  BY DEF InTurn, Of
<1>2. old \subseteq Workflows /\ new \subseteq Workflows
  BY DEF InTurn, Of
<1>3. IsFiniteSet(old) /\ Cardinality(old) \in Nat
  BY LoopSets
<1>4. CASE w \notin old /\ w \in new
  <2>1. new = old \cup {w}
    BY <1>1, <1>2, <1>4
  <2> QED  BY <1>3, <1>4, <2>1, FS_AddElement
<1>5. CASE w \in old /\ w \notin new
  <2>1. new = old \ {w}
    BY <1>1, <1>2, <1>5
  <2> QED  BY <1>3, <1>5, <2>1, FS_RemoveElement
<1>6. CASE w \in old <=> w \in new
  <2>1. new = old
    BY <1>1, <1>2, <1>6
  <2> QED  BY <2>1
<1> QED  BY <1>3, <1>4, <1>5, <1>6

\* One turn under way is one count, and one call at most.
LEMMA TurnsCounted ==
  LoopTypeOK /\ CountTypeOK /\ TurnsAreCounted /\ [Next]_vars => TurnsAreCounted'
<1> SUFFICES ASSUME LoopTypeOK, CountTypeOK, TurnsAreCounted, [Next]_vars,
                    NEW s \in Sessions
             PROVE  calls'[s] + Cardinality(InTurn(s)')
                        <= Least(turns'[s], MaxTurns) + carried'[s]
  BY DEF TurnsAreCounted
<1> DEFINE n == Cardinality(InTurn(s))
           m == Cardinality(InTurn(s)')
<1>1. /\ calls[s] + n <= Least(turns[s], MaxTurns) + carried[s]
      /\ calls[s] \in Nat /\ n \in Nat /\ carried[s] \in Nat
      /\ turns[s] \in 0 .. MaxTurns + 1 /\ MaxTurns \in Nat
  BY LoopSets, CeilingAssumption DEF CountTypeOK, CeilingTypeOK, TurnsAreCounted
<1> USE DEF LoopTypeOK, Goto, Least
<1>2. ASSUME NEW w \in Workflows, TakeTurn(w)
      PROVE  calls'[s] + m <= Least(turns'[s], MaxTurns) + carried'[s]
  <2> USE <1>2 DEF TakeTurn
  <2>1. w \notin InTurn(s)
    BY DEF InTurn, Of
  <2>2. sessionOf[w] \in Sessions
    BY WorkflowAssumption
  <2>3. CASE IsAllowed(sessionOf[w]) /\ sessionOf[w] = s
    <3>1. m = n + 1
      BY <2>1, <2>3, TurnsMove DEF InTurn, Of
    <3>2. turns[s] < MaxTurns /\ turns'[s] = turns[s] + 1
      BY <1>1, <2>3 DEF IsAllowed, CountTurn, CountTypeOK, CeilingTypeOK
    <3> QED  BY <1>1, <3>1, <3>2
  <2>4. CASE ~(IsAllowed(sessionOf[w]) /\ sessionOf[w] = s)
    <3>1. m = n
      BY <2>1, <2>4, TurnsMove DEF InTurn, Of
    <3>2. Least(turns'[s], MaxTurns) = Least(turns[s], MaxTurns)
      BY <1>1, <2>2, <2>4 DEF IsAllowed, CountTurn, CountTypeOK, CeilingTypeOK
    <3> QED  BY <1>1, <3>1, <3>2
  <2> QED  BY <2>3, <2>4
<1>3. ASSUME NEW w \in Workflows, NEW safe \in Scans, Inspect(w, safe)
      PROVE  calls'[s] + m <= Least(turns'[s], MaxTurns) + carried'[s]
  <2>1. w \in InTurn(s)' => w \in InTurn(s)
    BY <1>3 DEF Inspect, InTurn, Of
  <2>2. m = n \/ m = n - 1
    BY <1>3, <2>1, TurnsMove DEF Inspect
  <2> QED  BY <1>1, <1>3, <2>2 DEF Inspect, ceilingVars
<1>4. ASSUME NEW w \in Workflows, NEW t \in Tools, NEW q \in R!Queries,
             Validate(w, t, q)
      PROVE  calls'[s] + m <= Least(turns'[s], MaxTurns) + carried'[s]
  <2> USE <1>4 DEF Validate
  <2>1. w \notin InTurn(s)' /\ (w \in InTurn(s) <=> sessionOf[w] = s)
    BY DEF InTurn, Of
  <2>2. CASE sessionOf[w] = s
    <3>1. m = n - 1
      BY <2>1, <2>2, TurnsMove
    <3>2. calls'[s] = calls[s] + 1
      BY <2>2 DEF CountTypeOK
    <3> QED  BY <1>1, <3>1, <3>2
  <2>3. CASE sessionOf[w] # s
    <3>1. m = n
      BY <2>1, <2>3, TurnsMove
    <3>2. calls'[s] = calls[s]
      BY <2>3 DEF CountTypeOK
    <3> QED  BY <1>1, <3>1, <3>2
  <2> QED  BY <2>2, <2>3
<1>5. ASSUME NEW w \in Workflows, NEW t \in Tools, NEW q \in R!Queries,
             Refused(w, t, q)
      PROVE  calls'[s] + m <= Least(turns'[s], MaxTurns) + carried'[s]
  <2>1. w \notin InTurn(s)'
    BY <1>5 DEF Refused, InTurn, Of
  <2>2. m = n \/ m = n - 1
    BY <1>5, <2>1, TurnsMove DEF Refused
  <2> QED  BY <1>1, <1>5, <2>2 DEF Refused, ceilingVars
<1>6. ASSUME NEW w \in Workflows, Start(w) \/ ToolReturns(w)
      PROVE  calls'[s] + m <= Least(turns'[s], MaxTurns) + carried'[s]
  <2>1. m = n
    BY <1>6, TurnsMove DEF Start, ToolReturns, InTurn, Of
  <2> QED  BY <1>1, <1>6, <2>1 DEF Start, ToolReturns, ceilingVars
<1>7. ASSUME NEW r \in Sessions, ResetSession(r)
      PROVE  calls'[s] + m <= Least(turns'[s], MaxTurns) + carried'[s]
  <2>1. m = n
    BY <1>7 DEF ResetSession, loopVars, InTurn, Of
  <2>2. CASE r = s
    BY <1>1, <1>7, <2>1, <2>2
    DEF ResetSession, Reset, CountTypeOK, CeilingTypeOK
  <2>3. CASE r # s
    BY <1>1, <1>7, <2>1, <2>3
    DEF ResetSession, Reset, CountTypeOK, CeilingTypeOK
  <2> QED  BY <2>2, <2>3
<1>8. ASSUME UNCHANGED <<loopVars, ceilingVars>>
      PROVE  calls'[s] + m <= Least(turns'[s], MaxTurns) + carried'[s]
  BY <1>1, <1>8 DEF loopVars, ceilingVars, InTurn, Of
<1> QED
  BY <1>2, <1>3, <1>4, <1>5, <1>6, <1>7, <1>8
  DEF Next, WorkflowStep, RuntimeStep, vars

LateTypeOK == lateTools \in [Workflows -> 0 .. 2]

\* The tools that a loop starts for an agent without the right to dispatch:
\* the one it was cleared for, and then it is cleared for no other.
LEMMA LateToolsBounded ==
  ASSUME LoopTypeOK, R!TypeOK, LateTypeOK, RestrictedLoopsStartOneTool,
         LateToolsWereCleared, [Next]_vars
  PROVE  /\ LateTypeOK' /\ RestrictedLoopsStartOneTool'
         /\ LateToolsWereCleared'
<1> USE DEF LateTypeOK, RestrictedLoopsStartOneTool, LateToolsWereCleared
<1> DEFINE Free(a) == R!CanDispatchTools(a)
           Good(u) == /\ lateTools'[u] \in 0 .. 1
                      /\ lateTools'[u] > 0 =>
                            pc'[u] # "cleared" /\ ~Free(agentOf[u])'
           Late == /\ lateTools' \in [Workflows -> 0 .. 2]
                   /\ \A u \in Workflows : Good(u)
<1>1. UNCHANGED runtimeVars => \A a : Free(a)' = Free(a)
  BY DEF runtimeVars, R!CanDispatchTools, R!GetState
<1>2. ASSUME NEW w \in Workflows,
             \/ TakeTurn(w)
             \/ \E is_safe \in Scans : Inspect(w, is_safe)
             \/ ToolReturns(w)
      PROVE  Late
  <2>1. /\ UNCHANGED <<runtimeVars, lateTools>>
        /\ \A u \in Workflows : pc'[u] = "cleared" => pc[u] = "cleared"
    BY <1>2 DEF TakeTurn, Inspect, ToolReturns, Goto, LoopTypeOK
  <2> QED  BY <1>1, <2>1
<1>3. ASSUME NEW w \in Workflows, NEW t \in Tools, NEW q \in R!Queries,
             Validate(w, t, q)
      PROVE  Late
  <2>1. Free(agentOf[w])'
    <3>1. agentOf[w] \in Agents /\ state \in [Agents -> R!TrustStates]
      BY WorkflowAssumption DEF R!TypeOK, R!TrustTypeOK
    <3>2. Free(agentOf[w]) /\ R!Read(agentOf[w])
      BY <1>3 DEF Validate, R!Admitted
    <3>3. agentOf[w] \in known' /\ state'[agentOf[w]] = R!GetState(agentOf[w])
      BY <3>1, <3>2 DEF R!Read, R!Store
    <3> QED  BY <3>2, <3>3 DEF R!CanDispatchTools, R!GetState
  <2>2. /\ lateTools' = Lapsed
        /\ \A u \in Workflows \ {w} : pc'[u] = pc[u]
    BY <1>3 DEF Validate, Goto, LoopTypeOK
  <2> QED  BY <2>1, <2>2 DEF Lapsed
<1>4. ASSUME lateTools' = Lapsed,
             \A u \in Workflows : pc'[u] = "cleared" => pc[u] = "cleared"
      PROVE  Late
  BY <1>4 DEF Lapsed
<1>5. ASSUME NEW w \in Workflows, NEW t \in Tools, NEW q \in R!Queries,
             Refused(w, t, q)
      PROVE  Late
  BY <1>4, <1>5 DEF Refused, Goto, LoopTypeOK
<1>6. ASSUME NEW w \in Workflows, Start(w) PROVE Late
  <2>1. /\ UNCHANGED runtimeVars /\ pc[w] = "cleared"
        /\ pc'[w] # "cleared"
        /\ \A u \in Workflows \ {w} :
              lateTools'[u] = lateTools[u] /\ pc'[u] = pc[u]
        /\ lateTools' \in [Workflows -> 0 .. 2]
    BY <1>6 DEF Start, Goto, LoopTypeOK
  <2>2. lateTools[w] = 0
    BY <2>1
  <2>3. lateTools'[w] = IF Free(agentOf[w]) THEN 0 ELSE 1
    BY <1>6, <2>2 DEF Start
  <2>4. Good(w)
    BY <1>1, <2>1, <2>3
  <2>5. \A u \in Workflows \ {w} : Good(u)
    BY <1>1, <2>1
  <2> QED  BY <2>1, <2>4, <2>5
<1>7. ASSUME NEW s \in Sessions, ResetSession(s) PROVE Late
  BY <1>1, <1>7 DEF ResetSession, loopVars
<1>8. CASE RuntimeStep
  BY <1>4, <1>8 DEF RuntimeStep, loopVars
<1>9. CASE UNCHANGED vars
  BY <1>1, <1>9 DEF vars, loopVars
<1>10. Late
  BY <1>2, <1>3, <1>5, <1>6, <1>7, <1>8, <1>9 DEF Next, WorkflowStep
<1> QED  BY <1>10

\* The inductive invariant of the loops.
THEOREM Invariance == Spec => []IndInv
<1> DEFINE Late == /\ LateTypeOK
                   /\ RestrictedLoopsStartOneTool
                   /\ LateToolsWereCleared
<1>1. Init => TurnsAreCounted /\ Late
  <2> SUFFICES ASSUME Init PROVE TurnsAreCounted /\ Late
    OBVIOUS
  <2>1. \A s : InTurn(s) = {}
    BY DEF Init, InTurn, Of
  <2>2. TurnsAreCounted
    <3> SUFFICES ASSUME NEW s \in Sessions
                 PROVE  calls[s] + Cardinality(InTurn(s))
                            <= Least(turns[s], MaxTurns) + carried[s]
      BY DEF TurnsAreCounted
    <3>1. turns[s] = 0 /\ calls[s] = 0 /\ carried[s] = 0
      BY DEF Init, CeilingInit
    <3>2. Cardinality(InTurn(s)) = 0
      BY <2>1, FS_EmptySet
    <3> QED  BY <3>1, <3>2, CeilingAssumption DEF Least
  <2> QED
    BY <2>2 DEF Init, LateTypeOK, RestrictedLoopsStartOneTool, LateToolsWereCleared
<1>2. Spec => [](LoopTypeOK /\ CountTypeOK /\ R!IndInv)
  BY LoopsTyped, CountsTyped, RuntimeInv, PTL
<1>3. R!IndInv => R!TypeOK
  BY DEF R!IndInv
<1>4. LoopTypeOK /\ R!TypeOK /\ Late /\ [Next]_vars => Late'
  BY LateToolsBounded
<1>5. Spec => [](TurnsAreCounted /\ Late)
  BY <1>1, <1>2, <1>3, <1>4, TurnsCounted, PTL DEF Spec
<1>6. LoopTypeOK /\ CountTypeOK /\ R!TypeOK /\ TurnsAreCounted /\ Late => IndInv
  BY DEF LoopTypeOK, CountTypeOK, LateTypeOK, TypeOK, IndInv
<1> QED  BY <1>2, <1>3, <1>5, <1>6, PTL

\* Every reachable state of loops, counts and runtime is well typed.
THEOREM TypeCorrect == Spec => []TypeOK
<1>1. IndInv => TypeOK
  BY DEF IndInv
<1> QED  BY <1>1, Invariance, PTL

\* One count of a session admits MaxTurns calls at most, besides the turns
\* that were under way when it was reset.
THEOREM CallsCapped == Spec => []ToolCallsAreCapped
<1>1. IndInv => ToolCallsAreCapped
  <2> SUFFICES ASSUME IndInv, NEW s \in Sessions
               PROVE  calls[s] <= MaxTurns + carried[s]
    BY DEF ToolCallsAreCapped
  <2>1. /\ calls[s] + Cardinality(InTurn(s)) <= Least(turns[s], MaxTurns) + carried[s]
        /\ calls[s] \in Nat /\ carried[s] \in Nat /\ MaxTurns \in Nat
        /\ turns[s] \in 0 .. MaxTurns + 1 /\ Cardinality(InTurn(s)) \in Nat
    BY LoopSets, CeilingAssumption DEF IndInv, TypeOK, CeilingTypeOK, TurnsAreCounted
  <2> QED  BY <2>1 DEF Least
<1> QED  BY <1>1, Invariance, PTL

\* A loop starts one tool at most after its agent lost the right to dispatch.
THEOREM OneToolAtMost == Spec => []RestrictedLoopsStartOneTool
<1>1. IndInv => RestrictedLoopsStartOneTool
  BY DEF IndInv
<1> QED  BY <1>1, Invariance, PTL

-----------------------------------------------------------------------------
(* Why the loops end.  LoopsEnd needs fairness and stays with TLC; what      *)
(* makes it true is that the work left to a loop is a number that falls.     *)

Place(p) == CASE p = "turn"      -> 5
              [] p = "inspected" -> 4
              [] p = "cleared"   -> 3
              [] p = "running"   -> 2
              [] p = "idle"      -> 1
              [] p = "halted"    -> 0
WorkLeft(w) == 5 * (MaxTurns + 1 - turns[sessionOf[w]]) + Place(pc[w])

\* Every step of a loop takes from the work it has left, however its prompt
\* is judged, its call is answered and its tool ends, and nothing but a reset
\* of its own session gives it more.  So out of one count a loop makes no
\* more than 5 * MaxTurns + 10 steps (circuit_breakers.py:36-38,51).
WorkIsUsedUp ==
    [][\A w \in Workflows :
         /\ WorkflowStep(w) => WorkLeft(w)' < WorkLeft(w)
         /\ WorkLeft(w)' > WorkLeft(w) => ResetSession(sessionOf[w])]_vars
WorkIsBounded == \A w \in Workflows : WorkLeft(w) \in 0 .. 5 * MaxTurns + 10

\* The work left before and after a step, by what the step does to the count
\* and to the place of a loop v.
LEMMA WorkOf ==
  ASSUME LoopTypeOK, CountTypeOK, NEW v \in Workflows
  PROVE  /\ sessionOf[v] \in Sessions /\ turns[sessionOf[v]] \in 0 .. MaxTurns + 1
         /\ Place(pc[v]) \in 0 .. 5 /\ MaxTurns \in Nat
         /\ WorkLeft(v) \in 0 .. 5 * MaxTurns + 10
<1>1. sessionOf[v] \in Sessions /\ turns[sessionOf[v]] \in 0 .. MaxTurns + 1
  BY WorkflowAssumption DEF CountTypeOK, CeilingTypeOK
<1>2. Place(pc[v]) \in 0 .. 5
  BY DEF LoopTypeOK, Places, Place
<1> QED  BY <1>1, <1>2, CeilingAssumption DEF WorkLeft

\* A step of a loop that leaves the counts alone moves it to a place with less
\* work, and moves no other loop.
LEMMA PlaceFalls ==
  ASSUME LoopTypeOK, CountTypeOK, NEW w \in Workflows, NEW v \in Workflows,
         NEW p, Place(p) \in 0 .. 5, Place(p) < Place(pc[w]),
         UNCHANGED turns, Goto(w, p)
  PROVE  /\ WorkLeft(w)' < WorkLeft(w)
         /\ WorkLeft(v)' <= WorkLeft(v)
<1>1. pc'[w] = p /\ (v # w => pc'[v] = pc[v])
  BY DEF Goto, LoopTypeOK
<1> QED  BY <1>1, WorkOf DEF WorkLeft

THEOREM LoopsWearOut == Spec => []WorkIsBounded /\ WorkIsUsedUp
<1>1. LoopTypeOK /\ CountTypeOK => WorkIsBounded
  BY WorkOf DEF WorkIsBounded
<1>2. LoopTypeOK /\ CountTypeOK /\ WorkIsBounded' /\ [Next]_vars =>
        \A w \in Workflows :
           /\ WorkflowStep(w) => WorkLeft(w)' < WorkLeft(w)
           /\ WorkLeft(w)' > WorkLeft(w) => ResetSession(sessionOf[w])
  <2> SUFFICES ASSUME LoopTypeOK, CountTypeOK, WorkIsBounded', [Next]_vars,
                      NEW v \in Workflows
               PROVE  /\ WorkflowStep(v) => WorkLeft(v)' < WorkLeft(v)
                      /\ WorkLeft(v)' > WorkLeft(v) => ResetSession(sessionOf[v])
    OBVIOUS
  <2>0. \A u \in Workflows : WorkLeft(u) \in Int /\ WorkLeft(u)' \in Int
    BY WorkOf DEF WorkIsBounded
  <2>1. ASSUME NEW w \in Workflows, WorkflowStep(w)
        PROVE  WorkLeft(w)' < WorkLeft(w) /\ WorkLeft(v)' <= WorkLeft(v)
    <3>1. CASE TakeTurn(w)
      <4> DEFINE next == IF IsAllowed(sessionOf[w]) THEN "turn" ELSE "halted"
      <4>1. pc[w] = "idle" /\ pc'[w] = next /\ (v # w => pc'[v] = pc[v])
        BY <3>1 DEF TakeTurn, Goto, LoopTypeOK
      <4>2. turns' = [turns EXCEPT ![sessionOf[w]] =
                                      IF @ <= MaxTurns THEN @ + 1 ELSE @]
        BY <3>1 DEF TakeTurn, CountTurn
      <4>3. turns'[sessionOf[v]] \in Int /\ turns'[sessionOf[v]] >= turns[sessionOf[v]]
        BY <4>2, WorkOf DEF CountTypeOK, CeilingTypeOK
      <4>4. WorkLeft(w)' < WorkLeft(w)
        <5>1. CASE IsAllowed(sessionOf[w])
          <6>1. turns'[sessionOf[w]] = turns[sessionOf[w]] + 1
            BY <4>2, <5>1, WorkOf DEF IsAllowed, CountTypeOK, CeilingTypeOK
          <6> QED  BY <4>1, <5>1, <6>1, WorkOf DEF WorkLeft, Place
        <5>2. CASE ~IsAllowed(sessionOf[w])
          <6>1. /\ turns'[sessionOf[w]] \in Int
                /\ turns'[sessionOf[w]] >= turns[sessionOf[w]]
            BY <4>2, WorkOf DEF CountTypeOK, CeilingTypeOK
          <6> QED  BY <4>1, <5>2, <6>1, WorkOf DEF WorkLeft, Place
        <5> QED  BY <5>1, <5>2
      <4>5. v # w => WorkLeft(v)' <= WorkLeft(v)
        BY <4>1, <4>3, WorkOf DEF WorkLeft
      <4>6. WorkLeft(v)' <= WorkLeft(v)
        BY <2>0, <4>4, <4>5
      <4> QED  BY <4>4, <4>6
    <3>2. ASSUME NEW safe \in Scans, Inspect(w, safe)
          PROVE  WorkLeft(w)' < WorkLeft(w) /\ WorkLeft(v)' <= WorkLeft(v)
      BY <3>2, PlaceFalls DEF Inspect, ceilingVars, Place
    <3>3. ASSUME NEW t \in Tools, NEW q \in R!Queries,
                 Validate(w, t, q) \/ Refused(w, t, q)
          PROVE  WorkLeft(w)' < WorkLeft(w) /\ WorkLeft(v)' <= WorkLeft(v)
      BY <3>3, PlaceFalls DEF Validate, Refused, ceilingVars, Place
    <3>4. CASE Start(w) \/ ToolReturns(w)
      BY <3>4, PlaceFalls DEF Start, ToolReturns, ceilingVars, Place
    <3> QED  BY <2>1, <3>1, <3>2, <3>3, <3>4 DEF WorkflowStep
  <2>2. ASSUME NEW s \in Sessions, ResetSession(s), s # sessionOf[v]
        PROVE  WorkLeft(v)' = WorkLeft(v)
    BY <2>2, WorkOf
    DEF ResetSession, Reset, loopVars, WorkLeft, CountTypeOK, CeilingTypeOK
  <2>3. ASSUME RuntimeStep \/ UNCHANGED vars PROVE WorkLeft(v)' = WorkLeft(v)
    BY <2>3 DEF RuntimeStep, vars, loopVars, ceilingVars, WorkLeft
  <2>4. WorkLeft(v)' > WorkLeft(v) => ResetSession(sessionOf[v])
    BY <2>0, <2>1, <2>2, <2>3 DEF Next
  <2> QED  BY <2>1, <2>4
<1> QED
  BY <1>1, <1>2, LoopsTyped, CountsTyped, PTL DEF Spec, WorkIsUsedUp

=============================================================================
