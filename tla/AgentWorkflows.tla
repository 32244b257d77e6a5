--------------------------- MODULE AgentWorkflows ---------------------------
(***************************************************************************)
(* Hosts that run agents in loops, one turn after the other, as            *)
(* examples/langgraph_integration.py runs a single turn: scan the prompt   *)
(* (inspect_input), have the tool call checked (validate_tool), and then,  *)
(* in a later step, start the tool.  Each turn begins with a question to   *)
(* the LoopCeilingBreaker that GovernanceRuntime owns (middleware.py:75)   *)
(* and never asks itself; a loop that is refused a turn halts.  Several    *)
(* loops may share an agent and a session, and run concurrently; what they *)
(* report to the breaker, they report at any time after the check.         *)
(*                                                                         *)
(* The last four variables are history, which nothing in the code reads:   *)
(* the calls admitted in a session since its count was last reset, and the *)
(* turns that were under way in that moment; how often it was reset; and   *)
(* the tools a loop started since its agent lost the right to dispatch.    *)
(***************************************************************************)
EXTENDS LoopCeiling, PromptInterceptor, FiniteSets

CONSTANTS
    Agents, QuarantineThreshold, RecoveryRate,
    Tools, FailureThreshold, RecoveryTime,
    AllowedTools, DefaultTools,
    MaxPending, MaxStrikes, MaxSuccesses,
    Workflows, agentOf, sessionOf,
    Reported,       \* bound: the violations that hosts penalise
    MaxResets,      \* bound: resets of the count of each session
    NoTool

ASSUME WorkflowAssumption ==
    /\ IsFiniteSet(Workflows)
    /\ agentOf \in [Workflows -> Agents]
    /\ sessionOf \in [Workflows -> Sessions]
    /\ MaxResets \in Nat
    /\ NoTool \notin Tools

\* What GovernanceRuntime assumes.
ASSUME RuntimeAssumption ==
    /\ QuarantineThreshold \in 0 .. 99
    /\ RecoveryRate \in Nat
    /\ FailureThreshold \in Nat \ {0}
    /\ RecoveryTime \in Nat
    /\ MaxPending \in Nat /\ MaxStrikes \in Nat /\ MaxSuccesses \in Nat

VARIABLES
    known, score, state, breaker, failures, tripAge,    \* of the runtime
    pending, strikes, successes, sinceFailure,
    pc,         \* where each loop is in its turn
    tool,       \* the tool a loop was cleared for, or waits for
    calls, carried, resets, lateTools

R == INSTANCE GovernanceRuntime

ceilingVars == <<turns, calls, carried, resets>>
loopVars == <<pc, tool>>
runtimeVars == <<known, score, state, breaker, failures, tripAge,
                 pending, strikes, successes, sinceFailure>>
vars == <<runtimeVars, loopVars, ceilingVars, lateTools>>

Of(s) == {w \in Workflows : sessionOf[w] = s}
InTurn(s) == {w \in Of(s) : pc[w] \in {"turn", "inspected"}}

Places == {"idle", "turn", "inspected", "cleared", "running", "halted"}

TypeOK ==
    /\ R!TypeOK
    /\ CeilingTypeOK
    /\ pc \in [Workflows -> Places]
    /\ tool \in [Workflows -> Tools \cup {NoTool}]
    /\ \A w \in Workflows : tool[w] \in Tools <=> pc[w] \in {"cleared", "running"}
    /\ calls \in [Sessions -> Nat]
    /\ carried \in [Sessions -> 0 .. Cardinality(Workflows)]
    /\ resets \in [Sessions -> 0 .. MaxResets]
    /\ lateTools \in [Workflows -> 0 .. 2]

Init ==
    /\ R!Init
    /\ CeilingInit
    /\ pc = [w \in Workflows |-> "idle"]
    /\ tool = [w \in Workflows |-> NoTool]
    /\ calls = [s \in Sessions |-> 0]
    /\ carried = [s \in Sessions |-> 0]
    /\ resets = [s \in Sessions |-> 0]
    /\ lateTools = [w \in Workflows |-> 0]

-----------------------------------------------------------------------------
(* A turn *)

Goto(w, place) == pc' = [pc EXCEPT ![w] = place]

TakeTurn(w) ==
    /\ pc[w] = "idle"
    /\ CountTurn(sessionOf[w])
    /\ Goto(w, IF IsAllowed(sessionOf[w]) THEN "turn" ELSE "halted")
    /\ UNCHANGED <<runtimeVars, tool, calls, carried, resets, lateTools>>

\* Any prompt may come, and any layer that may fail may fail on it.
Scans == {InspectInput(prompt, answering) :
             prompt \in Prompts, answering \in SUBSET Fallible}

Inspect(w, is_safe) ==
    /\ pc[w] = "turn"
    /\ Goto(w, IF is_safe THEN "inspected" ELSE "idle")
    /\ UNCHANGED <<runtimeVars, tool, ceilingVars, lateTools>>

\* A loop whose agent has the right to dispatch owes nothing.
Lapsed == [w \in Workflows |->
              IF R!CanDispatchTools(agentOf[w])' THEN 0 ELSE lateTools[w]]

\* Mutated form of Validate: the host trusts an earlier answer about the agent.
ValidateUntrusted(w, t, q) ==
    /\ pc[w] = "inspected"
    /\ R!CanDispatch(t) /\ R!IsSafe(t, q)
    /\ R!Read(agentOf[w]) /\ R!Poll(t)
    /\ Goto(w, "cleared")
    /\ tool' = [tool EXCEPT ![w] = t]
    /\ calls' = [calls EXCEPT ![sessionOf[w]] = @ + 1]
    /\ lateTools' = Lapsed
    /\ UNCHANGED <<pending, strikes, successes, sinceFailure, turns, carried,
                   resets>>

\* validate_tool says yes.
Validate(w, t, q) ==
    /\ pc[w] = "inspected"
    /\ R!Admitted(agentOf[w], t, q)
    /\ Goto(w, "cleared")
    /\ tool' = [tool EXCEPT ![w] = t]
    /\ calls' = [calls EXCEPT ![sessionOf[w]] = @ + 1]
    /\ lateTools' = Lapsed
    /\ UNCHANGED <<turns, carried, resets>>

\* validate_tool says no, for one of its reasons.
Refused(w, t, q) ==
    /\ pc[w] = "inspected"
    /\ \/ R!BlockedByTrust(agentOf[w])
       \/ R!FallbackByBreaker(agentOf[w], t)
       \/ R!RejectedByGate(agentOf[w], t, q)
    /\ Goto(w, "idle")
    /\ lateTools' = Lapsed
    /\ UNCHANGED <<tool, ceilingVars>>

\* The host starts the tool: it asks nobody again.
Start(w) ==
    /\ pc[w] = "cleared"
    /\ Goto(w, "running")
    /\ lateTools' = [lateTools EXCEPT ![w] =
                        IF R!CanDispatchTools(agentOf[w]) \/ @ = 2
                        THEN @ ELSE @ + 1]
    /\ UNCHANGED <<runtimeVars, tool, ceilingVars>>

ToolReturns(w) ==
    /\ pc[w] = "running"
    /\ Goto(w, "idle")
    /\ tool' = [tool EXCEPT ![w] = NoTool]
    /\ UNCHANGED <<runtimeVars, ceilingVars, lateTools>>

WorkflowStep(w) ==
    \/ TakeTurn(w)
    \/ \E is_safe \in Scans : Inspect(w, is_safe)
    \/ \E t \in Tools, q \in R!Queries : Validate(w, t, q) \/ Refused(w, t, q)
    \/ Start(w)
    \/ ToolReturns(w)

-----------------------------------------------------------------------------
(* What happens beside the loops *)

ResetSession(s) ==
    /\ resets[s] < MaxResets
    /\ Reset(s)
    /\ resets' = [resets EXCEPT ![s] = @ + 1]
    /\ calls' = [calls EXCEPT ![s] = 0]
    /\ carried' = [carried EXCEPT ![s] = Cardinality(InTurn(s))]
    /\ UNCHANGED <<runtimeVars, loopVars, lateTools>>

RuntimeStep ==
    /\ \/ \E t \in Tools : R!ToolSucceeded(t) \/ R!ToolFailed(t)
       \/ \E a \in Agents : R!TurnSucceeded(a)
       \/ \E a \in Agents, v \in Reported \cap R!Violations : R!HostPenalises(a, v)
       \/ \E a \in Agents, st \in R!TrustStates : R!OperatorSetsState(a, st)
       \/ R!TimePasses
    /\ lateTools' = Lapsed
    /\ UNCHANGED <<loopVars, ceilingVars>>

Next ==
    \/ \E w \in Workflows : WorkflowStep(w)
    \/ \E s \in Sessions : ResetSession(s)
    \/ RuntimeStep

\* Hosts are not stopped in the middle of a turn, and every tool returns.
Spec == Init /\ [][Next]_vars
FairSpec == Spec /\ \A w \in Workflows : WF_vars(WorkflowStep(w))

-----------------------------------------------------------------------------
(* Properties *)

\* The ceiling counts turns before they happen, each loop on its own: all
\* loops of a session together get at most MaxTurns tool calls out of one
\* count, and out of a count that was reset while turns were under way at
\* most one more for each of these (circuit_breakers.py:35-38,51).
ToolCallsAreCapped ==
    \A s \in Sessions : calls[s] <= MaxTurns + carried[s]

\* What the proof of it needs besides: the turns under way count as calls.
Least(i, j) == IF i <= j THEN i ELSE j
TurnsAreCounted ==
    \A s \in Sessions :
        calls[s] + Cardinality(InTurn(s))
            <= Least(turns[s], MaxTurns) + carried[s]

\* Nobody is asked between the gate's yes and the start of the tool, so an
\* agent that lost its right to dispatch meanwhile, by a refusal in another
\* of its loops or by the host, may still start what was cleared.  But that
\* is all: however its turns go on, none of its loops starts a second tool
\* until it has the right again (middleware.py:128, trust.py:102,
\* langgraph_integration.py:47-55).
RestrictedLoopsStartOneTool == \A w \in Workflows : lateTools[w] <= 1

\* What the proof of it needs besides: it is the tool the loop was cleared for.
LateToolsWereCleared ==
    \A w \in Workflows : lateTools[w] > 0 =>
        pc[w] # "cleared" /\ ~R!CanDispatchTools(agentOf[w])

IndInv ==
    /\ TypeOK
    /\ TurnsAreCounted
    /\ RestrictedLoopsStartOneTool
    /\ LateToolsWereCleared

\* "Enforces hard maximum ceiling [...] to prevent infinite inter-agent
\* recursion" (circuit_breakers.py:22): loops that share a session end, all
\* of them, however their turns end, unless the count is reset for ever.
LoopsEnd == <>(\A w \in Workflows : pc[w] = "halted")
=============================================================================
