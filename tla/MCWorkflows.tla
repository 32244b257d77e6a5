---------------------------- MODULE MCWorkflows ----------------------------
(* Two loops of one agent in one session.                                  *)
EXTENDS AgentWorkflows

CONSTANTS w1, w2, a1, s1, search, shell

MCWorkflowsSet == {w1, w2}
MCAgentOf == [w \in {w1, w2} |-> a1]
MCSessionOf == [w \in {w1, w2} |-> s1]
MCTools == {search, shell}
OnlySearch == {search}
=============================================================================
