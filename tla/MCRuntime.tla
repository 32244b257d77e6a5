----------------------------- MODULE MCRuntime -----------------------------
(* Instances of GovernanceRuntime for TLC.                                 *)
EXTENDS GovernanceRuntime

CONSTANTS search, shell    \* tools: `search' is allowed, `shell' is not

NoTools == {}
OnlySearch == {search}
BothTools == {search, shell}
=============================================================================
