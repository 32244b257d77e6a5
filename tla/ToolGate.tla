------------------------------ MODULE ToolGate ------------------------------
(***************************************************************************)
(* ToolIntentGate.validate_tool_call (security/tool_gate.py): the verdict  *)
(* on a tool call.  A query is what the checks can tell of it: whether it  *)
(* is empty or only spaces, longer than max_arg_length, matched by the     *)
(* shell-operator pattern, matched by the path or the tag pattern.  Every  *)
(* check but the first answers ASI-02, so their order does not show.       *)
(***************************************************************************)

CONSTANTS
    AllowedTools,   \* the allowed_tools argument of the constructor
    DefaultTools    \* the set used when that argument is None or empty

allowed_tools == IF AllowedTools = {} THEN DefaultTools ELSE AllowedTools

\* A blank query holds no character that a pattern could match.
Queries ==
    {q \in [blank : BOOLEAN, long : BOOLEAN, shell : BOOLEAN, exec : BOOLEAN] :
        q.blank => ~q.shell /\ ~q.exec}

Verdict(t, q) ==
    IF t \notin allowed_tools THEN "ASI-01"
    ELSE IF q.blank \/ q.long \/ q.shell \/ q.exec THEN "ASI-02"
    ELSE "SAFE"

IsSafe(t, q) == Verdict(t, q) = "SAFE"
=============================================================================
