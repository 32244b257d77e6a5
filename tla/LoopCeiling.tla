---------------------------- MODULE LoopCeiling ----------------------------
(***************************************************************************)
(* LoopCeilingBreaker (governance/circuit_breakers.py): the turns each     *)
(* session has asked for.  A count is only compared with max_turns and     *)
(* stops one above it.                                                     *)
(***************************************************************************)
EXTENDS Integers

CONSTANTS Sessions, MaxTurns

ASSUME CeilingAssumption == MaxTurns \in Nat

VARIABLE turns    \* _turn_counts, 0 when there is no entry

CeilingTypeOK == turns \in [Sessions -> 0 .. MaxTurns + 1]
CeilingInit == turns = [s \in Sessions |-> 0]

\* Mutated form of IsAllowed: refuses at one count rather than from it on.
IsAllowedUnlessEqual(s) == turns[s] # MaxTurns

\* increment_and_check counts the turn before it compares: its answer ...
IsAllowed(s) == turns[s] < MaxTurns

\* Mutated form of CountTurn: a refusal starts a new count.
CountTurnAfresh(s) ==
    turns' = [turns EXCEPT ![s] = IF @ < MaxTurns THEN @ + 1 ELSE 0]

\* ... and its effect, also when the answer is no.
CountTurn(s) ==
    turns' = [turns EXCEPT ![s] = IF @ <= MaxTurns THEN @ + 1 ELSE @]

Reset(s) == turns' = [turns EXCEPT ![s] = 0]
=============================================================================
