------------------------------ MODULE MCThemis ------------------------------
(* Instances of ThemisCheckpoint for TLC.                                  *)
EXTENDS ThemisCheckpoint, TLC

CONSTANTS x1, x2, x3

\* x1 and x2 are one state with its keys in another order.
MCExecStates == {x1, x2, x3}
MCDigest == [x \in MCExecStates |-> IF x = x3 THEN "h3" ELSE "h12"]
MCSymmetry == Permutations(Checkpoints) \cup Permutations(Reviewers)
              \cup Permutations(Keys)
=============================================================================
