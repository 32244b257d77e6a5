------------------------------ MODULE MCLedger ------------------------------
(* Instances of DecisionLedger for TLC.                                    *)
EXTENDS DecisionLedger
=============================================================================
