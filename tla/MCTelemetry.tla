---------------------------- MODULE MCTelemetry ----------------------------
(* Instances of TelemetrySink for TLC.                                     *)
EXTENDS TelemetrySink

MCKind == [e \in 1 .. MaxEvents |->
             CASE e % 3 = 0 -> "OTHER"
               [] e % 3 = 1 -> "GOVERNANCE_LOG"
               [] OTHER     -> "MERKLE_NODE"]
=============================================================================
