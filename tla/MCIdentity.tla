----------------------------- MODULE MCIdentity -----------------------------
(* Instances of IdentityChannel for TLC.                                   *)
EXTENDS IdentityChannel
=============================================================================
