----------------------------- MODULE MCMasterOta -----------------------------
(* Model checking MasterOta. *)
EXTENDS MasterOta, TLC
=============================================================================
