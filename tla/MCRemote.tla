------------------------------ MODULE MCRemote -------------------------------
(* Model checking Remote.                                                      *)
EXTENDS Remote
=============================================================================
