---------------------------- MODULE MCSppModule ------------------------------
(* Model checking SppModule: the bounds are those of the configuration.        *)
EXTENDS SppModule
=============================================================================
