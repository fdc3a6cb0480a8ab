----------------------------- MODULE MCSoftTimer -----------------------------
(* Model checking SoftTimer. *)
EXTENDS SoftTimer, TLC

Symmetry == Permutations(Func)
=============================================================================
