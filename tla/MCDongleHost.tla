---------------------------- MODULE MCDongleHost -----------------------------
(* Model checking DongleHost.  Slaves differ only where the byte that stands  *)
(* for the address type makes them differ; the others are interchangeable.    *)
EXTENDS DongleHost, TLC

Symmetry == Permutations(Device \ TypeByteMatch)
=============================================================================
