----------------------------- MODULE MCBondTable -----------------------------
(* Model checking BondTable, and BondTable as an implementation of BondStore. *)
EXTENDS BondTable, TLC
=============================================================================
