------------------------------ MODULE MCH5Link -------------------------------
(* Model checking H5Link: how many packets each end sends.                     *)
EXTENDS H5Link

TwoEach == [s \in Side |-> 2]
OneEach == [s \in Side |-> 1]
=============================================================================
