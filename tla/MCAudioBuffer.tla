--------------------------- MODULE MCAudioBuffer -----------------------------
(* Model checking AudioBuffer.                                                 *)
EXTENDS AudioBuffer
=============================================================================
