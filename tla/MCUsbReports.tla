---------------------------- MODULE MCUsbReports -----------------------------
(* Model checking UsbReports. *)
EXTENDS UsbReports, TLC
=============================================================================
