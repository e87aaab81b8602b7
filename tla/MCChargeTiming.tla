---------------------------- MODULE MCChargeTiming ----------------------------
(* ChargeTiming with the timeouts of the code.                               *)
EXTENDS ChargeTiming
================================================================================
