------------------------------ MODULE MCWarmRun ------------------------------
(* Instances of WarmRun for TLC. *)
EXTENDS WarmRun, TLC
=============================================================================
