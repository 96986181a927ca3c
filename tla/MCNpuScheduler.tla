--------------------------- MODULE MCNpuScheduler ---------------------------
(* Instances of NpuScheduler for TLC. *)
EXTENDS NpuScheduler
=============================================================================
