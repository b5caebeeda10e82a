--------------------------- MODULE MCMasterWorkers ---------------------------
(* MasterWorkers for TLC: process ids are interchangeable model values. *)
EXTENDS MasterWorkers, TLC

PidSymmetry == Permutations(Pid)

=============================================================================
