------------------------------ MODULE MCMaster ------------------------------
(* Master for TLC: process ids are interchangeable model values. *)
EXTENDS Master, TLC

PidSymmetry == Permutations(Pid)

=============================================================================
