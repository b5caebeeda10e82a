------------------------------ MODULE MCDaemon ------------------------------
(* Daemon for TLC: the invocations of one kind are interchangeable. *)
EXTENDS Daemon, TLC

StartSymmetry == Permutations(Starts)

=============================================================================
