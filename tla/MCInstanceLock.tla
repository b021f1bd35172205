---------------------------- MODULE MCInstanceLock ---------------------------
(* The instances of InstanceLock: starts differ only in their names. *)
EXTENDS InstanceLock, TLC

Symmetry == Permutations(Procs)
=============================================================================
