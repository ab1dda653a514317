---------------------------- MODULE MCInstanceUse ----------------------------
(* Finite instances of InstanceUse for TLC. *)
EXTENDS InstanceUse, TLC

\* The processes differ in nothing but their names.
Symmetry == Permutations(Procs)
=============================================================================
