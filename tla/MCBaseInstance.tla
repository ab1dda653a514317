--------------------------- MODULE MCBaseInstance ---------------------------
(* Finite instances of BaseInstance for TLC. *)
EXTENDS BaseInstance, TLC

\* The processes differ in nothing but their names.  Used for safety only.
Symmetry == Permutations(Procs)
=============================================================================
