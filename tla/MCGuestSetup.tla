----------------------------- MODULE MCGuestSetup -----------------------------
(* Finite instances of GuestSetup for TLC. *)
EXTENDS GuestSetup, TLC

\* Tags and revisions are only compared.
Symmetry == Permutations(Tags) \union Permutations(Revs)
=============================================================================
