---------------------------- MODULE MCMultipass ----------------------------
(* A finite instance of Multipass for TLC. *)
EXTENDS Multipass
=============================================================================
