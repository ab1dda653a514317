---------------------------- MODULE MCLxdProject ----------------------------
(* Finite instances of LxdProject for TLC, with the names and the id map. *)
EXTENDS ProjectNames, TLC

\* The processes differ in nothing but their names.  Used for safety only.
Symmetry == Permutations(Procs)

\* What an operation leaves in its variables when it has ended is not read again.
Ongoing(f) == [p \in Procs |-> IF Active(p) THEN f[p] ELSE {}]

View == <<server, pc, runs, interrupted, Ongoing(todo), Ongoing(gone), Ongoing(met),
          [p \in Procs |-> IF Active(p) THEN op[p] ELSE "launch"]>>

\* The base that the docstring of hookutil names as its example: whatevercraft.
ExampleFits ==
  IsCurrentBaseInstance(GetInstanceName(FormulateBaseInstanceName(13, Tag, 40)))

=============================================================================
