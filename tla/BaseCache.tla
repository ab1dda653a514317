------------------------------ MODULE BaseCache ------------------------------
(***************************************************************************)
(* What the base instance promises to the processes that share it, without *)
(* the LXD server, the keys and the waiting: a cache with one entry.  One  *)
(* process at a time builds the entry; only a whole entry is taken; an     *)
(* entry that is being built is dropped only after its builder gave up.    *)
(*                                                                         *)
(* The promise ends (broken) when the entry is dropped under a process     *)
(* that relied on it: the detailed protocol cannot exclude that.           *)
(***************************************************************************)
CONSTANTS Procs, NoProc

VARIABLES
  phase,    \* "none", "building" or "ready"
  builder,  \* the process that is building the entry, or NoProc
  taken,    \* the processes that have taken a copy
  broken    \* the promise has ended

vars == <<phase, builder, taken, broken>>

Init ==
  /\ phase \in {"none", "ready"}
  /\ builder = NoProc
  /\ taken = {}
  /\ broken = FALSE

Begin(p) ==
  /\ phase = "none"
  /\ phase' = "building"
  /\ builder' = p
  /\ UNCHANGED <<taken, broken>>

Publish(p) ==
  /\ phase = "building" /\ builder = p
  /\ phase' = "ready"
  /\ builder' = NoProc
  /\ UNCHANGED <<taken, broken>>

\* The builder fails or dies, and may leave a part of the entry.
GiveUp ==
  /\ phase = "building" /\ builder # NoProc
  /\ phase' \in {"none", "building"}
  /\ builder' = NoProc
  /\ UNCHANGED <<taken, broken>>

Take(p) ==
  /\ phase = "ready"
  /\ taken' = taken \union {p}
  /\ UNCHANGED <<phase, builder, broken>>

Drop ==
  /\ builder = NoProc
  /\ phase' = "none"
  /\ UNCHANGED <<builder, taken, broken>>

Next ==
  \/ \E p \in Procs : Begin(p) \/ Publish(p) \/ Take(p)
  \/ GiveUp
  \/ Drop

\* Once broken, or in the step that breaks it, nothing is promised.
Spec == Init /\ [][broken' \/ Next]_vars
=============================================================================
