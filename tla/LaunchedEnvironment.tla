------------------------- MODULE LaunchedEnvironment -------------------------
(***************************************************************************)
(* What Provider.launched_environment() promises to the sessions that come *)
(* one after the other on one instance, without the steps of setup() and   *)
(* warmup(), the configuration file and the provider.  An instance is made *)
(* by one session that is not interrupted; what is handed out is complete  *)
(* and of the kind asked for; and what is so is not thrown away.           *)
(*                                                                         *)
(* The configuration file is all that a session knows of an instance, so   *)
(* that a file it cannot read makes it blind: it may throw a good instance *)
(* away, or take one of another kind, but never an incomplete one.         *)
(***************************************************************************)
CONSTANTS
  Kinds,   \* what a session may ask for, and what an instance may be
  NoKind,  \* what no instance is
  Fits     \* the pairs <<made, asked for>> that a warmup accepts

VARIABLES
  state,  \* the instance: "none", "partial" or "complete"
  kind,   \* what it was made for
  sess,   \* the session: "out", "asking", "lacking", "making" or "held"
  want,   \* what it asks for
  blind,  \* the configuration of the instance was not read, or lost its tag
  lost    \* somebody else has deleted the instance since the session began

vars == <<state, kind, sess, want, blind, lost>>

Init ==
  /\ state = "none"
  /\ kind = NoKind
  /\ sess = "out"
  /\ want \in Kinds
  /\ blind = FALSE
  /\ lost = FALSE

Ask ==
  /\ sess = "out"
  /\ sess' = "asking" \/ (sess' = "lacking" /\ state = "none")
  /\ want' \in Kinds
  /\ blind' => blind
  /\ lost' => lost
  /\ UNCHANGED <<state, kind>>

Miss ==
  /\ sess = "asking"
  /\ state = "none"
  /\ sess' = "lacking"
  /\ UNCHANGED <<state, kind, want, blind, lost>>

\* The instance that was found is thrown away for a reason.
Drop ==
  /\ sess = "asking"
  /\ \/ state = "partial"
     \/ state = "complete" /\ (<<kind, want>> \notin Fits \/ blind)
  /\ state' = "none"
  /\ kind' = NoKind
  /\ sess' = "lacking"
  /\ blind' => blind
  /\ UNCHANGED <<want, lost>>

Make ==
  /\ sess = "lacking"
  /\ state = "none"
  /\ state' = "partial"
  /\ kind' = want
  /\ sess' = "making"
  /\ UNCHANGED <<want, blind, lost>>

\* The session that has made the instance completes it, and looks at it once more
\* or hands it out at once.
Complete ==
  /\ sess = "making"
  /\ state = "partial" /\ kind = want
  /\ state' = "complete"
  /\ sess' \in {"asking", "held"}
  /\ blind => blind'
  /\ UNCHANGED <<kind, want, lost>>

Hand ==
  /\ sess = "asking"
  /\ state = "complete" /\ (<<kind, want>> \in Fits \/ blind')
  /\ sess' = "held"
  /\ blind => blind'
  /\ UNCHANGED <<state, kind, want, lost>>

Misread ==
  /\ sess \in {"asking", "making"}
  /\ blind' = TRUE
  /\ UNCHANGED <<state, kind, sess, want, lost>>

\* The session ends, fails or is killed, and leaves the instance as it is.
Leave ==
  /\ sess # "out"
  /\ sess' = "out"
  /\ blind => blind'
  /\ lost => lost'
  /\ UNCHANGED <<state, kind, want>>

\* Somebody else deletes the instance, or does so by half.
Lose ==
  /\ state # "none"
  /\ \/ state' = "none" /\ kind' = NoKind
     \/ state' = "partial" /\ kind' = kind
  /\ lost' = TRUE
  /\ blind' => blind
  /\ UNCHANGED <<sess, want>>

Next == Ask \/ Miss \/ Drop \/ Make \/ Complete \/ Hand \/ Misread \/ Leave \/ Lose

Spec == Init /\ [][Next]_vars
=============================================================================
