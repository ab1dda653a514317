---------------------------- MODULE ProjectNames ----------------------------
(***************************************************************************)
(* The processes of LxdProject with the names and the id map they rely on, *)
(* at the places where they do.                                            *)
(***************************************************************************)
EXTENDS LxdProject, InstanceNames, IdMap

At(labels) == \E p \in Procs : pc[p] \in labels

\* LXD takes the name of every instance that is launched or copied.
NamesAreValid == At({"base_launch", "copy", "plain"}) => AllAreNames

\* An instance that is looked up by its name, or made from a listed name to be
\* deleted, is the one of that name, and no two names get one instance.
NamesIdentify == At({"exists", "base", "delete", "base_delete"}) => AllAreTold

\* Where the configure hook goes through the bases, those of the current tag are
\* told from older ones, as long as the tag is in the part of the name that is kept.
BasesAreRecognised == At({"base_list"}) => CurrentIsTold

\* An instance that is taken again has the id map that the session asks for, or is
\* cleaned: only one that belongs to root, used by another user, is always cleaned.
IdMapRoundTrip == At({"existing"}) => EveryRoundTrip
=============================================================================
