------------------------------- MODULE IdMap -------------------------------
(***************************************************************************)
(* raw.idmap: _set_id_map() writes which user and group of the host are    *)
(* root in an instance, and _check_id_map() decides in the next session    *)
(* whether the instance is kept or cleaned.                                *)
(*                                                                         *)
(* The value of the key is a sequence of lines.                            *)
(***************************************************************************)
EXTENDS Naturals, Sequences

CONSTANTS
  Ids,     \* user and group ids of the host
  NoId     \* None, for a uid or gid that is not given

ASSUME IdsAssumption == Ids \subseteq Nat /\ NoId \notin Nat

Line(kind, host) == [kind |-> kind, host |-> host, guest |-> 0]

\* `uid or os.getuid()`: 0 counts as not given.
Chosen(id, own) == IF id = NoId \/ id = 0 THEN own ELSE id

\* A mutant: the group is mapped to the user's id.
SetIdMap_SameId(uid, gid, user, group) ==
  <<Line("uid", Chosen(uid, user)), Line("gid", Chosen(uid, user))>>

\* What _set_id_map() writes for a process whose own ids are user and group.
SetIdMap(uid, gid, user, group) ==
  <<Line("uid", Chosen(uid, user)), Line("gid", Chosen(gid, group))>>

\* The read back: both lines are there.
Applied(config, uid, gid, user, group) ==
  \A l \in {Line("uid", Chosen(uid, user)), Line("gid", Chosen(gid, group))} :
    \E i \in DOMAIN config : config[i] = l

\* `uid is None`: 0 is an id like any other.
Expected(id, own) == IF id = NoId THEN own ELSE id

\* The first line that re.search finds: "^uid ([0-9]+) 0$"
FirstIs(config, kind, host) ==
  \E i \in DOMAIN config :
    /\ config[i] = Line(kind, host)
    /\ \A j \in 1 .. i - 1 : ~(config[j].kind = kind /\ config[j].guest = 0)

CheckIdMap(config, mapped, uid, gid, user, group) ==
  \/ /\ config = <<>>
     /\ ~mapped
  \/ /\ FirstIs(config, "uid", Expected(uid, user))
     /\ FirstIs(config, "gid", Expected(gid, group))

-----------------------------------------------------------------------------
(* What holds of a map that is written and read back *)

\* A given id of 0 is mapped for a process of user 0 only.
Honoured(id, own) == id = 0 => own = 0

\* The next session finds the map it asks for, unless the project belongs to
\* root and the user is another: then it cleans the instance.  An instance
\* without a map passes where no map is asked for, and only there.
RoundTrip(uid, gid, user, group) ==
  LET config == SetIdMap(uid, gid, user, group)
  IN  /\ Applied(config, uid, gid, user, group)
      /\ CheckIdMap(config, TRUE, uid, gid, user, group)
           <=> Honoured(uid, user) /\ Honoured(gid, group)
      /\ \A mapped \in BOOLEAN :
           CheckIdMap(<<>>, mapped, uid, gid, user, group) <=> ~mapped

EveryRoundTrip ==
  \A uid, gid \in Ids \cup {NoId}, user, group \in Ids : RoundTrip(uid, gid, user, group)
=============================================================================
