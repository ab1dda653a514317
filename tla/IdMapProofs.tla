---------------------------- MODULE IdMapProofs ----------------------------
(* What IdMap's functions guarantee for every set of ids. *)
EXTENDS IdMap, TLAPS

\* A written map has a line for the user and one for the group.
LEMMA WrittenLines ==
  ASSUME NEW uid, NEW gid, NEW user, NEW group
  PROVE  LET config == SetIdMap(uid, gid, user, group)
         IN  /\ DOMAIN config = {1, 2}
             /\ config[1] = Line("uid", Chosen(uid, user))
             /\ config[2] = Line("gid", Chosen(gid, group))
BY DEF SetIdMap

\* The ids that are read and the ids that were written differ where an id of
\* 0 is given that is not the process's own.
LEMMA ChosenIsExpected ==
  ASSUME NEW id \in Ids \cup {NoId}, NEW own \in Ids
  PROVE  (Chosen(id, own) = Expected(id, own)) <=> Honoured(id, own)
<1>1. NoId # 0
  BY IdsAssumption
<1> QED  BY <1>1 DEF Chosen, Expected, Honoured

\* Of a written map, the first line of a kind is the line of that kind.
LEMMA FirstOfWritten ==
  ASSUME NEW uid, NEW gid, NEW user, NEW group, NEW host
  PROVE  LET config == SetIdMap(uid, gid, user, group)
         IN  /\ FirstIs(config, "uid", host) <=> host = Chosen(uid, user)
             /\ FirstIs(config, "gid", host) <=> host = Chosen(gid, group)
<1> DEFINE config == SetIdMap(uid, gid, user, group)
<1>1. /\ DOMAIN config = {1, 2}
      /\ config[1] = Line("uid", Chosen(uid, user))
      /\ config[2] = Line("gid", Chosen(gid, group))
  BY WrittenLines
<1>2. /\ config[1].kind = "uid" /\ config[2].kind = "gid"
      /\ \A h : Line("uid", h) = config[1] <=> h = Chosen(uid, user)
      /\ \A h : Line("gid", h) = config[2] <=> h = Chosen(gid, group)
      /\ \A h : Line("uid", h) # config[2] /\ Line("gid", h) # config[1]
  BY <1>1 DEF Line
<1>3. (1 .. 1 - 1) = {} /\ (1 .. 2 - 1) = {1}
  OBVIOUS
<1> HIDE DEF config
<1>4. FirstIs(config, "uid", host) <=> host = Chosen(uid, user)
  BY <1>1, <1>2, <1>3 DEF FirstIs
<1>5. FirstIs(config, "gid", host) <=> host = Chosen(gid, group)
  BY <1>1, <1>2, <1>3 DEF FirstIs
<1> QED  BY <1>4, <1>5 DEF config

\* A map that _set_id_map() wrote passes its own read back, and passes
\* _check_id_map() of a later session with the same ids unless one of them is
\* a 0 that is not the process's own; no map passes only if none is asked for.
THEOREM EveryMapIsReadBack == EveryRoundTrip
<1> SUFFICES ASSUME NEW uid \in Ids \cup {NoId}, NEW gid \in Ids \cup {NoId},
                    NEW user \in Ids, NEW group \in Ids
             PROVE  RoundTrip(uid, gid, user, group)
  BY DEF EveryRoundTrip
<1> DEFINE config == SetIdMap(uid, gid, user, group)
<1>1. /\ DOMAIN config = {1, 2}
      /\ config[1] = Line("uid", Chosen(uid, user))
      /\ config[2] = Line("gid", Chosen(gid, group))
  BY WrittenLines
<1>2. Applied(config, uid, gid, user, group)
  BY <1>1 DEF Applied
<1>3. CheckIdMap(config, TRUE, uid, gid, user, group)
        <=> Honoured(uid, user) /\ Honoured(gid, group)
  <2>1. CheckIdMap(config, TRUE, uid, gid, user, group)
          <=> /\ FirstIs(config, "uid", Expected(uid, user))
              /\ FirstIs(config, "gid", Expected(gid, group))
    BY DEF CheckIdMap
  <2>2. /\ FirstIs(config, "uid", Expected(uid, user)) <=> Expected(uid, user) = Chosen(uid, user)
        /\ FirstIs(config, "gid", Expected(gid, group)) <=> Expected(gid, group) = Chosen(gid, group)
    BY FirstOfWritten
  <2>3. /\ (Chosen(uid, user) = Expected(uid, user)) <=> Honoured(uid, user)
        /\ (Chosen(gid, group) = Expected(gid, group)) <=> Honoured(gid, group)
    BY ChosenIsExpected
  <2> QED  BY <2>1, <2>2, <2>3
<1>4. ASSUME NEW mapped \in BOOLEAN
      PROVE  CheckIdMap(<<>>, mapped, uid, gid, user, group) <=> ~mapped
  <2>1. DOMAIN <<>> = {}
    OBVIOUS
  <2>2. \A kind, host : ~FirstIs(<<>>, kind, host)
    BY <2>1 DEF FirstIs
  <2> QED  BY <2>2 DEF CheckIdMap
<1> QED  BY <1>2, <1>3, <1>4 DEF RoundTrip
=============================================================================
