--------------------------- MODULE GuestSetupProofs ---------------------------
(* Proofs about GuestSetup, for any number of snaps and of setup steps. *)
EXTENDS GuestSetup, TLAPS

-----------------------------------------------------------------------------
(* The inductive invariant *)

InSnaps == {"info", "record", "remove"} \union Halfway

\* Where the session is, and what follows for its own variables.
Shape ==
  /\ ~guest.exists => guest = NoGuest /\ conf = NoConf
  /\ guest.exists => guest.made \in Tags
  /\ pc \notin {"idle", "create"} => guest.exists
  /\ pc = "create" => ~guest.exists
  /\ pc \in {"unset", "tag", "os", "cleanup", "finish"} => phase = "setup"
  /\ pc \in {"create", "check", "ready", "clean", "accepted"} =>
       phase = "warmup"
  /\ phase = "setup" => fresh
  /\ pc = "clean" => ~fresh
  /\ fresh /\ pc # "idle" => guest.made = tag
  /\ pc \in InSnaps => at \in SnapIds
  /\ pc = "accepted" => at = NSnaps + 1
  /\ pc \in {"record", "remove", "inject"} /\ want[at] = "host" =>
       rev \in Revs
  /\ pc = "inject" => want[at] = "host"
  /\ pc = "info" => want[at] = "host"
  /\ pc \in {"install", "query"} => want[at] = "store"
  /\ pc = "remove" => recorded = None
  /\ pc = "query" => guest.snaps[at] # NoSnap
  /\ pc = "save" => rev \in Revs

\* How far the setup has come.
Progress ==
  /\ phase = "setup" =>
       /\ pc \in {"unset", "image", "tag"} => guest.done = 0
       /\ pc = "os" => guest.done <= OsSteps
       /\ pc \in InSnaps \union {"cleanup"} => guest.done = OsSteps
       /\ pc = "finish" => guest.done = OsSteps + 1
  /\ PastChecks \/ (pc = "image" /\ phase = "warmup") => guest.done = Steps

\* What the flag and the tag in the configuration say.
ConfIsTrue ==
  /\ conf.setup # None => conf.there
  /\ conf.setup = "yes" => guest.done = Steps
  /\ conf.tag \in {None, guest.made}
  /\ ~unread =>
       /\ guest.done = Steps => conf.setup = "yes"
       /\ guest.done > 0 \/ pc = "os" \/ (pc \in InSnaps /\ phase = "setup")
            \/ pc = "cleanup" => conf.tag = guest.made
  /\ pc = "clean" => guest.done < Steps \/ guest.made # tag \/ unread
  /\ pc = "check" /\ fresh => conf.setup = "yes" \/ unread
  /\ PastChecks => guest.made = tag \/ unread

\* The snap that is being changed.
AtIsKnown ==
  pc \in Halfway /\ at \notin doubtful =>
    /\ pc = "install" => IF recorded = None
                         THEN guest.snaps[at] = NoSnap
                         ELSE guest.snaps[at].source = "store"
    /\ pc = "query" => guest.snaps[at].source = "store"
    /\ pc = "save" => guest.snaps[at] = [source |-> want[at], rev |-> rev]

\* The snaps that the session is through with.
Served ==
  pc \in InSnaps \union {"accepted"} =>
    \A s \in SnapIds \ doubtful :
      s < at => guest.snaps[s] # NoSnap /\ guest.snaps[s].source = want[s]

SnapsAgree == unread \/ (RecordsAreTrue /\ AtIsKnown /\ Served)

IInv == TypeOK /\ Shape /\ Progress /\ ConfIsTrue /\ SnapsAgree

-----------------------------------------------------------------------------
(* Types *)

LEMMA ConstantTypes ==
  /\ NoGuest \in Guest
  /\ NoConf \in Conf
<1>1. NoSnaps \in SnapSet
  BY DEF NoSnaps, SnapSet
<1>2. 0 \in 0 .. Steps
  BY CountsAssumption DEF Steps
<1> QED
  BY <1>1, <1>2 DEF NoGuest, NoConf, Guest, Conf

LEMMA GuestTypes ==
  ASSUME guest \in Guest
  PROVE  /\ \A s \in SnapIds, e \in Entry \union {NoSnap} :
              [guest EXCEPT !.snaps[s] = e] \in Guest
         /\ guest.done + 1 \in 0 .. Steps =>
              [guest EXCEPT !.done = @ + 1] \in Guest
<1>1. ASSUME NEW s \in SnapIds, NEW e \in Entry \union {NoSnap}
      PROVE  [guest EXCEPT !.snaps[s] = e] \in Guest
  BY <1>1 DEF Guest, SnapSet
<1>2. guest.done + 1 \in 0 .. Steps =>
        [guest EXCEPT !.done = @ + 1] \in Guest
  BY DEF Guest
<1> QED
  BY <1>1, <1>2

LEMMA ConfTypes ==
  ASSUME NEW c \in Conf
  PROVE  /\ \A v \in {"no", "yes"} :
              [c EXCEPT !.there = TRUE, !.setup = v] \in Conf
         /\ \A t \in Tags : [c EXCEPT !.there = TRUE, !.tag = t] \in Conf
         /\ \A s \in SnapIds, e \in Entry :
              [c EXCEPT !.there = TRUE, !.snaps[s] = e] \in Conf
<1>1. ASSUME NEW s \in SnapIds, NEW e \in Entry
      PROVE  [c EXCEPT !.there = TRUE, !.snaps[s] = e] \in Conf
  BY <1>1 DEF Conf, SnapSet
<1> QED
  BY <1>1 DEF Conf

LEMMA TypeInit == Init => TypeOK
<1> SUFFICES ASSUME Init
             PROVE  TypeOK
  OBVIOUS
<1>1. guest \in Guest /\ conf \in Conf
  BY ConstantTypes DEF Init
<1>2. at \in 0 .. NSnaps + 1
  BY CountsAssumption DEF Init
<1> QED
  BY <1>1, <1>2 DEF Init, TypeOK, PCs

\* The type invariant in three parts.
DataType == guest \in Guest /\ conf \in Conf
PlaceType == pc \in PCs /\ at \in 0 .. NSnaps + 1
RestType ==
  /\ hostrev \in [SnapIds -> Revs]
  /\ tag \in Tags
  /\ want \in [SnapIds -> Sources]
  /\ fresh \in BOOLEAN
  /\ phase \in {"setup", "warmup"}
  /\ rev \in Revs \union {None}
  /\ recorded \in Revs \union {None}
  /\ broke \in BOOLEAN
  /\ unread \in BOOLEAN
  /\ doubtful \subseteq SnapIds

LEMMA FromSnapTypes ==
  ASSUME NEW s \in 1 .. NSnaps + 1, FromSnap(s)
  PROVE  PlaceType'
  BY CountsAssumption DEF FromSnap, Goto, PlaceType, PCs

LEMMA DataNext ==
  TypeOK /\ Shape /\ Progress /\ [Next]_vars => DataType'
<1> SUFFICES ASSUME TypeOK, Shape, Progress, [Next]_vars
             PROVE  DataType'
  OBVIOUS
<1> USE DEF DataType
<1>0. DataType /\ tag \in Tags
  BY DEF TypeOK
<1>1. CASE Create
  BY <1>1, <1>0, ConstantTypes DEF Create, Guest
<1>2. CASE Clean
  BY <1>2, ConstantTypes DEF Clean
<1>3. CASE Unset
  <2>1. PICK c \in {conf, NoConf} :
          conf' = [c EXCEPT !.there = TRUE, !.setup = "no"]
    BY <1>3 DEF Unset
  <2> QED
    BY <1>3, <1>0, <2>1, ConstantTypes, ConfTypes DEF Unset
<1>4. CASE SetTag
  <2>1. PICK c \in {conf, NoConf} :
          conf' = [c EXCEPT !.there = TRUE, !.tag = tag]
    BY <1>4 DEF SetTag
  <2> QED
    BY <1>4, <1>0, <2>1, ConstantTypes, ConfTypes DEF SetTag
<1>5. CASE OsStep
  <2>1. guest.done < OsSteps => guest.done + 1 \in 0 .. Steps
    BY <1>0, CountsAssumption DEF Guest, Steps
  <2> QED
    BY <1>5, <1>0, <2>1, GuestTypes DEF OsStep
<1>6. CASE CleanUp
  <2>1. guest.done + 1 \in 0 .. Steps
    BY <1>6, <1>0, CountsAssumption DEF CleanUp, Shape, Progress, Guest, Steps
  <2> QED
    BY <1>6, <1>0, <2>1, GuestTypes DEF CleanUp
<1>7. CASE Finish
  <2>1. guest.done + 1 \in 0 .. Steps
    BY <1>7, <1>0, CountsAssumption DEF Finish, Shape, Progress, Guest, Steps
  <2>2. PICK c \in {conf, NoConf} :
          conf' = [c EXCEPT !.there = TRUE, !.setup = "yes"]
    BY <1>7 DEF Finish
  <2>3. conf' \in Conf
    BY <1>0, <2>2, ConstantTypes, ConfTypes
  <2> QED
    BY <1>7, <1>0, <2>1, <2>3, GuestTypes DEF Finish
<1>8. CASE Remove
  BY <1>8, <1>0, GuestTypes DEF Remove, Shape, InSnaps
<1>9. CASE Inject
  <2>1. [source |-> "host", rev |-> hostrev[at]] \in Entry /\ at \in SnapIds
    BY <1>9 DEF Inject, TypeOK, Shape, InSnaps, Halfway, Entry, Sources
  <2> QED
    BY <1>9, <1>0, <2>1, GuestTypes DEF Inject
<1>10. CASE Install
  <2>1. \A r \in Revs : [source |-> "store", rev |-> r] \in Entry
    BY DEF Entry, Sources
  <2>2. at \in SnapIds
    BY <1>10 DEF Install, Shape, InSnaps, Halfway
  <2>3. \/ UNCHANGED <<guest, conf>>
        \/ \E r \in Revs :
             /\ guest' = [guest EXCEPT !.snaps[at] = [source |-> "store",
                                                      rev |-> r]]
             /\ UNCHANGED conf
    BY <1>10 DEF Install
  <2> QED
    BY <1>0, <2>1, <2>2, <2>3, GuestTypes
<1>11. CASE Save
  <2>1. PICK c \in {conf, NoConf} :
          conf' = [c EXCEPT !.there = TRUE,
                            !.snaps[at] = [source |-> want[at], rev |-> rev]]
    BY <1>11 DEF Save
  <2>2. [source |-> want[at], rev |-> rev] \in Entry /\ at \in SnapIds
    BY <1>11 DEF Save, TypeOK, Shape, InSnaps, Halfway, Entry
  <2> QED
    BY <1>11, <1>0, <2>1, <2>2, ConstantTypes, ConfTypes DEF Save
<1>12. ASSUME UNCHANGED <<guest, conf>>
       PROVE  DataType'
  BY <1>12, <1>0
<1>13. CASE UNCHANGED vars
  BY <1>12, <1>13 DEF vars
<1> QED
  BY <1>1, <1>2, <1>3, <1>4, <1>5, <1>6, <1>7, <1>8, <1>9, <1>10, <1>11,
     <1>12, <1>13
     DEF Next, Begin, ImageCheck, CheckSetup, Ready, End, HostInfo,
         CheckRecord, Query, Break, HostRefresh

LEMMA PlaceNext ==
  TypeOK /\ Shape /\ [Next]_vars => PlaceType'
<1> SUFFICES ASSUME TypeOK, Shape, [Next]_vars
             PROVE  PlaceType'
  OBVIOUS
<1>0. at \in 0 .. NSnaps + 1 /\ pc \in PCs /\ 0 \in 0 .. NSnaps + 1
  BY CountsAssumption DEF TypeOK
<1>1. 1 \in 1 .. NSnaps + 1
  BY CountsAssumption
<1>2. pc \in InSnaps => at + 1 \in 1 .. NSnaps + 1
  BY CountsAssumption DEF Shape, SnapIds
<1>3. CASE \E s \in 1 .. NSnaps + 1 : FromSnap(s)
  BY <1>3, FromSnapTypes
<1>4. CASE \/ Begin \/ Create \/ Clean \/ Unset \/ SetTag \/ CleanUp \/ Finish
           \/ End \/ HostInfo \/ Remove \/ Inject \/ Install \/ Query \/ Break
  BY <1>0, <1>4
     DEF PlaceType, PCs, Goto, Leave, Fetch, Begin, Create, Clean, Unset,
         SetTag, CleanUp, Finish, End, HostInfo, Remove, Inject, Install,
         Query, Break, session, history
<1>5. CASE ImageCheck \/ CheckSetup
  BY <1>0, <1>5
     DEF PlaceType, PCs, Goto, Leave, Incompatible, ImageCheck, CheckSetup
<1>6. CASE OsStep \/ Ready
  BY <1>0, <1>1, <1>3, <1>6 DEF OsStep, Ready, PlaceType
<1>7. CASE CheckRecord \/ Save
  BY <1>0, <1>2, <1>3, <1>7
     DEF PlaceType, PCs, Goto, Fetch, InSnaps, Halfway, CheckRecord, Save
<1>8. CASE HostRefresh \/ UNCHANGED vars
  BY <1>0, <1>8 DEF HostRefresh, vars, PlaceType
<1> QED
  BY <1>4, <1>5, <1>6, <1>7, <1>8 DEF Next

LEMMA RestNext ==
  TypeOK /\ Shape /\ [Next]_vars => RestType'
<1> SUFFICES ASSUME TypeOK, Shape, [Next]_vars
             PROVE  RestType'
  OBVIOUS
<1> USE DEF RestType, session, history
<1>0. RestType
  BY DEF TypeOK
<1>1. CASE Begin \/ Create \/ Clean \/ OsStep \/ CleanUp \/ Ready \/ End
  BY <1>0, <1>1 DEF Begin, Create, Clean, OsStep, CleanUp, Ready, End
<1>2. CASE Unset \/ ImageCheck \/ SetTag \/ Finish \/ CheckSetup \/ Save
  BY <1>0, <1>2
     DEF Unset, ImageCheck, SetTag, Finish, CheckSetup, Save, Load
<1>3. CASE HostInfo \/ HostRefresh
  BY <1>0, <1>3 DEF HostInfo, HostRefresh, Shape, InSnaps
<1>4. CASE CheckRecord
  <2>1. at \in SnapIds
    BY <1>4 DEF CheckRecord, Shape, InSnaps
  <2>2. PICK c \in {conf, NoConf} :
          /\ Load(c)
          /\ recorded' \in {None, c.snaps[at].rev}
          /\ c.snaps[at] = NoSnap => recorded' = None
    BY <1>4 DEF CheckRecord
  <2>3. c \in Conf
    BY ConstantTypes DEF TypeOK
  <2>4. c.snaps[at] \in Entry \union {NoSnap}
    BY <2>1, <2>3 DEF Conf, SnapSet
  <2>5. recorded' \in Revs \union {None}
    BY <2>2, <2>4 DEF Entry
  <2> QED
    BY <1>0, <1>4, <2>2, <2>5 DEF CheckRecord, Load
<1>5. CASE Remove \/ Inject \/ Install \/ Break
  <2>1. pc \in Halfway => at \in SnapIds
    BY DEF Shape, InSnaps
  <2>2. doubtful' \subseteq doubtful \union {at}
    BY <1>5 DEF Remove, Inject, Install, Break
  <2>3. pc \in Halfway \/ doubtful' = doubtful
    BY <1>5 DEF Remove, Inject, Install, Break, Halfway
  <2> QED
    BY <1>0, <1>5, <2>1, <2>2, <2>3 DEF Remove, Inject, Install, Break
<1>6. CASE Query
  <2>1. guest.snaps[at] \in Entry
    BY <1>6 DEF Query, Shape, InSnaps, Halfway, TypeOK, Guest, SnapSet
  <2>2. rev' \in Revs
    BY <1>6, <2>1 DEF Query, Entry
  <2> QED
    BY <1>0, <1>6, <2>2 DEF Query
<1>7. CASE UNCHANGED vars
  BY <1>0, <1>7 DEF vars
<1> QED
  BY <1>1, <1>2, <1>3, <1>4, <1>5, <1>6, <1>7 DEF Next

LEMMA TypeNext ==
  TypeOK /\ Shape /\ Progress /\ [Next]_vars => TypeOK'
  BY DataNext, PlaceNext, RestNext DEF TypeOK, DataType, PlaceType, RestType

-----------------------------------------------------------------------------
(* The control *)

LEMMA ShapeInit == Init => Shape
  BY DEF Init, Shape, InSnaps, Halfway, NoGuest

\* Where the session goes on in _install_snaps().
LEMMA FromSnapGoes ==
  ASSUME NEW s \in 1 .. NSnaps + 1, FromSnap(s)
  PROVE  /\ at' = s
         /\ \/ s \in SnapIds /\ want[s] = "host" /\ pc' = "info"
            \/ s \in SnapIds /\ want[s] # "host" /\ pc' = "record"
            \/ s = NSnaps + 1 /\ phase = "setup" /\ pc' = "cleanup"
            \/ s = NSnaps + 1 /\ phase # "setup" /\ pc' = "accepted"
  BY CountsAssumption DEF FromSnap, Goto, SnapIds

LEMMA RecordGoes ==
  ASSUME TypeOK, Shape, CheckRecord
  PROVE  \/ /\ pc' \in {"remove", "inject", "install"}
            /\ pc' = "remove" => recorded' = None
            /\ pc' = "inject" => want[at] = "host"
            /\ pc' = "install" => want[at] = "store"
            /\ UNCHANGED at
         \/ /\ FromSnap(at + 1)
            /\ at + 1 \in 1 .. NSnaps + 1
<1>1. at \in SnapIds /\ want[at] \in Sources /\ at + 1 \in 1 .. NSnaps + 1
  BY CountsAssumption DEF TypeOK, Shape, InSnaps, CheckRecord, SnapIds
<1> QED
  BY <1>1 DEF CheckRecord, Fetch, Goto, Sources

\* The parts of Guest and Conf that an action does not touch.
LEMMA GuestKept ==
  ASSUME TypeOK, [Next]_vars, ~Create, ~Clean
  PROVE  guest'.exists = guest.exists /\ guest'.made = guest.made
  BY DEF TypeOK, Guest, Next, vars, Begin, Unset, ImageCheck, SetTag, OsStep,
         CleanUp, Finish, CheckSetup, Ready, End, HostInfo, CheckRecord,
         Remove, Inject, Install, Query, Save, Break, HostRefresh

LEMMA ShapeNext ==
  TypeOK /\ TypeOK' /\ Shape /\ [Next]_vars => Shape'
<1> SUFFICES ASSUME TypeOK, TypeOK', Shape, [Next]_vars
             PROVE  Shape'
  OBVIOUS
<1> USE CountsAssumption
    DEF Shape, InSnaps, Halfway, Goto, Leave, session, history
<1>0. /\ want \in [SnapIds -> Sources]
      /\ hostrev \in [SnapIds -> Revs]
      /\ phase \in {"setup", "warmup"}
      /\ tag \in Tags
      /\ guest \in Guest
  BY DEF TypeOK
<1>1. CASE Begin \/ End \/ Break \/ HostRefresh
  BY <1>0, <1>1 DEF Begin, End, Break, HostRefresh
<1>2. CASE Create
  BY <1>0, <1>2 DEF Create, NoGuest
<1>3. CASE Clean
  BY <1>3 DEF Clean, NoGuest
<1>4. CASE Unset \/ SetTag
  BY <1>0, <1>4 DEF Unset, SetTag
<1>5. CASE ImageCheck \/ CheckSetup
  BY <1>0, <1>5 DEF ImageCheck, CheckSetup, Incompatible
<1>6. CASE OsStep \/ Ready
  <2>1. 1 \in 1 .. NSnaps + 1
    OBVIOUS
  <2>2. CASE FromSnap(1)
    BY <1>0, <1>6, <2>1, <2>2, FromSnapGoes, GuestKept DEF OsStep, Ready
  <2>3. CASE ~FromSnap(1)
    BY <1>0, <1>6, <2>3 DEF OsStep, Ready, Guest
  <2> QED
    BY <2>2, <2>3
<1>7. CASE CleanUp \/ Finish
  BY <1>0, <1>7 DEF CleanUp, Finish, Guest
<1>8. CASE HostInfo
  BY <1>0, <1>8 DEF HostInfo
<1>9. CASE CheckRecord
  BY <1>0, <1>9, RecordGoes, FromSnapGoes DEF CheckRecord
<1>10. CASE Remove
  BY <1>0, <1>10 DEF Remove, Fetch, Guest, Sources
<1>11. CASE Inject
  BY <1>0, <1>11 DEF Inject, Guest
<1>12. CASE Install
  <2>1. pc' = "query" => guest'.snaps[at] # NoSnap
    BY <1>0, <1>12 DEF Install, Guest, SnapSet, NoSnap, None
  <2>2. guest'.exists /\ guest'.made = guest.made
    BY <1>0, <1>12 DEF Install, Guest
  <2> QED
    BY <1>12, <2>1, <2>2 DEF Install
<1>13. CASE Query
  <2>1. rev' \in Revs
    BY <1>0, <1>13 DEF Query, Guest, SnapSet, Entry
  <2> QED
    BY <1>13, <2>1 DEF Query
<1>14. CASE Save
  <2>1. at + 1 \in 1 .. NSnaps + 1
    BY <1>14 DEF Save, SnapIds
  <2> QED
    BY <1>0, <1>14, <2>1, FromSnapGoes DEF Save
<1>15. CASE UNCHANGED vars
  BY <1>15 DEF vars
<1> QED
  BY <1>1, <1>2, <1>3, <1>4, <1>5, <1>6, <1>7, <1>8, <1>9, <1>10, <1>11,
     <1>12, <1>13, <1>14, <1>15
     DEF Next

-----------------------------------------------------------------------------
(* The progress of the setup *)

LEMMA ProgressInit == Init => Progress
  BY DEF Init, Progress, PastChecks, InSnaps, Halfway

LEMMA ProgressNext ==
  /\ TypeOK /\ TypeOK' /\ Shape /\ Progress /\ ConfIsTrue
  /\ [Next]_vars
  => Progress'
<1> SUFFICES ASSUME TypeOK, TypeOK', Shape, Progress, ConfIsTrue,
                    [Next]_vars
             PROVE  Progress'
  OBVIOUS
<1> USE CountsAssumption
    DEF Shape, Progress, PastChecks, InSnaps, Halfway, Goto, Leave, Steps,
        session, history
<1>0. /\ phase \in {"setup", "warmup"}
      /\ guest \in Guest
      /\ guest.done \in Nat
  BY DEF TypeOK, Guest
<1>1. CASE Begin \/ End \/ Break \/ HostRefresh
  BY <1>0, <1>1 DEF Begin, End, Break, HostRefresh
<1>2. CASE Create
  BY <1>0, <1>2 DEF Create, NoGuest
<1>3. CASE Clean
  BY <1>3 DEF Clean, NoGuest
<1>4. CASE Unset \/ SetTag
  BY <1>0, <1>4 DEF Unset, SetTag
<1>5. CASE ImageCheck
  BY <1>0, <1>5 DEF ImageCheck, Incompatible
<1>6. CASE CheckSetup
  <2>1. PICK c \in {conf, NoConf} :
          IF c.there /\ c.setup = "yes" THEN Goto("image") ELSE Incompatible
    BY <1>6 DEF CheckSetup
  <2>2. c.setup = "yes" => guest.done = Steps
    BY <2>1 DEF ConfIsTrue, NoConf, None
  <2> QED
    BY <1>0, <1>6, <2>1, <2>2 DEF CheckSetup, Incompatible
<1>7. CASE OsStep
  <2>1. 1 \in 1 .. NSnaps + 1
    OBVIOUS
  <2>2. CASE guest.done < OsSteps
    BY <1>0, <1>7, <2>2 DEF OsStep, Guest
  <2>3. CASE ~(guest.done < OsSteps)
    BY <1>0, <1>7, <2>1, <2>3, FromSnapGoes DEF OsStep
  <2> QED
    BY <2>2, <2>3
<1>8. CASE Ready
  <2>1. 1 \in 1 .. NSnaps + 1
    OBVIOUS
  <2> QED
    BY <1>0, <1>8, <2>1, FromSnapGoes DEF Ready
<1>9. CASE CleanUp \/ Finish
  BY <1>0, <1>9 DEF CleanUp, Finish, Guest
<1>10. CASE CheckRecord
  BY <1>0, <1>10, RecordGoes, FromSnapGoes DEF CheckRecord
<1>11. CASE HostInfo \/ Remove \/ Inject \/ Install \/ Query
  BY <1>0, <1>11 DEF HostInfo, Remove, Inject, Install, Query, Fetch, Guest
<1>12. CASE Save
  <2>1. at + 1 \in 1 .. NSnaps + 1
    BY <1>12 DEF Save, SnapIds
  <2> QED
    BY <1>0, <1>12, <2>1, FromSnapGoes DEF Save
<1>13. CASE UNCHANGED vars
  BY <1>13 DEF vars
<1> QED
  BY <1>1, <1>2, <1>3, <1>4, <1>5, <1>6, <1>7, <1>8, <1>9, <1>10, <1>11,
     <1>12, <1>13
     DEF Next

-----------------------------------------------------------------------------
(* The configuration *)

LEMMA ConfInit == Init => ConfIsTrue
  BY CountsAssumption
     DEF Init, ConfIsTrue, NoConf, NoGuest, PastChecks, InSnaps, Halfway,
         Steps, None

LEMMA ConfNext ==
  /\ TypeOK /\ TypeOK' /\ Shape /\ Progress /\ ConfIsTrue
  /\ [Next]_vars
  => ConfIsTrue'
<1> SUFFICES ASSUME TypeOK, TypeOK', Shape, Progress, ConfIsTrue,
                    [Next]_vars
             PROVE  ConfIsTrue'
  OBVIOUS
<1> USE CountsAssumption, NoneAssumption
    DEF Shape, Progress, ConfIsTrue, PastChecks, InSnaps, Halfway, Goto,
        Leave, Steps, session, history, None
<1>0. /\ phase \in {"setup", "warmup"}
      /\ guest \in Guest /\ conf \in Conf /\ NoConf \in Conf
      /\ guest.done \in Nat
      /\ tag \in Tags
      /\ unread \in BOOLEAN
  BY ConstantTypes DEF TypeOK, Guest
<1>1. CASE Begin \/ End \/ Break \/ HostRefresh
  BY <1>0, <1>1 DEF Begin, End, Break, HostRefresh
<1>2. CASE Create
  BY <1>0, <1>2 DEF Create, NoGuest, NoConf
<1>3. CASE Clean
  BY <1>0, <1>3 DEF Clean, NoGuest, NoConf
<1>4. CASE Unset
  <2>1. PICK c \in {conf, NoConf} :
          Load(c) /\ conf' = [c EXCEPT !.there = TRUE, !.setup = "no"]
    BY <1>4 DEF Unset
  <2> QED
    BY <1>0, <1>4, <2>1 DEF Unset, Load, Conf, NoConf
<1>5. CASE SetTag
  <2>1. PICK c \in {conf, NoConf} :
          Load(c) /\ conf' = [c EXCEPT !.there = TRUE, !.tag = tag]
    BY <1>5 DEF SetTag
  <2> QED
    BY <1>0, <1>5, <2>1 DEF SetTag, Load, Conf, NoConf
<1>6. CASE Finish
  <2>1. PICK c \in {conf, NoConf} :
          Load(c) /\ conf' = [c EXCEPT !.there = TRUE, !.setup = "yes"]
    BY <1>6 DEF Finish
  <2> QED
    BY <1>0, <1>6, <2>1 DEF Finish, Load, Conf, NoConf, Guest
<1>7. CASE ImageCheck
  <2>1. PICK c \in {conf, NoConf} :
          /\ Load(c)
          /\ IF c.tag \in {None, tag}
             THEN Goto(IF phase = "setup" THEN "tag" ELSE "ready")
             ELSE Incompatible
    BY <1>7 DEF ImageCheck
  <2>2. (c = conf \/ unread') /\ (unread => unread')
    BY <1>0, <2>1 DEF Load
  <2>3. c.tag \in {None, guest.made}
    BY <2>1 DEF NoConf
  <2>4. pc' = "clean" => guest.made # tag \/ unread'
    BY <1>0, <1>7, <2>1, <2>2, <2>3 DEF Incompatible
  <2>5. pc' = "ready" => guest.made = tag \/ unread'
    <3> SUFFICES ASSUME pc' = "ready", ~unread'
                 PROVE  guest.made = tag
      OBVIOUS
    <3>1. c.tag \in {None, tag} /\ phase = "warmup"
      BY <1>0, <1>7, <2>1 DEF Incompatible
    <3>2. conf.tag = guest.made
      BY <1>0, <1>7, <2>2, <3>1 DEF ImageCheck
    <3> QED
      BY <1>0, <1>7, <2>2, <3>1, <3>2 DEF ImageCheck
  <2> QED
    BY <1>0, <1>7, <2>1, <2>2, <2>4, <2>5 DEF ImageCheck, Incompatible
<1>8. CASE CheckSetup
  <2>1. PICK c \in {conf, NoConf} :
          /\ Load(c)
          /\ IF c.there /\ c.setup = "yes" THEN Goto("image")
                                           ELSE Incompatible
    BY <1>8 DEF CheckSetup
  <2>2. (c = conf \/ unread') /\ (unread => unread')
    BY <1>0, <2>1 DEF Load
  <2>3. pc' = "clean" => guest.done < Steps \/ unread'
    BY <1>0, <1>8, <2>1, <2>2 DEF Incompatible, Guest
  <2> QED
    BY <1>0, <1>8, <2>1, <2>2, <2>3 DEF CheckSetup, Incompatible
<1>9. CASE OsStep
  <2>1. 1 \in 1 .. NSnaps + 1
    OBVIOUS
  <2>2. CASE guest.done < OsSteps
    BY <1>0, <1>9, <2>2 DEF OsStep, Guest
  <2>3. CASE ~(guest.done < OsSteps)
    BY <1>0, <1>9, <2>1, <2>3, FromSnapGoes DEF OsStep
  <2> QED
    BY <2>2, <2>3
<1>10. CASE Ready
  <2>1. 1 \in 1 .. NSnaps + 1
    OBVIOUS
  <2> QED
    BY <1>0, <1>10, <2>1, FromSnapGoes DEF Ready
<1>11. CASE CleanUp
  BY <1>0, <1>11 DEF CleanUp, Guest
<1>12. CASE CheckRecord
  <2>1. unread => unread'
    BY <1>0, <1>12 DEF CheckRecord, Load
  <2> QED
    BY <1>0, <1>12, <2>1, RecordGoes, FromSnapGoes DEF CheckRecord
<1>13. CASE HostInfo \/ Remove \/ Inject \/ Install \/ Query
  BY <1>0, <1>13 DEF HostInfo, Remove, Inject, Install, Query, Fetch, Guest
<1>14. CASE Save
  <2>1. at + 1 \in 1 .. NSnaps + 1
    BY <1>14 DEF Save, SnapIds
  <2>2. PICK c \in {conf, NoConf} :
          /\ Load(c)
          /\ conf' = [c EXCEPT !.there = TRUE,
                               !.snaps[at] = [source |-> want[at],
                                              rev |-> rev]]
    BY <1>14 DEF Save
  <2>3. conf'.there /\ conf'.setup = c.setup /\ conf'.tag = c.tag
    BY <1>0, <2>2 DEF Conf
  <2> QED
    BY <1>0, <1>14, <2>1, <2>2, <2>3, FromSnapGoes DEF Save, Load, NoConf
<1>15. CASE UNCHANGED vars
  BY <1>15 DEF vars
<1> QED
  BY <1>1, <1>2, <1>3, <1>4, <1>5, <1>6, <1>7, <1>8, <1>9, <1>10, <1>11,
     <1>12, <1>13, <1>14, <1>15
     DEF Next

-----------------------------------------------------------------------------
(* The snaps *)

LEMMA SnapsInit == Init => SnapsAgree
  BY DEF Init, SnapsAgree, RecordsAreTrue, AtIsKnown, Served, InSnaps,
         Halfway, NoGuest, NoConf

\* Going on with the next snap: it has been served, and agrees.
LEMMA NextSnap ==
  ASSUME TypeOK, Shape, ~unread, RecordsAreTrue', Served, pc \in InSnaps,
         FromSnap(at + 1), UNCHANGED <<doubtful, want>>,
         UNCHANGED guest.snaps,
         at \notin doubtful =>
           guest.snaps[at] # NoSnap /\ guest.snaps[at].source = want[at]
  PROVE  AtIsKnown' /\ Served'
<1>1. at \in SnapIds /\ at + 1 \in 1 .. NSnaps + 1
  BY CountsAssumption DEF Shape, SnapIds
<1>2. at' = at + 1 /\ pc' \notin Halfway
  BY <1>1, FromSnapGoes DEF Halfway
<1>3. \A s \in SnapIds : s < at + 1 => s < at \/ s = at
  BY <1>1, CountsAssumption DEF SnapIds
<1> QED
  BY <1>2, <1>3 DEF AtIsKnown, Served

LEMMA SnapsNext ==
  /\ TypeOK /\ TypeOK' /\ Shape /\ Shape' /\ Progress /\ ConfIsTrue
  /\ SnapsAgree /\ [Next]_vars
  => SnapsAgree'
<1> SUFFICES ASSUME TypeOK, TypeOK', Shape, Shape', Progress, ConfIsTrue,
                    SnapsAgree, [Next]_vars, ~unread'
             PROVE  (RecordsAreTrue /\ AtIsKnown /\ Served)'
  BY DEF SnapsAgree
<1> USE CountsAssumption DEF session, history, Goto, Leave
<1>0. /\ guest \in Guest /\ conf \in Conf
      /\ unread \in BOOLEAN /\ unread' \in BOOLEAN
      /\ want \in [SnapIds -> Sources]
  BY DEF TypeOK
<1>1. CASE Clean
  BY <1>1 DEF Clean, RecordsAreTrue, AtIsKnown, Served, InSnaps, Halfway,
              NoGuest, NoConf
<1>a. ~Clean => ~unread /\ RecordsAreTrue /\ AtIsKnown /\ Served
  BY <1>0
     DEF SnapsAgree, Next, vars, Begin, Create, Unset, ImageCheck, SetTag,
         OsStep, CleanUp, Finish, CheckSetup, Ready, End, HostInfo,
         CheckRecord, Remove, Inject, Install, Query, Save, Break,
         HostRefresh, Load
<1>b. \A s \in SnapIds \ doubtful :
        ~Clean => conf.snaps[s] = guest.snaps[s] \/ (s = at /\ pc \in Halfway)
  BY <1>a DEF RecordsAreTrue
<1>2. CASE Begin \/ End \/ HostRefresh \/ UNCHANGED vars
  BY <1>a, <1>b, <1>2
     DEF Begin, End, HostRefresh, vars, RecordsAreTrue, AtIsKnown, Served,
         InSnaps, Halfway, Clean
<1>3. CASE Create
  BY <1>a, <1>3
     DEF Create, Shape, Clean, RecordsAreTrue, AtIsKnown, Served, InSnaps,
         Halfway, NoGuest, NoConf
<1>4. CASE Unset \/ SetTag \/ Finish
  <2>1. conf'.snaps = conf.snaps /\ guest'.snaps = guest.snaps
    <3>1. PICK c \in {conf, NoConf} :
            /\ Load(c)
            /\ \/ conf' = [c EXCEPT !.there = TRUE, !.setup = "no"]
               \/ conf' = [c EXCEPT !.there = TRUE, !.setup = "yes"]
               \/ conf' = [c EXCEPT !.there = TRUE, !.tag = tag]
      BY <1>4 DEF Unset, SetTag, Finish
    <3>2. c = conf
      BY <3>1 DEF Load
    <3> QED
      BY <1>0, <1>4, <3>1, <3>2 DEF Unset, SetTag, Finish, Conf, Guest
  <2> QED
    BY <1>a, <1>b, <1>4, <2>1
       DEF Unset, SetTag, Finish, RecordsAreTrue, AtIsKnown, Served, InSnaps,
           Halfway, Clean
<1>5. CASE ImageCheck \/ CheckSetup
  <2>1. pc' \in {"tag", "ready", "image", "clean", "idle"} /\ pc \notin Halfway
    BY <1>5 DEF ImageCheck, CheckSetup, Incompatible, Halfway
  <2> QED
    BY <1>a, <1>b, <1>5, <2>1
       DEF ImageCheck, CheckSetup, RecordsAreTrue, AtIsKnown, Served,
           InSnaps, Halfway, Clean
<1>6. CASE OsStep \/ CleanUp
  <2>1. guest'.snaps = guest.snaps /\ pc \notin Halfway
    BY <1>0, <1>6 DEF OsStep, CleanUp, Guest, Halfway
  <2>2. 1 \in 1 .. NSnaps + 1
    OBVIOUS
  <2>3. \A s \in SnapIds : ~(s < 1)
    BY DEF SnapIds
  <2>4. pc' \notin Halfway /\ (pc' \in InSnaps \union {"accepted"} => at' = 1)
    BY <1>6, <2>2, FromSnapGoes DEF OsStep, CleanUp, InSnaps, Halfway
  <2> QED
    BY <1>a, <1>b, <1>6, <2>1, <2>3, <2>4
       DEF OsStep, CleanUp, RecordsAreTrue, AtIsKnown, Served, Clean
<1>7. CASE Ready
  <2>1. 1 \in 1 .. NSnaps + 1
    OBVIOUS
  <2>2. \A s \in SnapIds : ~(s < 1)
    BY DEF SnapIds
  <2>3. at' = 1 /\ pc' \notin Halfway /\ pc \notin Halfway
    BY <1>7, <2>1, FromSnapGoes DEF Ready, Halfway
  <2> QED
    BY <1>a, <1>b, <1>7, <2>2, <2>3
       DEF Ready, RecordsAreTrue, AtIsKnown, Served, Clean
<1>8. CASE HostInfo
  BY <1>a, <1>b, <1>8
     DEF HostInfo, RecordsAreTrue, AtIsKnown, Served, InSnaps, Halfway, Clean
<1>9. CASE CheckRecord
  <2>1. ~Clean /\ pc \in InSnaps /\ pc \notin Halfway /\ at \in SnapIds
    BY <1>9 DEF CheckRecord, Clean, InSnaps, Halfway, Shape
  <2>2. at \notin doubtful => conf.snaps[at] = guest.snaps[at]
    BY <1>b, <2>1
  <2>3. conf.snaps[at] \in Entry \union {NoSnap}
    BY <1>0, <2>1 DEF Conf, SnapSet
  <2>4. \/ /\ conf.snaps[at] = NoSnap /\ recorded' = None
           /\ Fetch /\ UNCHANGED at
        \/ Goto("remove") /\ UNCHANGED at
        \/ /\ conf.snaps[at] # NoSnap /\ conf.snaps[at].source = want[at]
           /\ recorded' = conf.snaps[at].rev
           /\ FromSnap(at + 1) \/ (Fetch /\ UNCHANGED at)
    BY <1>9 DEF CheckRecord, Load
  <2>5. UNCHANGED <<guest, conf, want, doubtful>>
    BY <1>9 DEF CheckRecord
  <2>6. RecordsAreTrue'
    BY <1>b, <2>1, <2>5 DEF RecordsAreTrue
  <2>7. CASE FromSnap(at + 1) /\ conf.snaps[at] # NoSnap
             /\ conf.snaps[at].source = want[at]
    BY <1>a, <2>1, <2>2, <2>5, <2>6, <2>7, NextSnap
  <2>8. CASE UNCHANGED at
    <3>1. Served'
      BY <1>a, <2>1, <2>5, <2>8 DEF Served
    <3>2. AtIsKnown'
      <4>1. at + 1 # at
        BY <2>1 DEF SnapIds
      <4>2. pc' \in Halfway =>
              \/ /\ conf.snaps[at] = NoSnap /\ recorded' = None
                 /\ Fetch
              \/ /\ conf.snaps[at] # NoSnap
                 /\ conf.snaps[at].source = want[at]
                 /\ recorded' = conf.snaps[at].rev
                 /\ Fetch
        BY <2>4, <2>8, <4>1 DEF FromSnap, Halfway
      <4>3. conf.snaps[at] # NoSnap => conf.snaps[at].rev # None
        BY <2>3, NoneAssumption DEF Entry
      <4>4. want[at] \in Sources
        BY <1>0, <2>1
      <4> QED
        BY <2>2, <2>5, <2>8, <4>2, <4>3, <4>4
           DEF AtIsKnown, Halfway, Fetch, Sources
    <3> QED
      BY <2>6, <3>1, <3>2
  <2> QED
    BY <2>4, <2>7, <2>8
<1>c. pc \in InSnaps => at \in SnapIds
  BY DEF Shape
<1>10. CASE Remove
  <2>1. at \in SnapIds /\ pc' \in Halfway /\ pc \in InSnaps /\ ~Clean
    BY <1>10 DEF Remove, Shape, InSnaps, Fetch, Halfway, Clean
  <2>2. \A s \in SnapIds : guest'.snaps[s] = IF s = at THEN NoSnap
                                             ELSE guest.snaps[s]
    BY <1>0, <1>10 DEF Remove, Guest, SnapSet
  <2>3. pc' # "query" /\ pc' # "save" /\ recorded' = None
    BY <1>10 DEF Remove, Fetch, Shape
  <2> QED
    BY <1>a, <1>b, <1>10, <2>1, <2>2, <2>3
       DEF Remove, RecordsAreTrue, AtIsKnown, Served, Halfway, InSnaps,
           SnapIds
<1>11. CASE Inject
  <2>1. at \in SnapIds /\ pc \in InSnaps /\ ~Clean /\ want[at] = "host"
    BY <1>11 DEF Inject, Shape, InSnaps, Halfway, Clean
  <2>2. \A s \in SnapIds :
          guest'.snaps[s] = IF s = at
                            THEN [source |-> "host", rev |-> hostrev[at]]
                            ELSE guest.snaps[s]
    BY <1>0, <1>11 DEF Inject, Guest, SnapSet
  <2> QED
    BY <1>a, <1>b, <1>11, <2>1, <2>2
       DEF Inject, RecordsAreTrue, AtIsKnown, Served, Halfway, InSnaps,
           SnapIds
<1>12. CASE Install
  <2>1. /\ at \in SnapIds /\ pc \in InSnaps /\ pc \in Halfway /\ ~Clean
        /\ UNCHANGED <<conf, want, at, doubtful>>
    BY <1>12 DEF Install, Shape, InSnaps, Halfway, Clean
  <2>2. at \notin doubtful => IF recorded = None
                              THEN guest.snaps[at] = NoSnap
                              ELSE guest.snaps[at].source = "store"
    BY <1>a, <1>12, <2>1 DEF Install, AtIsKnown
  <2>3. CASE \E r \in Revs :
               guest' = [guest EXCEPT !.snaps[at] = [source |-> "store",
                                                     rev |-> r]]
    <3>1. PICK r \in Revs :
            guest' = [guest EXCEPT !.snaps[at] = [source |-> "store",
                                                  rev |-> r]]
      BY <2>3
    <3>2. \A s \in SnapIds :
            guest'.snaps[s] = IF s = at THEN [source |-> "store", rev |-> r]
                              ELSE guest.snaps[s]
      BY <1>0, <3>1 DEF Guest, SnapSet
    <3>3. CASE pc' = "query"
      BY <1>a, <1>b, <2>1, <3>2, <3>3
         DEF RecordsAreTrue, AtIsKnown, Served, Halfway, InSnaps, SnapIds
    <3>4. CASE pc' # "query"
      BY <1>a, <1>b, <1>12, <2>1, <2>2, <3>4
         DEF Install, RecordsAreTrue, AtIsKnown, Served, Halfway, InSnaps,
             NoSnap, None
    <3> QED
      BY <3>3, <3>4
  <2>4. CASE /\ UNCHANGED guest
             /\ \/ /\ guest.snaps[at] # NoSnap
                   /\ recorded # None => guest.snaps[at].source = "host"
                \/ /\ recorded # None
                   /\ \/ guest.snaps[at] = NoSnap
                      \/ guest.snaps[at].source = "host"
    <3>1. at \in doubtful
      BY <2>2, <2>4 DEF NoSnap, None
    <3>2. pc' \in {"query", "idle"}
      BY <1>12 DEF Install
    <3> QED
      BY <1>a, <1>b, <2>1, <2>4, <3>1, <3>2
         DEF RecordsAreTrue, AtIsKnown, Served, InSnaps, Halfway
  <2> QED
    BY <1>12, <2>3, <2>4 DEF Install
<1>13. CASE Query
  <2>1. /\ at \in SnapIds /\ pc \in InSnaps /\ pc \in Halfway /\ ~Clean
        /\ pc' = "save" /\ UNCHANGED <<guest, conf, want, at, doubtful>>
        /\ want[at] = "store" /\ guest.snaps[at] # NoSnap
    BY <1>13 DEF Query, Shape, InSnaps, Halfway, Clean
  <2>2. guest.snaps[at] \in Entry
    BY <1>0, <2>1 DEF Guest, SnapSet
  <2>3. at \notin doubtful =>
          guest.snaps[at] = [source |-> want[at], rev |-> rev']
    BY <1>a, <1>13, <2>1, <2>2 DEF Query, AtIsKnown, Entry
  <2> QED
    BY <1>a, <1>b, <2>1, <2>3
       DEF RecordsAreTrue, AtIsKnown, Served, Halfway, InSnaps
<1>14. CASE Save
  <2>1. /\ at \in SnapIds /\ pc \in InSnaps /\ ~Clean
        /\ FromSnap(at + 1) /\ UNCHANGED <<guest, want, doubtful>>
    BY <1>14 DEF Save, Shape, InSnaps, Halfway, Clean
  <2>2. conf' = [conf EXCEPT !.there = TRUE,
                             !.snaps[at] = [source |-> want[at],
                                            rev |-> rev]]
    BY <1>14 DEF Save, Load
  <2>3. \A s \in SnapIds :
          conf'.snaps[s] = IF s = at THEN [source |-> want[at], rev |-> rev]
                           ELSE conf.snaps[s]
    BY <1>0, <2>2 DEF Conf, SnapSet
  <2>4. at \notin doubtful =>
          guest.snaps[at] = [source |-> want[at], rev |-> rev]
    BY <1>a, <1>14, <2>1 DEF Save, AtIsKnown, Halfway
  <2>5. RecordsAreTrue'
    BY <1>b, <2>1, <2>3, <2>4 DEF RecordsAreTrue
  <2>6. [source |-> want[at], rev |-> rev] # NoSnap
    BY <1>14, NoneAssumption DEF Save, Shape, NoSnap
  <2> QED
    BY <1>a, <2>1, <2>4, <2>5, <2>6, NextSnap
<1>15. CASE Break
  <2>1. pc' = "idle" /\ ~Clean /\ UNCHANGED <<guest, conf>>
    BY <1>15 DEF Break, Clean
  <2>2. pc \in Halfway => at \in doubtful'
    BY <1>15 DEF Break
  <2>3. doubtful \subseteq doubtful'
    BY <1>15 DEF Break
  <2> QED
    BY <1>b, <2>1, <2>2, <2>3
       DEF RecordsAreTrue, AtIsKnown, Served, InSnaps, Halfway
<1> QED
  BY <1>1, <1>2, <1>3, <1>4, <1>5, <1>6, <1>7, <1>8, <1>9, <1>10, <1>11,
     <1>12, <1>13, <1>14, <1>15
     DEF Next

-----------------------------------------------------------------------------
(* The refinement of LaunchedEnvironment *)

\* How the promise sees a session and the instance.
Views ==
  /\ EnvironmentSession = "out" <=> pc = "idle"
  /\ pc = "accepted" => EnvironmentSession = "held"
  /\ pc = "create" => EnvironmentSession = "lacking"
  /\ pc \notin {"idle", "accepted", "create"} =>
       EnvironmentSession = IF phase = "setup" THEN "making" ELSE "asking"
  /\ pc # "idle" /\ phase = "setup" => EnvironmentState = "partial"

LEMMA ViewsHold == IInv => Views
<1> SUFFICES ASSUME IInv
             PROVE  Views
  OBVIOUS
<1>1. pc \in {"accepted", "create"} => phase = "warmup"
  BY DEF IInv, Shape
<1>2. ASSUME pc # "idle", phase = "setup"
      PROVE  guest.exists /\ guest.done # Steps
  <2>1. guest.done \in Nat /\ pc \in PCs
    BY DEF IInv, TypeOK, Guest
  <2> QED
    BY <1>2, <2>1, CountsAssumption
       DEF IInv, Shape, Progress, PCs, InSnaps, Halfway, Steps
<1> QED
  BY <1>1, <1>2 DEF Views, EnvironmentSession, EnvironmentState

Env == IInv /\ Views

\* A step that leaves the instance what it is, and the session on its way, at its end
\* or with the instance accepted.
Plain ==
  /\ guest'.exists = guest.exists /\ guest'.made = guest.made
  /\ guest'.done = guest.done \/ (phase = "setup" /\ pc # "idle" /\ pc' # "idle")
  /\ tag' = tag /\ phase' = phase
  /\ unread' = unread \/ (unread' = TRUE /\ pc \notin {"idle", "accepted", "create"})
  /\ pc = "idle" => pc' = "idle"
  /\ pc = "accepted" => pc' \in {"accepted", "idle"}
  /\ pc' # "idle" => (pc = "create" <=> pc' = "create")

\* Nothing else brings a session to the creation of the instance.
LEMMA LackingStays ==
  ASSUME [Next]_vars, ~Begin, ~Create, ~Clean, pc' # "idle"
  PROVE  pc = "create" <=> pc' = "create"
<1> USE DEF Goto
<1>1. CASE UNCHANGED vars \/ HostRefresh \/ End \/ Break
  BY <1>1 DEF vars, HostRefresh, End, Break, Leave
<1>2. CASE Unset \/ SetTag \/ ImageCheck \/ CheckSetup \/ CleanUp \/ Finish \/ HostInfo \/ Query
  BY <1>2 DEF Unset, SetTag, ImageCheck, CheckSetup, CleanUp, Finish, HostInfo, Query,
              Incompatible, Leave
<1>3. CASE OsStep \/ Ready \/ CheckRecord \/ Save
  BY <1>3 DEF OsStep, Ready, CheckRecord, Save, FromSnap, Fetch
<1>4. CASE Remove \/ Inject \/ Install
  <2>1. Remove => pc = "remove" /\ pc' \in {"inject", "install"}
    BY DEF Remove, Fetch
  <2>2. Inject => pc = "inject" /\ pc' = "save"
    BY DEF Inject
  <2>3. Install => pc = "install" /\ pc' \in {"query", "idle"}
    BY DEF Install, Leave
  <2> QED
    BY <1>4, <2>1, <2>2, <2>3
<1> QED
  BY <1>1, <1>2, <1>3, <1>4 DEF Next

LEMMA PlainSteps ==
  ASSUME IInv, [Next]_vars, ~Begin, ~Create, ~Clean, ~Finish
  PROVE  Plain
<1> USE DEF Plain, session, history
<1>1. guest'.exists = guest.exists /\ guest'.made = guest.made
  BY GuestKept DEF IInv
<1>0. pc' # "idle" => (pc = "create" <=> pc' = "create")
  BY LackingStays
<1>2. CASE UNCHANGED vars \/ HostRefresh \/ End \/ Break
  BY <1>0, <1>1, <1>2 DEF vars, HostRefresh, End, Break, Leave, Goto
<1>3. CASE Unset \/ SetTag \/ ImageCheck \/ CheckSetup
  BY <1>0, <1>1, <1>3 DEF Unset, SetTag, ImageCheck, CheckSetup, Load, IInv, TypeOK
<1>4. CASE OsStep \/ CleanUp
  <2>1. phase = "setup" /\ pc # "idle" /\ pc # "accepted"
    BY <1>4 DEF OsStep, CleanUp, IInv, Shape
  <2>2. pc' # "idle"
    BY <1>4, CountsAssumption DEF OsStep, CleanUp, FromSnap, Goto
  <2> QED
    BY <1>0, <1>1, <1>4, <2>1, <2>2 DEF OsStep, CleanUp
<1>5. CASE Ready \/ HostInfo \/ Query
  BY <1>0, <1>1, <1>5 DEF Ready, HostInfo, Query
<1>6. CASE CheckRecord \/ Save
  BY <1>0, <1>1, <1>6 DEF CheckRecord, Save, Load, IInv, TypeOK
<1>7. CASE Remove \/ Inject \/ Install
  <2>1. guest'.done = guest.done
    BY <1>7 DEF Remove, Inject, Install, IInv, TypeOK, Guest
  <2> QED
    BY <1>0, <1>1, <1>7, <2>1 DEF Remove, Inject, Install
<1> QED
  BY <1>2, <1>3, <1>4, <1>5, <1>6, <1>7 DEF Next

LEMMA PlainInPromise ==
  ASSUME Env, Env', Plain
  PROVE  [Promise!Next]_(Promise!vars)
<1>1. EnvironmentState' = EnvironmentState /\ guest'.made = guest.made /\ tag' = tag
  BY DEF Env, Views, Plain, EnvironmentState
<1>2. unread => unread'
  BY DEF Plain
<1>3. phase \in {"setup", "warmup"} /\ phase' = phase
  BY DEF Plain, Env, IInv, TypeOK
<1>4. CASE pc # "idle" /\ pc' = "idle"
  BY <1>1, <1>2, <1>4 DEF Env, Views, Promise!Next, Promise!Leave
<1>5. CASE pc # "accepted" /\ pc' = "accepted"
  <2>1. EnvironmentSession = "asking" /\ EnvironmentSession' = "held" /\ pc # "idle"
    BY <1>3, <1>5 DEF Env, Views, Plain, IInv, Shape
  <2>2. PastChecks'
    BY <1>3, <1>5 DEF PastChecks, Env, IInv, Shape
  <2>3. EnvironmentState = "complete"
    BY <1>1, <1>5, <2>2 DEF Env, IInv, Shape, Progress, EnvironmentState
  <2>4. guest.made = tag \/ unread'
    BY <1>1, <2>2 DEF Env, IInv, ConfIsTrue
  <2>5. <<guest.made, tag>> \in {<<t, t>> : t \in Tags} \/ unread'
    BY <2>4 DEF Env, IInv, TypeOK
  <2> QED
    BY <1>1, <1>2, <2>1, <2>3, <2>5 DEF Promise!Next, Promise!Hand
<1>6. CASE (pc = "idle" <=> pc' = "idle") /\ (pc = "accepted" <=> pc' = "accepted")
  <2>1. EnvironmentSession' = EnvironmentSession
    BY <1>3, <1>6 DEF Env, Views, Plain
  <2>2. CASE unread' = unread
    BY <1>1, <2>1, <2>2 DEF Promise!vars
  <2>3. CASE unread' = TRUE /\ pc \notin {"idle", "accepted", "create"}
    BY <1>1, <1>3, <2>1, <2>3 DEF Env, Views, Promise!Next, Promise!Misread
  <2> QED
    BY <2>2, <2>3 DEF Plain
<1> QED
  BY <1>4, <1>5, <1>6 DEF Plain

LEMMA BeginInPromise ==
  ASSUME Env, Env', Begin
  PROVE  [Promise!Next]_(Promise!vars)
<1>1. pc = "idle" /\ pc' \in {"check", "create"} /\ phase' = "warmup"
      /\ tag' \in Tags /\ UNCHANGED <<guest, unread>>
  BY DEF Begin, Goto
<1>2. EnvironmentSession = "out"
      /\ EnvironmentSession' = IF guest.exists THEN "asking" ELSE "lacking"
  BY <1>1 DEF Begin, Goto, Env, Views
<1>3. EnvironmentState' = EnvironmentState /\ (~guest.exists => EnvironmentState = "none")
  BY <1>1 DEF EnvironmentState
<1> QED
  BY <1>1, <1>2, <1>3 DEF Promise!Next, Promise!Ask

LEMMA CreateInPromise ==
  ASSUME Env, Env', Create
  PROVE  [Promise!Next]_(Promise!vars)
<1>1. /\ pc = "create" /\ pc' = "unset" /\ phase = "warmup" /\ phase' = "setup"
      /\ ~guest.exists /\ guest'.exists /\ guest'.made = tag /\ UNCHANGED <<tag, unread>>
  BY DEF Create, Goto, NoGuest, history, Env, IInv, Shape
<1>2. EnvironmentSession = "lacking" /\ EnvironmentSession' = "making"
  BY <1>1 DEF Env, Views
<1>3. EnvironmentState = "none" /\ EnvironmentState' = "partial"
  BY <1>1 DEF Env, Views, EnvironmentState
<1> QED
  BY <1>1, <1>2, <1>3 DEF Promise!Next, Promise!Make

\* What is cleaned is no loss.
LEMMA CleanInPromise ==
  ASSUME Env, Env', Clean
  PROVE  [Promise!Next]_(Promise!vars)
<1>1. /\ pc = "clean" /\ pc' = "create" /\ phase = "warmup" /\ UNCHANGED <<tag, phase>>
      /\ guest.exists /\ guest' = NoGuest /\ unread' = FALSE
  BY DEF Clean, Goto, session, Env, IInv, Shape
<1>2. EnvironmentSession = "asking" /\ EnvironmentSession' = "lacking"
  BY <1>1 DEF Env, Views
<1>3. EnvironmentState' = "none" /\ guest'.made = None
  BY <1>1 DEF EnvironmentState, NoGuest
<1>4. \/ EnvironmentState = "partial"
      \/ EnvironmentState = "complete" /\ guest.done = Steps
  BY <1>1 DEF EnvironmentState
<1>5. guest.done < Steps \/ guest.made # tag \/ unread
  BY <1>1 DEF Env, IInv, ConfIsTrue
<1>6. guest.done = Steps => <<guest.made, tag>> \notin {<<t, t>> : t \in Tags} \/ unread
  BY <1>5, CountsAssumption DEF Steps
<1> QED
  BY <1>1, <1>2, <1>3, <1>4, <1>6 DEF Promise!Next, Promise!Drop

\* Only the session that has made the instance completes it.
LEMMA FinishInPromise ==
  ASSUME Env, Env', Finish
  PROVE  [Promise!Next]_(Promise!vars)
<1>1. /\ pc = "finish" /\ pc' = "check" /\ phase = "setup" /\ phase' = "warmup"
      /\ guest' = [guest EXCEPT !.done = @ + 1] /\ tag' = tag
      /\ guest.exists /\ guest.made = tag /\ guest.done = OsSteps + 1
  BY DEF Finish, Goto, Env, IInv, Shape, Progress
<1>2. guest'.exists /\ guest'.made = tag /\ guest'.done = Steps
  BY <1>1, CountsAssumption DEF Env, IInv, TypeOK, Guest, Steps
<1>3. EnvironmentSession = "making" /\ EnvironmentSession' = "asking"
  BY <1>1 DEF Env, Views
<1>4. EnvironmentState = "partial" /\ EnvironmentState' = "complete"
  BY <1>1, <1>2 DEF Env, Views, EnvironmentState
<1>5. unread => unread'
  BY DEF Finish, Load
<1> QED
  BY <1>1, <1>2, <1>3, <1>4, <1>5 DEF Promise!Next, Promise!Complete

-----------------------------------------------------------------------------
(* The theorems *)

LEMMA Invariance == Spec => []IInv
<1>1. Init => IInv
  BY TypeInit, ShapeInit, ProgressInit, ConfInit, SnapsInit DEF IInv
<1>2. IInv /\ [Next]_vars => IInv'
  BY TypeNext, ShapeNext, ProgressNext, ConfNext, SnapsNext DEF IInv
<1> QED
  BY <1>1, <1>2, PTL DEF Spec

\* Every variable has its type: the setup is never run further than its last
\* step, and _install_snaps() never goes past the last snap.
THEOREM TypeCorrect == Spec => []TypeOK
<1>1. IInv => TypeOK
  BY DEF IInv
<1> QED
  BY <1>1, Invariance, PTL

\* warmup() accepts only an instance whose setup has run to its end, for the
\* tag of the session unless a configuration was not read.
THEOREM OnlyCompleteAccepted == Spec => []AcceptedIsComplete
<1>1. IInv => AcceptedIsComplete
  BY DEF IInv, Progress, ConfIsTrue, AcceptedIsComplete
<1> QED
  BY <1>1, Invariance, PTL

\* The record of the snaps agrees with what is installed, but for the snaps
\* in doubt.
THEOREM TrueRecords == Spec => []RecordsAreTrue
<1>1. IInv => RecordsAreTrue
  BY DEF IInv, SnapsAgree, RecordsAreTrue
<1> QED
  BY <1>1, Invariance, PTL

\* A session that succeeds has its snaps from the sources it wants, but for
\* those in doubt.
THEOREM SnapsDelivered == Spec => []AcceptedHasSnaps
<1>1. IInv => AcceptedHasSnaps
  <2> SUFFICES ASSUME IInv, pc = "accepted", ~unread,
                      NEW s \in SnapIds \ doubtful
               PROVE  guest.snaps[s] # NoSnap /\ guest.snaps[s].source = want[s]
    BY DEF AcceptedHasSnaps
  <2>1. at = NSnaps + 1 /\ s < at
    BY CountsAssumption DEF IInv, Shape, SnapIds
  <2> QED
    BY <2>1 DEF IInv, SnapsAgree, Served
<1> QED
  BY <1>1, Invariance, PTL

\* A session without a failure of its own succeeds, unless it comes to a snap
\* in doubt.
THEOREM CleanRunsSucceed == Spec => CleanRunSucceeds
<1>1. ASSUME IInv, [Next]_vars, pc \notin {"idle", "accepted"}, pc' = "idle",
             ~broke', ~unread', at \notin doubtful
      PROVE  FALSE
  <2> USE <1>1 DEF IInv, TypeOK, Goto, session, history
  <2>1. ImageCheck \/ CheckSetup \/ Install
    BY CountsAssumption
       DEF Next, vars, Begin, Create, Clean, Unset, SetTag, OsStep, CleanUp,
           Finish, Ready, End, HostInfo, CheckRecord, Remove, Inject, Query,
           Save, Break, HostRefresh, FromSnap, Fetch, Leave
  <2>2. CASE ImageCheck
    <3>1. PICK c \in {conf, NoConf} :
            Load(c) /\ IF c.tag \in {None, tag}
                       THEN Goto(IF phase = "setup" THEN "tag" ELSE "ready")
                       ELSE Incompatible
      BY <2>2 DEF ImageCheck
    <3>2. c.tag \in {None, guest.made}
      BY <3>1 DEF ConfIsTrue, NoConf
    <3>3. fresh /\ c.tag \notin {None, tag}
      BY <3>1 DEF Incompatible
    <3> QED
      BY <3>2, <3>3 DEF Shape
  <2>3. CASE CheckSetup
    <3>1. PICK c \in {conf, NoConf} :
            /\ Load(c)
            /\ IF c.there /\ c.setup = "yes" THEN Goto("image")
                                             ELSE Incompatible
      BY <2>3 DEF CheckSetup
    <3>2. c = conf /\ unread = unread'
      BY <3>1 DEF Load
    <3>3. fresh /\ pc = "check" /\ ~(conf.there /\ conf.setup = "yes")
      BY <2>3, <3>1, <3>2 DEF CheckSetup, Incompatible
    <3> QED
      BY <3>2, <3>3 DEF ConfIsTrue, None
  <2>4. CASE Install
    <3>1. /\ recorded # None
          /\ \/ guest.snaps[at] = NoSnap
             \/ guest.snaps[at].source = "host"
      BY <2>4 DEF Install
    <3>2. ~unread /\ pc = "install"
      BY <2>4 DEF Install
    <3>3. guest.snaps[at].source = "store"
      BY <3>1, <3>2 DEF SnapsAgree, AtIsKnown, Halfway
    <3> QED
      BY <3>1, <3>3 DEF NoSnap, None
  <2> QED
    BY <2>1, <2>2, <2>3, <2>4
<1>2. IInv /\ [Next]_vars =>
        [pc \notin {"idle", "accepted"} /\ pc' = "idle" =>
           broke' \/ unread' \/ at \in doubtful]_vars
  BY <1>1
<1> QED
  BY <1>2, Invariance, PTL DEF Spec, CleanRunSucceeds

\* auto_clean never deletes an instance that is set up for the session's tag,
\* unless a configuration was not read.
THEOREM GoodGuestsKept == Spec => GoodGuestIsKept
<1>1. IInv /\ [Next]_vars =>
        [pc = "clean" /\ pc' = "create" =>
           guest.done < Steps \/ guest.made # tag \/ unread]_vars
  BY DEF IInv, ConfIsTrue
<1> QED
  BY <1>1, Invariance, PTL DEF Spec, GoodGuestIsKept

\* setup() and warmup() keep the promise of launched_environment(), for any snaps and
\* any tags, wherever a session is broken off.
THEOREM EnvironmentCorrect == Spec => ImplementsEnvironment
<1>1. IInv => Views
  BY ViewsHold
<1>2. Init => Promise!Init
  BY DEF Init, Promise!Init, EnvironmentState, EnvironmentSession, NoGuest
<1>3. ASSUME IInv, IInv', Views, Views', [Next]_vars
      PROVE  [Promise!Next]_(Promise!vars)
  <2>1. Env /\ Env'
    BY <1>3 DEF Env
  <2> QED
    BY <1>3, <2>1, PlainSteps, PlainInPromise, BeginInPromise, CreateInPromise,
       CleanInPromise, FinishInPromise
<1> QED
  BY <1>1, <1>2, <1>3, Invariance, PTL DEF Spec, ImplementsEnvironment, Promise!Spec
=============================================================================
