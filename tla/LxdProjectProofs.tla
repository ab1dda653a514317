-------------------------- MODULE LxdProjectProofs --------------------------
(***************************************************************************)
(* Proofs about LxdProject, for any number of processes and operations.    *)
(*                                                                         *)
(* Each process is bound to facts about its place, its listing and what it *)
(* was told (Own).  Its own steps keep them; a step of another process     *)
(* takes something from it or adds something only with a note in its       *)
(* history (Frame), which is all its facts ask for.                        *)
(***************************************************************************)
EXTENDS LxdProject, TLAPS

-----------------------------------------------------------------------------
(* The inductive invariant *)

\* The labels belong to the operations that have them.
OpFits(p) ==
  /\ pc[p] \in EnsureLabels \cup CreateLabels \cup LaunchLabels => op[p] \in Launches
  /\ pc[p] \in CleanLabels => op[p] \in Cleaners
  /\ pc[p] \in {"image_list", "image_delete", "project_delete"} => op[p] \in {"purge", "remove"}
  /\ pc[p] \in {"base_list", "base_delete", "child_list", "child_delete"} => op[p] = "configure"
  /\ pc[p] \in {"purge", "list", "delete"} => op[p] # "configure"

\* What a launch has seen is still so, or somebody has told of its deletion.
Launcher(p) ==
  /\ pc[p] \in LaunchLabels \cup {"profile_show", "profile_edit"} =>
       project # "absent" \/ "gone" \in met[p]
  /\ pc[p] = "create_again" => project # "absent" \/ met[p] \cap {"gone", "fault"} # {}
  /\ pc[p] = "remotes_again" => remote \/ "fault" \in met[p]
  /\ pc[p] \in {"existing", "start"} => inst[p] # "none" \/ "gone" \in met[p]
  /\ pc[p] \in {"base", "base_launch", "build", "wait", "copy", "plain"} => inst[p] = "none"
  /\ pc[p] \in {"build", "wait", "copy"} => inst[NewBase] # "none" \/ "gone" \in met[p]

\* So is what a cleaner has listed, and what it has not listed was made since.
Lister(p) ==
  /\ \A r, s \in todo[p] : r.name = s.name => r = s
  /\ pc[p] \in {"delete", "base_delete", "child_delete"} =>
       \A r \in todo[p] : inst[r.name] # "none" \/ "gone" \in met[p]
  /\ pc[p] = "delete" /\ op[p] \in {"purge", "remove"} =>
       \/ "made" \in met[p]
       \/ \A n \in Names : inst[n] # "none" => \E r \in todo[p] : r.name = n
  /\ pc[p] \in {"image_list", "image_delete", "project_delete"} =>
       "made" \in met[p] \/ \A n \in Names : inst[n] = "none"
  /\ pc[p] = "image_delete" => images \/ "gone" \in met[p]
  /\ pc[p] = "project_delete" => ~images \/ "made" \in met[p]

\* The configure hook has nothing of the current base on its lists.
Sparing(p) ==
  op[p] = "configure" /\ TagFits => NewBase \notin gone[p] /\ \A r \in todo[p] : r.desc # NewBase

\* ... and in its second loop all that was made from the old one.
Pursuing(p) ==
  pc[p] = "child_delete" /\ OldBase \in gone[p] =>
    \A n \in Names : inst[n] = OldBase => [name |-> n, desc |-> OldBase] \in todo[p]

Own(p) == OpFits(p) /\ Launcher(p) /\ Lister(p) /\ Sparing(p) /\ Pursuing(p)

\* A base has its own description, if it has one.
BaseDescs == inst[NewBase] \notin {OldBase, "nodesc"} /\ inst[OldBase] # NewBase

IInv == TypeOK /\ BaseDescs /\ BareOnlyMeanwhile /\ \A p \in Procs : Own(p)

-----------------------------------------------------------------------------
(* What a step of one process leaves to the others *)

SameLocals(p) ==
  \A q \in Procs : q # p =>
    /\ pc'[q] = pc[q] /\ op'[q] = op[q] /\ todo'[q] = todo[q] /\ gone'[q] = gone[q]
    /\ met[q] \subseteq met'[q]

Told(p) ==
  \A q \in Procs : q # p /\ Active(q) =>
    /\ project # "absent" /\ project' = "absent" => "gone" \in met'[q]
    /\ images /\ ~images' => "gone" \in met'[q]
    /\ ~images /\ images' => "made" \in met'[q]
    /\ \A n \in Names : inst[n] # "none" /\ inst'[n] = "none" => "gone" \in met'[q]
    /\ \A n \in Names : inst[n] = "none" /\ inst'[n] # "none" =>
         "made" \in met'[q] /\ n \in {p, NewBase}

Frame(p) ==
  /\ SameLocals(p)
  /\ Told(p)
  /\ remote => remote'
  /\ \A n \in Names : inst'[n] = OldBase => inst[n] = OldBase

LEMMA OthersKeep ==
  ASSUME NEW p \in Procs, NEW q \in Procs, q # p, TypeOK, Own(q), Frame(p)
  PROVE  Own(q)'
<1>1. /\ pc'[q] = pc[q] /\ op'[q] = op[q] /\ todo'[q] = todo[q] /\ gone'[q] = gone[q]
      /\ met[q] \subseteq met'[q]
  BY DEF Frame, SameLocals
<1>2. q \in Names /\ NewBase \in Names /\ q # NewBase
  BY NamesAssumption DEF Names, Bases
<1>3. /\ Active(q) /\ project # "absent" /\ project' = "absent" => "gone" \in met'[q]
      /\ Active(q) /\ images /\ ~images' => "gone" \in met'[q]
      /\ Active(q) /\ ~images /\ images' => "made" \in met'[q]
  BY DEF Frame, Told
<1>4. \A n \in Names : Active(q) /\ inst[n] # "none" /\ inst'[n] = "none" => "gone" \in met'[q]
  BY DEF Frame, Told
<1>5. \A n \in Names : Active(q) /\ inst[n] = "none" /\ inst'[n] # "none" =>
        "made" \in met'[q] /\ n \in {p, NewBase}
  BY DEF Frame, Told
<1>6. OpFits(q)'
  BY <1>1 DEF Own, OpFits
<1>7. Launcher(q)'
  <2>1. remote => remote'
    BY DEF Frame
  <2> QED  BY <1>1, <1>2, <1>3, <1>4, <1>5, <2>1
           DEF Own, Launcher, Active, Busy, LaunchLabels, CreateLabels
<1>8. Lister(q)'
  <2>1. \A r \in todo[q] : r.name \in Names
    BY DEF TypeOK, ProcType, Listed
  <2>2. \A r, s \in todo'[q] : r.name = s.name => r = s
    BY <1>1 DEF Own, Lister
  <2>3. pc'[q] \in {"delete", "base_delete", "child_delete"} =>
          \A r \in todo'[q] : inst'[r.name] # "none" \/ "gone" \in met'[q]
    BY <1>1, <1>4, <2>1 DEF Own, Lister, Active, Busy, CleanLabels
  <2>4. pc'[q] = "delete" /\ op'[q] \in {"purge", "remove"} =>
          \/ "made" \in met'[q]
          \/ \A n \in Names : inst'[n] # "none" => \E r \in todo'[q] : r.name = n
    BY <1>1, <1>5 DEF Own, Lister, Active, Busy, CleanLabels
  <2>5. pc'[q] \in {"image_list", "image_delete", "project_delete"} =>
          "made" \in met'[q] \/ \A n \in Names : inst'[n] = "none"
    BY <1>1, <1>5 DEF Own, Lister, Active, Busy, CleanLabels
  <2>6. /\ pc'[q] = "image_delete" => images' \/ "gone" \in met'[q]
        /\ pc'[q] = "project_delete" => ~images' \/ "made" \in met'[q]
    BY <1>1, <1>3 DEF Own, Lister, Active, Busy, CleanLabels
  <2> QED  BY <2>2, <2>3, <2>4, <2>5, <2>6 DEF Lister
<1>9. Sparing(q)'
  BY <1>1 DEF Own, Sparing
<1>10. Pursuing(q)'
  BY <1>1 DEF Own, Pursuing, Frame
<1> QED  BY <1>6, <1>7, <1>8, <1>9, <1>10 DEF Own

-----------------------------------------------------------------------------
(* A step as a whole *)

\* Who leaves the calls that fill the profile in has filled it in, or is stopped.
BareFits(p) ==
  /\ interrupted => interrupted'
  /\ project' = "bare" => project = "bare" \/ LeavesBare(p)'
  /\ project' = "bare" /\ LeavesBare(p) => LeavesBare(p)' \/ interrupted'

LEMMA Conclude ==
  ASSUME NEW p \in Procs, IInv, TypeOK', BaseDescs', Frame(p), BareFits(p), Own(p)'
  PROVE  IInv'
<1>1. ASSUME NEW q \in Procs
      PROVE  Own(q)'
  <2>1. CASE q = p
    BY <2>1
  <2>2. CASE q # p
    BY <2>2, OthersKeep DEF IInv
  <2> QED  BY <2>1, <2>2
<1>2. BareOnlyMeanwhile'
  <2>1. \A q \in Procs : q # p => (LeavesBare(q)' <=> LeavesBare(q))
    BY DEF Frame, SameLocals, LeavesBare
  <2> QED  BY <2>1 DEF IInv, BareOnlyMeanwhile, BareFits
<1> QED  BY <1>1, <1>2 DEF IInv

LEMMA GotoFacts ==
  ASSUME NEW p \in Procs, NEW label \in Busy \cup Ended, TypeOK, Goto(p, label)
  PROVE  /\ pc' \in [Procs -> Busy \cup Ended]
         /\ pc'[p] = label
         /\ \A q \in Procs : q # p => pc'[q] = pc[q]
  BY DEF Goto, TypeOK, ProcType

LEMMA TellFacts ==
  ASSUME NEW p \in Procs, NEW what \in {"made", "gone"}, TypeOK, Tell(p, what)
  PROVE  /\ met' \in [Procs -> SUBSET {"made", "gone", "fault", "taken"}]
         /\ met'[p] = met[p]
         /\ \A q \in Procs : met[q] \subseteq met'[q]
         /\ \A q \in Procs : q # p /\ Active(q) => what \in met'[q]
  BY DEF Tell, TypeOK, HistoryType

\* A step that changes nothing but where the process is.
LEMMA MoveKeeps ==
  ASSUME NEW p \in Procs, IInv, NEW label \in Busy \cup Ended, Goto(p, label),
         UNCHANGED <<server, local>>, Quiet,
         LeavesBare(p) => label = "profile_edit", Own(p)'
  PROVE  IInv'
<1>1. TypeOK /\ BaseDescs
  BY DEF IInv
<1>2. UNCHANGED <<lxd, remote, project, images, inst, op, todo, gone, runs, met, interrupted>>
  BY DEF server, local, Quiet
<1>3. /\ pc' \in [Procs -> Busy \cup Ended] /\ pc'[p] = label
      /\ \A q \in Procs : q # p => pc'[q] = pc[q]
  BY <1>1, GotoFacts
<1>4. TypeOK'
  BY <1>1, <1>2, <1>3 DEF TypeOK, ServerType, LxdType, ProcType, HistoryType
<1>5. BaseDescs'
  BY <1>1, <1>2 DEF BaseDescs
<1>6. Frame(p)
  BY <1>2, <1>3 DEF Frame, SameLocals, Told
<1>7. BareFits(p)
  BY <1>2, <1>3 DEF BareFits, LeavesBare
<1> QED  BY <1>4, <1>5, <1>6, <1>7, Conclude

\* ... where it raises or ends, nothing is asked of it.
LEMMA EndedOwn ==
  ASSUME NEW p \in Procs, IInv, pc'[p] \in Ended, UNCHANGED <<op, gone>>, todo'[p] \subseteq todo[p]
  PROVE  Own(p)'
<1>1. pc'[p] \in {"idle", "done", "raised", "dead"}
  BY DEF Ended
<1>2. OpFits(p)' /\ Launcher(p)' /\ Pursuing(p)'
  BY <1>1 DEF OpFits, Launcher, Pursuing, EnsureLabels, CreateLabels, LaunchLabels, CleanLabels
<1>3. Lister(p)' /\ Sparing(p)'
  BY <1>1 DEF IInv, Own, Lister, Sparing
<1> QED  BY <1>2, <1>3 DEF Own

LEMMA RaiseKeeps ==
  ASSUME NEW p \in Procs, IInv, NEW label \in Ended, Goto(p, label), UNCHANGED <<server, local>>, Quiet,
         ~LeavesBare(p)
  PROVE  IInv'
<1>1. pc'[p] \in Ended
  BY GotoFacts DEF IInv
<1>2. Own(p)'
  BY <1>1, EndedOwn DEF local
<1> QED  BY <1>2, MoveKeeps

LEMMA InitInv == Init => IInv
<1> SUFFICES ASSUME Init
             PROVE  IInv
  OBVIOUS
<1>1. ServerType
  BY DEF Init, ServerType, LxdType, Descriptions, Names, Bases
<1>2. ProcType
  BY OpsAssumption DEF Init, ProcType, Ended, Ops, Launches
<1>3. HistoryType
  BY DEF Init, HistoryType
<1>4. BaseDescs
  BY NamesAssumption DEF Init, BaseDescs
<1>5. BareOnlyMeanwhile
  BY DEF Init, BareOnlyMeanwhile
<1>6. \A p \in Procs : Own(p)
  BY DEF Init, Own, OpFits, Launcher, Lister, Sparing, Pursuing,
         EnsureLabels, CreateLabels, LaunchLabels, CleanLabels
<1> QED  BY <1>1, <1>2, <1>3, <1>4, <1>5, <1>6 DEF IInv, TypeOK

-----------------------------------------------------------------------------
(* Launching *)

LEMMA LaunchOwn ==
  ASSUME NEW p \in Procs, IInv, op[p] \in Launches, UNCHANGED local,
         pc'[p] \in EnsureLabels \cup CreateLabels \cup LaunchLabels, Launcher(p)'
  PROVE  Own(p)'
<1>1. op' = op /\ todo' = todo /\ gone' = gone
  BY DEF local
<1>2. pc'[p] \notin CleanLabels /\ op[p] # "configure"
  BY DEF Launches, EnsureLabels, CreateLabels, LaunchLabels, CleanLabels
<1>3. OpFits(p)'
  BY <1>1, <1>2 DEF OpFits, CleanLabels
<1>4. Lister(p)'
  BY <1>1, <1>2 DEF IInv, Own, Lister, CleanLabels
<1>5. Sparing(p)' /\ Pursuing(p)'
  BY <1>1, <1>2 DEF Sparing, Pursuing, CleanLabels
<1> QED  BY <1>3, <1>4, <1>5 DEF Own

\* What a launch that changes nothing goes by.
LEMMA LaunchMove ==
  ASSUME NEW p \in Procs, IInv, NEW label \in Busy \cup Ended, Goto(p, label),
         pc[p] \in EnsureLabels \cup CreateLabels \cup LaunchLabels,
         UNCHANGED <<server, local>>, Quiet,
         LeavesBare(p) => label = "profile_edit",
         \/ label \in Ended
         \/ label \in EnsureLabels \cup CreateLabels \cup LaunchLabels /\ Launcher(p)'
  PROVE  IInv'
<1>1. op[p] \in Launches
  BY DEF IInv, Own, OpFits
<1>2. pc'[p] = label
  BY GotoFacts DEF IInv
<1>3. CASE label \in Ended
  BY <1>3, RaiseKeeps DEF Ended
<1>4. CASE label \in EnsureLabels \cup CreateLabels \cup LaunchLabels /\ Launcher(p)'
  BY <1>1, <1>2, <1>4, LaunchOwn, MoveKeeps
<1> QED  BY <1>3, <1>4

LEMMA EnsureMoves ==
  ASSUME NEW p \in Procs, IInv,
         \/ CheckInstalled(p) \/ EnsureLxdIsReady(p)
         \/ RemoteList(p) \/ RemoteListAgain(p) \/ ProjectList(p)
  PROVE  IInv'
<1> DEFINE Labels == EnsureLabels \cup CreateLabels \cup LaunchLabels
<1>1. PICK label \in {"snap", "ready", "remotes", "raised", "projects", "remote_add", "create", "exists"} :
        /\ Goto(p, label)
        /\ label = "exists" => project # "absent"
  BY DEF CheckInstalled, EnsureLxdIsReady, RemoteList, RemoteListAgain, ProjectList
<1>2. UNCHANGED <<server, local>> /\ Quiet
  BY DEF CheckInstalled, EnsureLxdIsReady, RemoteList, RemoteListAgain, ProjectList
<1>3. pc[p] \in Labels /\ ~LeavesBare(p)
  BY DEF CheckInstalled, EnsureLxdIsReady, RemoteList, RemoteListAgain, ProjectList, LeavesBare,
         EnsureLabels, CreateLabels
<1>4. label \in Busy \cup Ended /\ (label \in Ended \/ label \in Labels)
  BY DEF Busy, Ended, EnsureLabels, CreateLabels, LaunchLabels
<1>5. pc'[p] = label
  BY <1>1, <1>4, GotoFacts DEF IInv
<1>6. Launcher(p)'
  BY <1>1, <1>2, <1>5 DEF Launcher, LaunchLabels, server
<1> QED  BY <1>1, <1>2, <1>3, <1>4, <1>6, LaunchMove

LEMMA ProfileMoves ==
  ASSUME NEW p \in Procs, IInv, ProjectListAgain(p) \/ ProfileShow(p)
  PROVE  IInv'
<1> DEFINE Labels == EnsureLabels \cup CreateLabels \cup LaunchLabels
<1>1. PICK label \in {"raised", "profile_show", "profile_edit"} :
        /\ Goto(p, label)
        /\ label = "profile_show" => project # "absent"
        /\ label # "profile_edit" => pc[p] = "create_again"
        /\ label = "profile_edit" => pc[p] = "profile_show"
  BY DEF ProjectListAgain, ProfileShow, AfterCreate
<1>2. UNCHANGED <<server, local>> /\ Quiet
  BY DEF ProjectListAgain, ProfileShow
<1>3. pc[p] \in Labels /\ (LeavesBare(p) => label = "profile_edit")
  BY <1>1 DEF LeavesBare, CreateLabels
<1>4. label \in Busy \cup Ended /\ (label \in Ended \/ label \in Labels)
  BY DEF Busy, Ended, CreateLabels
<1>5. pc'[p] = label
  BY <1>1, <1>4, GotoFacts DEF IInv
<1>6. Launcher(p)'
  <2>1. label # "raised" => project # "absent" \/ "gone" \in met[p]
    BY <1>1 DEF IInv, Own, Launcher
  <2> QED  BY <1>2, <1>5, <2>1 DEF Launcher, LaunchLabels, server, Quiet
<1> QED  BY <1>1, <1>2, <1>3, <1>4, <1>6, LaunchMove

LEMMA InstanceMoves ==
  ASSUME NEW p \in Procs, IInv,
         LookUp(p) \/ TakeExisting(p) \/ LookUpBase(p) \/ Start(p)
  PROVE  IInv'
<1> DEFINE Labels == EnsureLabels \cup CreateLabels \cup LaunchLabels
<1>1. PICK label \in {"raised", "done", "existing", "plain", "base", "start", "base_launch", "copy", "wait"} :
        /\ Goto(p, label)
        /\ label \notin {"raised", "done"} => project # "absent"
        /\ label \in {"existing", "start"} => inst[p] # "none"
        /\ label \in {"plain", "base", "base_launch", "copy", "wait"} => inst[p] = "none"
        /\ label \in {"copy", "wait"} => inst[NewBase] # "none"
  <2>1. pc[p] = "base" => inst[p] = "none"
    BY DEF IInv, Own, Launcher
  <2>2. NewBase # "none"
    BY NamesAssumption
  <2>3. CASE LookUp(p)
    BY <2>3 DEF LookUp, Exists, Fresh
  <2>4. CASE TakeExisting(p)
    BY <2>4 DEF TakeExisting, Exists
  <2>5. CASE LookUpBase(p)
    BY <2>1, <2>2, <2>5 DEF LookUpBase
  <2>6. CASE Start(p)
    BY <2>6 DEF Start
  <2> QED  BY <2>3, <2>4, <2>5, <2>6
<1>2. UNCHANGED <<server, local>> /\ Quiet
  BY DEF LookUp, TakeExisting, LookUpBase, Start
<1>3. pc[p] \in Labels /\ ~LeavesBare(p)
  BY DEF LookUp, TakeExisting, LookUpBase, Start, LeavesBare, LaunchLabels
<1>4. label \in Busy \cup Ended /\ (label \in Ended \/ label \in Labels)
  BY DEF Busy, Ended, LaunchLabels
<1>5. pc'[p] = label
  BY <1>1, <1>4, GotoFacts DEF IInv
<1>6. Launcher(p)'
  BY <1>1, <1>2, <1>5 DEF Launcher, LaunchLabels, server
<1> QED  BY <1>1, <1>2, <1>3, <1>4, <1>6, LaunchMove

\* ... and one that changes the server.
LEMMA LaunchChange ==
  ASSUME NEW p \in Procs, IInv, NEW label \in Busy \cup Ended, Goto(p, label),
         pc[p] \in EnsureLabels \cup CreateLabels \cup LaunchLabels,
         UNCHANGED local, ServerType', HistoryType', BaseDescs',
         \A q \in Procs : q # p => met[q] \subseteq met'[q],
         Told(p), remote => remote', \A n \in Names : inst'[n] = OldBase => inst[n] = OldBase,
         BareFits(p),
         \/ label \in Ended
         \/ label \in EnsureLabels \cup CreateLabels \cup LaunchLabels /\ Launcher(p)'
  PROVE  IInv'
<1>1. TypeOK /\ op[p] \in Launches
  BY DEF IInv, Own, OpFits
<1>2. op' = op /\ todo' = todo /\ gone' = gone /\ runs' = runs
  BY DEF local
<1>3. /\ pc' \in [Procs -> Busy \cup Ended] /\ pc'[p] = label
      /\ \A q \in Procs : q # p => pc'[q] = pc[q]
  BY <1>1, GotoFacts
<1>4. TypeOK'
  BY <1>1, <1>2, <1>3 DEF TypeOK, ProcType
<1>5. Frame(p)
  BY <1>2, <1>3 DEF Frame, SameLocals
<1>6. Own(p)'
  <2>1. CASE label \in Ended
    BY <1>2, <1>3, <2>1, EndedOwn
  <2>2. CASE label \in EnsureLabels \cup CreateLabels \cup LaunchLabels /\ Launcher(p)'
    BY <1>1, <1>3, <2>2, LaunchOwn
  <2> QED  BY <2>1, <2>2
<1> QED  BY <1>4, <1>5, <1>6, Conclude

LEMMA HostChanges ==
  ASSUME NEW p \in Procs, IInv, SnapInstall(p) \/ LxdInit(p) \/ RemoteAdd(p)
  PROVE  IInv'
<1>1. PICK label \in {"init", "ready", "raised", "remotes_again", "projects"} :
        Goto(p, label) /\ (label = "remotes_again" => remote')
  BY DEF SnapInstall, LxdInit, RemoteAdd
<1>2. UNCHANGED <<project, images, inst, local, met, interrupted>> /\ (remote => remote')
  BY DEF SnapInstall, LxdInit, RemoteAdd, Quiet
<1>3. ServerType'
  <2>1. LxdType' /\ remote' \in BOOLEAN
    BY DEF SnapInstall, LxdInit, RemoteAdd, IInv, TypeOK, ServerType, LxdType
  <2> QED  BY <1>2, <2>1 DEF IInv, TypeOK, ServerType
<1>4. HistoryType' /\ BaseDescs' /\ Told(p)
  BY <1>2 DEF IInv, TypeOK, HistoryType, BaseDescs, Told
<1>5. pc[p] \in EnsureLabels \cup CreateLabels \cup LaunchLabels /\ ~LeavesBare(p)
  BY DEF SnapInstall, LxdInit, RemoteAdd, EnsureLabels, CreateLabels, LeavesBare
<1>6. label \in Ended \/ label \in EnsureLabels \cup CreateLabels \cup LaunchLabels
  BY DEF Ended, EnsureLabels, CreateLabels
<1>7. label \in Busy \cup Ended
  BY DEF Busy, Ended, EnsureLabels, CreateLabels
<1>8. pc'[p] = label
  BY <1>1, <1>7, GotoFacts DEF IInv
<1>9. Launcher(p)'
  BY <1>1, <1>8 DEF Launcher, LaunchLabels
<1>10. BareFits(p)
  BY <1>2, <1>5 DEF BareFits
<1> QED  BY <1>1, <1>2, <1>3, <1>4, <1>5, <1>6, <1>7, <1>9, <1>10, LaunchChange

LEMMA ProjectCreateKeeps ==
  ASSUME NEW p \in Procs, IInv, ProjectCreate(p)
  PROVE  IInv'
<1>1. TypeOK /\ pc[p] = "create"
  BY DEF IInv, ProjectCreate
<1>2. PICK label \in {"profile_show", "create_again"} :
        /\ Goto(p, label)
        /\ label = "profile_show" => project = "absent" /\ project' = "bare" /\ Tell(p, "made")
        /\ label = "create_again" => project # "absent" /\ UNCHANGED <<project, met>>
  BY DEF ProjectCreate, AfterCreate
<1>3. UNCHANGED <<lxd, remote, images, inst, local, interrupted>>
  BY DEF ProjectCreate
<1>4. /\ met' \in [Procs -> SUBSET {"made", "gone", "fault", "taken"}]
      /\ \A q \in Procs : met[q] \subseteq met'[q]
  BY <1>1, <1>2, TellFacts DEF TypeOK, HistoryType
<1>5. project' \in {"absent", "bare", "valid"} /\ project' # "absent"
  BY <1>1, <1>2 DEF TypeOK, ServerType
<1>6. ServerType' /\ HistoryType' /\ BaseDescs'
  BY <1>1, <1>3, <1>4, <1>5 DEF IInv, TypeOK, ServerType, LxdType, HistoryType, BaseDescs
<1>7. Told(p)
  BY <1>3, <1>5 DEF Told
<1>8. label \in Busy \cup Ended /\ label \in CreateLabels /\ pc[p] \in CreateLabels
  BY <1>1 DEF Busy, CreateLabels
<1>9. pc'[p] = label
  BY <1>1, <1>2, <1>8, GotoFacts
<1>10. Launcher(p)'
  BY <1>5, <1>9 DEF Launcher, LaunchLabels
<1>11. BareFits(p)
  BY <1>1, <1>2, <1>3, <1>9 DEF BareFits, LeavesBare
<1> QED  BY <1>2, <1>3, <1>4, <1>6, <1>7, <1>8, <1>10, <1>11, LaunchChange

LEMMA ProfileEditKeeps ==
  ASSUME NEW p \in Procs, IInv, ProfileEdit(p)
  PROVE  IInv'
<1>1. TypeOK /\ pc[p] = "profile_edit"
  BY DEF IInv, ProfileEdit
<1>2. PICK label \in {"raised", "exists"} :
        /\ Goto(p, label)
        /\ label = "exists" => project # "absent" /\ project' = "valid"
        /\ label = "raised" => project = "absent" /\ project' = "absent"
  BY DEF ProfileEdit
<1>3. UNCHANGED <<lxd, remote, images, inst, local, interrupted, met>>
  BY DEF ProfileEdit, Quiet
<1>4. ServerType' /\ HistoryType' /\ BaseDescs'
  BY <1>1, <1>2, <1>3 DEF IInv, TypeOK, ServerType, LxdType, HistoryType, BaseDescs
<1>5. Told(p)
  BY <1>2, <1>3 DEF Told
<1>6. /\ label \in Busy \cup Ended /\ (label \in Ended \/ label \in LaunchLabels)
      /\ pc[p] \in CreateLabels
  BY <1>1 DEF Busy, Ended, CreateLabels, LaunchLabels
<1>7. pc'[p] = label
  BY <1>1, <1>2, <1>6, GotoFacts
<1>8. label = "exists" => Launcher(p)'
  BY <1>2, <1>7 DEF Launcher, LaunchLabels
<1>9. BareFits(p)
  BY <1>1, <1>2, <1>3 DEF BareFits
<1>10. label \in Ended \/ (label \in LaunchLabels /\ Launcher(p)')
  BY <1>2, <1>6, <1>8 DEF Ended
<1> QED  BY <1>2, <1>3, <1>4, <1>5, <1>6, <1>9, <1>10, LaunchChange

-----------------------------------------------------------------------------
(* Instances that come and go *)

LEMMA NameFacts ==
  /\ NewBase \in Names /\ OldBase \in Names /\ NewBase # OldBase
  /\ \A p \in Procs : p \in Names /\ p # NewBase /\ p # OldBase
  /\ NewBase \notin {"none", "generic", "nodesc"} /\ OldBase \notin {"none", "generic", "nodesc"}
BY NamesAssumption DEF Names, Bases

LEMMA DeleteFacts ==
  ASSUME NEW p \in Procs, NEW n \in Names, TypeOK, BaseDescs,
         LxcDelete(p, n), UNCHANGED <<project, images>>
  PROVE  /\ inst' \in [Names -> Descriptions] /\ inst'[n] = "none"
         /\ \A m \in Names : m # n => inst'[m] = inst[m]
         /\ met' \in [Procs -> SUBSET {"made", "gone", "fault", "taken"}] /\ met'[p] = met[p]
         /\ \A q \in Procs : met[q] \subseteq met'[q]
         /\ BaseDescs' /\ Told(p)
         /\ \A m \in Names : inst'[m] = OldBase => inst[m] = OldBase
<1>1. /\ met' \in [Procs -> SUBSET {"made", "gone", "fault", "taken"}] /\ met'[p] = met[p]
      /\ \A q \in Procs : met[q] \subseteq met'[q]
      /\ \A q \in Procs : q # p /\ Active(q) => "gone" \in met'[q]
  BY TellFacts DEF LxcDelete
<1>2. /\ inst' \in [Names -> Descriptions] /\ inst'[n] = "none"
      /\ \A m \in Names : m # n => inst'[m] = inst[m]
  BY DEF LxcDelete, TypeOK, ServerType, Descriptions
<1>3. BaseDescs'
  BY <1>2, NameFacts DEF BaseDescs
<1>4. Told(p)
  BY <1>1, <1>2 DEF Told
<1>5. \A m \in Names : inst'[m] = OldBase => inst[m] = OldBase
  BY <1>2, NameFacts
<1> QED  BY <1>1, <1>2, <1>3, <1>4, <1>5

\* An instance is made: by lxc launch, or by lxc copy of a base.
LEMMA MakeFacts ==
  ASSUME NEW p \in Procs, NEW n \in {p, NewBase}, NEW desc \in {"generic", inst[NewBase]}, desc # "none",
         TypeOK, BaseDescs, n = NewBase => desc = "generic",
         inst' = [inst EXCEPT ![n] = desc], Tell(p, "made"),
         project' = project, images' = images \/ images' = TRUE
  PROVE  /\ inst' \in [Names -> Descriptions] /\ inst'[n] = desc
         /\ \A m \in Names : m # n => inst'[m] = inst[m]
         /\ met' \in [Procs -> SUBSET {"made", "gone", "fault", "taken"}] /\ met'[p] = met[p]
         /\ \A q \in Procs : met[q] \subseteq met'[q]
         /\ BaseDescs' /\ Told(p)
         /\ \A m \in Names : inst'[m] = OldBase => inst[m] = OldBase
<1>1. /\ met' \in [Procs -> SUBSET {"made", "gone", "fault", "taken"}] /\ met'[p] = met[p]
      /\ \A q \in Procs : met[q] \subseteq met'[q]
      /\ \A q \in Procs : q # p /\ Active(q) => "made" \in met'[q]
  BY TellFacts
<1>2. inst \in [Names -> Descriptions] /\ n \in Names /\ desc \in Descriptions
  BY NameFacts DEF TypeOK, ServerType, Descriptions
<1>3. /\ inst' \in [Names -> Descriptions] /\ inst'[n] = desc
      /\ \A m \in Names : m # n => inst'[m] = inst[m]
  BY <1>2
<1>4. desc # OldBase
  BY NameFacts DEF BaseDescs
<1>5. BaseDescs'
  BY <1>3, NameFacts DEF BaseDescs
<1>6. images \in BOOLEAN
  BY DEF TypeOK, ServerType
<1>7. Told(p)
  BY <1>1, <1>3, <1>6 DEF Told
<1>8. \A m \in Names : inst'[m] = OldBase => inst[m] = OldBase
  BY <1>3, <1>4
<1> QED  BY <1>1, <1>3, <1>5, <1>7, <1>8

LEMMA CleanExistingKeeps ==
  ASSUME NEW p \in Procs, IInv, CleanExisting(p)
  PROVE  IInv'
<1>1. TypeOK /\ BaseDescs /\ pc[p] = "existing" /\ project # "absent"
  BY DEF IInv, CleanExisting, Exists
<1>2. PICK label \in {"plain", "base"} : Goto(p, label)
  BY DEF CleanExisting, Fresh
<1>3. UNCHANGED <<lxd, remote, project, images, local, interrupted>> /\ LxcDelete(p, p)
  BY DEF CleanExisting
<1>4. /\ inst' \in [Names -> Descriptions] /\ inst'[p] = "none"
      /\ met' \in [Procs -> SUBSET {"made", "gone", "fault", "taken"}]
      /\ \A q \in Procs : met[q] \subseteq met'[q]
      /\ BaseDescs' /\ Told(p)
      /\ \A m \in Names : inst'[m] = OldBase => inst[m] = OldBase
  BY <1>1, <1>3, NameFacts, DeleteFacts
<1>5. ServerType' /\ HistoryType'
  BY <1>1, <1>3, <1>4 DEF TypeOK, ServerType, LxdType, HistoryType
<1>6. label \in Busy \cup Ended /\ label \in LaunchLabels /\ pc[p] \in LaunchLabels
  BY <1>1 DEF Busy, LaunchLabels
<1>7. pc'[p] = label
  BY <1>1, <1>2, <1>6, GotoFacts
<1>8. Launcher(p)'
  BY <1>1, <1>3, <1>4, <1>7 DEF Launcher, LaunchLabels
<1>9. BareFits(p)
  BY <1>1, <1>3 DEF BareFits, LeavesBare
<1> QED  BY <1>2, <1>3, <1>4, <1>5, <1>6, <1>8, <1>9, LaunchChange

LEMMA LxcLaunchKeeps ==
  ASSUME NEW p \in Procs, IInv, NEW n, NEW label, LxcLaunch(p, n), Goto(p, label),
         \/ pc[p] = "base_launch" /\ n = NewBase /\ label = "build"
         \/ pc[p] = "plain" /\ n = p /\ label = "start"
  PROVE  IInv'
<1>1. TypeOK /\ BaseDescs /\ project = "valid" /\ inst[n] = "none"
  BY DEF IInv, LxcLaunch
<1>2. UNCHANGED <<lxd, remote, project, local, interrupted>> /\ images' = TRUE
  BY DEF LxcLaunch
<1>3. n \in {p, NewBase} /\ n \in Names
  BY NameFacts
<1>4. inst' = [inst EXCEPT ![n] = "generic"] /\ Tell(p, "made")
  BY DEF LxcLaunch
<1>5. /\ inst' \in [Names -> Descriptions] /\ inst'[n] = "generic"
      /\ \A m \in Names : m # n => inst'[m] = inst[m]
      /\ met' \in [Procs -> SUBSET {"made", "gone", "fault", "taken"}]
      /\ \A q \in Procs : met[q] \subseteq met'[q]
      /\ BaseDescs' /\ Told(p)
      /\ \A m \in Names : inst'[m] = OldBase => inst[m] = OldBase
  <2>1. "generic" \in {"generic", inst[NewBase]} /\ "generic" # "none"
    OBVIOUS
  <2> QED  BY <1>1, <1>2, <1>3, <1>4, <2>1, MakeFacts
<1>6. ServerType' /\ HistoryType'
  BY <1>1, <1>2, <1>5 DEF TypeOK, ServerType, LxdType, HistoryType
<1>7. label \in Busy \cup Ended /\ label \in LaunchLabels /\ pc[p] \in LaunchLabels
  BY DEF Busy, LaunchLabels
<1>8. pc'[p] = label
  BY <1>1, <1>7, GotoFacts
<1>9. Launcher(p)'
  <2>1. pc[p] = "base_launch" => inst[p] = "none"
    BY DEF IInv, Own, Launcher
  <2> QED  BY <1>1, <1>2, <1>5, <1>8, <2>1, NameFacts DEF Launcher, LaunchLabels
<1>10. BareFits(p)
  BY <1>1, <1>2 DEF BareFits
<1> QED  BY <1>2, <1>5, <1>6, <1>7, <1>9, <1>10, LaunchChange

\* A launch that raises, or waits, has changed nothing but its own history.
LEMMA BaseLaunchKeeps ==
  ASSUME NEW p \in Procs, IInv, BaseLaunch(p)
  PROVE  IInv'
<1>1. pc[p] = "base_launch" /\ TypeOK /\ BaseDescs
  BY DEF BaseLaunch, IInv
<1>2. pc[p] \in LaunchLabels /\ ~LeavesBare(p) /\ inst[p] = "none"
  BY <1>1 DEF LaunchLabels, LeavesBare, IInv, Own, Launcher
<1>3. CASE LxcLaunch(p, NewBase) /\ Goto(p, "build")
  BY <1>1, <1>3, LxcLaunchKeeps
<1>4. CASE /\ project = "valid" /\ inst[NewBase] # "none"
           /\ Goto(p, "wait")
           /\ UNCHANGED <<server, local>> /\ Quiet
  <2>1. "wait" \in Busy /\ "wait" \in LaunchLabels
    BY DEF Busy, LaunchLabels
  <2>2. pc'[p] = "wait"
    BY <1>1, <1>4, <2>1, GotoFacts
  <2>3. Launcher(p)'
    BY <1>2, <1>4, <2>2 DEF Launcher, LaunchLabels, server
  <2> QED  BY <1>2, <1>4, <2>1, <2>3, LaunchMove
<1>5. CASE /\ Goto(p, "raised")
           /\ met' = [met EXCEPT ![p] = @ \cup {"taken"}]
           /\ UNCHANGED <<server, local, interrupted>>
  <2>1. "raised" \in Busy \cup Ended /\ "raised" \in Ended
    BY DEF Ended
  <2>2. UNCHANGED <<lxd, remote, project, images, inst>>
    BY <1>5 DEF server
  <2>3. ServerType' /\ BaseDescs' /\ Told(p)
    BY <1>1, <2>2 DEF TypeOK, ServerType, LxdType, BaseDescs, Told
  <2>4. HistoryType' /\ \A q \in Procs : q # p => met[q] \subseteq met'[q]
    BY <1>1, <1>5 DEF TypeOK, HistoryType
  <2>5. BareFits(p)
    BY <1>2, <1>5, <2>2 DEF BareFits
  <2> QED  BY <1>2, <1>5, <2>1, <2>2, <2>3, <2>4, <2>5, LaunchChange
<1>6. CASE Goto(p, "raised") /\ UNCHANGED <<server, local>> /\ Quiet
  BY <1>2, <1>6, RaiseKeeps DEF Ended
<1> QED  BY <1>3, <1>4, <1>5, <1>6 DEF BaseLaunch

LEMMA PlainLaunchKeeps ==
  ASSUME NEW p \in Procs, IInv, PlainLaunch(p)
  PROVE  IInv'
<1>1. pc[p] = "plain" /\ ~LeavesBare(p)
  BY DEF PlainLaunch, LeavesBare
<1>2. CASE LxcLaunch(p, p) /\ Goto(p, "start")
  BY <1>1, <1>2, LxcLaunchKeeps
<1>3. CASE Goto(p, "raised") /\ UNCHANGED <<server, local>> /\ Quiet
  BY <1>1, <1>3, RaiseKeeps DEF Ended
<1> QED  BY <1>2, <1>3 DEF PlainLaunch

LEMMA DescribeKeeps ==
  ASSUME NEW p \in Procs, IInv, Describe(p)
  PROVE  IInv'
<1>1. TypeOK /\ BaseDescs /\ pc[p] = "build"
  BY DEF IInv, Describe
<1>2. PICK label \in {"copy", "raised"} :
        /\ Goto(p, label)
        /\ label = "copy" => inst[NewBase] # "none" /\ inst' = [inst EXCEPT ![NewBase] = NewBase]
        /\ label = "raised" => inst' = inst
  BY DEF Describe
<1>3. UNCHANGED <<lxd, remote, project, images, local, met, interrupted>>
  BY DEF Describe, Quiet
<1>4. /\ inst' \in [Names -> Descriptions]
      /\ \A n \in Names : n # NewBase => inst'[n] = inst[n]
      /\ inst'[NewBase] = "none" <=> inst[NewBase] = "none"
      /\ inst'[NewBase] \in {NewBase, inst[NewBase]}
  BY <1>1, <1>2, NameFacts DEF TypeOK, ServerType, Descriptions
<1>5. ServerType' /\ HistoryType'
  BY <1>1, <1>3, <1>4 DEF TypeOK, ServerType, LxdType, HistoryType
<1>6. BaseDescs' /\ \A n \in Names : inst'[n] = OldBase => inst[n] = OldBase
  BY <1>1, <1>4, NameFacts DEF BaseDescs
<1>7. Told(p)
  BY <1>3, <1>4 DEF Told
<1>8. /\ label \in Busy \cup Ended /\ (label \in Ended \/ label \in LaunchLabels)
      /\ pc[p] \in LaunchLabels
  BY <1>1 DEF Busy, Ended, LaunchLabels
<1>9. pc'[p] = label
  BY <1>1, <1>2, <1>8, GotoFacts
<1>10. label = "copy" => Launcher(p)'
  <2>1. inst[p] = "none" /\ (project # "absent" \/ "gone" \in met[p])
    BY <1>1 DEF IInv, Own, Launcher, LaunchLabels
  <2> QED  BY <1>2, <1>3, <1>4, <1>9, <2>1, NameFacts DEF Launcher, LaunchLabels
<1>11. BareFits(p)
  BY <1>1, <1>3 DEF BareFits, LeavesBare
<1>12. label \in Ended \/ (label \in LaunchLabels /\ Launcher(p)')
  BY <1>2, <1>8, <1>10 DEF Ended
<1> QED  BY <1>2, <1>3, <1>5, <1>6, <1>7, <1>8, <1>11, <1>12, LaunchChange

LEMMA WaitForBaseKeeps ==
  ASSUME NEW p \in Procs, IInv, WaitForBase(p)
  PROVE  IInv'
<1>1. TypeOK /\ BaseDescs /\ pc[p] = "wait"
  BY DEF IInv, WaitForBase
<1>2. inst[p] = "none" /\ (project # "absent" \/ "gone" \in met[p])
  BY <1>1 DEF IInv, Own, Launcher, LaunchLabels
<1>3. UNCHANGED <<lxd, remote, project, images, local, interrupted>>
  BY DEF WaitForBase
<1>4. /\ pc[p] \in LaunchLabels /\ ~LeavesBare(p)
      /\ "copy" \in Busy \cap LaunchLabels /\ "base_launch" \in Busy \cap LaunchLabels
      /\ "raised" \in Ended
  BY <1>1 DEF LaunchLabels, LeavesBare, Busy, Ended
<1>5. CASE /\ inst[NewBase] = NewBase
           /\ Goto(p, "copy")
           /\ UNCHANGED <<inst, met>>
  <2>1. pc'[p] = "copy"
    BY <1>1, <1>4, <1>5, GotoFacts
  <2>2. Launcher(p)'
    BY <1>2, <1>3, <1>5, <2>1, NameFacts DEF Launcher, LaunchLabels
  <2> QED  BY <1>3, <1>4, <1>5, <2>2, LaunchMove DEF server, Quiet
<1>6. CASE LxcDelete(p, NewBase) /\ Goto(p, "base_launch")
  <2>1. /\ inst' \in [Names -> Descriptions]
        /\ \A m \in Names : m # NewBase => inst'[m] = inst[m]
        /\ met' \in [Procs -> SUBSET {"made", "gone", "fault", "taken"}] /\ met'[p] = met[p]
        /\ \A q \in Procs : met[q] \subseteq met'[q]
        /\ BaseDescs' /\ Told(p)
        /\ \A m \in Names : inst'[m] = OldBase => inst[m] = OldBase
    BY <1>1, <1>3, <1>6, NameFacts, DeleteFacts
  <2>2. ServerType' /\ HistoryType'
    BY <1>1, <1>3, <2>1 DEF TypeOK, ServerType, LxdType, HistoryType
  <2>3. pc'[p] = "base_launch"
    BY <1>1, <1>4, <1>6, GotoFacts
  <2>4. Launcher(p)'
    BY <1>2, <1>3, <2>1, <2>3, NameFacts DEF Launcher, LaunchLabels
  <2>5. BareFits(p)
    BY <1>3, <1>4 DEF BareFits
  <2> QED  BY <1>3, <1>4, <1>6, <2>1, <2>2, <2>4, <2>5, LaunchChange
<1>7. CASE Goto(p, "raised") /\ UNCHANGED <<inst, met>>
  BY <1>3, <1>4, <1>7, RaiseKeeps DEF server, Quiet
<1> QED  BY <1>5, <1>6, <1>7 DEF WaitForBase

LEMMA CopyKeeps ==
  ASSUME NEW p \in Procs, IInv, Copy(p)
  PROVE  IInv'
<1>1. TypeOK /\ BaseDescs /\ pc[p] = "copy"
  BY DEF IInv, Copy
<1>2. project # "absent" \/ "gone" \in met[p]
  BY <1>1 DEF IInv, Own, Launcher, LaunchLabels
<1>3. UNCHANGED <<lxd, remote, project, images, local, interrupted>>
  BY DEF Copy
<1>4. pc[p] \in LaunchLabels /\ ~LeavesBare(p) /\ "start" \in Busy \cap LaunchLabels /\ "raised" \in Ended
  BY <1>1 DEF LaunchLabels, LeavesBare, Busy, Ended
<1>5. CASE /\ inst[NewBase] # "none" /\ inst[p] = "none"
           /\ inst' = [inst EXCEPT ![p] = inst[NewBase]]
           /\ Goto(p, "start")
           /\ Tell(p, "made")
  <2>1. /\ inst' \in [Names -> Descriptions] /\ inst'[p] = inst[NewBase]
        /\ met' \in [Procs -> SUBSET {"made", "gone", "fault", "taken"}] /\ met'[p] = met[p]
        /\ \A q \in Procs : met[q] \subseteq met'[q]
        /\ BaseDescs' /\ Told(p)
        /\ \A m \in Names : inst'[m] = OldBase => inst[m] = OldBase
    <3>1. p \in {p, NewBase} /\ p # NewBase /\ inst[NewBase] \in {"generic", inst[NewBase]}
      BY NameFacts
    <3> QED  BY <1>1, <1>3, <1>5, <3>1, MakeFacts
  <2>2. ServerType' /\ HistoryType'
    BY <1>1, <1>3, <2>1 DEF TypeOK, ServerType, LxdType, HistoryType
  <2>3. pc'[p] = "start"
    BY <1>1, <1>4, <1>5, GotoFacts
  <2>4. Launcher(p)'
    BY <1>2, <1>3, <1>5, <2>1, <2>3 DEF Launcher, LaunchLabels
  <2>5. BareFits(p)
    BY <1>3, <1>4 DEF BareFits
  <2> QED  BY <1>3, <1>4, <1>5, <2>1, <2>2, <2>4, <2>5, LaunchChange
<1>6. CASE Goto(p, "raised") /\ UNCHANGED <<inst, met>>
  BY <1>3, <1>4, <1>6, RaiseKeeps DEF server, Quiet
<1> QED  BY <1>5, <1>6 DEF Copy

-----------------------------------------------------------------------------
(* Cleaning *)

LEMMA ListingFacts ==
  ASSUME NEW names \in SUBSET Names, TypeOK
  PROVE  /\ Listing(names) \in SUBSET Listed
         /\ \A r, s \in Listing(names) : r.name = s.name => r = s
         /\ \A r \in Listing(names) : r.name \in names /\ inst[r.name] = r.desc /\ r.desc # "none"
         /\ \A n \in names : inst[n] # "none" => [name |-> n, desc |-> inst[n]] \in Listing(names)
BY DEF Listing, Listed, TypeOK, ServerType

LEMMA CleanOwn ==
  ASSUME NEW p \in Procs, pc'[p] \in CleanLabels, OpFits(p)', Lister(p)', Sparing(p)', Pursuing(p)'
  PROVE  Own(p)'
<1>1. Launcher(p)'
  BY DEF Launcher, LaunchLabels, CleanLabels
<1> QED  BY <1>1 DEF Own

LEMMA CleanChange ==
  ASSUME NEW p \in Procs, IInv, NEW label \in CleanLabels \cup Ended, Goto(p, label),
         pc[p] \in CleanLabels, UNCHANGED <<lxd, remote, op, runs, interrupted>>,
         inst' \in [Names -> Descriptions], images' \in BOOLEAN, project' \in {project, "absent"},
         todo' \in [Procs -> SUBSET Listed], gone' \in [Procs -> SUBSET Descriptions],
         \A q \in Procs : q # p => todo'[q] = todo[q] /\ gone'[q] = gone[q] /\ met[q] \subseteq met'[q],
         HistoryType', BaseDescs', Told(p), \A n \in Names : inst'[n] = OldBase => inst[n] = OldBase,
         Own(p)'
  PROVE  IInv'
<1>1. TypeOK
  BY DEF IInv
<1>2. label \in Busy \cup Ended
  BY DEF Busy
<1>3. /\ pc' \in [Procs -> Busy \cup Ended]
      /\ \A q \in Procs : q # p => pc'[q] = pc[q]
  BY <1>1, <1>2, GotoFacts
<1>4. TypeOK'
  <2>1. project' \in {"absent", "bare", "valid"}
    BY <1>1 DEF TypeOK, ServerType
  <2>2. ServerType'
    BY <1>1, <2>1 DEF TypeOK, ServerType, LxdType
  <2>3. ProcType'
    BY <1>1, <1>3 DEF TypeOK, ProcType
  <2> QED  BY <2>2, <2>3 DEF TypeOK
<1>5. Frame(p)
  BY <1>3 DEF Frame, SameLocals
<1>6. BareFits(p)
  BY DEF BareFits, LeavesBare, CleanLabels
<1> QED  BY <1>4, <1>5, <1>6, Conclude

LEMMA CheckMoves ==
  ASSUME NEW p \in Procs, IInv, HookChecks(p) \/ PurgeChecks(p)
  PROVE  IInv'
<1>1. PICK label \in {"raised", "done", "base_list", "list"} :
        /\ Goto(p, label)
        /\ label = "base_list" => op[p] = "configure"
        /\ label = "list" => op[p] # "configure"
  <2>1. CASE HookChecks(p)
    BY <2>1 DEF HookChecks
  <2>2. CASE PurgeChecks(p)
    <3>1. op[p] \in Cleaners /\ op[p] # "configure"
      BY <2>2 DEF PurgeChecks, IInv, Own, OpFits, CleanLabels
    <3> QED  BY <2>2, <3>1 DEF PurgeChecks
  <2> QED  BY <2>1, <2>2
<1>2. UNCHANGED <<server, local>> /\ Quiet
  BY DEF HookChecks, PurgeChecks
<1>3. pc[p] \in CleanLabels /\ ~LeavesBare(p) /\ op[p] \in Cleaners
  BY DEF HookChecks, PurgeChecks, LeavesBare, CleanLabels, IInv, Own, OpFits
<1>4. CASE label \in {"raised", "done"}
  BY <1>1, <1>2, <1>3, <1>4, RaiseKeeps DEF Ended
<1>5. CASE label \in {"base_list", "list"}
  <2>1. label \in Busy /\ label \in CleanLabels
    BY <1>5 DEF Busy, CleanLabels
  <2>2. pc'[p] = label
    BY <1>1, <2>1, GotoFacts DEF IInv
  <2>3. UNCHANGED <<inst, images, op, todo, gone, met>>
    BY <1>2 DEF server, local, Quiet
  <2>4. OpFits(p)'
    BY <1>1, <1>3, <1>5, <2>2, <2>3
       DEF OpFits, EnsureLabels, CreateLabels, LaunchLabels
  <2>5. Lister(p)' /\ Sparing(p)' /\ Pursuing(p)'
    BY <1>5, <2>2, <2>3 DEF IInv, Own, Lister, Sparing, Pursuing
  <2> QED  BY <1>1, <1>2, <1>3, <2>1, <2>2, <2>4, <2>5, CleanOwn, MoveKeeps
<1> QED  BY <1>4, <1>5

\* What the three actions have in common that list instances.
LEMMA ListKeeps ==
  ASSUME NEW p \in Procs, IInv, NEW label \in {"delete", "base_delete", "child_delete"},
         pc[p] \in CleanLabels, Goto(p, label),
         NEW listing \in SUBSET Listing(Names), todo' = [todo EXCEPT ![p] = listing],
         UNCHANGED <<server, op, gone, runs>>, Quiet,
         label = "delete" <=> op[p] # "configure",
         label = "delete" /\ op[p] \in {"purge", "remove"} => listing = Listing(Names),
         op[p] = "configure" /\ TagFits => \A r \in listing : r.desc # NewBase,
         label = "child_delete" /\ OldBase \in gone[p] =>
           \A r \in Listing(Names) : r.desc = OldBase => r \in listing
  PROVE  IInv'
<1>1. TypeOK /\ BaseDescs /\ op[p] \in Cleaners
  BY DEF IInv, Own, OpFits
<1>2. UNCHANGED <<lxd, remote, project, images, inst, met, interrupted>>
  BY DEF server, Quiet
<1>3. label \in Busy \cup Ended /\ label \in CleanLabels
  BY DEF Busy, CleanLabels
<1>4. pc'[p] = label
  BY <1>1, <1>3, GotoFacts
<1>5. /\ listing \in SUBSET Listed
      /\ \A r, s \in listing : r.name = s.name => r = s
      /\ \A r \in listing : inst[r.name] # "none"
      /\ \A n \in Names : inst[n] # "none" => [name |-> n, desc |-> inst[n]] \in Listing(Names)
  BY <1>1, ListingFacts
<1>6. todo' \in [Procs -> SUBSET Listed] /\ todo'[p] = listing /\ \A q \in Procs : q # p => todo'[q] = todo[q]
  BY <1>1, <1>5 DEF TypeOK, ProcType
<1>7. OpFits(p)'
  BY <1>1, <1>4 DEF OpFits, EnsureLabels, CreateLabels, LaunchLabels
<1>8. Lister(p)'
  <2>1. label = "delete" /\ op[p] \in {"purge", "remove"} =>
          \A n \in Names : inst[n] # "none" => \E r \in listing : r.name = n
    <3> SUFFICES ASSUME listing = Listing(Names), NEW n \in Names, inst[n] # "none"
                 PROVE  \E r \in listing : r.name = n
      OBVIOUS
    <3>1. [name |-> n, desc |-> inst[n]] \in listing
      BY <1>5
    <3> QED  BY <3>1
  <2> QED  BY <1>2, <1>4, <1>5, <1>6, <2>1 DEF Lister
<1>9. Sparing(p)'
  BY <1>6 DEF IInv, Own, Sparing
<1>10. Pursuing(p)'
  <2> SUFFICES ASSUME label = "child_delete", OldBase \in gone[p], NEW n \in Names, inst[n] = OldBase
               PROVE  [name |-> n, desc |-> OldBase] \in listing
    BY <1>2, <1>4, <1>6 DEF Pursuing
  <2>1. [name |-> n, desc |-> OldBase] \in Listing(Names)
    BY <1>5, NameFacts
  <2> QED  BY <2>1
<1>11. /\ inst \in [Names -> Descriptions] /\ images \in BOOLEAN
       /\ gone \in [Procs -> SUBSET Descriptions] /\ HistoryType
  BY <1>1 DEF TypeOK, ServerType, ProcType
<1>12. HistoryType' /\ BaseDescs' /\ Told(p)
  BY <1>1, <1>2, <1>11 DEF HistoryType, BaseDescs, Told
<1>13. Own(p)'
  BY <1>3, <1>4, <1>7, <1>8, <1>9, <1>10, CleanOwn
<1> QED  BY <1>2, <1>3, <1>6, <1>11, <1>12, <1>13, CleanChange

LEMMA ListInstancesKeeps ==
  ASSUME NEW p \in Procs, IInv, ListInstances(p)
  PROVE  IInv'
<1>1. pc[p] = "list" /\ pc[p] \in CleanLabels /\ ~LeavesBare(p) /\ op[p] # "configure"
  BY DEF ListInstances, LeavesBare, CleanLabels, IInv, Own, OpFits
<1>2. UNCHANGED <<server, op, gone, runs>> /\ Quiet
  BY DEF ListInstances
<1>3. CASE UNCHANGED todo /\ (Goto(p, "done") \/ Goto(p, "raised"))
  BY <1>1, <1>2, <1>3, RaiseKeeps DEF Ended, local
<1>4. CASE todo' = [todo EXCEPT ![p] = Listing(Scope(p))] /\ Goto(p, "delete")
  <2>1. Scope(p) \in SUBSET Names
    BY NameFacts DEF Scope, Names
  <2>2. Listing(Scope(p)) \in SUBSET Listing(Names)
    BY <2>1 DEF Listing
  <2>3. op[p] \in {"purge", "remove"} => Listing(Scope(p)) = Listing(Names)
    BY DEF Scope
  <2> QED  BY <1>1, <1>2, <1>4, <2>2, <2>3, ListKeeps
<1> QED  BY <1>3, <1>4 DEF ListInstances

\* What a round of a deletion loop does, if the instance was there.
LEMMA RoundFacts ==
  ASSUME NEW p \in Procs, IInv, NEW r \in todo[p], DeleteOne(p, r), Exists(r.name)
  PROVE  /\ r.name \in Names /\ LxcDelete(p, r.name)
         /\ inst' \in [Names -> Descriptions] /\ inst'[r.name] = "none"
         /\ \A m \in Names : m # r.name => inst'[m] = inst[m]
         /\ todo' \in [Procs -> SUBSET Listed] /\ todo'[p] = todo[p] \ {r}
         /\ \A q \in Procs : q # p => todo'[q] = todo[q]
         /\ \A s \in todo'[p] : s.name # r.name /\ s.name \in Names
         /\ HistoryType' /\ met'[p] = met[p] /\ \A q \in Procs : met[q] \subseteq met'[q]
         /\ BaseDescs' /\ Told(p)
         /\ \A m \in Names : inst'[m] = OldBase => inst[m] = OldBase
<1>1. TypeOK /\ BaseDescs
  BY DEF IInv
<1>2. \A s \in todo[p] : s.name \in Names /\ (s.name = r.name => s = r)
  BY <1>1 DEF IInv, Own, Lister, TypeOK, ProcType, Listed
<1>3. /\ LxcDelete(p, r.name) /\ todo' = [todo EXCEPT ![p] = @ \ {r}]
      /\ UNCHANGED <<lxd, remote, project, images, op, runs, interrupted>>
  BY DEF DeleteOne
<1>4. /\ inst' \in [Names -> Descriptions] /\ inst'[r.name] = "none"
      /\ \A m \in Names : m # r.name => inst'[m] = inst[m]
      /\ met' \in [Procs -> SUBSET {"made", "gone", "fault", "taken"}] /\ met'[p] = met[p]
      /\ \A q \in Procs : met[q] \subseteq met'[q]
      /\ BaseDescs' /\ Told(p)
      /\ \A m \in Names : inst'[m] = OldBase => inst[m] = OldBase
  BY <1>1, <1>2, <1>3, DeleteFacts
<1>5. /\ todo' \in [Procs -> SUBSET Listed] /\ todo'[p] = todo[p] \ {r}
      /\ \A q \in Procs : q # p => todo'[q] = todo[q]
  BY <1>1, <1>3 DEF TypeOK, ProcType
<1>6. HistoryType'
  BY <1>1, <1>3, <1>4 DEF TypeOK, HistoryType
<1> QED  BY <1>2, <1>3, <1>4, <1>5, <1>6

LEMMA RoundKeeps ==
  ASSUME NEW p \in Procs, IInv, NEW r \in todo[p], DeleteOne(p, r), Exists(r.name), UNCHANGED pc,
         pc[p] \in {"delete", "base_delete", "child_delete"},
         \/ UNCHANGED gone
         \/ pc[p] = "base_delete" /\ gone' = [gone EXCEPT ![p] = @ \cup {r.desc}]
  PROVE  IInv'
<1>1. TypeOK
  BY DEF IInv
<1>2. pc[p] \in CleanLabels
  BY DEF CleanLabels
<1>3. Goto(p, pc[p])
  BY <1>1 DEF Goto, TypeOK, ProcType
<1>4. UNCHANGED <<lxd, remote, project, images, op, runs, interrupted>>
  BY DEF DeleteOne
<1>5. /\ gone' \in [Procs -> SUBSET Descriptions]
      /\ gone'[p] = gone[p] \/ (pc[p] = "base_delete" /\ gone'[p] = gone[p] \cup {r.desc})
      /\ \A q \in Procs : q # p => gone'[q] = gone[q]
  <2>1. r.desc \in Descriptions /\ gone \in [Procs -> SUBSET Descriptions]
    BY <1>1 DEF TypeOK, ProcType, Listed
  <2> QED  BY <2>1
<1>6. OpFits(p)'
  BY <1>4 DEF IInv, Own, OpFits
<1>7. Lister(p)'
  <2>1. Lister(p)
    BY DEF IInv, Own
  <2>2. /\ \A s, t \in todo'[p] : s.name = t.name => s = t
        /\ \A s \in todo'[p] : inst'[s.name] # "none" \/ "gone" \in met'[p]
    BY <2>1, RoundFacts DEF Lister
  <2>3. ASSUME pc'[p] = "delete", op'[p] \in {"purge", "remove"}, "made" \notin met'[p],
               NEW n \in Names, inst'[n] # "none"
        PROVE  \E s \in todo'[p] : s.name = n
    <3>1. n # r.name /\ inst[n] # "none" /\ "made" \notin met[p]
      BY <2>3, RoundFacts
    <3>2. PICK s \in todo[p] : s.name = n
      BY <1>4, <2>1, <2>3, <3>1 DEF Lister
    <3> QED  BY <3>1, <3>2, RoundFacts
  <2> QED  BY <2>2, <2>3 DEF Lister
<1>8. Sparing(p)'
  <2>1. Sparing(p) /\ todo'[p] \subseteq todo[p]
    BY RoundFacts DEF IInv, Own
  <2> QED  BY <1>4, <1>5, <2>1 DEF Sparing
<1>9. Pursuing(p)'
  <2> SUFFICES ASSUME pc[p] = "child_delete", OldBase \in gone[p], NEW n \in Names, inst'[n] = OldBase
               PROVE  [name |-> n, desc |-> OldBase] \in todo'[p]
    BY <1>5 DEF Pursuing
  <2>1. n # r.name /\ inst[n] = OldBase
    BY NameFacts, RoundFacts
  <2>2. [name |-> n, desc |-> OldBase] \in todo[p]
    BY <2>1 DEF IInv, Own, Pursuing
  <2> QED  BY <2>1, <2>2, RoundFacts
<1>10. Own(p)'
  BY <1>2, <1>6, <1>7, <1>8, <1>9, CleanOwn
<1>11. images \in BOOLEAN
  BY <1>1 DEF TypeOK, ServerType
<1> QED  BY <1>2, <1>3, <1>4, <1>5, <1>10, <1>11, RoundFacts, CleanChange

LEMMA RoundRaises ==
  ASSUME NEW p \in Procs, IInv, NEW r, DeleteOne(p, r), ~Exists(r.name), UNCHANGED gone, ~LeavesBare(p)
  PROVE  IInv'
<1>1. UNCHANGED <<server, local>> /\ Quiet /\ Goto(p, "raised")
  BY DEF DeleteOne, server, local, Quiet
<1> QED  BY <1>1, RaiseKeeps DEF Ended

LEMMA DeleteKeeps ==
  ASSUME NEW p \in Procs, IInv, Delete(p)
  PROVE  IInv'
<1>1. TypeOK /\ pc[p] = "delete" /\ ~LeavesBare(p)
  BY DEF IInv, Delete, LeavesBare
<1>2. CASE /\ todo[p] = {}
           /\ Goto(p, IF op[p] \in {"purge", "remove"} THEN "image_list" ELSE "done")
           /\ UNCHANGED <<server, local>> /\ Quiet
  <2>1. CASE op[p] \in {"purge", "remove"}
    <3>1. "image_list" \in Busy \cap CleanLabels
      BY DEF Busy, CleanLabels
    <3>2. pc'[p] = "image_list"
      BY <1>1, <1>2, <2>1, <3>1, GotoFacts
    <3>3. UNCHANGED <<inst, images, op, todo, gone, met>>
      BY <1>2 DEF server, local, Quiet
    <3>4. OpFits(p)'
      BY <2>1, <3>2, <3>3 DEF OpFits, EnsureLabels, CreateLabels, LaunchLabels, Cleaners
    <3>5. Lister(p)'
      BY <1>1, <1>2, <2>1, <3>2, <3>3 DEF IInv, Own, Lister
    <3>6. Sparing(p)' /\ Pursuing(p)'
      BY <2>1, <3>2, <3>3 DEF Sparing, Pursuing
    <3> QED  BY <1>1, <1>2, <2>1, <3>1, <3>2, <3>4, <3>5, <3>6, CleanOwn, MoveKeeps
  <2>2. CASE op[p] \notin {"purge", "remove"}
    BY <1>1, <1>2, <2>2, RaiseKeeps DEF Ended
  <2> QED  BY <2>1, <2>2
<1>3. ASSUME NEW r \in todo[p], DeleteOne(p, r), Exists(r.name) => UNCHANGED pc, UNCHANGED gone
      PROVE  IInv'
  <2>1. CASE Exists(r.name)
    BY <1>1, <1>3, <2>1, RoundKeeps
  <2>2. CASE ~Exists(r.name)
    BY <1>1, <1>3, <2>2, RoundRaises
  <2> QED  BY <2>1, <2>2
<1> QED  BY <1>2, <1>3 DEF Delete

LEMMA BaseListKeeps ==
  ASSUME NEW p \in Procs, IInv, BaseList(p)
  PROVE  IInv'
<1>1. /\ pc[p] = "base_list" /\ pc[p] \in CleanLabels /\ ~LeavesBare(p)
      /\ op[p] = "configure" /\ TypeOK /\ BaseDescs
  BY DEF BaseList, LeavesBare, CleanLabels, IInv, Own, OpFits
<1>2. UNCHANGED <<server, op, gone, runs>> /\ Quiet
  BY DEF BaseList
<1>3. CASE UNCHANGED todo /\ Goto(p, "raised")
  BY <1>1, <1>2, <1>3, RaiseKeeps DEF Ended, local
<1>4. CASE todo' = [todo EXCEPT ![p] = Listing(StaleBases)] /\ Goto(p, "base_delete")
  <2>1. StaleBases \in SUBSET Names
    BY DEF StaleBases, Names
  <2>2. Listing(StaleBases) \in SUBSET Listing(Names)
    BY <2>1 DEF Listing
  <2>3. TagFits => \A r \in Listing(StaleBases) : r.desc # NewBase
    BY <1>1, NameFacts DEF Listing, StaleBases, IsCurrentBase, Bases, BaseDescs
  <2> QED  BY <1>1, <1>2, <1>4, <2>2, <2>3, ListKeeps
<1> QED  BY <1>3, <1>4 DEF BaseList

LEMMA ChildListKeeps ==
  ASSUME NEW p \in Procs, IInv, ChildList(p)
  PROVE  IInv'
<1>1. /\ pc[p] = "child_list" /\ pc[p] \in CleanLabels /\ ~LeavesBare(p)
      /\ op[p] = "configure"
  BY DEF ChildList, LeavesBare, CleanLabels, IInv, Own, OpFits
<1>2. UNCHANGED <<server, op, gone, runs>> /\ Quiet
  BY DEF ChildList
<1>3. CASE UNCHANGED todo /\ Goto(p, "raised")
  BY <1>1, <1>2, <1>3, RaiseKeeps DEF Ended, local
<1>4. CASE /\ todo' = [todo EXCEPT ![p] = Derived(Listing(Names), gone[p])]
           /\ Goto(p, "child_delete")
  <2>1. Derived(Listing(Names), gone[p]) \in SUBSET Listing(Names)
    BY DEF Derived
  <2>2. TagFits => NewBase \notin gone[p]
    BY <1>1 DEF IInv, Own, Sparing
  <2>3. TagFits => \A r \in Derived(Listing(Names), gone[p]) : r.desc # NewBase
    BY <2>2, NameFacts DEF Derived
  <2>4. OldBase \in gone[p] =>
          \A r \in Listing(Names) : r.desc = OldBase => r \in Derived(Listing(Names), gone[p])
    BY DEF Derived
  <2> QED  BY <1>1, <1>2, <1>4, <2>1, <2>3, <2>4, ListKeeps
<1> QED  BY <1>3, <1>4 DEF ChildList

LEMMA BaseDeleteKeeps ==
  ASSUME NEW p \in Procs, IInv, BaseDelete(p)
  PROVE  IInv'
<1>1. TypeOK /\ pc[p] = "base_delete" /\ ~LeavesBare(p) /\ op[p] = "configure"
  BY DEF IInv, BaseDelete, LeavesBare, Own, OpFits
<1>2. CASE /\ Goto(p, IF gone[p] = {} THEN "done" ELSE "child_list")
           /\ UNCHANGED <<server, local>> /\ Quiet
  <2>1. CASE gone[p] = {}
    BY <1>1, <1>2, <2>1, RaiseKeeps DEF Ended
  <2>2. CASE gone[p] # {}
    <3>1. "child_list" \in Busy \cap CleanLabels
      BY DEF Busy, CleanLabels
    <3>2. pc'[p] = "child_list"
      BY <1>1, <1>2, <2>2, <3>1, GotoFacts
    <3>3. UNCHANGED <<inst, images, op, todo, gone, met>>
      BY <1>2 DEF server, local, Quiet
    <3>4. OpFits(p)'
      BY <1>1, <3>2, <3>3 DEF OpFits, EnsureLabels, CreateLabels, LaunchLabels, Cleaners
    <3>5. Lister(p)' /\ Sparing(p)' /\ Pursuing(p)'
      BY <3>2, <3>3 DEF IInv, Own, Lister, Sparing, Pursuing
    <3> QED  BY <1>1, <1>2, <2>2, <3>1, <3>2, <3>4, <3>5, CleanOwn, MoveKeeps
  <2> QED  BY <2>1, <2>2
<1>3. ASSUME NEW r \in todo[p], DeleteOne(p, r), Exists(r.name) => UNCHANGED pc,
             gone' = [gone EXCEPT ![p] = IF Exists(r.name) THEN @ \cup {r.desc} ELSE @]
      PROVE  IInv'
  <2>1. CASE Exists(r.name)
    BY <1>1, <1>3, <2>1, RoundKeeps
  <2>2. CASE ~Exists(r.name)
    <3>1. UNCHANGED gone
      BY <1>1, <1>3, <2>2 DEF TypeOK, ProcType
    <3> QED  BY <1>1, <1>3, <2>2, <3>1, RoundRaises
  <2> QED  BY <2>1, <2>2
<1> QED  BY <1>2, <1>3 DEF BaseDelete

LEMMA ChildDeleteKeeps ==
  ASSUME NEW p \in Procs, IInv, ChildDelete(p)
  PROVE  IInv'
<1>1. TypeOK /\ pc[p] = "child_delete" /\ ~LeavesBare(p)
  BY DEF IInv, ChildDelete, LeavesBare
<1>2. CASE (Goto(p, "done") \/ Goto(p, "raised")) /\ UNCHANGED <<server, local>> /\ Quiet
  BY <1>1, <1>2, RaiseKeeps DEF Ended
<1>3. ASSUME NEW r \in todo[p], DeleteOne(p, r), Exists(r.name) => UNCHANGED pc, UNCHANGED gone
      PROVE  IInv'
  <2>1. CASE Exists(r.name)
    BY <1>1, <1>3, <2>1, RoundKeeps
  <2>2. CASE ~Exists(r.name)
    BY <1>1, <1>3, <2>2, RoundRaises
  <2> QED  BY <2>1, <2>2
<1> QED  BY <1>2, <1>3 DEF ChildDelete

LEMMA ImageListKeeps ==
  ASSUME NEW p \in Procs, IInv, ImageList(p)
  PROVE  IInv'
<1>1. TypeOK /\ pc[p] = "image_list" /\ ~LeavesBare(p) /\ op[p] \in {"purge", "remove"}
  BY DEF IInv, ImageList, LeavesBare, Own, OpFits
<1>2. PICK label \in {"raised", "image_delete", "project_delete"} :
        /\ Goto(p, label)
        /\ label = "image_delete" => images
        /\ label = "project_delete" => ~images
  BY DEF ImageList
<1>3. UNCHANGED <<server, local>> /\ Quiet
  BY DEF ImageList
<1>4. CASE label = "raised"
  BY <1>1, <1>2, <1>3, <1>4, RaiseKeeps DEF Ended
<1>5. CASE label \in {"image_delete", "project_delete"}
  <2>1. label \in Busy /\ label \in CleanLabels
    BY <1>5 DEF Busy, CleanLabels
  <2>2. pc'[p] = label
    BY <1>1, <1>2, <2>1, GotoFacts
  <2>3. UNCHANGED <<inst, images, op, todo, gone, met>>
    BY <1>3 DEF server, local, Quiet
  <2>4. OpFits(p)'
    BY <1>1, <1>5, <2>2, <2>3 DEF OpFits, EnsureLabels, CreateLabels, LaunchLabels, Cleaners
  <2>5. Lister(p)'
    BY <1>1, <1>2, <1>5, <2>2, <2>3 DEF IInv, Own, Lister
  <2>6. Sparing(p)' /\ Pursuing(p)'
    BY <1>1, <1>5, <2>2, <2>3 DEF Sparing, Pursuing
  <2> QED  BY <1>1, <1>2, <1>3, <2>1, <2>2, <2>4, <2>5, <2>6, CleanOwn, MoveKeeps
<1> QED  BY <1>4, <1>5

LEMMA ImageDeleteKeeps ==
  ASSUME NEW p \in Procs, IInv, ImageDelete(p)
  PROVE  IInv'
<1>1. TypeOK /\ BaseDescs /\ pc[p] = "image_delete" /\ op[p] \in {"purge", "remove"}
  BY DEF IInv, ImageDelete, Own, OpFits
<1>2. PICK label \in {"project_delete", "raised"} : Goto(p, label)
  BY DEF ImageDelete
<1>3. UNCHANGED <<lxd, remote, project, inst, op, todo, gone, runs, interrupted>> /\ images' = FALSE
  BY DEF ImageDelete, local
<1>4. /\ met' \in [Procs -> SUBSET {"made", "gone", "fault", "taken"}] /\ met'[p] = met[p]
      /\ \A q \in Procs : met[q] \subseteq met'[q]
      /\ \A q \in Procs : q # p /\ Active(q) => "gone" \in met'[q]
  BY <1>1, TellFacts DEF ImageDelete
<1>5. HistoryType' /\ BaseDescs' /\ Told(p)
  BY <1>1, <1>3, <1>4 DEF TypeOK, HistoryType, BaseDescs, Told
<1>6. label \in CleanLabels \cup Ended /\ label \in Busy \cup Ended /\ pc[p] \in CleanLabels
  BY <1>1 DEF CleanLabels, Ended, Busy
<1>7. pc'[p] = label
  BY <1>1, <1>2, <1>6, GotoFacts
<1>8. Own(p)'
  <2>1. CASE label = "raised"
    BY <1>3, <1>7, <2>1, EndedOwn DEF Ended
  <2>2. CASE label = "project_delete"
    <3>1. OpFits(p)'
      BY <1>1, <1>3, <1>7, <2>2 DEF OpFits, EnsureLabels, CreateLabels, LaunchLabels, Cleaners
    <3>2. Lister(p)'
      BY <1>1, <1>3, <1>4, <1>7, <2>2 DEF IInv, Own, Lister
    <3>3. Sparing(p)' /\ Pursuing(p)'
      BY <1>1, <1>3, <1>7, <2>2 DEF Sparing, Pursuing
    <3> QED  BY <1>7, <2>2, <3>1, <3>2, <3>3, CleanOwn DEF CleanLabels
  <2> QED  BY <2>1, <2>2
<1>9. /\ inst \in [Names -> Descriptions] /\ todo \in [Procs -> SUBSET Listed]
      /\ gone \in [Procs -> SUBSET Descriptions]
  BY <1>1 DEF TypeOK, ServerType, ProcType
<1> QED  BY <1>2, <1>3, <1>4, <1>5, <1>6, <1>8, <1>9, CleanChange

LEMMA ProjectDeleteKeeps ==
  ASSUME NEW p \in Procs, IInv, ProjectDelete(p)
  PROVE  IInv'
<1>1. TypeOK /\ BaseDescs /\ pc[p] = "project_delete"
  BY DEF IInv, ProjectDelete
<1>2. UNCHANGED <<lxd, remote, images, inst, op, todo, gone, runs, interrupted>>
  BY DEF ProjectDelete, local
<1>3. CASE project' = "absent" /\ Goto(p, "done") /\ Tell(p, "gone")
  <2>1. /\ met' \in [Procs -> SUBSET {"made", "gone", "fault", "taken"}] /\ met'[p] = met[p]
        /\ \A q \in Procs : met[q] \subseteq met'[q]
        /\ \A q \in Procs : q # p /\ Active(q) => "gone" \in met'[q]
    BY <1>1, <1>3, TellFacts
  <2>2. HistoryType' /\ BaseDescs' /\ Told(p)
    BY <1>1, <1>2, <2>1 DEF TypeOK, HistoryType, BaseDescs, Told
  <2>3. "done" \in CleanLabels \cup Ended /\ "done" \in Ended /\ pc[p] \in CleanLabels
    BY <1>1 DEF CleanLabels, Ended
  <2>4. pc'[p] = "done"
    BY <1>1, <1>3, <2>3, GotoFacts
  <2>5. Own(p)'
    BY <1>2, <2>3, <2>4, EndedOwn
  <2>6. /\ inst \in [Names -> Descriptions] /\ todo \in [Procs -> SUBSET Listed]
        /\ gone \in [Procs -> SUBSET Descriptions] /\ images \in BOOLEAN
    BY <1>1 DEF TypeOK, ServerType, ProcType
  <2> QED  BY <1>2, <1>3, <2>1, <2>2, <2>3, <2>5, <2>6, CleanChange
<1>4. CASE Goto(p, "raised") /\ UNCHANGED <<project, met>>
  BY <1>1, <1>2, <1>4, RaiseKeeps DEF Ended, LeavesBare, server, local, Quiet
<1> QED  BY <1>3, <1>4 DEF ProjectDelete

-----------------------------------------------------------------------------
(* Beginning and breaking off *)

LEMMA BeginKeeps ==
  ASSUME NEW p \in Procs, IInv, Begin(p)
  PROVE  IInv'
<1>1. TypeOK /\ BaseDescs
  BY DEF IInv
<1>2. PICK o \in Ops : op' = [op EXCEPT ![p] = o] /\ Goto(p, FirstLabel(o))
  BY DEF Begin
<1>3. /\ FirstLabel(o) \in {"installed", "purge", "hook", "list"}
      /\ FirstLabel(o) = "installed" <=> o \in Launches
      /\ FirstLabel(o) \in {"purge", "list"} => o # "configure"
  BY DEF FirstLabel, Ops, Launches, Cleaners
<1>4. FirstLabel(o) \in Busy \cup Ended
  BY <1>3 DEF Busy, EnsureLabels, CleanLabels
<1>5. /\ pc' \in [Procs -> Busy \cup Ended] /\ pc'[p] = FirstLabel(o)
      /\ \A q \in Procs : q # p => pc'[q] = pc[q]
  BY <1>1, <1>2, <1>4, GotoFacts
<1>6. UNCHANGED <<lxd, remote, project, images, inst, interrupted>>
  BY DEF Begin, server
<1>7. /\ op' \in [Procs -> Ops] /\ todo' \in [Procs -> SUBSET Listed]
      /\ gone' \in [Procs -> SUBSET Descriptions] /\ runs' \in [Procs -> 0..MaxOps] /\ HistoryType'
  BY <1>1, <1>2, <1>6, OpsAssumption DEF Begin, TypeOK, ProcType, HistoryType
<1>8. TypeOK'
  <2>1. ServerType'
    BY <1>1, <1>6 DEF TypeOK, ServerType, LxdType
  <2> QED  BY <1>5, <1>7, <2>1 DEF TypeOK, ProcType
<1>9. /\ op'[p] = o /\ todo'[p] = {} /\ gone'[p] = {}
      /\ \A q \in Procs : q # p => /\ op'[q] = op[q] /\ todo'[q] = todo[q]
                                   /\ gone'[q] = gone[q] /\ met'[q] = met[q]
  BY <1>1, <1>2 DEF Begin, TypeOK, ProcType, HistoryType
<1>10. BaseDescs' /\ Frame(p)
  BY <1>1, <1>5, <1>6, <1>9 DEF BaseDescs, Frame, SameLocals, Told
<1>11. BareFits(p)
  <2>1. ~LeavesBare(p)
    BY DEF Begin, LeavesBare, Ended
  <2> QED  BY <1>6, <2>1 DEF BareFits
<1>12. Own(p)'
  <2>1. OpFits(p)'
    BY <1>3, <1>5, <1>9 DEF OpFits, EnsureLabels, CreateLabels, LaunchLabels, CleanLabels, Ops
  <2>2. Launcher(p)'
    BY <1>3, <1>5 DEF Launcher, LaunchLabels
  <2>3. Lister(p)' /\ Sparing(p)' /\ Pursuing(p)'
    BY <1>3, <1>5, <1>9 DEF Lister, Sparing, Pursuing
  <2> QED  BY <2>1, <2>2, <2>3 DEF Own
<1> QED  BY <1>8, <1>10, <1>11, <1>12, Conclude

LEMMA BreakKeeps ==
  ASSUME NEW p \in Procs, IInv, Crash(p) \/ Fail(p)
  PROVE  IInv'
<1>1. TypeOK /\ BaseDescs /\ Active(p)
  BY DEF IInv, Crash, Fail
<1>2. PICK label \in {"dead", "raised", "remotes_again", "create_again"} :
        /\ Goto(p, label)
        /\ label \in {"dead", "raised"} \/ (op[p] \in Launches /\ "fault" \in met'[p])
  <2>1. CASE Crash(p)
    BY <2>1 DEF Crash
  <2>2. CASE Fail(p)
    <3>1. met'[p] = met[p] \cup {"fault"}
      BY <1>1, <2>2 DEF Fail, TypeOK, HistoryType
    <3>2. pc[p] \in {"remote_add", "create"} => op[p] \in Launches
      BY DEF IInv, Own, OpFits, CreateLabels
    <3> QED  BY <2>2, <3>1, <3>2 DEF Fail
  <2> QED  BY <2>1, <2>2
<1>3. /\ UNCHANGED <<server, local>> /\ interrupted' = (interrupted \/ LeavesBare(p))
      /\ met' \in [Procs -> SUBSET {"made", "gone", "fault", "taken"}]
      /\ \A q \in Procs : q # p => met[q] \subseteq met'[q]
  BY <1>1 DEF Crash, Fail, TypeOK, HistoryType
<1>4. UNCHANGED <<lxd, remote, project, images, inst, op, todo, gone, runs>>
  BY <1>3 DEF server, local
<1>5. label \in Busy \cup Ended
  BY DEF Busy, Ended, CreateLabels
<1>6. /\ pc' \in [Procs -> Busy \cup Ended] /\ pc'[p] = label
      /\ \A q \in Procs : q # p => pc'[q] = pc[q]
  BY <1>1, <1>2, <1>5, GotoFacts
<1>7. TypeOK'
  <2>1. interrupted' \in BOOLEAN
    BY <1>1, <1>3 DEF TypeOK, HistoryType
  <2> QED  BY <1>1, <1>3, <1>4, <1>6, <2>1 DEF TypeOK, ServerType, LxdType, ProcType, HistoryType
<1>8. BaseDescs' /\ Frame(p)
  BY <1>1, <1>3, <1>4, <1>6 DEF BaseDescs, Frame, SameLocals, Told
<1>9. BareFits(p)
  BY <1>3, <1>4 DEF BareFits
<1>10. Own(p)'
  <2>1. CASE label \in {"dead", "raised"}
    BY <1>4, <1>6, <2>1, EndedOwn DEF Ended
  <2>2. CASE label \in {"remotes_again", "create_again"}
    <3>1. op[p] \in Launches /\ "fault" \in met'[p]
      BY <1>2, <2>2
    <3>2. Launcher(p)'
      BY <1>6, <2>2, <3>1 DEF Launcher, LaunchLabels
    <3> QED  BY <1>3, <1>6, <2>2, <3>1, <3>2, LaunchOwn DEF CreateLabels
  <2> QED  BY <2>1, <2>2
<1> QED  BY <1>7, <1>8, <1>9, <1>10, Conclude

-----------------------------------------------------------------------------
(* The invariant *)

LEMMA StepInv == IInv /\ [Next]_vars => IInv'
<1> SUFFICES ASSUME IInv, [Next]_vars
             PROVE  IInv'
  OBVIOUS
<1>1. ASSUME NEW p \in Procs, Ensure(p) \/ AddRemote(p)
      PROVE  IInv'
  BY <1>1, EnsureMoves, HostChanges DEF Ensure, AddRemote
<1>2. ASSUME NEW p \in Procs, EnsureProject(p)
      PROVE  IInv'
  BY <1>2, EnsureMoves, ProfileMoves, ProjectCreateKeeps, ProfileEditKeeps DEF EnsureProject
<1>3. ASSUME NEW p \in Procs, Launch(p)
      PROVE  IInv'
  BY <1>3, InstanceMoves, CleanExistingKeeps, BaseLaunchKeeps, DescribeKeeps, WaitForBaseKeeps,
     CopyKeeps, PlainLaunchKeeps DEF Launch
<1>4. ASSUME NEW p \in Procs, Clean(p)
      PROVE  IInv'
  BY <1>4, CheckMoves, ListInstancesKeeps, DeleteKeeps, ImageListKeeps, ImageDeleteKeeps,
     ProjectDeleteKeeps, BaseListKeeps, BaseDeleteKeeps, ChildListKeeps, ChildDeleteKeeps DEF Clean
<1>5. CASE UNCHANGED vars
  <2>1. UNCHANGED <<lxd, remote, project, images, inst, pc, op, todo, gone, runs, met, interrupted>>
    BY <1>5 DEF vars, server, local
  <2> QED  BY <2>1 DEF IInv, TypeOK, ServerType, LxdType, ProcType, HistoryType, BaseDescs, BareOnlyMeanwhile,
           LeavesBare, Own, OpFits, Launcher, Lister, Sparing, Pursuing
<1>6. CASE Next
  BY <1>1, <1>2, <1>3, <1>4, <1>6, BeginKeeps, BreakKeeps DEF Next, Step
<1> QED  BY <1>5, <1>6

LEMMA Invariant == Spec => []IInv
<1>1. Init => IInv
  BY InitInv
<1>2. IInv /\ [Next]_vars => IInv'
  BY StepInv
<1> QED  BY <1>1, <1>2, PTL DEF Spec

-----------------------------------------------------------------------------
(* Theorems *)

\* The variables have their types.
THEOREM TypeCorrect == Spec => []TypeOK
<1>1. IInv => TypeOK
  BY DEF IInv
<1> QED  BY <1>1, Invariant, PTL

\* A project has an empty default profile only between the two calls of
\* create_with_default_profile, or after a process was stopped there.
THEOREM BareCorrect == Spec => []BareOnlyMeanwhile
<1>1. IInv => BareOnlyMeanwhile
  BY DEF IInv
<1> QED  BY <1>1, Invariant, PTL

\* No process moves another.
LEMMA OthersStay ==
  ASSUME NEW p \in Procs, NEW q \in Procs, q # p, TypeOK, Begin(p) \/ Crash(p) \/ Fail(p) \/ Step(p)
  PROVE  pc'[q] = pc[q]
<1>1. ASSUME NEW label, Goto(p, label)
      PROVE  pc'[q] = pc[q]
  BY <1>1 DEF Goto, TypeOK, ProcType
<1>2. CASE Begin(p) \/ Crash(p) \/ Fail(p)
  BY <1>1, <1>2 DEF Begin, Crash, Fail
<1>3. CASE Ensure(p) \/ AddRemote(p) \/ EnsureProject(p)
  BY <1>1, <1>3 DEF Ensure, CheckInstalled, SnapInstall, LxdInit, EnsureLxdIsReady,
     AddRemote, RemoteList, RemoteAdd, RemoteListAgain,
     EnsureProject, ProjectList, ProjectCreate, ProjectListAgain, ProfileShow, ProfileEdit
<1>4. CASE Launch(p)
  BY <1>1, <1>4 DEF Launch, LookUp, TakeExisting, CleanExisting, LookUpBase, BaseLaunch,
     Describe, WaitForBase, Copy, PlainLaunch, Start
<1>5. CASE HookChecks(p) \/ PurgeChecks(p) \/ ListInstances(p) \/ ImageList(p) \/ ImageDelete(p)
           \/ ProjectDelete(p) \/ BaseList(p) \/ ChildList(p)
  BY <1>1, <1>5 DEF HookChecks, PurgeChecks, ListInstances, ImageList, ImageDelete,
     ProjectDelete, BaseList, ChildList
<1>6. ASSUME NEW r, DeleteOne(p, r), Exists(r.name) => UNCHANGED pc
      PROVE  pc'[q] = pc[q]
  BY <1>1, <1>6 DEF DeleteOne
<1>7. CASE Delete(p) \/ BaseDelete(p) \/ ChildDelete(p)
  BY <1>1, <1>6, <1>7 DEF Delete, BaseDelete, ChildDelete
<1> QED  BY <1>2, <1>3, <1>4, <1>5, <1>7 DEF Step, Clean

\* Nor does one that deletes go on to anything but an error.
LEMMA RoundEnds ==
  ASSUME NEW p \in Procs, NEW r, DeleteOne(p, r), Exists(r.name) => UNCHANGED pc, pc[p] # "done", TypeOK
  PROVE  pc'[p] # "done"
<1>1. CASE Exists(r.name)
  BY <1>1
<1>2. CASE ~Exists(r.name)
  <2>1. "raised" \in Busy \cup Ended /\ Goto(p, "raised")
    BY <1>2 DEF Ended, DeleteOne
  <2>2. pc'[p] = "raised"
    BY <2>1, GotoFacts
  <2> QED  BY <2>2
<1> QED  BY <1>1, <1>2

\* After a configure hook that has deleted the old base and succeeds, no
\* instance is left that was made from it.
THEOREM NoOrphansCorrect == Spec => NoOrphans
<1>1. ASSUME IInv, [Next]_vars, NEW p \in Procs,
             pc[p] = "child_delete", pc'[p] = "done", OldBase \in gone[p], NEW n \in Names
      PROVE  inst[n] # OldBase
  <2>1. TypeOK /\ pc' # pc
    BY <1>1 DEF IInv
  <2>2. PICK q \in Procs : Begin(q) \/ Crash(q) \/ Fail(q) \/ Step(q)
    BY <1>1, <2>1 DEF Next, vars
  <2>3. q = p
    BY <1>1, <2>1, <2>2, OthersStay
  <2>4. ASSUME NEW label \in {"dead", "raised"}, Goto(p, label)
        PROVE  FALSE
    BY <1>1, <2>1, <2>4, GotoFacts DEF Ended
  <2>5. ChildDelete(p)
    <3>1. ~Begin(p) /\ ~Crash(p) /\ ~Fail(p)
      BY <1>1, <2>4 DEF Begin, Crash, Fail, Ended
    <3>2. ~Ensure(p) /\ ~AddRemote(p) /\ ~EnsureProject(p)
      BY <1>1 DEF Ensure, CheckInstalled, SnapInstall, LxdInit, EnsureLxdIsReady,
         AddRemote, RemoteList, RemoteAdd, RemoteListAgain,
         EnsureProject, ProjectList, ProjectCreate, ProjectListAgain, ProfileShow, ProfileEdit
    <3>3. ~Launch(p)
      BY <1>1 DEF Launch, LookUp, TakeExisting, CleanExisting, LookUpBase, BaseLaunch,
         Describe, WaitForBase, Copy, PlainLaunch, Start
    <3>4. ~HookChecks(p) /\ ~PurgeChecks(p) /\ ~ListInstances(p) /\ ~Delete(p) /\ ~ImageList(p)
      BY <1>1 DEF HookChecks, PurgeChecks, ListInstances, Delete, ImageList
    <3>5. ~ImageDelete(p) /\ ~ProjectDelete(p) /\ ~BaseList(p) /\ ~BaseDelete(p) /\ ~ChildList(p)
      BY <1>1 DEF ImageDelete, ProjectDelete, BaseList, BaseDelete, ChildList
    <3> QED  BY <2>2, <2>3, <3>1, <3>2, <3>3, <3>4, <3>5 DEF Step, Clean
  <2>6. todo[p] = {}
    BY <1>1, <2>1, <2>4, <2>5, RoundEnds DEF ChildDelete
  <2> QED  BY <1>1, <2>6 DEF IInv, Own, Pursuing
<1>2. IInv /\ [Next]_vars =>
        [\A p \in Procs :
           pc[p] = "child_delete" /\ pc'[p] = "done" /\ OldBase \in gone[p]
           => \A n \in Names : inst[n] # OldBase]_vars
  BY <1>1
<1> QED  BY <1>2, Invariant, PTL DEF Spec, NoOrphans

\* Where get_instance_name() keeps the tag, the configure hook does not delete
\* what it has listed as a complete current base, or as made from one.
THEOREM SparesCorrect == TagFits => (Spec => HookSparesCurrent)
<1> SUFFICES ASSUME TagFits
             PROVE  Spec => HookSparesCurrent
  OBVIOUS
<1>1. IInv /\ [Next]_vars =>
        [\A p \in Procs, n \in Names :
           /\ op[p] = "configure"
           /\ inst[n] = NewBase /\ inst'[n] = "none"
           /\ todo'[p] # todo[p]
           => [name |-> n, desc |-> NewBase] \notin todo[p]]_vars
  BY DEF IInv, Own, Sparing
<1> QED  BY <1>1, Invariant, PTL DEF Spec, HookSparesCurrent

-----------------------------------------------------------------------------
(* Why an operation raises *)

LEMMA GotoGives ==
  ASSUME NEW p \in Procs, NEW label, TypeOK, Goto(p, label)
  PROVE  pc'[p] = label
BY DEF Goto, TypeOK, ProcType

\* The project is gone, or is not filled in yet, by a process that is about to.
LEMMA LaunchExcuse ==
  ASSUME NEW p \in Procs, IInv, pc[p] \in {"base_launch", "plain"}, project # "valid",
         UNCHANGED <<server, local>>, Quiet
  PROVE  Excused(p)' \/ MeetsEmptyProfile(p)
<1>1. pc[p] \in LaunchLabels /\ ~LeavesBare(p)
  BY DEF LaunchLabels, LeavesBare
<1>2. project = "bare" \/ "gone" \in met[p]
  BY <1>1 DEF IInv, TypeOK, ServerType, Own, Launcher
<1>3. CASE "gone" \in met[p]
  BY <1>3 DEF Quiet, Excused
<1>4. CASE project = "bare"
  BY <1>1, <1>4 DEF IInv, BareOnlyMeanwhile, MeetsEmptyProfile
<1> QED  BY <1>2, <1>3, <1>4

LEMMA EnsureRaises ==
  ASSUME NEW p \in Procs, IInv, Ensure(p) \/ AddRemote(p), pc'[p] = "raised"
  PROVE  Excused(p)'
<1>1. TypeOK
  BY DEF IInv
<1>2. CASE CheckInstalled(p) \/ SnapInstall(p)
  BY <1>1, <1>2, GotoGives DEF CheckInstalled, SnapInstall
<1>3. CASE LxdInit(p)
  <2>1. ~lxd.group
    BY <1>1, <1>3, GotoGives DEF LxdInit
  <2>2. ~lxd'.group
    BY <1>1, <1>3, <2>1 DEF LxdInit, TypeOK, ServerType, LxdType
  <2> QED  BY <2>2 DEF Excused
<1>4. CASE EnsureLxdIsReady(p)
  <2>1. lxd # [snap |-> TRUE, init |-> TRUE, group |-> TRUE, supported |-> TRUE]
    BY <1>1, <1>4, GotoGives DEF EnsureLxdIsReady
  <2>2. lxd' = lxd
    BY <1>4 DEF EnsureLxdIsReady, server
  <2> QED  BY <2>1, <2>2 DEF Excused
<1>5. CASE RemoteList(p) \/ RemoteAdd(p)
  BY <1>1, <1>5, GotoGives DEF RemoteList, RemoteAdd
<1>6. CASE RemoteListAgain(p)
  <2>1. ~remote /\ met' = met
    BY <1>1, <1>6, GotoGives DEF RemoteListAgain, Quiet
  <2>2. "fault" \in met[p]
    BY <1>6, <2>1 DEF RemoteListAgain, IInv, Own, Launcher
  <2> QED  BY <2>1, <2>2 DEF Excused
<1> QED  BY <1>2, <1>3, <1>4, <1>5, <1>6 DEF Ensure, AddRemote

LEMMA ProjectRaises ==
  ASSUME NEW p \in Procs, IInv, EnsureProject(p), pc'[p] = "raised"
  PROVE  Excused(p)'
<1>1. TypeOK
  BY DEF IInv
<1>2. CASE ProjectList(p) \/ ProjectCreate(p) \/ ProfileShow(p)
  BY <1>1, <1>2, GotoGives DEF ProjectList, ProjectCreate, ProfileShow, AfterCreate
<1>3. CASE ProjectListAgain(p) \/ ProfileEdit(p)
  <2>1. project = "absent" /\ met' = met
    BY <1>1, <1>3, GotoGives DEF ProjectListAgain, ProfileEdit, AfterCreate, Quiet
  <2>2. met[p] \cap {"gone", "fault"} # {}
    BY <1>3, <2>1 DEF ProjectListAgain, ProfileEdit, IInv, Own, Launcher
  <2> QED  BY <2>1, <2>2 DEF Excused
<1> QED  BY <1>2, <1>3 DEF EnsureProject

LEMMA LaunchRaises ==
  ASSUME NEW p \in Procs, IInv, Launch(p), pc'[p] = "raised"
  PROVE  Excused(p)' \/ MeetsEmptyProfile(p)
<1>1. TypeOK
  BY DEF IInv
<1>2. CASE LookUp(p) \/ TakeExisting(p) \/ LookUpBase(p) \/ Start(p)
  <2>1. met' = met
    BY <1>2 DEF LookUp, TakeExisting, LookUpBase, Start, Quiet
  <2>2. CASE LookUp(p) \/ LookUpBase(p)
    <3>1. project = "absent"
      BY <1>1, <2>2, GotoGives DEF LookUp, LookUpBase, Fresh, Exists
    <3>2. "gone" \in met[p]
      BY <2>2, <3>1 DEF LookUp, LookUpBase, IInv, Own, Launcher, LaunchLabels
    <3> QED  BY <2>1, <3>2 DEF Excused
  <2>3. CASE TakeExisting(p) \/ Start(p)
    <3>1. ~Exists(p)
      BY <1>1, <2>3, GotoGives DEF TakeExisting, Start
    <3>2. "gone" \in met[p]
      BY <2>3, <3>1 DEF TakeExisting, Start, Exists, IInv, Own, Launcher, LaunchLabels
    <3> QED  BY <2>1, <3>2 DEF Excused
  <2> QED  BY <1>2, <2>2, <2>3
<1>3. CASE CleanExisting(p)
  BY <1>1, <1>3, GotoGives DEF CleanExisting, Fresh
<1>4. CASE BaseLaunch(p)
  <2>1. CASE Goto(p, "build") \/ Goto(p, "wait")
    BY <1>1, <2>1, GotoGives
  <2>2. CASE met' = [met EXCEPT ![p] = @ \cup {"taken"}]
    BY <1>1, <2>2 DEF TypeOK, HistoryType, Excused
  <2>3. CASE project # "valid" /\ UNCHANGED <<server, local>> /\ Quiet
    <3>1. pc[p] = "base_launch"
      BY <1>4 DEF BaseLaunch
    <3> QED  BY <2>3, <3>1, LaunchExcuse
  <2> QED  BY <1>4, <2>1, <2>2, <2>3 DEF BaseLaunch
<1>5. CASE Describe(p) \/ WaitForBase(p)
  <2>1. inst[NewBase] = "none" /\ met' = met
    BY <1>1, <1>5, GotoGives DEF Describe, WaitForBase, Quiet
  <2>2. "gone" \in met[p]
    BY <1>5, <2>1 DEF Describe, WaitForBase, IInv, Own, Launcher
  <2> QED  BY <2>1, <2>2 DEF Excused
<1>6. CASE Copy(p)
  <2>1. (inst[NewBase] = "none" \/ inst[p] # "none") /\ met' = met
    BY <1>1, <1>6, GotoGives DEF Copy
  <2>2. "gone" \in met[p]
    BY <1>6, <2>1 DEF Copy, IInv, Own, Launcher
  <2> QED  BY <2>1, <2>2 DEF Excused
<1>7. CASE PlainLaunch(p)
  <2>1. /\ project # "valid" \/ inst[p] # "none"
        /\ UNCHANGED <<server, local>> /\ Quiet
    BY <1>1, <1>7, GotoGives DEF PlainLaunch
  <2>2. inst[p] = "none" /\ pc[p] = "plain"
    BY <1>7 DEF PlainLaunch, IInv, Own, Launcher
  <2> QED  BY <2>1, <2>2, LaunchExcuse
<1> QED  BY <1>2, <1>3, <1>4, <1>5, <1>6, <1>7 DEF Launch

LEMMA CleanRaises ==
  ASSUME NEW p \in Procs, IInv, Clean(p), pc'[p] = "raised"
  PROVE  Excused(p)'
<1>1. TypeOK
  BY DEF IInv
<1>2. pc[p] \in CleanLabels
  BY DEF Clean, CleanLabels, HookChecks, PurgeChecks, ListInstances, Delete, ImageList,
         ImageDelete, ProjectDelete, BaseList, BaseDelete, ChildList, ChildDelete
<1>3. op[p] \in Cleaners
  BY <1>2 DEF IInv, Own, OpFits
<1>4. CASE HookChecks(p) \/ PurgeChecks(p) \/ ListInstances(p)
  <2>1. ~Reachable \/ project = "absent"
    BY <1>1, <1>4, GotoGives DEF HookChecks, PurgeChecks, ListInstances
  <2>2. UNCHANGED <<lxd, project, op>>
    BY <1>4 DEF HookChecks, PurgeChecks, ListInstances, server, local
  <2>3. ~Reachable => lxd # [snap |-> TRUE, init |-> TRUE, group |-> TRUE, supported |-> TRUE]
    BY DEF Reachable
  <2> QED  BY <1>3, <2>1, <2>2, <2>3 DEF Excused
<1>5. CASE ImageList(p) \/ BaseList(p) \/ ChildList(p)
  <2>1. project = "absent"
    BY <1>1, <1>5, GotoGives DEF ImageList, BaseList, ChildList
  <2>2. UNCHANGED <<project, op>>
    BY <1>5 DEF ImageList, BaseList, ChildList, server, local
  <2> QED  BY <1>3, <2>1, <2>2 DEF Excused
<1>6. CASE ImageDelete(p)
  <2>1. ~images /\ met'[p] = met[p]
    BY <1>1, <1>6, GotoGives, TellFacts DEF ImageDelete
  <2>2. "gone" \in met[p]
    BY <1>6, <2>1 DEF ImageDelete, IInv, Own, Lister
  <2> QED  BY <2>1, <2>2 DEF Excused
<1>7. CASE ProjectDelete(p)
  <2>1. /\ project = "absent" \/ images \/ \E n \in Names : inst[n] # "none"
        /\ UNCHANGED <<project, met, op>>
    BY <1>1, <1>7, GotoGives DEF ProjectDelete, local
  <2>2. project = "absent" \/ "made" \in met[p]
    BY <1>7, <2>1 DEF ProjectDelete, IInv, Own, Lister
  <2> QED  BY <1>3, <2>1, <2>2 DEF Excused
<1>8. CASE Delete(p) \/ BaseDelete(p) \/ ChildDelete(p)
  <2>1. pc[p] \in {"delete", "base_delete", "child_delete"}
    BY <1>8 DEF Delete, BaseDelete, ChildDelete
  <2>2. ASSUME NEW r \in todo[p], DeleteOne(p, r), Exists(r.name) => UNCHANGED pc
        PROVE  Excused(p)'
    <3>1. ~Exists(r.name)
      BY <2>1, <2>2
    <3>2. UNCHANGED <<project, op>> /\ met' = met
      BY <2>2, <3>1 DEF DeleteOne
    <3>3. project = "absent" \/ "gone" \in met[p]
      BY <2>1, <3>1 DEF Exists, IInv, Own, Lister
    <3> QED  BY <1>3, <3>2, <3>3 DEF Excused
  <2>3. ASSUME NEW r \in todo[p], ChildDelete(p), r.desc = "nodesc", UNCHANGED <<server, local>>
        PROVE  Excused(p)'
    <3>1. op[p] = "configure"
      BY <2>3 DEF ChildDelete, IInv, Own, OpFits
    <3>2. UNCHANGED <<op, todo>>
      BY <2>3 DEF local
    <3> QED  BY <2>3, <3>1, <3>2 DEF Excused
  <2>4. CASE Delete(p)
    BY <1>1, <2>2, <2>4, GotoGives DEF Delete
  <2>5. CASE BaseDelete(p)
    BY <1>1, <2>2, <2>5, GotoGives DEF BaseDelete
  <2>6. CASE ChildDelete(p)
    BY <1>1, <2>2, <2>3, <2>6, GotoGives DEF ChildDelete
  <2> QED  BY <1>8, <2>4, <2>5, <2>6
<1> QED  BY <1>4, <1>5, <1>6, <1>7, <1>8 DEF Clean

\* An operation raises only for one of the reasons of Excused, or because it
\* launches an instance before the profile of the project is filled in.
THEOREM RaisesCorrect == Spec => RaisesForAReason
<1>1. ASSUME IInv, [Next]_vars, NEW p \in Procs, pc[p] # "raised", pc'[p] = "raised"
      PROVE  Excused(p)' \/ MeetsEmptyProfile(p)
  <2>1. TypeOK /\ pc' # pc
    BY <1>1 DEF IInv
  <2>2. PICK q \in Procs : Begin(q) \/ Crash(q) \/ Fail(q) \/ Step(q)
    BY <1>1, <2>1 DEF Next, vars
  <2>3. q = p
    BY <1>1, <2>1, <2>2, OthersStay
  <2>4. CASE Begin(p) \/ Crash(p)
    <3>1. \A o \in Ops : FirstLabel(o) # "raised"
      BY DEF FirstLabel
    <3> QED  BY <1>1, <2>1, <2>4, <3>1, GotoGives DEF Begin, Crash
  <2>5. CASE Fail(p)
    <3>1. "fault" \in met'[p]
      BY <2>1, <2>5 DEF Fail, TypeOK, HistoryType
    <3> QED  BY <3>1 DEF Excused
  <2>6. CASE Step(p)
    BY <1>1, <2>6, EnsureRaises, ProjectRaises, LaunchRaises, CleanRaises DEF Step
  <2> QED  BY <2>2, <2>3, <2>4, <2>5, <2>6
<1>2. IInv /\ [Next]_vars =>
        [\A p \in Procs : pc[p] # "raised" /\ pc'[p] = "raised"
           => Excused(p)' \/ MeetsEmptyProfile(p)]_vars
  BY <1>1
<1> QED  BY <1>2, Invariant, PTL DEF Spec, RaisesForAReason
=============================================================================
