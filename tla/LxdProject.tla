----------------------------- MODULE LxdProject -----------------------------
(***************************************************************************)
(* One LXD server and the project an application keeps in it.  Processes   *)
(* make LXD usable, add the image remote, create the project, launch       *)
(* instances in it (launcher.launch and what LXDProvider does around it),  *)
(* and take things away again: LXDProvider.prune, clean_project_           *)
(* environments, project.purge, and the two snap hooks of hookutil, which  *)
(* know nothing of the processes that launch.                              *)
(*                                                                         *)
(* An action is one call to the client, `snap` or `lxd`, with the Python   *)
(* code after it.  How a base is built and waited for is BaseInstance's    *)
(* subject: here a base has no description of its own until its builder    *)
(* is done, as that is what the configure hook goes by.                    *)
(***************************************************************************)
EXTENDS Naturals, FiniteSets

CONSTANTS
  Procs,      \* the processes; each works on the instance of its own project
  NewBase,    \* the base of the present compatibility tag
  OldBase,    \* one of an earlier tag, left by an earlier revision of the snap
  MaxOps,     \* how many operations a process runs
  TagFits,    \* the tag is within the characters get_instance_name() keeps
  Faults      \* what may go wrong: a subset of FaultKinds

FaultKinds ==
  { "crash",   \* a process is killed
    "fail",    \* a call fails for a reason of its own
    "taken",   \* `lxc launch` of a taken name fails as if for another reason
    "nodesc" } \* an instance was made from an image without description

ASSUME NamesAssumption ==
  /\ NewBase # OldBase
  /\ {NewBase, OldBase} \cap (Procs \cup {"none", "generic", "nodesc"}) = {}
ASSUME OpsAssumption == MaxOps \in Nat
ASSUME TagAssumption == TagFits \in BOOLEAN
ASSUME FaultsAssumption == Faults \subseteq FaultKinds

VARIABLES
  lxd,          \* the LXD of the host
  remote,       \* the client knows the image remote
  project,      \* the project and its default profile
  images,       \* the project holds cached images
  inst,         \* the instances of the project: their image.description
  pc, op,       \* where each process is, and in which operation
  todo,         \* what its last listing leaves it to delete
  gone,         \* delete_base_full_names of the configure hook
  runs,         \* how many operations it has begun
  met,          \* history: what happened to its operation
  interrupted   \* history: a project was left without a profile

server == <<lxd, remote, project, images, inst>>
local == <<op, todo, gone, runs>>
vars == <<server, pc, local, met, interrupted>>

-----------------------------------------------------------------------------
(* State *)

Bases == {NewBase, OldBase}
Names == Bases \cup Procs

\* image.description: none is "no such instance", generic the text of the
\* image itself, and the name of a base what launch() writes instead.
Descriptions == {"none", "generic", "nodesc", NewBase, OldBase}

Launches == {"launch", "plain"}    \* with and without a base instance
Cleaners == {"purge", "configure", "remove", "prune", "prune_templates", "clean"}
Ops == Launches \cup Cleaners

EnsureLabels == {"installed", "snap", "init", "ready"}
CreateLabels == {"remotes", "remote_add", "remotes_again", "projects", "create",
                 "create_again", "profile_show", "profile_edit"}
LaunchLabels == {"exists", "existing", "base", "base_launch", "build", "wait",
                 "copy", "plain", "start"}
CleanLabels == {"hook", "purge", "list", "delete", "image_list", "image_delete",
                "project_delete", "base_list", "base_delete", "child_list", "child_delete"}
Busy == EnsureLabels \cup CreateLabels \cup LaunchLabels \cup CleanLabels
Ended == {"idle", "done", "raised", "dead"}

Listed == [name : Names, desc : Descriptions]

LxdType == lxd \in [snap : BOOLEAN, init : BOOLEAN, group : BOOLEAN, supported : BOOLEAN]

ServerType ==
  /\ LxdType
  /\ remote \in BOOLEAN
  /\ project \in {"absent", "bare", "valid"}
  /\ images \in BOOLEAN
  /\ inst \in [Names -> Descriptions]

ProcType ==
  /\ pc \in [Procs -> Busy \cup Ended]
  /\ op \in [Procs -> Ops]
  /\ todo \in [Procs -> SUBSET Listed]
  /\ gone \in [Procs -> SUBSET Descriptions]
  /\ runs \in [Procs -> 0..MaxOps]

HistoryType ==
  /\ met \in [Procs -> SUBSET {"made", "gone", "fault", "taken"}]
  /\ interrupted \in BOOLEAN

TypeOK == ServerType /\ ProcType /\ HistoryType

\* The server as earlier runs of the application and its user left it.
Init ==
  /\ lxd \in [snap : BOOLEAN, init : BOOLEAN, group : BOOLEAN, supported : BOOLEAN]
  /\ lxd.init => lxd.snap
  /\ remote \in BOOLEAN
  /\ project \in {"absent", "valid"}
  /\ images \in BOOLEAN
  /\ inst \in [Names -> Descriptions]
  /\ inst[NewBase] \in {"none", "generic", NewBase}
  /\ inst[OldBase] \in {"none", "generic", OldBase}
  /\ "nodesc" \notin Faults => \A n \in Names : inst[n] # "nodesc"
  /\ project # "absent" => remote /\ lxd.init /\ lxd.group /\ lxd.supported
  /\ project = "absent" => ~images /\ \A n \in Names : inst[n] = "none"
  /\ pc = [p \in Procs |-> "idle"]
  /\ op = [p \in Procs |-> "launch"]
  /\ todo = [p \in Procs |-> {}]
  /\ gone = [p \in Procs |-> {}]
  /\ runs = [p \in Procs |-> 0]
  /\ met = [p \in Procs |-> {}]
  /\ interrupted = FALSE

-----------------------------------------------------------------------------
(* Helpers *)

Active(p) == pc[p] \in Busy

Goto(p, label) == pc' = [pc EXCEPT ![p] = label]

\* What a process does to the server happens to every operation under way.
Tell(p, what) ==
  met' = [q \in Procs |-> IF q # p /\ Active(q) THEN met[q] \cup {what} ELSE met[q]]

Quiet == UNCHANGED <<met, interrupted>>

Exists(n) == project # "absent" /\ inst[n] # "none"

\* The snap is there and the user may open its socket.
Reachable == lxd.snap /\ lxd.group

\* What the lxc list of the project shows, with the descriptions of the moment.
Listing(names) == {[name |-> n, desc |-> inst[n]] : n \in {m \in names : inst[m] # "none"}}

\* hookutil: LXDInstance.is_current_base_instance
IsCurrentBase(n) == n = NewBase /\ TagFits

\* lxc delete --force
LxcDelete(p, n) ==
  /\ inst' = [inst EXCEPT ![n] = "none"]
  /\ Tell(p, "gone")

-----------------------------------------------------------------------------
(* Beginning and breaking off *)

FirstLabel(o) ==
  CASE o \in Launches -> "installed"
    [] o = "purge" -> "purge"
    [] o \in {"configure", "remove"} -> "hook"
    [] OTHER -> "list"

Begin(p) ==
  /\ pc[p] \in Ended
  /\ runs[p] < MaxOps
  /\ \E o \in Ops : op' = [op EXCEPT ![p] = o] /\ Goto(p, FirstLabel(o))
  /\ runs' = [runs EXCEPT ![p] = @ + 1]
  /\ todo' = [todo EXCEPT ![p] = {}]
  /\ gone' = [gone EXCEPT ![p] = {}]
  /\ met' = [met EXCEPT ![p] = {}]
  /\ UNCHANGED <<server, interrupted>>

\* Between project_create and profile_edit the project has an empty profile.
LeavesBare(p) == pc[p] \in {"profile_show", "profile_edit"}

Crash(p) ==
  /\ "crash" \in Faults
  /\ Active(p)
  /\ Goto(p, "dead")
  /\ interrupted' = (interrupted \/ LeavesBare(p))
  /\ UNCHANGED <<server, local, met>>

\* A call fails; remote_add and project_create look again before they raise.
Fail(p) ==
  /\ "fail" \in Faults
  /\ Active(p)
  /\ Goto(p, CASE pc[p] = "remote_add" -> "remotes_again"
               [] pc[p] = "create" -> "create_again"
               [] OTHER -> "raised")
  /\ met' = [met EXCEPT ![p] = @ \cup {"fault"}]
  /\ interrupted' = (interrupted \/ LeavesBare(p))
  /\ UNCHANGED <<server, local>>

-----------------------------------------------------------------------------
(* LXDProvider.ensure_provider_is_available *)

CheckInstalled(p) ==
  /\ pc[p] = "installed"
  /\ Goto(p, IF lxd.snap THEN "ready" ELSE "snap")
  /\ UNCHANGED <<server, local>> /\ Quiet

SnapInstall(p) ==
  /\ pc[p] = "snap"
  /\ lxd' = [lxd EXCEPT !.snap = TRUE]
  /\ Goto(p, "init")
  /\ UNCHANGED <<remote, project, images, inst, local>> /\ Quiet

LxdInit(p) ==
  /\ pc[p] = "init"
  /\ lxd' = [lxd EXCEPT !.init = TRUE]
  /\ Goto(p, IF lxd.group THEN "ready" ELSE "raised")
  /\ UNCHANGED <<remote, project, images, inst, local>> /\ Quiet

EnsureLxdIsReady(p) ==
  /\ pc[p] = "ready"
  /\ Goto(p, IF lxd = [snap |-> TRUE, init |-> TRUE, group |-> TRUE, supported |-> TRUE]
             THEN "remotes" ELSE "raised")
  /\ UNCHANGED <<server, local>> /\ Quiet

-----------------------------------------------------------------------------
(* RemoteImage.add_remote *)

RemoteList(p) ==
  /\ pc[p] = "remotes"
  /\ Goto(p, IF remote THEN "projects" ELSE "remote_add")
  /\ UNCHANGED <<server, local>> /\ Quiet

\* A mutant: a remote that another process has added meanwhile is an error.
RemoteAdd_Raises(p) ==
  /\ pc[p] = "remote_add"
  /\ Goto(p, IF remote THEN "raised" ELSE "projects")
  /\ remote' = TRUE
  /\ UNCHANGED <<lxd, project, images, inst, local>> /\ Quiet

\* `lxc remote add` refuses a name that is there.
RemoteAdd(p) ==
  /\ pc[p] = "remote_add"
  /\ Goto(p, IF remote THEN "remotes_again" ELSE "projects")
  /\ remote' = TRUE
  /\ UNCHANGED <<lxd, project, images, inst, local>> /\ Quiet

RemoteListAgain(p) ==
  /\ pc[p] = "remotes_again"
  /\ Goto(p, IF remote THEN "projects" ELSE "raised")
  /\ UNCHANGED <<server, local>> /\ Quiet

-----------------------------------------------------------------------------
(* launcher._ensure_project_exists, project.create_with_default_profile *)

ProjectList(p) ==
  /\ pc[p] = "projects"
  /\ Goto(p, IF project = "absent" THEN "create" ELSE "exists")
  /\ UNCHANGED <<server, local>> /\ Quiet

\* A mutant: the profile is not copied.
AfterCreate_NoProfile == "exists"

AfterCreate == "profile_show"

ProjectCreate(p) ==
  /\ pc[p] = "create"
  /\ \/ /\ project = "absent"
        /\ project' = "bare"
        /\ Goto(p, AfterCreate)
        /\ Tell(p, "made")
     \/ /\ project # "absent"
        /\ Goto(p, "create_again")
        /\ UNCHANGED <<project, met>>
  /\ UNCHANGED <<lxd, remote, images, inst, local, interrupted>>

\* A second process may have created it: the error is ignored then.
ProjectListAgain(p) ==
  /\ pc[p] = "create_again"
  /\ Goto(p, IF project = "absent" THEN "raised" ELSE AfterCreate)
  /\ UNCHANGED <<server, local>> /\ Quiet

\* The profile of the default project, which an initialised LXD has.
ProfileShow(p) ==
  /\ pc[p] = "profile_show"
  /\ Goto(p, "profile_edit")
  /\ UNCHANGED <<server, local>> /\ Quiet

ProfileEdit(p) ==
  /\ pc[p] = "profile_edit"
  /\ project' = (IF project = "absent" THEN "absent" ELSE "valid")
  /\ Goto(p, IF project = "absent" THEN "raised" ELSE "exists")
  /\ UNCHANGED <<lxd, remote, images, inst, local>> /\ Quiet

-----------------------------------------------------------------------------
(* launcher.launch *)

\* Where an instance that is not there comes from.
Fresh(p) == IF op[p] = "plain" THEN "plain" ELSE "base"

\* instance.exists()
LookUp(p) ==
  /\ pc[p] = "exists"
  /\ Goto(p, CASE project = "absent" -> "raised"
               [] Exists(p) -> "existing"
               [] OTHER -> Fresh(p))
  /\ UNCHANGED <<server, local>> /\ Quiet

\* An instance of an earlier tag is incompatible and cleaned; others may be.
TakeExisting(p) ==
  /\ pc[p] = "existing"
  /\ inst[p] # OldBase
  /\ Goto(p, IF Exists(p) THEN "start" ELSE "raised")
  /\ UNCHANGED <<server, local>> /\ Quiet

CleanExisting(p) ==
  /\ pc[p] = "existing"
  /\ Exists(p)
  /\ LxcDelete(p, p)
  /\ Goto(p, Fresh(p))
  /\ UNCHANGED <<lxd, remote, project, images, local, interrupted>>

\* base_instance.exists()
LookUpBase(p) ==
  /\ pc[p] = "base"
  /\ Goto(p, IF project = "absent" THEN "raised"
             ELSE CASE inst[NewBase] = "none" -> "base_launch"
                    [] inst[NewBase] = NewBase -> "copy"
                    [] OTHER -> "wait")
  /\ UNCHANGED <<server, local>> /\ Quiet

\* lxc launch: needs a disk from the default profile, and caches the image.
LxcLaunch(p, n) ==
  /\ project = "valid"
  /\ inst[n] = "none"
  /\ inst' = [inst EXCEPT ![n] = "generic"]
  /\ images' = TRUE
  /\ Tell(p, "made")
  /\ UNCHANGED <<lxd, remote, project, interrupted, local>>

\* A name that another process has taken is waited for, or the error is one
\* that LXC.launch does not wait after.
BaseLaunch(p) ==
  /\ pc[p] = "base_launch"
  /\ \/ LxcLaunch(p, NewBase) /\ Goto(p, "build")
     \/ /\ project = "valid" /\ inst[NewBase] # "none"
        /\ Goto(p, "wait")
        /\ UNCHANGED <<server, local>> /\ Quiet
     \/ /\ project = "valid" /\ inst[NewBase] # "none" /\ "taken" \in Faults
        /\ Goto(p, "raised")
        /\ met' = [met EXCEPT ![p] = @ \cup {"taken"}]
        /\ UNCHANGED <<server, local, interrupted>>
     \/ /\ project # "valid"
        /\ Goto(p, "raised")
        /\ UNCHANGED <<server, local>> /\ Quiet

\* A mutant: it gets the name of the instance.
Describe_Instance(p) ==
  /\ pc[p] = "build"
  /\ inst[NewBase] # "none"
  /\ inst' = [inst EXCEPT ![NewBase] = p]
  /\ Goto(p, "copy")
  /\ UNCHANGED <<lxd, remote, project, images, local>> /\ Quiet

\* At the end of the setup the base gets its own name as description.
Describe(p) ==
  /\ pc[p] = "build"
  /\ \/ /\ inst[NewBase] # "none"
        /\ inst' = [inst EXCEPT ![NewBase] = NewBase]
        /\ Goto(p, "copy")
     \/ /\ inst[NewBase] = "none"
        /\ Goto(p, "raised")
        /\ UNCHANGED inst
  /\ UNCHANGED <<lxd, remote, project, images, local>> /\ Quiet

NoBuilder == \A q \in Procs : pc[q] # "build"

\* A base whose builder is gone is deleted and built again.
WaitForBase(p) ==
  /\ pc[p] = "wait"
  /\ \/ /\ inst[NewBase] = NewBase
        /\ Goto(p, "copy")
        /\ UNCHANGED <<inst, met>>
     \/ /\ inst[NewBase] # NewBase /\ inst[NewBase] # "none" /\ NoBuilder
        /\ LxcDelete(p, NewBase)
        /\ Goto(p, "base_launch")
     \/ /\ inst[NewBase] = "none"
        /\ Goto(p, "raised")
        /\ UNCHANGED <<inst, met>>
  /\ UNCHANGED <<lxd, remote, project, images, local, interrupted>>

\* lxc copy takes the description along.
Copy(p) ==
  /\ pc[p] = "copy"
  /\ \/ /\ inst[NewBase] # "none" /\ inst[p] = "none"
        /\ inst' = [inst EXCEPT ![p] = inst[NewBase]]
        /\ Goto(p, "start")
        /\ Tell(p, "made")
     \/ /\ inst[NewBase] = "none" \/ inst[p] # "none"
        /\ Goto(p, "raised")
        /\ UNCHANGED <<inst, met>>
  /\ UNCHANGED <<lxd, remote, project, images, local, interrupted>>

PlainLaunch(p) ==
  /\ pc[p] = "plain"
  /\ \/ LxcLaunch(p, p) /\ Goto(p, "start")
     \/ /\ project # "valid" \/ inst[p] # "none"
        /\ Goto(p, "raised")
        /\ UNCHANGED <<server, local>> /\ Quiet

Start(p) ==
  /\ pc[p] = "start"
  /\ Goto(p, IF Exists(p) THEN "done" ELSE "raised")
  /\ UNCHANGED <<server, local>> /\ Quiet

-----------------------------------------------------------------------------
(* prune, clean_project_environments, purge, remove_hook *)

\* HookHelper: LXD must be installed and know the project.
HookChecks(p) ==
  /\ pc[p] = "hook"
  /\ Goto(p, IF ~Reachable \/ project = "absent" THEN "raised"
             ELSE IF op[p] = "configure" THEN "base_list" ELSE "list")
  /\ UNCHANGED <<server, local>> /\ Quiet

\* purge of a project that is not there does nothing.
PurgeChecks(p) ==
  /\ pc[p] = "purge"
  /\ Goto(p, CASE ~Reachable -> "raised"
               [] Reachable /\ project = "absent" -> "done"
               [] OTHER -> "list")
  /\ UNCHANGED <<server, local>> /\ Quiet

\* Which instances an operation is about: prune spares the bases unless told
\* otherwise, clean is for one instance.
Scope(p) ==
  CASE op[p] = "prune" -> Names \ Bases
    [] op[p] = "clean" -> {p}
    [] OTHER -> Names

\* clean_project_environments looks first whether LXD is installed.
ListInstances(p) ==
  /\ pc[p] = "list"
  /\ \/ /\ op[p] = "clean" /\ ~lxd.snap
        /\ Goto(p, "done")
        /\ UNCHANGED todo
     \/ /\ ~(op[p] = "clean" /\ ~lxd.snap)
        /\ ~Reachable \/ project = "absent"
        /\ Goto(p, "raised")
        /\ UNCHANGED todo
     \/ /\ Reachable /\ project # "absent"
        /\ todo' = [todo EXCEPT ![p] = Listing(Scope(p))]
        /\ Goto(p, "delete")
  /\ UNCHANGED <<server, op, gone, runs>> /\ Quiet

\* One round of a loop over the listing: the instance may be gone by now.
DeleteOne(p, r) ==
  /\ \/ /\ Exists(r.name)
        /\ LxcDelete(p, r.name)
        /\ todo' = [todo EXCEPT ![p] = @ \ {r}]
     \/ /\ ~Exists(r.name)
        /\ Goto(p, "raised")
        /\ UNCHANGED <<inst, met, todo>>
  /\ UNCHANGED <<lxd, remote, project, images, op, runs, interrupted>>

Delete(p) ==
  /\ pc[p] = "delete"
  /\ \/ /\ todo[p] = {}
        /\ Goto(p, IF op[p] \in {"purge", "remove"} THEN "image_list" ELSE "done")
        /\ UNCHANGED <<server, local>> /\ Quiet
     \/ \E r \in todo[p] :
          /\ DeleteOne(p, r)
          /\ Exists(r.name) => UNCHANGED pc
          /\ UNCHANGED gone

ImageList(p) ==
  /\ pc[p] = "image_list"
  /\ Goto(p, IF project = "absent" THEN "raised"
             ELSE IF images THEN "image_delete" ELSE "project_delete")
  /\ UNCHANGED <<server, local>> /\ Quiet

ImageDelete(p) ==
  /\ pc[p] = "image_delete"
  /\ Goto(p, IF images THEN "project_delete" ELSE "raised")
  /\ images' = FALSE
  /\ Tell(p, "gone")
  /\ UNCHANGED <<lxd, remote, project, inst, local, interrupted>>

\* LXD keeps a project that is not empty.
ProjectDelete(p) ==
  /\ pc[p] = "project_delete"
  /\ \/ /\ project # "absent" /\ ~images /\ \A n \in Names : inst[n] = "none"
        /\ project' = "absent"
        /\ Goto(p, "done")
        /\ Tell(p, "gone")
     \/ /\ project = "absent" \/ images \/ \E n \in Names : inst[n] # "none"
        /\ Goto(p, "raised")
        /\ UNCHANGED <<project, met>>
  /\ UNCHANGED <<lxd, remote, images, inst, local, interrupted>>

-----------------------------------------------------------------------------
(* configure_hook *)

\* A mutant: all bases.
StaleBases_All == Bases

StaleBases == {n \in Bases : ~IsCurrentBase(n)}

BaseList(p) ==
  /\ pc[p] = "base_list"
  /\ \/ /\ project = "absent"
        /\ Goto(p, "raised")
        /\ UNCHANGED todo
     \/ /\ project # "absent"
        /\ todo' = [todo EXCEPT ![p] = Listing(StaleBases)]
        /\ Goto(p, "base_delete")
  /\ UNCHANGED <<server, op, gone, runs>> /\ Quiet

\* The description is asked for after the instance is deleted.
BaseDelete(p) ==
  /\ pc[p] = "base_delete"
  /\ \/ /\ todo[p] = {}
        /\ Goto(p, IF gone[p] = {} THEN "done" ELSE "child_list")
        /\ UNCHANGED <<server, local>> /\ Quiet
     \/ \E r \in todo[p] :
          /\ DeleteOne(p, r)
          /\ Exists(r.name) => UNCHANGED pc
          /\ gone' = [gone EXCEPT ![p] = IF Exists(r.name) THEN @ \cup {r.desc} ELSE @]

\* A mutant: only the bases themselves.
Derived_Bases(listing, names) == {r \in listing : r.name \in Bases /\ r.desc \in names}

\* The listed instances that the second loop stops at, deleting or raising.
Derived(listing, names) == {r \in listing : r.desc \in names \cup {"nodesc"}}

ChildList(p) ==
  /\ pc[p] = "child_list"
  /\ \/ /\ project = "absent"
        /\ Goto(p, "raised")
        /\ UNCHANGED todo
     \/ /\ project # "absent"
        /\ todo' = [todo EXCEPT ![p] = Derived(Listing(Names), gone[p])]
        /\ Goto(p, "child_delete")
  /\ UNCHANGED <<server, op, gone, runs>> /\ Quiet

\* An instance without a description ends the hook.
ChildDelete(p) ==
  /\ pc[p] = "child_delete"
  /\ \/ /\ todo[p] = {}
        /\ Goto(p, "done")
        /\ UNCHANGED <<server, local>> /\ Quiet
     \/ \E r \in todo[p] :
          /\ r.desc # "nodesc"
          /\ DeleteOne(p, r)
          /\ Exists(r.name) => UNCHANGED pc
          /\ UNCHANGED gone
     \/ \E r \in todo[p] :
          /\ r.desc = "nodesc"
          /\ Goto(p, "raised")
          /\ UNCHANGED <<server, local>> /\ Quiet

-----------------------------------------------------------------------------
(* Specification *)

Ensure(p) == CheckInstalled(p) \/ SnapInstall(p) \/ LxdInit(p) \/ EnsureLxdIsReady(p)

AddRemote(p) == RemoteList(p) \/ RemoteAdd(p) \/ RemoteListAgain(p)

EnsureProject(p) ==
  ProjectList(p) \/ ProjectCreate(p) \/ ProjectListAgain(p) \/ ProfileShow(p) \/ ProfileEdit(p)

Launch(p) ==
  \/ LookUp(p) \/ TakeExisting(p) \/ CleanExisting(p) \/ LookUpBase(p) \/ BaseLaunch(p)
  \/ Describe(p) \/ WaitForBase(p) \/ Copy(p) \/ PlainLaunch(p) \/ Start(p)

Clean(p) ==
  \/ HookChecks(p) \/ PurgeChecks(p) \/ ListInstances(p) \/ Delete(p)
  \/ ImageList(p) \/ ImageDelete(p) \/ ProjectDelete(p)
  \/ BaseList(p) \/ BaseDelete(p) \/ ChildList(p) \/ ChildDelete(p)

Step(p) == Ensure(p) \/ AddRemote(p) \/ EnsureProject(p) \/ Launch(p) \/ Clean(p)

Next == \E p \in Procs : Begin(p) \/ Crash(p) \/ Fail(p) \/ Step(p)

Spec == Init /\ [][Next]_vars

-----------------------------------------------------------------------------
(* Properties *)

\* The project of an application has an empty default profile, in which no
\* instance can be launched, only while a process that created it is about to
\* fill the profile in, or after one was stopped between the two calls.
BareOnlyMeanwhile ==
  project = "bare" => interrupted \/ \E p \in Procs : LeavesBare(p)

\* Why an operation may raise: the host has no usable LXD, a call failed, what
\* it works on was deleted under it, or (cleaners) something was made under
\* it; a cleaner, that there is no project; the configure hook, that an
\* instance has no description.
Excused(p) ==
  \/ lxd # [snap |-> TRUE, init |-> TRUE, group |-> TRUE, supported |-> TRUE]
  \/ met[p] \cap {"fault", "gone", "taken"} # {}
  \/ op[p] \in Cleaners /\ ("made" \in met[p] \/ project = "absent")
  \/ op[p] = "configure" /\ \E r \in todo[p] : r.desc = "nodesc"

\* `lxc launch` finds no disk in the profile of a project that another process
\* has created and has still to fill, or was stopped before it did.
MeetsEmptyProfile(p) ==
  /\ pc[p] \in {"base_launch", "plain"}
  /\ project = "bare"
  /\ interrupted \/ \E q \in Procs \ {p} : LeavesBare(q)

\* Two processes that add the remote or create the project at the same time do
\* not fail in doing so, and operations that meet fail only of what one takes
\* away from the other.  There is one exception, which LaunchesDoNotRace is
\* about: a launch that meets the empty profile of a new project.
RaisesForAReason ==
  [][\A p \in Procs : pc[p] # "raised" /\ pc'[p] = "raised"
       => Excused(p)' \/ MeetsEmptyProfile(p)]_vars

\* "Prevent race when two processes try to create the same project at the same
\* time": no launch fails for another process that has created its project.
LaunchesDoNotRace ==
  [][\A p \in Procs :
       op[p] \in Launches /\ pc[p] # "raised" /\ pc'[p] = "raised" => Excused(p)']_vars

\* A current base that is complete, or an instance copied from one, is
\* deleted by the configure hook only if it was something else when listed.
HookSparesCurrent ==
  [][\A p \in Procs, n \in Names :
        /\ op[p] = "configure"
        /\ inst[n] = NewBase /\ inst'[n] = "none"
        /\ todo'[p] # todo[p]
        => [name |-> n, desc |-> NewBase] \notin todo[p]]_vars

\* After a configure hook that has deleted the old base and succeeds, no
\* instance is left that was made from it.
NoOrphans ==
  [][\A p \in Procs :
        pc[p] = "child_delete" /\ pc'[p] = "done" /\ OldBase \in gone[p]
        => \A n \in Names : inst[n] # OldBase]_vars

\* "Keep the newest base instance with the most recent compatibility tag."
HookKeepsCurrentBase ==
  [][\A p \in Procs :
        pc[p] = "base_delete" /\ pc'[p] = "base_delete" /\ todo'[p] # todo[p]
        => inst'[NewBase] = inst[NewBase]]_vars
=============================================================================
