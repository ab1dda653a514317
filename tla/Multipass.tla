----------------------------- MODULE Multipass -----------------------------
(***************************************************************************)
(* The Multipass provider and the VM of one project: a session installs    *)
(* Multipass if need be, takes the VM or makes a new one, sets it up or    *)
(* warms it up step by step as Base and BuilddBase do, hands it out,       *)
(* unmounts everything and stops it.  Sessions come one after another, and *)
(* each may break off anywhere.                                            *)
(*                                                                         *)
(* Around a session the VM goes on by itself: it boots, gets its network,  *)
(* runs the automatic apt job and snap refreshes, and is stopped by a      *)
(* delayed stop of an earlier session.  What happens inside the step that  *)
(* installs the snaps is the subject of GuestSetup.                        *)
(***************************************************************************)
EXTENDS Retry

CONSTANTS
  Bases,     \* the systems a session may ask for: the aliases of a base
  Devel,     \* one of them that takes any version for its own
  Tags,      \* the compatibility tags
  Proxies,   \* values of http_proxy and https_proxy
  Nothing,   \* no tag, no system, no proxy
  Timeout,   \* how long a step waits for the VM,
  RetryWait, \* and for how long it sleeps between two attempts
  Faults     \* what may go wrong: a subset of FaultKinds

FaultKinds ==
  { "fail",    \* a command fails for a reason of its own
    "crash",   \* the process of the session is killed
    "prune",   \* another process deletes the VM
    "trash",   \* the user deletes the VM and does not purge it
    "unread" } \* `test -f` fails, and the configuration counts as missing

ASSUME NamesAssumption == Nothing \notin Bases \cup Tags \cup Proxies
ASSUME TimesAssumption == Timeout \in Nat /\ RetryWait \in Nat \ {0}
ASSUME FaultsAssumption == Faults \subseteq FaultKinds

VARIABLES
  host,    \* Multipass on the host
  vm,      \* the VM, as multipassd and its disk have it
  pc,      \* where the session is, "idle" when there is none
  want,    \* what the session asks for
  proxy,   \* the proxy in its environment
  phase,   \* it is in setup() or in warmup()
  call,    \* retry_until_timeout() in the step that waits
  broke    \* history: what has gone wrong for this session

session == <<want, proxy, phase, call>>
vars == <<host, vm, pc, session, broke>>

-----------------------------------------------------------------------------
(* State *)

\* What setup() leaves on the disk, in its order.
Parts == {"environment", "autoapt", "network", "aptconf", "update", "packages",
          "udev", "snapd", "enable", "hold", "snaps", "cleanup"}

Kinds == [base : Bases, tag : Tags]

\* /etc/craft-instance.conf without an entry; a missing one reads the same.
NoConf == [setup |-> FALSE, tag |-> Nothing]

NoVm == [state |-> "absent", base |-> Nothing, tag |-> Nothing, conf |-> NoConf,
         parts |-> {}, proxy |-> Nothing, mounts |-> {}, due |-> FALSE, booted |-> FALSE,
         online |-> FALSE, apt |-> FALSE, refresh |-> FALSE]

\* A mutant: the refreshes under way are waited for before new ones are held off.
SetupNext_WatchFirst ==
  [unset |-> "image", image |-> "tagging", tagging |-> "cache", cache |-> "environment",
   environment |-> "autoapt", autoapt |-> "sysready", sysready |-> "permissions",
   permissions |-> "network", network |-> "online", online |-> "aptconf",
   aptconf |-> "update", update |-> "packages", packages |-> "udev", udev |-> "snapd",
   snapd |-> "enable", enable |-> "watch", watch |-> "hold", hold |-> "proxy",
   proxy |-> "snaps", snaps |-> "cleanup", cleanup |-> "finish", finish |-> "use"]

\* A mutant: nobody waits for the network after networkd has been restarted.
SetupNext_NoWait ==
  [unset |-> "image", image |-> "tagging", tagging |-> "cache", cache |-> "environment",
   environment |-> "autoapt", autoapt |-> "sysready", sysready |-> "permissions",
   permissions |-> "online", online |-> "network", network |-> "aptconf",
   aptconf |-> "update", update |-> "packages", packages |-> "udev", udev |-> "snapd",
   snapd |-> "enable", enable |-> "hold", hold |-> "watch", watch |-> "proxy",
   proxy |-> "snaps", snaps |-> "cleanup", cleanup |-> "finish", finish |-> "use"]

\* The steps of setup() and of warmup(), each with the one that follows.
SetupNext ==
  [unset |-> "image", image |-> "tagging", tagging |-> "cache", cache |-> "environment",
   environment |-> "autoapt", autoapt |-> "sysready", sysready |-> "permissions",
   permissions |-> "network", network |-> "online", online |-> "aptconf",
   aptconf |-> "update", update |-> "packages", packages |-> "udev", udev |-> "snapd",
   snapd |-> "enable", enable |-> "hold", hold |-> "watch", watch |-> "proxy",
   proxy |-> "snaps", snaps |-> "cleanup", cleanup |-> "finish", finish |-> "use"]

WarmupNext ==
  [completed |-> "image", image |-> "cache", cache |-> "sysready", sysready |-> "online",
   online |-> "permissions", permissions |-> "proxy", proxy |-> "snaps", snaps |-> "use"]

HostLabels == {"ensure", "install", "await", "ready", "request", "exists"}
VmLabels == {"start", "delete", "launch", "prepare", "use", "unmount", "stop"}
GuestLabels == (DOMAIN SetupNext) \cup (DOMAIN WarmupNext)
Labels == HostLabels \cup VmLabels \cup GuestLabels

NewCall == Call(Timeout, RetryWait)

Troubles == {"fault", "gone", "unread", "daemon", "unsupported", "refused", "slow",
             "apt", "offline", "busy", "misfit"}

VmType ==
  [state : {"absent", "deleted", "stopped", "running"},
   base : Bases \cup {Nothing},        \* the system it was made with
   tag : Tags \cup {Nothing},          \* the tag of the session that made it
   conf : [setup : BOOLEAN, tag : Tags \cup {Nothing}],
   parts : SUBSET Parts,               \* what the setup has left
   proxy : Proxies \cup {Nothing},     \* the proxy of its snapd
   mounts : SUBSET {"cache", "project"},
   due : BOOLEAN,                      \* a delayed stop is pending
   booted : BOOLEAN, online : BOOLEAN,
   apt : BOOLEAN,                      \* the automatic apt job runs
   refresh : BOOLEAN]                  \* an automatic snap refresh runs

TypeOK ==
  /\ host \in [client : BOOLEAN, daemon : BOOLEAN, supported : BOOLEAN]
  /\ vm \in VmType
  /\ pc \in Labels \cup {"idle", "raised"}
  /\ want \in Kinds
  /\ proxy \in Proxies
  /\ phase \in {"setup", "warmup"}
  /\ call \in Calls
  /\ broke \in SUBSET Troubles

Init ==
  /\ host \in [client : BOOLEAN, daemon : BOOLEAN, supported : BOOLEAN]
  /\ host.daemon => host.client
  /\ vm = NoVm
  /\ pc = "idle"
  /\ want \in Kinds
  /\ proxy \in Proxies
  /\ phase = "warmup"
  /\ call = NewCall
  /\ broke = {}

-----------------------------------------------------------------------------
(* Helpers *)

Goto(label) == pc' = label

\* The next step of the phase.
Forward == Goto(IF phase = "setup" THEN SetupNext[pc] ELSE WarmupNext[pc])

\* An exception leaves launched_environment(); before the VM is handed out
\* nothing is undone.
Raise(trouble) ==
  /\ Goto("raised")
  /\ broke' = broke \cup {trouble}
  /\ UNCHANGED <<host, vm, session>>

Exists == vm.state # "absent"
Running == vm.state = "running"

\* The VM is switched off: what ran in it ends, what is on its disk stays.
Off(v) == [v EXCEPT !.state = "stopped", !.due = FALSE, !.booted = FALSE,
                    !.online = FALSE, !.apt = FALSE, !.refresh = FALSE]

\* A step that leaves a part of the setup on the disk.
Leaves(part) ==
  /\ pc = part
  /\ Running
  /\ vm' = [vm EXCEPT !.parts = @ \cup {part}]
  /\ Forward
  /\ UNCHANGED <<host, session, broke>>

\* apt-get wants the network, and does not wait for the lock of another.
NeedsApt(part) ==
  \/ vm.online /\ ~vm.apt /\ Leaves(part)
  \/ /\ pc = part
     /\ Running
     /\ ~vm.online \/ vm.apt
     /\ Raise(IF vm.apt THEN "apt" ELSE "offline")

\* InstanceConfiguration.load(): the configuration, or nothing.
Load(conf) ==
  \/ conf = vm.conf /\ UNCHANGED broke
  \/ "unread" \in Faults /\ conf = NoConf /\ broke' = broke \cup {"unread"}

\* InstanceConfiguration.update(): what could not be read is lost.
Update(Write(_)) ==
  \E conf \in {vm.conf, NoConf} : Load(conf) /\ vm' = [vm EXCEPT !.conf = Write(conf)]

-----------------------------------------------------------------------------
(* MultipassProvider.ensure_provider_is_available *)

Begin ==
  /\ pc \in {"idle", "raised"}
  /\ want' \in Kinds
  /\ proxy' \in Proxies
  /\ phase' = "warmup"
  /\ call' = NewCall
  /\ broke' = {}
  /\ Goto("ensure")
  /\ UNCHANGED <<host, vm>>

\* is_installed() asks for the client only.
Ensure ==
  /\ pc = "ensure"
  /\ Goto(IF host.client THEN "ready" ELSE "install")
  /\ UNCHANGED <<host, vm, session, broke>>

Install ==
  /\ pc = "install"
  /\ host' = [host EXCEPT !.client = TRUE]
  /\ Goto("await")
  /\ UNCHANGED <<vm, session, broke>>

\* wait_until_ready() without a timeout: until multipassd has a version.
Await ==
  /\ pc = "await"
  /\ host.daemon
  /\ Goto("ready")
  /\ UNCHANGED <<host, vm, session, broke>>

\* ensure_multipass_is_ready() looks at the version of the client.
Ready ==
  /\ pc = "ready"
  /\ \/ host.supported /\ Goto("request") /\ UNCHANGED <<host, vm, session, broke>>
     \/ ~host.supported /\ Raise("unsupported")

\* A foreign architecture, a base without an image, an unstable image.
Request ==
  /\ pc = "request"
  /\ \/ Goto("exists") /\ UNCHANGED <<host, vm, session, broke>>
     \/ Raise("refused")

-----------------------------------------------------------------------------
(* launch() *)

\* `multipass list` shows deleted VMs, too.
LookUp ==
  /\ pc = "exists"
  /\ \/ ~host.daemon /\ Raise("daemon")
     \/ /\ host.daemon
        /\ Goto(IF Exists THEN "start" ELSE "launch")
        /\ UNCHANGED <<host, vm, session, broke>>

\* A mutant: a VM that runs is not started, as LXDInstance.start() skips it.
Start_UnlessRunning ==
  /\ pc = "start"
  /\ vm.state \in {"stopped", "running"}
  /\ vm' = [vm EXCEPT !.state = "running"]
  /\ Goto("completed")
  /\ UNCHANGED <<host, session, broke>>

\* `multipass start` of a VM that runs cancels its delayed stop.
Start ==
  /\ pc = "start"
  /\ vm.state \in {"stopped", "running"}
  /\ vm' = [vm EXCEPT !.state = "running", !.due = FALSE]
  /\ Goto("completed")
  /\ UNCHANGED <<host, session, broke>>

\* A mutant: launch() begins anew without a delete.
Incompatible_TryAgain == Goto("exists") /\ UNCHANGED <<host, vm, session, broke>>

\* BaseCompatibilityError: in warmup() launch() cleans the VM that it has found.
Incompatible ==
  IF phase = "setup" THEN Raise("misfit")
  ELSE Goto("delete") /\ UNCHANGED <<host, vm, session, broke>>

\* A mutant: a configuration file is enough.
CheckSetup_NotSetUp ==
  /\ pc = "completed"
  /\ \/ Running /\ vm.conf # NoConf /\ Forward /\ UNCHANGED <<host, vm, session, broke>>
     \/ ~(Running /\ vm.conf # NoConf) /\ Incompatible

\* _ensure_setup_completed(): what cannot be read is a missing file.
CheckSetup ==
  /\ pc = "completed"
  /\ \/ Running /\ vm.conf.setup /\ Forward /\ UNCHANGED <<host, vm, session, broke>>
     \/ ~(Running /\ vm.conf.setup) /\ Incompatible
     \/ /\ "unread" \in Faults
        /\ Goto("delete")
        /\ broke' = broke \cup {"unread"}
        /\ UNCHANGED <<host, vm, session>>

\* delete --purge, of a deleted VM, too
Delete ==
  /\ pc = "delete"
  /\ Exists
  /\ vm' = NoVm
  /\ Goto("launch")
  /\ UNCHANGED <<host, session, broke>>

\* The name is free, and the image has the system of the base.
Launch ==
  /\ pc = "launch"
  /\ ~Exists
  /\ vm' = [NoVm EXCEPT !.state = "running", !.base = want.base, !.tag = want.tag]
  /\ Goto("prepare")
  /\ UNCHANGED <<host, session, broke>>

\* The application's callback, before setup().
Prepare ==
  /\ pc = "prepare"
  /\ Running
  /\ phase' = "setup"
  /\ Goto("unset")
  /\ UNCHANGED <<host, vm, want, proxy, call, broke>>

-----------------------------------------------------------------------------
(* Base.setup() and Base.warmup() *)

\* _update_setup_status(False), before anything is done to the system
Unset ==
  /\ pc = "unset"
  /\ Running
  /\ Update(LAMBDA conf : [conf EXCEPT !.setup = FALSE])
  /\ Forward
  /\ UNCHANGED <<host, session>>

\* _ensure_os_compatible(): the version of the development base changes.
OsFits == vm.base = want.base \/ want.base = Devel

\* A mutant: a configuration without a tag is not compatible.
TagFits_Required == vm.conf.tag = want.tag

\* _ensure_instance_config_compatible(): no tag is compatible.
TagFits == vm.conf.tag \in {want.tag, Nothing}

ImageCheck ==
  /\ pc = "image"
  /\ Running
  /\ \/ OsFits /\ TagFits /\ Forward /\ UNCHANGED <<host, vm, session, broke>>
     \/ ~(OsFits /\ TagFits) /\ Incompatible
     \/ /\ "unread" \in Faults
        /\ OsFits
        /\ Forward
        /\ broke' = broke \cup {"unread"}
        /\ UNCHANGED <<host, vm, session>>

\* A mutant: the base is written as the tag.
Tagging_Base ==
  /\ pc = "tagging"
  /\ Running
  /\ Update(LAMBDA conf : [conf EXCEPT !.tag = want.base])
  /\ Forward
  /\ UNCHANGED <<host, session>>

Tagging ==
  /\ pc = "tagging"
  /\ Running
  /\ Update(LAMBDA conf : [conf EXCEPT !.tag = want.tag])
  /\ Forward
  /\ UNCHANGED <<host, session>>

\* _mount_shared_cache_dirs(): there is no cache path, the mount fails, which
\* is only logged, or the cache is mounted, perhaps since an earlier session.
MountCache ==
  /\ pc = "cache"
  /\ \/ UNCHANGED vm
     \/ Exists /\ vm' = [vm EXCEPT !.mounts = @ \cup {"cache"}]
  /\ Forward
  /\ UNCHANGED <<host, session, broke>>

\* /etc/environment
Environment == Leaves("environment")

\* 20auto-upgrades puts the automatic apt job off.
DisableAutomaticApt == Leaves("autoapt")

\* systemctl is-system-running
SystemIsRunning == Running /\ vm.booted

\* getent hosts snapcraft.io
NetworkIsUp == Running /\ vm.online

\* snap watch --last=auto-refresh?
RefreshesAreOver == Running /\ ~vm.refresh

\* The steps that retry until the VM is so far: retry_until_timeout().
Waits == {"sysready", "online", "watch"}

Awaited == [sysready |-> SystemIsRunning, online |-> NetworkIsUp, watch |-> RefreshesAreOver]

\* A VM that is gone lets every attempt fail until the time is over.  The command of
\* an attempt is given its budget as its own timeout.
Try ==
  /\ pc \in Waits
  /\ call.result = "none"
  /\ \E took \in 0 .. Budget(call) : call' = Attempt(call, took, Awaited[pc])
  /\ UNCHANGED <<host, vm, pc, want, proxy, phase, broke>>

Waited ==
  /\ pc \in Waits
  /\ \/ call.result = "value" /\ Forward /\ UNCHANGED broke
     \/ call.result = "error" /\ Goto("raised") /\ broke' = broke \cup {"slow"}
  /\ call' = NewCall
  /\ UNCHANGED <<host, vm, want, proxy, phase>>

\* `chmod go+x /root`; nobody asks whether it worked.
Permissions ==
  /\ pc = "permissions"
  /\ Forward
  /\ UNCHANGED <<host, vm, session, broke>>

\* The host name, resolved and networkd, which is restarted.
Network ==
  /\ pc = "network"
  /\ Running
  /\ vm' = [vm EXCEPT !.parts = @ \cup {"network"}, !.online = FALSE]
  /\ Forward
  /\ UNCHANGED <<host, session, broke>>

\* 00no-recommends, 00update-errors and, for a release at its end, other sources
AptConf == Leaves("aptconf")

\* apt-get update
AptUpdate == NeedsApt("update")

\* apt-get dist-upgrade and install
InstallPackages == NeedsApt("packages")

\* systemd-udevd and the host's no-cdn.conf
PreSetupSnapd == Leaves("udev")

\* apt-get install snapd
InstallSnapd == NeedsApt("snapd")

\* snapd.socket and snapd.service
EnableSnapd == Leaves("enable")

\* snap refresh --hold
HoldRefreshes == Leaves("hold")

\* snap set system, or snap unset when the environment has no proxy
SetProxy ==
  /\ pc = "proxy"
  /\ Running
  /\ vm' = [vm EXCEPT !.proxy = proxy]
  /\ Forward
  /\ UNCHANGED <<host, session, broke>>

\* snapd refuses to change a snap that it is refreshing.
InstallSnaps ==
  IF vm.refresh THEN pc = "snaps" /\ Running /\ Raise("busy") ELSE Leaves("snaps")

\* apt-get autoremove and clean
CleanUp == NeedsApt("cleanup")

\* _update_setup_status(True)
Finish ==
  /\ pc = "finish"
  /\ Running
  /\ Update(LAMBDA conf : [conf EXCEPT !.setup = TRUE])
  /\ Forward
  /\ UNCHANGED <<host, session>>

SetupStep ==
  \/ Unset \/ Tagging \/ Environment \/ DisableAutomaticApt \/ Network \/ AptConf \/ AptUpdate
  \/ InstallPackages \/ PreSetupSnapd \/ InstallSnapd \/ EnableSnapd \/ HoldRefreshes
  \/ CleanUp \/ Finish

WarmupStep ==
  \/ CheckSetup \/ ImageCheck \/ MountCache \/ Try \/ Waited \/ Permissions
  \/ SetProxy \/ InstallSnaps

-----------------------------------------------------------------------------
(* The body of launched_environment() *)

\* The application mounts its project, unless that is mounted.
MountProject ==
  /\ pc = "use"
  /\ Running
  /\ "project" \notin vm.mounts
  /\ vm' = [vm EXCEPT !.mounts = @ \cup {"project"}]
  /\ UNCHANGED <<host, pc, session, broke>>

\* It returns, or an exception leaves it: finally.
Leave ==
  /\ pc = "use"
  /\ Goto("unmount")
  /\ UNCHANGED <<host, vm, session, broke>>

\* A mutant: only what the session mounted itself.
UnmountAll_Project ==
  /\ pc = "unmount"
  /\ vm.state \in {"stopped", "running"}
  /\ vm' = [vm EXCEPT !.mounts = @ \ {"project"}]
  /\ Goto("stop")
  /\ UNCHANGED <<host, session, broke>>

UnmountAll ==
  /\ pc = "unmount"
  /\ vm.state \in {"stopped", "running"}
  /\ vm' = [vm EXCEPT !.mounts = {}]
  /\ Goto("stop")
  /\ UNCHANGED <<host, session, broke>>

\* stop, at once or with --time
Stop ==
  /\ pc = "stop"
  /\ vm.state \in {"stopped", "running"}
  /\ \/ vm' = Off(vm)
     \/ Running /\ vm' = [vm EXCEPT !.due = TRUE]
  /\ Goto("idle")
  /\ UNCHANGED <<host, session, broke>>

-----------------------------------------------------------------------------
(* What goes wrong *)

\* A command finds no VM, or one that does not run.
Lost ==
  /\ \/ pc \in {"start", "unmount", "stop"} /\ vm.state \in {"absent", "deleted"}
     \/ pc = "delete" /\ ~Exists
     \/ /\ pc \in (GuestLabels \cup {"prepare"}) \ ({"completed", "cache", "permissions"} \cup Waits)
        /\ ~Running
  /\ Raise("gone")

\* A command fails.  A wait tries again, and the body and the mounting of the
\* cache raise nothing.
Fail ==
  /\ "fail" \in Faults
  /\ pc \in Labels \ ({"request", "cache", "permissions", "use"} \cup Waits)
  /\ Raise("fault")

\* The process is killed, after any command.
Crash ==
  /\ "crash" \in Faults
  /\ pc \in Labels
  /\ Raise("fault")

\* MultipassProvider.prune() of another process, delete --purge
Prune ==
  /\ "prune" \in Faults
  /\ Exists
  /\ vm' = NoVm
  /\ broke' = broke \cup {"gone"}
  /\ UNCHANGED <<host, pc, session>>

\* `multipass delete`: the name stays taken.
Trash ==
  /\ "trash" \in Faults
  /\ vm.state \in {"stopped", "running"}
  /\ vm' = [Off(vm) EXCEPT !.state = "deleted"]
  /\ broke' = broke \cup {"gone"}
  /\ UNCHANGED <<host, pc, session>>

-----------------------------------------------------------------------------
(* What multipassd and the VM do by themselves *)

DaemonUp ==
  /\ host.client /\ ~host.daemon
  /\ host' = [host EXCEPT !.daemon = TRUE]
  /\ UNCHANGED <<vm, pc, session, broke>>

Boot == ~vm.booted /\ vm' = [vm EXCEPT !.booted = TRUE]

GetAddress == ~vm.online /\ vm' = [vm EXCEPT !.online = TRUE]

\* /etc/apt/apt.conf.d/20auto-upgrades puts it off for 10000 days.
AptJob == vm.booted /\ "autoapt" \notin vm.parts /\ ~vm.apt /\ vm' = [vm EXCEPT !.apt = TRUE]

AptEnd == vm.apt /\ vm' = [vm EXCEPT !.apt = FALSE]

Refresh ==
  vm.booted /\ "hold" \notin vm.parts /\ ~vm.refresh /\ vm' = [vm EXCEPT !.refresh = TRUE]

RefreshEnd == vm.refresh /\ vm' = [vm EXCEPT !.refresh = FALSE]

\* The time of a delayed stop is over.
Fire == vm.due /\ vm' = Off(vm)

VmStep ==
  /\ Running
  /\ Boot \/ GetAddress \/ AptJob \/ AptEnd \/ Refresh \/ RefreshEnd \/ Fire
  /\ UNCHANGED <<host, pc, session, broke>>

-----------------------------------------------------------------------------

Available == Ensure \/ Install \/ Await \/ Ready \/ Request

Launching == LookUp \/ Start \/ Delete \/ Launch \/ Prepare

Using == MountProject \/ Leave \/ UnmountAll \/ Stop

\* What the session does in its turn.
Session == Available \/ Launching \/ SetupStep \/ WarmupStep \/ Using \/ Lost

Next == Begin \/ Session \/ Fail \/ Crash \/ Prune \/ Trash \/ DaemonUp \/ VmStep

Spec == Init /\ [][Next]_vars

\* Every command returns, the application ends, and multipassd comes up once it
\* is installed: install() waits for it without a timeout.
FairSpec == Spec /\ WF_vars(Session) /\ WF_vars(DaemonUp)

-----------------------------------------------------------------------------
(* Properties *)

\* What is handed out is a VM of the base that was asked for, set up to the last
\* step whichever sessions worked on it, with snapd set to this session's proxy,
\* and of the right tag unless a configuration could not be read.
AcceptedIsComplete ==
  pc = "use" /\ vm.state # "absent" =>
    /\ vm.conf.setup
    /\ vm.parts = Parts
    /\ OsFits
    /\ vm.proxy = proxy
    /\ vm.tag = want.tag \/ vm.conf.tag = Nothing \/ "unread" \in broke

\* A delayed stop of an earlier session does not hit the next one: a VM in use
\* goes on running unless somebody deletes it.
UseIsUndisturbed ==
  pc = "use" /\ "gone" \notin broke => Running /\ ~vm.due

\* Snaps are installed while snapd refreshes nothing and has this session's proxy:
\* refreshes are held first, and then those under way are waited for.
SnapsUndisturbed ==
  pc = "snaps" /\ Running => "hold" \in vm.parts /\ ~vm.refresh /\ vm.proxy = proxy

\* A session ends with everything unmounted, also what a killed session had
\* mounted, and with the VM off or about to be.
SessionEndsClean ==
  pc = "idle" => vm.mounts = {} /\ (Running => vm.due)

\* The waits suffice: a session that fails has met something that went wrong.  The
\* network that is not up yet, a refresh under way and a new VM that does not fit are
\* never the reason.
RaisesForAReason ==
  pc = "raised" => broke \cap (Troubles \ {"offline", "busy", "misfit"}) # {}

Good == vm.conf.setup /\ OsFits /\ vm.conf.tag \in {want.tag, Nothing}

\* launch() deletes a VM only when it is not set up or not of the kind asked for.
GoodVmIsKept ==
  [][pc = "delete" /\ vm' = NoVm => ~Good \/ broke' \cap {"gone", "unread"} # {}]_vars

\* The VM as the environment that launched_environment() promises.
EnvironmentState ==
  IF ~Exists THEN "none"
  ELSE IF vm.conf.setup /\ vm.parts = Parts /\ vm.state # "deleted" THEN "complete"
  ELSE "partial"

EnvironmentKind == [base |-> vm.base, tag |-> vm.tag]

EnvironmentSession ==
  IF pc \in {"idle", "raised"} THEN "out"
  ELSE IF pc \in {"use", "unmount", "stop"} THEN "held"
  ELSE IF pc = "launch" THEN "lacking"
  ELSE IF phase = "setup" \/ pc = "prepare" THEN "making"
  ELSE "asking"

\* The configuration was not read, or says nothing of a tag.
EnvironmentBlind == "unread" \in broke \/ (vm.conf.setup /\ vm.conf.tag = Nothing)

EnvironmentLost == "gone" \in broke

\* The development base takes any version for its own.
KindFits ==
  {fit \in Kinds \X Kinds :
     fit[1].tag = fit[2].tag /\ (fit[1].base = fit[2].base \/ fit[2].base = Devel)}

Promise == INSTANCE LaunchedEnvironment WITH
  Fits <- KindFits,
  NoKind <- [base |-> Nothing, tag |-> Nothing],
  state <- EnvironmentState,
  kind <- EnvironmentKind,
  sess <- EnvironmentSession,
  blind <- EnvironmentBlind,
  lost <- EnvironmentLost

\* The provider keeps the promise of launched_environment(): a VM is made by one
\* session without interruption, only a complete one of the right kind is handed out,
\* and none of these is deleted, unless its configuration is not read.
ImplementsEnvironment == Promise!Spec

\* A wait for the VM, whose commands keep to their budgets, begins no attempt and ends
\* no sleep after its deadline, is over one wait later, and does not give up early.
WaitsAreBounded == InTime(call) /\ call.over = 0

\* How far each step of setup() is, and each of the others, the first warmup included.
Rank ==
  [unset |-> 1, image |-> 2, tagging |-> 3, cache |-> 4, environment |-> 5, autoapt |-> 6,
   sysready |-> 7, permissions |-> 8, network |-> 9, online |-> 10, aptconf |-> 11,
   update |-> 12, packages |-> 13, udev |-> 14, snapd |-> 15, enable |-> 16, hold |-> 17,
   watch |-> 18, proxy |-> 19, snaps |-> 20, cleanup |-> 21, finish |-> 22]

OtherRank ==
  [ensure |-> 1, install |-> 2, await |-> 3, ready |-> 4, request |-> 5, exists |-> 6,
   start |-> 7, completed |-> 8, image |-> 9, cache |-> 10, sysready |-> 11, online |-> 12,
   permissions |-> 13, proxy |-> 14, snaps |-> 15, delete |-> 16, launch |-> 17,
   prepare |-> 18, use |-> 41, unmount |-> 42, stop |-> 43, idle |-> 44, raised |-> 44]

\* A session without a setup goes from "snaps" to "use".
Place ==
  IF phase = "setup" /\ pc \in DOMAIN SetupNext THEN 18 + Rank[pc] ELSE OtherRank[pc]

\* What may still happen at one place: an attempt takes time or is the last, and the
\* project is mounted once.
Here ==
  IF pc \in Waits /\ call.result = "none" THEN 1 + Timeout - call.now
  ELSE IF pc = "use" /\ Running /\ "project" \notin vm.mounts THEN 1
  ELSE 0

\* The steps that a session has left at most.
StepsLeft == (44 - Place) * (Timeout + 2) + Here

\* A session never goes round in a circle: each of its steps brings it nearer to its
\* end, and neither the VM nor another process, a fault or a deletion sets it back.
\* launch() replaces a VM once and then sees the setup through, and a wait that is
\* tried again has less time for it.
SessionAdvances ==
  [][/\ Session => StepsLeft' \in 0 .. (StepsLeft - 1)
     /\ pc \in Labels => StepsLeft' \in 0 .. StepsLeft]_vars

\* A session ends whatever state it finds the VM in: a VM is replaced at most once,
\* and no wait but the one for multipassd is without an end.
SessionEnds == pc \in Labels ~> pc \in {"idle", "raised"}
=============================================================================
