--------------------------- MODULE MultipassProofs ---------------------------
(***************************************************************************)
(* Proofs about Multipass, for any bases, tags and proxies, any timeout    *)
(* and any faults.                                                         *)
(***************************************************************************)
EXTENDS Multipass, RetryProofs

-----------------------------------------------------------------------------
(* What the changes of a VM leave alone *)

\* The parts of a VM that no step of a session after its launch touches.
SameMake(v, w) == w.base = v.base /\ w.tag = v.tag

\* A VM with another disk, and one whose system is in another condition.
SameRun(v, w) ==
  /\ w.state = v.state /\ w.due = v.due /\ w.booted = v.booted /\ w.online = v.online
  /\ w.apt = v.apt /\ w.refresh = v.refresh

SameDisk(v, w) ==
  SameMake(v, w) /\ w.conf = v.conf /\ w.parts = v.parts /\ w.proxy = v.proxy

LEMMA Fields ==
  ASSUME NEW v \in VmType
  PROVE  /\ v.state \in {"absent", "deleted", "stopped", "running"}
         /\ v.conf.setup \in BOOLEAN /\ v.conf.tag \in Tags \cup {Nothing}
         /\ v.conf = [setup |-> v.conf.setup, tag |-> v.conf.tag]
         /\ v.parts \subseteq Parts
         /\ v.mounts \subseteq {"cache", "project"}
         /\ v.due \in BOOLEAN /\ v.online \in BOOLEAN /\ v.apt \in BOOLEAN /\ v.refresh \in BOOLEAN
  BY DEF VmType

LEMMA NoVmType ==
  /\ NoVm \in VmType
  /\ NoVm.state = "absent" /\ NoVm.conf = NoConf /\ NoVm.parts = {} /\ NoVm.mounts = {}
  /\ ~NoVm.due /\ ~NoVm.refresh /\ ~NoVm.online
  /\ ~NoVm.conf.setup /\ NoVm.conf.tag = Nothing
  BY DEF NoVm, VmType, NoConf

LEMMA OffType ==
  ASSUME NEW v \in VmType, NEW w, w = Off(v)
  PROVE  /\ w \in VmType
         /\ w.state = "stopped" /\ ~w.due /\ ~w.refresh
         /\ SameDisk(v, w) /\ w.mounts = v.mounts
  BY DEF Off, VmType, SameDisk, SameMake

LEMMA PartType ==
  ASSUME NEW v \in VmType, NEW part \in Parts, NEW w, w = [v EXCEPT !.parts = @ \cup {part}]
  PROVE  /\ w \in VmType
         /\ SameRun(v, w) /\ SameMake(v, w)
         /\ w.conf = v.conf /\ w.proxy = v.proxy /\ w.mounts = v.mounts
         /\ w.parts = v.parts \cup {part}
  BY DEF VmType, SameRun, SameMake

LEMMA NetworkType ==
  ASSUME NEW v \in VmType,
         NEW w, w = [v EXCEPT !.parts = @ \cup {"network"}, !.online = FALSE]
  PROVE  /\ w \in VmType
         /\ w.state = v.state /\ w.due = v.due /\ w.refresh = v.refresh
         /\ SameMake(v, w) /\ w.conf = v.conf /\ w.proxy = v.proxy /\ w.mounts = v.mounts
         /\ w.parts = v.parts \cup {"network"}
<1>1. "network" \in Parts
  BY DEF Parts
<1> QED  BY <1>1 DEF VmType, SameMake

LEMMA ConfType ==
  ASSUME NEW v \in VmType, NEW conf \in [setup : BOOLEAN, tag : Tags \cup {Nothing}],
         NEW w, w = [v EXCEPT !.conf = conf]
  PROVE  /\ w \in VmType
         /\ SameRun(v, w) /\ SameMake(v, w)
         /\ w.conf = conf /\ w.proxy = v.proxy /\ w.mounts = v.mounts /\ w.parts = v.parts
  BY DEF VmType, SameRun, SameMake

LEMMA MountsType ==
  ASSUME NEW v \in VmType, NEW mounts \in SUBSET {"cache", "project"},
         NEW w, w = [v EXCEPT !.mounts = mounts]
  PROVE  w \in VmType /\ SameRun(v, w) /\ SameDisk(v, w) /\ w.mounts = mounts
  BY DEF VmType, SameRun, SameMake, SameDisk

LEMMA ProxyType ==
  ASSUME NEW v \in VmType, NEW x \in Proxies, NEW w, w = [v EXCEPT !.proxy = x]
  PROVE  /\ w \in VmType
         /\ SameRun(v, w) /\ SameMake(v, w)
         /\ w.conf = v.conf /\ w.proxy = x /\ w.mounts = v.mounts /\ w.parts = v.parts
  BY DEF VmType, SameRun, SameMake

LEMMA StartType ==
  ASSUME NEW v \in VmType, NEW w, w = [v EXCEPT !.state = "running", !.due = FALSE]
  PROVE  /\ w \in VmType
         /\ w.state = "running" /\ ~w.due /\ w.refresh = v.refresh
         /\ SameDisk(v, w) /\ w.mounts = v.mounts
  BY DEF VmType, SameMake, SameDisk

LEMMA LaunchType ==
  ASSUME NEW kind \in Kinds,
         NEW w, w = [NoVm EXCEPT !.state = "running", !.base = kind.base, !.tag = kind.tag]
  PROVE  /\ w \in VmType
         /\ w.state = "running" /\ ~w.due /\ ~w.refresh
         /\ w.base = kind.base /\ w.tag = kind.tag
         /\ w.conf = NoConf /\ w.mounts = {} /\ w.parts = {}
  BY DEF VmType, NoVm, NoConf, Kinds

\* What the VM does by itself leaves its disk alone.
LEMMA VmStepType ==
  ASSUME vm \in VmType, VmStep
  PROVE  /\ vm' \in VmType
         /\ SameDisk(vm, vm') /\ vm'.mounts = vm.mounts
         /\ \/ vm'.state = "running" /\ vm'.due = vm.due
            \/ vm'.state = "stopped" /\ ~vm'.due /\ vm.due
         /\ vm'.refresh => vm.refresh \/ "hold" \notin vm.parts
         /\ vm'.state = "running" /\ vm.online => vm'.online
<1>1. CASE Fire
  BY <1>1, OffType DEF Fire
<1>2. CASE Boot
  BY <1>2 DEF VmStep, Running, Boot, VmType, SameDisk, SameMake
<1>3. CASE GetAddress
  BY <1>3 DEF VmStep, Running, GetAddress, VmType, SameDisk, SameMake
<1>4. CASE AptJob
  BY <1>4 DEF VmStep, Running, AptJob, VmType, SameDisk, SameMake
<1>5. CASE AptEnd
  BY <1>5 DEF VmStep, Running, AptEnd, VmType, SameDisk, SameMake
<1>6. CASE Refresh
  BY <1>6 DEF VmStep, Running, Refresh, VmType, SameDisk, SameMake
<1>7. CASE RefreshEnd
  BY <1>7 DEF VmStep, Running, RefreshEnd, VmType, SameDisk, SameMake
<1> QED  BY <1>1, <1>2, <1>3, <1>4, <1>5, <1>6, <1>7 DEF VmStep

-----------------------------------------------------------------------------
(* The order of the steps *)

LEMMA SetupOrder ==
  /\ SetupNext["unset"] = "image" /\ SetupNext["image"] = "tagging"
  /\ SetupNext["tagging"] = "cache" /\ SetupNext["cache"] = "environment"
  /\ SetupNext["environment"] = "autoapt" /\ SetupNext["autoapt"] = "sysready"
  /\ SetupNext["sysready"] = "permissions" /\ SetupNext["permissions"] = "network"
  /\ SetupNext["network"] = "online" /\ SetupNext["online"] = "aptconf"
  /\ SetupNext["aptconf"] = "update" /\ SetupNext["update"] = "packages"
  /\ SetupNext["packages"] = "udev" /\ SetupNext["udev"] = "snapd"
  /\ SetupNext["snapd"] = "enable" /\ SetupNext["enable"] = "hold"
  /\ SetupNext["hold"] = "watch" /\ SetupNext["watch"] = "proxy"
  /\ SetupNext["proxy"] = "snaps" /\ SetupNext["snaps"] = "cleanup"
  /\ SetupNext["cleanup"] = "finish" /\ SetupNext["finish"] = "use"
  BY DEF SetupNext

LEMMA WarmupOrder ==
  /\ WarmupNext["completed"] = "image" /\ WarmupNext["image"] = "cache"
  /\ WarmupNext["cache"] = "sysready" /\ WarmupNext["sysready"] = "online"
  /\ WarmupNext["online"] = "permissions" /\ WarmupNext["permissions"] = "proxy"
  /\ WarmupNext["proxy"] = "snaps" /\ WarmupNext["snaps"] = "use"
  BY DEF WarmupNext

LEMMA Domains ==
  /\ DOMAIN SetupNext =
       {"unset", "image", "tagging", "cache", "environment", "autoapt", "sysready",
        "permissions", "network", "online", "aptconf", "update", "packages", "udev",
        "snapd", "enable", "hold", "watch", "proxy", "snaps", "cleanup", "finish"}
  /\ DOMAIN WarmupNext =
       {"completed", "image", "cache", "sysready", "online", "permissions", "proxy", "snaps"}
  /\ Waits = {"sysready", "online", "watch"}
  /\ Awaited["sysready"] = SystemIsRunning
  /\ Awaited["online"] = NetworkIsUp
  /\ Awaited["watch"] = RefreshesAreOver
  BY DEF SetupNext, WarmupNext, Waits, Awaited

LEMMA Ranks ==
  /\ Rank["unset"] = 1 /\ Rank["image"] = 2 /\ Rank["tagging"] = 3 /\ Rank["cache"] = 4
  /\ Rank["environment"] = 5 /\ Rank["autoapt"] = 6 /\ Rank["sysready"] = 7
  /\ Rank["permissions"] = 8 /\ Rank["network"] = 9 /\ Rank["online"] = 10
  /\ Rank["aptconf"] = 11 /\ Rank["update"] = 12 /\ Rank["packages"] = 13
  /\ Rank["udev"] = 14 /\ Rank["snapd"] = 15 /\ Rank["enable"] = 16 /\ Rank["hold"] = 17
  /\ Rank["watch"] = 18 /\ Rank["proxy"] = 19 /\ Rank["snaps"] = 20
  /\ Rank["cleanup"] = 21 /\ Rank["finish"] = 22
  BY DEF Rank

\* What a setup has done before one of its steps.
Done(label) == {part \in Parts : Rank[part] < Rank[label]}

LEMMA DoneNext ==
  ASSUME NEW label \in DOMAIN SetupNext, label # "finish"
  PROVE  /\ SetupNext[label] \in DOMAIN SetupNext
         /\ Rank[SetupNext[label]] = Rank[label] + 1
         /\ Done(SetupNext[label]) = Done(label) \cup ({label} \cap Parts)
<1>1. SetupNext[label] \in DOMAIN SetupNext /\ Rank[SetupNext[label]] = Rank[label] + 1
  BY SetupOrder, Domains, Ranks
<1>2. \A part \in Parts : Rank[part] \in Nat /\ (Rank[part] = Rank[label] => part = label)
  BY Domains, Ranks DEF Parts
<1>3. Rank[label] \in Nat
  BY Domains, Ranks
<1>4. \A part \in Parts :
        Rank[part] < Rank[SetupNext[label]] <=> (Rank[part] < Rank[label] \/ part = label)
  BY <1>1, <1>2, <1>3
<1> QED  BY <1>1, <1>4 DEF Done

LEMMA DoneLast == Done("finish") = Parts
<1>1. \A part \in Parts : Rank[part] < Rank["finish"]
  BY Ranks DEF Parts
<1> QED  BY <1>1 DEF Done

LEMMA DoneFirst == Done("unset") = {}
<1>1. \A part \in Parts : ~(Rank[part] < Rank["unset"])
  BY Ranks DEF Parts
<1> QED  BY <1>1 DEF Done

-----------------------------------------------------------------------------
(* The inductive invariant *)

InSetup == phase = "setup" /\ pc \in DOMAIN SetupNext
InWarmup == phase = "warmup" /\ pc \in DOMAIN WarmupNext

\* Which phase a step belongs to, and whose call is under way.
Places ==
  /\ phase = "setup" => pc \in (DOMAIN SetupNext) \cup {"use", "unmount", "stop", "idle", "raised"}
  /\ phase = "warmup" => pc \notin (DOMAIN SetupNext) \ (DOMAIN WarmupNext)
  /\ pc \notin Waits \cup {"raised"} => call = NewCall
  /\ InTime(call) /\ call.over = 0

\* What the VM says of itself.
Disk ==
  /\ ~Exists => vm.conf = NoConf /\ vm.mounts = {}
  /\ vm.conf.setup => vm.parts = Parts /\ ~vm.refresh
  /\ vm.conf.tag \in {vm.tag, Nothing}

\* From its start on the VM runs, unless it is deleted.
Up ==
  pc \in GuestLabels \cup {"prepare", "use"} /\ "gone" \notin broke => Running /\ ~vm.due

\* A setup works on a VM of its own session, and has done what comes before.
SetupFacts ==
  InSetup \/ pc = "prepare" =>
    /\ Exists => vm.base = want.base /\ vm.tag = want.tag
    /\ pc \in {"prepare", "unset", "image"} => vm.conf.tag = Nothing

SetupDone ==
  InSetup =>
    /\ Exists => Done(pc) \subseteq vm.parts
    /\ Rank[pc] > 10 /\ Running => vm.online
    /\ Rank[pc] > 18 /\ Running => ~vm.refresh

\* What a wait has seen lasts until the next step.
Seen ==
  /\ pc = "online" /\ call.result = "value" /\ Running => vm.online
  /\ InSetup /\ pc = "watch" /\ call.result = "value" /\ Running => ~vm.refresh

\* A warmup goes on with a VM that has passed the checks.
WarmupFacts ==
  /\ InWarmup /\ pc # "completed" /\ Exists => vm.conf.setup
  /\ InWarmup /\ pc \notin {"completed", "image"} /\ Exists =>
       OsFits /\ (TagFits \/ "unread" \in broke)

Proxied == pc \in {"snaps", "cleanup", "finish", "use"} /\ Exists => vm.proxy = proxy

Accepted ==
  pc = "use" /\ Exists =>
    /\ vm.conf.setup
    /\ OsFits
    /\ vm.tag = want.tag \/ vm.conf.tag = Nothing \/ "unread" \in broke

\* The ends of a session.
Ends ==
  /\ pc \in {"stop", "idle"} => vm.mounts = {}
  /\ pc = "idle" /\ Running => vm.due
  /\ pc = "delete" => ~Good \/ broke \cap {"gone", "unread"} # {}
  /\ pc = "raised" => broke \cap (Troubles \ {"offline", "busy", "misfit"}) # {}

IInv ==
  /\ TypeOK /\ Places /\ Disk /\ Up /\ SetupFacts /\ SetupDone /\ Seen /\ WarmupFacts
  /\ Proxied /\ Accepted /\ Ends

-----------------------------------------------------------------------------
(* Initial states, and steps that leave the VM alone *)

LEMMA NewCallFacts ==
  NewCall \in Calls /\ InTime(NewCall) /\ NewCall.over = 0 /\ NewCall.result = "none"
  BY CallInTime, TimesAssumption DEF NewCall, Call

LEMMA InitInv == Init => IInv
<1> SUFFICES ASSUME Init
             PROVE  IInv
  OBVIOUS
<1>1. TypeOK
  BY NoVmType, NewCallFacts DEF Init, TypeOK, VmType
<1>2. pc = "idle" /\ phase = "warmup" /\ vm = NoVm
  BY DEF Init
<1>3. Places
  BY <1>2, NewCallFacts, Domains DEF Init, Places
<1>4. Disk /\ Up /\ SetupFacts /\ SetupDone /\ Seen /\ WarmupFacts /\ Proxied /\ Accepted /\ Ends
  BY <1>2, NoVmType, Domains
     DEF Disk, Up, SetupFacts, SetupDone, Seen, WarmupFacts, Proxied, Accepted, Ends, Exists,
         Running, GuestLabels, InSetup, InWarmup
<1> QED  BY <1>1, <1>3, <1>4 DEF IInv

\* A session that has failed is bound to nothing but a reason.
LEMMA RaiseKeeps ==
  ASSUME IInv, NEW trouble \in Troubles \ {"offline", "busy", "misfit"}, Raise(trouble)
  PROVE  IInv'
<1>1. pc' = "raised" /\ broke' = broke \cup {trouble}
  BY DEF Raise, Goto
<1>2. UNCHANGED <<host, vm, want, proxy, phase, call>>
  BY DEF Raise, session
<1>3. TypeOK'
  BY <1>1, <1>2 DEF IInv, TypeOK
<1>4. Places' /\ Disk'
  BY <1>1, <1>2, Domains DEF IInv, Places, Disk, Exists
<1>5. Up' /\ SetupFacts' /\ SetupDone' /\ Seen' /\ WarmupFacts' /\ Proxied' /\ Accepted'
  BY <1>1, <1>2, Domains
     DEF Up, SetupFacts, SetupDone, Seen, WarmupFacts, Proxied, Accepted,
         GuestLabels, InSetup, InWarmup
<1>6. Ends'
  BY <1>1 DEF Ends
<1> QED  BY <1>3, <1>4, <1>5, <1>6 DEF IInv

LEMMA BeginKeeps == IInv /\ Begin => IInv'
<1> SUFFICES ASSUME IInv, Begin
             PROVE  IInv'
  OBVIOUS
<1>1. /\ pc' = "ensure" /\ phase' = "warmup" /\ call' = NewCall /\ broke' = {}
      /\ want' \in Kinds /\ proxy' \in Proxies /\ UNCHANGED <<host, vm>>
  BY DEF Begin, Goto
<1>2. TypeOK'
  BY <1>1, NewCallFacts DEF IInv, TypeOK, Labels, HostLabels
<1>3. Places' /\ Disk'
  BY <1>1, NewCallFacts, Domains DEF IInv, Places, Disk, Exists
<1>4. Up' /\ SetupFacts' /\ SetupDone' /\ Seen' /\ WarmupFacts' /\ Proxied' /\ Accepted' /\ Ends'
  BY <1>1, Domains
     DEF Up, SetupFacts, SetupDone, Seen, WarmupFacts, Proxied, Accepted, Ends,
         GuestLabels, InSetup, InWarmup
<1> QED  BY <1>2, <1>3, <1>4 DEF IInv

\* Before a VM is found or made, a step binds the session to nothing.
LEMMA EarlyKeeps ==
  ASSUME IInv, pc \in HostLabels, pc' \in HostLabels \cup {"start", "launch"},
         UNCHANGED <<vm, session, broke>>, host' \in [client : BOOLEAN, daemon : BOOLEAN, supported : BOOLEAN]
  PROVE  IInv'
<1>1. pc' \in {"ensure", "install", "await", "ready", "request", "exists", "start", "launch"}
  BY DEF HostLabels
<1>2. UNCHANGED <<vm, want, proxy, phase, call, broke>>
  BY DEF session
<1>3. phase = "warmup" /\ call = NewCall
  BY Domains DEF IInv, Places, TypeOK, HostLabels
<1>4. TypeOK'
  BY <1>1, <1>2 DEF IInv, TypeOK, Labels, HostLabels, VmLabels
<1>5. Places' /\ Disk'
  BY <1>1, <1>2, <1>3, Domains DEF IInv, Places, Disk, Exists
<1>6. Up' /\ SetupFacts' /\ SetupDone' /\ Seen' /\ WarmupFacts' /\ Proxied' /\ Accepted' /\ Ends'
  BY <1>1, Domains
     DEF Up, SetupFacts, SetupDone, Seen, WarmupFacts, Proxied, Accepted, Ends,
         GuestLabels, InSetup, InWarmup
<1> QED  BY <1>4, <1>5, <1>6 DEF IInv

LEMMA AvailableKeeps == IInv /\ Available => IInv'
<1> SUFFICES ASSUME IInv, Available
             PROVE  IInv'
  OBVIOUS
<1>1. host \in [client : BOOLEAN, daemon : BOOLEAN, supported : BOOLEAN]
  BY DEF IInv, TypeOK
<1>2. {"unsupported", "refused"} \subseteq Troubles \ {"offline", "busy", "misfit"}
  BY DEF Troubles
<1>3. CASE Ensure
  BY <1>1, <1>3, EarlyKeeps DEF Ensure, Goto, HostLabels
<1>4. CASE Install
  <2>1. host' \in [client : BOOLEAN, daemon : BOOLEAN, supported : BOOLEAN]
    BY <1>1, <1>4 DEF Install
  <2> QED  BY <1>4, <2>1, EarlyKeeps DEF Install, Goto, HostLabels
<1>5. CASE Await
  BY <1>1, <1>5, EarlyKeeps DEF Await, Goto, HostLabels
<1>6. CASE Ready
  BY <1>1, <1>2, <1>6, EarlyKeeps, RaiseKeeps DEF Ready, Goto, HostLabels
<1>7. CASE Request
  BY <1>1, <1>2, <1>7, EarlyKeeps, RaiseKeeps DEF Request, Goto, HostLabels
<1> QED  BY <1>3, <1>4, <1>5, <1>6, <1>7 DEF Available

-----------------------------------------------------------------------------
(* Finding, making and checking the VM *)

LEMMA LookUpKeeps == IInv /\ LookUp => IInv'
<1> SUFFICES ASSUME IInv, LookUp
             PROVE  IInv'
  OBVIOUS
<1>1. CASE ~host.daemon /\ Raise("daemon")
  BY <1>1, RaiseKeeps DEF Troubles
<1>2. CASE ~(~host.daemon /\ Raise("daemon"))
  BY <1>2, EarlyKeeps DEF LookUp, Goto, HostLabels, IInv, TypeOK
<1> QED  BY <1>1, <1>2

LEMMA StartKeeps == IInv /\ Start => IInv'
<1> SUFFICES ASSUME IInv, Start
             PROVE  IInv'
  OBVIOUS
<1>1. /\ pc = "start" /\ pc' = "completed" /\ vm.state \in {"stopped", "running"}
      /\ vm' = [vm EXCEPT !.state = "running", !.due = FALSE]
      /\ UNCHANGED <<host, want, proxy, phase, call, broke>>
  BY DEF Start, Goto, session
<1>2. /\ vm' \in VmType /\ vm'.state = "running" /\ ~vm'.due /\ vm'.refresh = vm.refresh
      /\ SameDisk(vm, vm') /\ vm'.mounts = vm.mounts
  BY <1>1, StartType DEF IInv, TypeOK
<1>3. TypeOK'
  BY <1>1, <1>2, Domains DEF IInv, TypeOK, Labels, GuestLabels
<1>4. Places' /\ Disk'
  BY <1>1, <1>2, Domains DEF IInv, Places, Disk, Exists, SameDisk, SameMake, TypeOK
<1>5. Up' /\ SetupFacts' /\ SetupDone' /\ Seen' /\ WarmupFacts' /\ Proxied' /\ Accepted' /\ Ends'
  BY <1>1, <1>2, <1>4, Domains
     DEF Up, SetupFacts, SetupDone, Seen, WarmupFacts, Proxied, Accepted, Ends, Places, Running,
         GuestLabels, InSetup, InWarmup
<1> QED  BY <1>3, <1>4, <1>5 DEF IInv

\* Without a VM little remains to be kept.
LEMMA NoVmKeeps ==
  ASSUME IInv, vm' = NoVm, UNCHANGED <<host, session>>, broke' \in SUBSET Troubles,
         broke \subseteq broke',
         \/ pc' = pc /\ "gone" \in broke'
         \/ pc' = "launch" /\ pc = "delete"
  PROVE  IInv'
<1>1. UNCHANGED <<host, want, proxy, phase, call>>
  BY DEF session
<1>2. TypeOK'
  BY <1>1, NoVmType DEF IInv, TypeOK, Labels, VmLabels
<1>3. Places' /\ Disk'
  BY <1>1, NoVmType, Domains DEF IInv, Places, Disk, Exists
<1>4. Up' /\ SetupDone' /\ Seen' /\ WarmupFacts' /\ Proxied' /\ Accepted'
  BY <1>1, NoVmType, Domains
     DEF Up, SetupDone, Seen, WarmupFacts, Proxied, Accepted, Exists, Running,
         GuestLabels, InSetup, InWarmup
<1>5. SetupFacts'
  BY <1>1, NoVmType, Domains DEF IInv, SetupFacts, InSetup, Exists
<1>6. Ends'
  BY NoVmType, <1>1 DEF IInv, Ends, Running, Good, Exists
<1> QED  BY <1>2, <1>3, <1>4, <1>5, <1>6 DEF IInv

LEMMA DeleteKeeps == IInv /\ Delete => IInv'
  BY NoVmKeeps DEF Delete, Goto, IInv, TypeOK

LEMMA LaunchKeeps == IInv /\ Launch => IInv'
<1> SUFFICES ASSUME IInv, Launch
             PROVE  IInv'
  OBVIOUS
<1>1. /\ pc = "launch" /\ pc' = "prepare"
      /\ vm' = [NoVm EXCEPT !.state = "running", !.base = want.base, !.tag = want.tag]
      /\ UNCHANGED <<host, want, proxy, phase, call, broke>>
  BY DEF Launch, Goto, session
<1>2. /\ vm' \in VmType /\ vm'.state = "running" /\ ~vm'.due /\ ~vm'.refresh
      /\ vm'.base = want.base /\ vm'.tag = want.tag
      /\ vm'.conf = NoConf /\ vm'.mounts = {} /\ vm'.parts = {}
  BY <1>1, LaunchType DEF IInv, TypeOK
<1>3. TypeOK'
  BY <1>1, <1>2 DEF IInv, TypeOK, Labels, VmLabels
<1>4. Places' /\ Disk'
  BY <1>1, <1>2, Domains DEF IInv, Places, Disk, Exists, NoConf
<1>5. Up' /\ SetupFacts' /\ SetupDone' /\ Seen' /\ WarmupFacts' /\ Proxied' /\ Accepted' /\ Ends'
  BY <1>1, <1>2, Domains
     DEF Up, SetupFacts, SetupDone, Seen, WarmupFacts, Proxied, Accepted, Ends, Running,
         GuestLabels, InSetup, InWarmup, NoConf
<1> QED  BY <1>3, <1>4, <1>5 DEF IInv

LEMMA PrepareKeeps == IInv /\ Prepare => IInv'
<1> SUFFICES ASSUME IInv, Prepare
             PROVE  IInv'
  OBVIOUS
<1>1. /\ pc = "prepare" /\ pc' = "unset" /\ phase' = "setup" /\ Running
      /\ UNCHANGED <<host, vm, want, proxy, call, broke>>
  BY DEF Prepare, Goto
<1>2. TypeOK'
  BY <1>1, Domains DEF IInv, TypeOK, Labels, GuestLabels
<1>3. Places' /\ Disk'
  BY <1>1, Domains DEF IInv, Places, Disk, Exists
<1>4. SetupFacts' /\ SetupDone'
  BY <1>1, Domains, Ranks, DoneFirst DEF IInv, SetupFacts, SetupDone, Exists, InSetup
<1>5. Up' /\ Seen' /\ WarmupFacts' /\ Proxied' /\ Accepted' /\ Ends'
  BY <1>1, Domains
     DEF IInv, Up, Seen, WarmupFacts, Proxied, Accepted, Ends, Running, GuestLabels, InWarmup
<1> QED  BY <1>2, <1>3, <1>4, <1>5 DEF IInv

\* The way from the checks of a warmup to the deletion.
LEMMA RejectKeeps ==
  ASSUME IInv, InWarmup, pc' = "delete", UNCHANGED <<host, vm, session>>,
         broke' \in SUBSET Troubles, broke \subseteq broke',
         ~Good \/ broke' \cap {"gone", "unread"} # {}, pc \notin Waits
  PROVE  IInv'
<1>1. UNCHANGED <<host, vm, want, proxy, phase, call>>
  BY DEF session
<1>2. TypeOK'
  BY <1>1 DEF IInv, TypeOK, Labels, VmLabels
<1>3. Places' /\ Disk'
  BY <1>1, Domains DEF IInv, Places, Disk, Exists, InWarmup
<1>4. Up' /\ SetupFacts' /\ SetupDone' /\ Seen' /\ WarmupFacts' /\ Proxied' /\ Accepted'
  BY <1>1, Domains
     DEF Up, SetupFacts, SetupDone, Seen, WarmupFacts, Proxied, Accepted,
         GuestLabels, InSetup, InWarmup
<1>5. Ends'
  BY <1>1 DEF Ends, Good, OsFits
<1> QED  BY <1>2, <1>3, <1>4, <1>5 DEF IInv

LEMMA CheckSetupKeeps == IInv /\ CheckSetup => IInv'
<1> SUFFICES ASSUME IInv, CheckSetup
             PROVE  IInv'
  OBVIOUS
<1>1. pc = "completed" /\ phase = "warmup" /\ InWarmup /\ pc \notin Waits /\ pc \in GuestLabels
  BY Domains DEF CheckSetup, IInv, Places, TypeOK, InWarmup, GuestLabels
<1>2. broke \in SUBSET Troubles /\ broke \cup {"unread"} \in SUBSET Troubles
  BY DEF IInv, TypeOK, Troubles
<1>3. CASE Running /\ vm.conf.setup /\ Forward /\ UNCHANGED <<host, vm, session, broke>>
  <2>1. pc' = "image" /\ UNCHANGED <<host, vm, want, proxy, phase, call, broke>>
    BY <1>1, <1>3, WarmupOrder DEF Forward, Goto, session
  <2>2. TypeOK'
    BY <2>1, Domains DEF IInv, TypeOK, Labels, GuestLabels
  <2>3. Places' /\ Disk'
    BY <1>1, <2>1, Domains DEF IInv, Places, Disk, Exists
  <2>4. Up' /\ SetupFacts' /\ SetupDone' /\ Seen' /\ WarmupFacts' /\ Proxied' /\ Accepted' /\ Ends'
    BY <1>1, <1>3, <2>1, Domains
       DEF IInv, Up, SetupFacts, SetupDone, Seen, WarmupFacts, Proxied, Accepted, Ends, Running,
           GuestLabels, InSetup, InWarmup
  <2> QED  BY <2>2, <2>3, <2>4 DEF IInv
<1>4. CASE ~(Running /\ vm.conf.setup) /\ Incompatible
  <2>1. ~Good \/ "gone" \in broke
    BY <1>1, <1>4 DEF IInv, Up, Good
  <2> QED  BY <1>1, <1>2, <1>4, <2>1, RejectKeeps DEF Incompatible, Goto
<1>5. CASE pc' = "delete" /\ broke' = broke \cup {"unread"} /\ UNCHANGED <<host, vm, session>>
  BY <1>1, <1>2, <1>5, RejectKeeps
<1> QED  BY <1>3, <1>4, <1>5 DEF CheckSetup, Goto

-----------------------------------------------------------------------------
(* The steps of the setup *)

\* A step of the setup that moves on, with a VM of which it has changed the disk only.
LEMMA SetupForward ==
  ASSUME IInv, InSetup, pc \notin Waits \cup {"proxy", "finish"}, Running,
         pc' = SetupNext[pc], UNCHANGED <<host, session>>,
         broke' \in SUBSET Troubles, broke \subseteq broke',
         vm' \in VmType, vm'.state = vm.state, vm'.due = vm.due, vm'.refresh = vm.refresh,
         vm'.online = vm.online \/ pc = "network", SameMake(vm, vm'),
         vm'.proxy = vm.proxy, vm'.mounts = vm.mounts \/ pc = "cache",
         vm.parts \cup ({pc} \cap Parts) \subseteq vm'.parts,
         vm'.conf.setup => vm'.parts = Parts /\ ~vm'.refresh,
         vm'.conf.tag \in {vm.tag, Nothing},
         pc = "unset" => vm'.conf.tag = Nothing
  PROVE  IInv'
<1>1. UNCHANGED <<host, want, proxy, phase, call>>
  BY DEF session
<1>2. /\ pc' \in DOMAIN SetupNext /\ Rank[pc'] = Rank[pc] + 1
      /\ Done(pc') = Done(pc) \cup ({pc} \cap Parts)
  BY DoneNext DEF InSetup
<1>3. Running' /\ Exists /\ Exists'
  BY DEF Running, Exists
<1>4. InSetup' /\ phase' = "setup" /\ phase = "setup"
  BY <1>1, <1>2 DEF InSetup
<1>5. TypeOK'
  BY <1>1, <1>2 DEF IInv, TypeOK, Labels, GuestLabels
<1>6. call = NewCall /\ call.result = "none"
  BY Domains, NewCallFacts DEF IInv, Places, InSetup
<1>7. Places'
  BY <1>1, <1>2, <1>4, <1>6 DEF IInv, Places
<1>8. Disk'
  BY <1>3 DEF Disk, SameMake
<1>9. Up'
  BY <1>1, <1>3 DEF IInv, Up, Running, InSetup, GuestLabels
<1>10. SetupFacts'
  <2>1. vm.base = want.base /\ vm.tag = want.tag
    BY <1>3 DEF IInv, SetupFacts
  <2>2. pc' \in {"prepare", "unset", "image"} => pc = "unset"
    BY <1>2, Domains, SetupOrder DEF InSetup
  <2> QED  BY <1>1, <2>1, <2>2 DEF SetupFacts, SameMake
<1>11. SetupDone'
  <2>1. Done(pc) \subseteq vm.parts
    BY <1>3 DEF IInv, SetupDone
  <2>2. Rank[pc'] > 10 => Rank[pc] > 10
    BY <1>2, Domains, Ranks DEF InSetup
  <2>3. Rank[pc'] > 18 => Rank[pc] > 18
    BY <1>2, Domains, Ranks DEF InSetup
  <2>4. pc = "network" => ~(Rank[pc'] > 10)
    BY <1>2, Ranks
  <2> QED  BY <1>2, <1>3, <2>1, <2>2, <2>3, <2>4 DEF IInv, SetupDone
<1>12. Seen' /\ WarmupFacts'
  BY <1>1, <1>4, <1>6 DEF Seen, WarmupFacts, InWarmup
<1>13. Proxied'
  <2>1. pc' \in {"snaps", "cleanup", "finish", "use"} => pc \in {"snaps", "cleanup", "finish", "use"}
    BY Domains, SetupOrder DEF InSetup
  <2> QED  BY <1>1, <1>3, <2>1 DEF IInv, Proxied
<1>14. Accepted' /\ Ends'
  BY <1>2, Domains DEF Accepted, Ends
<1> QED  BY <1>5, <1>7, <1>8, <1>9, <1>10, <1>11, <1>12, <1>13, <1>14 DEF IInv

\* A part of the setup that warmup() does not have.
LEMMA LeavesKeeps ==
  ASSUME IInv, NEW part \in Parts \ {"snaps", "network"}, Leaves(part)
  PROVE  IInv'
<1>1. /\ pc = part /\ Running /\ vm' = [vm EXCEPT !.parts = @ \cup {part}] /\ Forward
      /\ UNCHANGED <<host, session, broke>>
  BY DEF Leaves
<1>2. /\ vm' \in VmType /\ SameRun(vm, vm') /\ SameMake(vm, vm') /\ vm'.conf = vm.conf
      /\ vm'.proxy = vm.proxy /\ vm'.mounts = vm.mounts /\ vm'.parts = vm.parts \cup {part}
  BY <1>1, PartType DEF IInv, TypeOK
<1>3. InSetup /\ pc \notin Waits \cup {"proxy", "finish", "unset"}
  BY <1>1, Domains DEF IInv, TypeOK, Places, InSetup, Parts
<1>4. vm'.conf.setup => vm'.parts = Parts /\ ~vm'.refresh
  BY <1>2 DEF IInv, Disk, SameRun
<1>5. vm'.conf.tag \in {vm.tag, Nothing}
  BY <1>2 DEF IInv, Disk
<1>6. pc' = SetupNext[pc]
  BY <1>1, <1>3 DEF Forward, Goto, InSetup
<1>7. broke' \in SUBSET Troubles
  BY <1>1 DEF IInv, TypeOK
<1> QED  BY <1>1, <1>2, <1>3, <1>4, <1>5, <1>6, <1>7, SetupForward DEF SameRun

LEMMA NeedsAptKeeps ==
  ASSUME IInv, NEW part \in {"update", "packages", "snapd", "cleanup"}, NeedsApt(part)
  PROVE  IInv'
<1>1. part \in Parts \ {"snaps", "network"}
  BY DEF Parts
<1>2. CASE Leaves(part)
  BY <1>1, <1>2, LeavesKeeps
<1>3. CASE pc = part /\ Running /\ (~vm.online \/ vm.apt) /\ Raise(IF vm.apt THEN "apt" ELSE "offline")
  <2>1. InSetup
    BY <1>3, Domains DEF IInv, TypeOK, Places, InSetup
  <2>2. vm.online
    BY <1>3, <2>1, Ranks DEF IInv, SetupDone
  <2>3. Raise("apt")
    BY <1>3, <2>2
  <2> QED  BY <2>3, RaiseKeeps DEF Troubles
<1> QED  BY <1>2, <1>3 DEF NeedsApt

\* An update of the configuration, of which the part that was not read is lost.
LEMMA ConfKeeps ==
  ASSUME IInv, InSetup, pc \in {"unset", "tagging"}, Running,
         NEW conf \in [setup : BOOLEAN, tag : Tags \cup {Nothing}],
         vm' = [vm EXCEPT !.conf = conf], conf.setup => vm.conf.setup,
         conf.tag \in {vm.tag, Nothing}, pc = "unset" => conf.tag = Nothing,
         Forward, UNCHANGED <<host, session>>, broke' \in {broke, broke \cup {"unread"}}
  PROVE  IInv'
<1>1. /\ vm' \in VmType /\ SameRun(vm, vm') /\ SameMake(vm, vm') /\ vm'.conf = conf
      /\ vm'.proxy = vm.proxy /\ vm'.mounts = vm.mounts /\ vm'.parts = vm.parts
  BY ConfType DEF IInv, TypeOK
<1>2. vm'.conf.setup => vm'.parts = Parts /\ ~vm'.refresh
  BY <1>1 DEF IInv, Disk, SameRun
<1>3. {pc} \cap Parts = {} /\ pc \notin Waits \cup {"proxy", "finish"}
  BY Domains DEF Parts
<1>4. broke' \in SUBSET Troubles
  BY DEF IInv, TypeOK, Troubles
<1>5. pc' = SetupNext[pc]
  BY DEF Forward, Goto, InSetup
<1> QED  BY <1>1, <1>2, <1>3, <1>4, <1>5, SetupForward DEF SameRun

\* What update() may write: the configuration, or a new one, with another entry.
LEMMA Written ==
  ASSUME IInv, NEW conf \in {vm.conf, NoConf}
  PROVE  /\ conf.setup => vm.conf.setup
         /\ conf.tag \in {vm.conf.tag, Nothing}
         /\ \A b \in BOOLEAN :
              /\ [conf EXCEPT !.setup = b] \in [setup : BOOLEAN, tag : Tags \cup {Nothing}]
              /\ [conf EXCEPT !.setup = b].setup = b
              /\ [conf EXCEPT !.setup = b].tag = conf.tag
         /\ \A t \in Tags :
              /\ [conf EXCEPT !.tag = t] \in [setup : BOOLEAN, tag : Tags \cup {Nothing}]
              /\ [conf EXCEPT !.tag = t].setup = conf.setup
              /\ [conf EXCEPT !.tag = t].tag = t
<1>1. vm.conf \in [setup : BOOLEAN, tag : Tags \cup {Nothing}]
  BY DEF IInv, TypeOK, VmType
<1>2. /\ NoConf \in [setup : BOOLEAN, tag : Tags \cup {Nothing}]
      /\ NoConf.setup = FALSE /\ NoConf.tag = Nothing
  BY DEF NoConf
<1>3. conf \in [setup : BOOLEAN, tag : Tags \cup {Nothing}]
  BY <1>1, <1>2
<1>4. (conf.setup => vm.conf.setup) /\ conf.tag \in {vm.conf.tag, Nothing}
  BY <1>2
<1> QED  BY <1>3, <1>4

LEMMA UnsetKeeps == IInv /\ Unset => IInv'
<1> SUFFICES ASSUME IInv, Unset
             PROVE  IInv'
  OBVIOUS
<1>1. PICK conf \in {vm.conf, NoConf} :
        Load(conf) /\ vm' = [vm EXCEPT !.conf = [conf EXCEPT !.setup = FALSE]]
  BY DEF Unset, Update
<1>2. PICK new : new = [conf EXCEPT !.setup = FALSE]
  OBVIOUS
<1>3. InSetup /\ Exists
  BY Domains DEF Unset, IInv, TypeOK, Places, InSetup, Running, Exists
<1>4. vm.conf.tag = Nothing
  BY <1>3 DEF Unset, IInv, SetupFacts
<1>5. /\ new \in [setup : BOOLEAN, tag : Tags \cup {Nothing}]
      /\ ~new.setup /\ new.tag = Nothing
  BY <1>2, <1>4, Written
<1> QED  BY <1>1, <1>2, <1>3, <1>5, ConfKeeps DEF Unset, Load

LEMMA TaggingKeeps == IInv /\ Tagging => IInv'
<1> SUFFICES ASSUME IInv, Tagging
             PROVE  IInv'
  OBVIOUS
<1>1. PICK conf \in {vm.conf, NoConf} :
        Load(conf) /\ vm' = [vm EXCEPT !.conf = [conf EXCEPT !.tag = want.tag]]
  BY DEF Tagging, Update
<1>2. PICK new : new = [conf EXCEPT !.tag = want.tag]
  OBVIOUS
<1>3. InSetup /\ Exists
  BY Domains DEF Tagging, IInv, TypeOK, Places, InSetup, Running, Exists
<1>4. vm.tag = want.tag /\ want.tag \in Tags
  BY <1>3 DEF IInv, SetupFacts, TypeOK, Kinds
<1>5. /\ new \in [setup : BOOLEAN, tag : Tags \cup {Nothing}]
      /\ (new.setup => vm.conf.setup) /\ new.tag = want.tag
  BY <1>2, <1>4, Written
<1> QED  BY <1>1, <1>2, <1>3, <1>4, <1>5, ConfKeeps DEF Tagging, Load

LEMMA NetworkKeeps == IInv /\ Network => IInv'
<1> SUFFICES ASSUME IInv, Network
             PROVE  IInv'
  OBVIOUS
<1>1. /\ pc = "network" /\ Running /\ Forward /\ UNCHANGED <<host, session, broke>>
      /\ vm' = [vm EXCEPT !.parts = @ \cup {"network"}, !.online = FALSE]
  BY DEF Network
<1>2. /\ vm' \in VmType /\ vm'.state = vm.state /\ vm'.due = vm.due /\ vm'.refresh = vm.refresh
      /\ SameMake(vm, vm') /\ vm'.conf = vm.conf /\ vm'.proxy = vm.proxy
      /\ vm'.mounts = vm.mounts /\ vm'.parts = vm.parts \cup {"network"}
  BY <1>1, NetworkType DEF IInv, TypeOK
<1>3. InSetup /\ pc \notin Waits \cup {"proxy", "finish", "unset"} /\ "network" \in Parts
  BY <1>1, Domains DEF IInv, TypeOK, Places, InSetup, Parts
<1>4. vm'.conf.setup => vm'.parts = Parts /\ ~vm'.refresh
  BY <1>2, <1>3 DEF IInv, Disk
<1>5. vm'.conf.tag \in {vm.tag, Nothing}
  BY <1>2 DEF IInv, Disk
<1>6. pc' = SetupNext[pc]
  BY <1>1, <1>3 DEF Forward, Goto, InSetup
<1>7. broke' \in SUBSET Troubles
  BY <1>1 DEF IInv, TypeOK
<1> QED  BY <1>1, <1>2, <1>3, <1>4, <1>5, <1>6, <1>7, SetupForward

\* The flag is set when every step of the setup has left its part.
LEMMA FinishKeeps == IInv /\ Finish => IInv'
<1> SUFFICES ASSUME IInv, Finish
             PROVE  IInv'
  OBVIOUS
<1>1. PICK conf \in {vm.conf, NoConf} :
        Load(conf) /\ vm' = [vm EXCEPT !.conf = [conf EXCEPT !.setup = TRUE]]
  BY DEF Finish, Update
<1>2. PICK new : new = [conf EXCEPT !.setup = TRUE]
  OBVIOUS
<1>3. pc = "finish" /\ Running /\ Exists /\ InSetup /\ UNCHANGED <<host, want, proxy, phase, call>>
  BY Domains DEF Finish, IInv, TypeOK, Places, InSetup, Running, Exists, session
<1>4. pc' = "use"
  BY <1>3, SetupOrder DEF Finish, Forward, Goto, InSetup
<1>5. vm.conf.tag \in {vm.tag, Nothing}
  BY DEF IInv, Disk
<1>6. /\ new \in [setup : BOOLEAN, tag : Tags \cup {Nothing}]
      /\ new.setup /\ new.tag \in {vm.tag, Nothing}
  BY <1>2, <1>5, Written
<1>7. /\ vm' \in VmType /\ SameRun(vm, vm') /\ SameMake(vm, vm') /\ vm'.conf = new
      /\ vm'.proxy = vm.proxy /\ vm'.mounts = vm.mounts /\ vm'.parts = vm.parts
  <2>1. vm' = [vm EXCEPT !.conf = new]
    BY <1>1, <1>2
  <2>2. vm \in VmType
    BY DEF IInv, TypeOK
  <2> QED  BY <1>6, <2>1, <2>2, ConfType
<1>8. vm.parts = Parts /\ ~vm.refresh
  <2>1. Parts \subseteq vm.parts /\ ~vm.refresh
    BY <1>3, DoneLast, Ranks DEF IInv, SetupDone
  <2> QED  BY <2>1, Fields DEF IInv, TypeOK
<1>9. broke' \in SUBSET Troubles /\ broke \subseteq broke'
  BY <1>1 DEF Load, IInv, TypeOK, Troubles
<1>10. TypeOK'
  BY <1>3, <1>4, <1>7, <1>9 DEF IInv, TypeOK, Labels, VmLabels
<1>11. Places' /\ Disk'
  BY <1>3, <1>4, <1>6, <1>7, <1>8, Domains
     DEF IInv, Places, Disk, Exists, Running, SameRun, SameMake, InSetup
<1>12. Up'
  BY <1>3, <1>7, <1>9 DEF IInv, Up, InSetup, GuestLabels, Running, SameRun
<1>13. SetupFacts' /\ SetupDone' /\ Seen' /\ WarmupFacts' /\ Ends'
  BY <1>4, Domains DEF SetupFacts, SetupDone, Seen, WarmupFacts, Ends, InSetup, InWarmup
<1>14. Proxied'
  BY <1>3, <1>7 DEF IInv, Proxied
<1>15. Accepted'
  <2>1. vm.base = want.base /\ vm.tag = want.tag
    BY <1>3 DEF IInv, SetupFacts
  <2> QED  BY <1>3, <1>6, <1>7, <2>1 DEF Accepted, OsFits, SameMake
<1> QED  BY <1>10, <1>11, <1>12, <1>13, <1>14, <1>15 DEF IInv

-----------------------------------------------------------------------------
(* The steps that warmup() has, too *)

\* ... in which phase and on which VM
LEMMA StepPlaces ==
  ASSUME IInv, pc \in GuestLabels
  PROVE  /\ InSetup \/ InWarmup
         /\ pc \notin Waits => call = NewCall /\ call.result = "none"
  BY Domains, NewCallFacts DEF IInv, TypeOK, Places, InSetup, InWarmup, GuestLabels

\* A step that moves on in a warmup, with the disk of the VM as it is; the proxy and
\* the snaps may be set again.
LEMMA WarmupForward ==
  ASSUME IInv, InWarmup, pc # "completed", pc' = WarmupNext[pc], UNCHANGED <<host, want, proxy, phase>>,
         call' = NewCall, broke' \in SUBSET Troubles, broke \subseteq broke',
         vm' \in VmType, SameRun(vm, vm'), SameMake(vm, vm'), vm'.conf = vm.conf,
         vm'.mounts = vm.mounts \/ (pc = "cache" /\ Exists), vm.parts \subseteq vm'.parts,
         (vm'.proxy = vm.proxy /\ pc # "proxy") \/ vm'.proxy = proxy,
         pc = "image" => OsFits /\ (TagFits \/ "unread" \in broke')
  PROVE  IInv'
<1>1. /\ pc' \in {"cache", "sysready", "online", "permissions", "proxy", "snaps", "use"}
      /\ pc' \in GuestLabels \cup {"use"} /\ phase = "warmup"
  BY WarmupOrder, Domains DEF InWarmup, GuestLabels
<1>2. Exists <=> Exists'
  BY DEF SameRun, Exists
<1>3. TypeOK'
  BY <1>1, NewCallFacts DEF IInv, TypeOK, Labels, VmLabels
<1>4. Places'
  BY <1>1, Domains, NewCallFacts DEF IInv, Places
<1>5. Disk'
  <2>1. vm'.conf.setup => vm'.parts = Parts
    BY DEF IInv, Disk, TypeOK, VmType
  <2> QED  BY <1>2, <2>1 DEF IInv, Disk, SameRun, SameMake
<1>6. Up'
  BY <1>1 DEF IInv, Up, InWarmup, GuestLabels, Running, SameRun
<1>7. SetupFacts' /\ SetupDone' /\ Ends'
  BY <1>1, Domains DEF SetupFacts, SetupDone, Ends, InSetup
<1>8. Seen'
  BY <1>1, NewCallFacts, Domains DEF Seen, InSetup
<1>10. Exists => vm.conf.setup
  BY DEF IInv, WarmupFacts
<1>11. Exists => OsFits' /\ (TagFits' \/ "unread" \in broke')
  BY <1>2 DEF IInv, WarmupFacts, OsFits, TagFits, SameMake
<1>12. WarmupFacts'
  BY <1>2, <1>10, <1>11 DEF WarmupFacts
<1>13. Proxied'
  <2>1. pc' \in {"snaps", "cleanup", "finish", "use"} => pc \in {"proxy", "snaps"}
    BY WarmupOrder, Domains DEF InWarmup
  <2> QED  BY <1>2, <2>1 DEF IInv, Proxied
<1>14. Accepted'
  BY <1>2, <1>10, <1>11 DEF IInv, Disk, Accepted, TagFits, SameMake
<1> QED  BY <1>3, <1>4, <1>5, <1>6, <1>7, <1>8, <1>12, <1>13, <1>14 DEF IInv

LEMMA SamePlain == vm' = vm => SameRun(vm, vm') /\ SameMake(vm, vm') /\ SameDisk(vm, vm')
  BY DEF SameRun, SameMake, SameDisk

LEMMA ImageCheckKeeps == IInv /\ ImageCheck => IInv'
<1> SUFFICES ASSUME IInv, ImageCheck
             PROVE  IInv'
  OBVIOUS
<1>1. pc = "image" /\ Running /\ Exists /\ pc \in GuestLabels /\ pc \notin Waits
  BY Domains DEF ImageCheck, Running, Exists, GuestLabels
<1>2. call = NewCall
  BY <1>1, StepPlaces
<1>3. broke \in SUBSET Troubles /\ broke \cup {"unread"} \in SUBSET Troubles /\ vm \in VmType
  BY DEF IInv, TypeOK, Troubles
<1>4. CASE InSetup
  <2>1. OsFits /\ TagFits
    BY <1>1, <1>4 DEF IInv, SetupFacts, OsFits, TagFits
  <2>2. pc' = SetupNext[pc] /\ UNCHANGED <<host, vm, session>>
        /\ broke' \in {broke, broke \cup {"unread"}}
    BY <1>4, <2>1 DEF ImageCheck, Forward, Goto, InSetup
  <2>3. {pc} \cap Parts = {} /\ pc \notin {"proxy", "finish", "unset", "network"}
    BY <1>1 DEF Parts
  <2>4. (vm.conf.setup => vm.parts = Parts /\ ~vm.refresh) /\ vm.conf.tag \in {vm.tag, Nothing}
    BY DEF IInv, Disk
  <2> QED  BY <1>1, <1>3, <1>4, <2>2, <2>3, <2>4, SetupForward DEF SameMake
<1>5. CASE InWarmup
  <2>1. CASE ~(OsFits /\ TagFits) /\ Incompatible
    <3>1. ~Good
      BY <2>1 DEF Good, TagFits
    <3> QED  BY <1>1, <1>3, <1>5, <2>1, <3>1, RejectKeeps DEF Incompatible, InWarmup, Goto
  <2>2. CASE Forward /\ UNCHANGED <<host, vm, session>> /\ OsFits
             /\ ((TagFits /\ UNCHANGED broke) \/ broke' = broke \cup {"unread"})
    <3>1. pc' = WarmupNext[pc] /\ UNCHANGED <<host, want, proxy, phase>> /\ call' = NewCall
      BY <1>2, <1>5, <2>2 DEF Forward, Goto, InWarmup, session
    <3> QED  BY <1>1, <1>3, <1>5, <2>2, <3>1, WarmupForward, SamePlain
  <2> QED  BY <2>1, <2>2 DEF ImageCheck
<1> QED  BY <1>1, <1>4, <1>5, StepPlaces

LEMMA MountCacheKeeps == IInv /\ MountCache => IInv'
<1> SUFFICES ASSUME IInv, MountCache
             PROVE  IInv'
  OBVIOUS
<1>1. pc = "cache" /\ pc \in GuestLabels /\ pc \notin Waits /\ UNCHANGED <<host, session, broke>>
      /\ Forward
  BY Domains DEF MountCache, GuestLabels
<1>2. call = NewCall /\ UNCHANGED <<want, proxy, phase, call>>
  BY <1>1, StepPlaces DEF session
<1>3. vm \in VmType /\ broke \in SUBSET Troubles
  BY DEF IInv, TypeOK
<1>4. vm' \in VmType /\ SameRun(vm, vm') /\ SameDisk(vm, vm') /\ (vm'.mounts = vm.mounts \/ Exists)
  <2>1. CASE vm' = vm
    BY <1>3, <2>1, SamePlain
  <2>2. CASE Exists /\ vm' = [vm EXCEPT !.mounts = @ \cup {"cache"}]
    <3>1. vm.mounts \cup {"cache"} \in SUBSET {"cache", "project"}
      BY <1>3, Fields
    <3> QED  BY <1>3, <2>2, <3>1, MountsType
  <2> QED  BY <2>1, <2>2 DEF MountCache
<1>5. CASE InWarmup
  <2>1. pc' = WarmupNext[pc]
    BY <1>1, <1>5 DEF Forward, Goto, InWarmup
  <2> QED  BY <1>1, <1>2, <1>3, <1>4, <1>5, <2>1, WarmupForward DEF SameDisk
<1>6. CASE InSetup
  <2>1. pc' = "environment" /\ phase' = "setup" /\ phase = "setup"
    BY <1>1, <1>2, <1>6, SetupOrder DEF Forward, Goto, InSetup
  <2>2. TypeOK'
    BY <1>1, <1>2, <1>3, <1>4, <2>1, Domains DEF IInv, TypeOK, Labels, GuestLabels
  <2>3. Places'
    BY <1>1, <1>2, <2>1, Domains DEF IInv, Places
  <2>4. Disk'
    BY <1>4 DEF IInv, Disk, Exists, SameRun, SameDisk, SameMake
  <2>5. Up'
    BY <1>1, <1>4 DEF IInv, Up, Running, SameRun
  <2>6. SetupFacts'
    BY <1>2, <1>4, <1>6, <2>1 DEF IInv, SetupFacts, Exists, SameRun, SameDisk, SameMake
  <2>7. SetupDone'
    <3>1. Done("environment") = Done("cache")
      BY SetupOrder, Domains, DoneNext DEF Parts
    <3> QED  BY <1>1, <1>4, <1>6, <2>1, <3>1, Ranks
             DEF IInv, SetupDone, Exists, SameRun, SameDisk
  <2>8. Seen' /\ WarmupFacts' /\ Proxied' /\ Accepted' /\ Ends'
    BY <2>1, Domains DEF Seen, WarmupFacts, Proxied, Accepted, Ends, InWarmup
  <2> QED  BY <2>2, <2>3, <2>4, <2>5, <2>6, <2>7, <2>8 DEF IInv
<1> QED  BY <1>1, <1>5, <1>6, StepPlaces

LEMMA AwaitedType ==
  ASSUME IInv, pc \in Waits
  PROVE  Awaited[pc] \in BOOLEAN
<1>1. vm.booted \in BOOLEAN /\ vm.online \in BOOLEAN /\ vm.refresh \in BOOLEAN
  BY DEF IInv, TypeOK, VmType
<1>2. SystemIsRunning \in BOOLEAN /\ NetworkIsUp \in BOOLEAN /\ RefreshesAreOver \in BOOLEAN
  BY <1>1 DEF SystemIsRunning, NetworkIsUp, RefreshesAreOver, Running
<1> QED  BY <1>2, Domains

\* An attempt keeps its call in time, and sees the VM as it is.
LEMMA TryKeeps == IInv /\ Try => IInv'
<1> SUFFICES ASSUME IInv, Try
             PROVE  IInv'
  OBVIOUS
<1>1. pc \in Waits /\ call.result = "none" /\ UNCHANGED <<host, vm, pc, want, proxy, phase, broke>>
  BY DEF Try
<1>2. PICK took \in 0 .. Budget(call) : call' = Attempt(call, took, Awaited[pc])
  BY DEF Try
<1>3. call \in Calls /\ InTime(call) /\ call.over = 0 /\ Awaited[pc] \in BOOLEAN
  BY <1>1, AwaitedType DEF IInv, TypeOK, Places
<1>10. took \in Nat /\ took <= Budget(call)
  BY <1>3, BudgetFacts
<1>4. call' \in Calls /\ InTime(call') /\ call'.over = 0
  BY <1>1, <1>2, <1>3, <1>10, AttemptInTime
<1>5. call'.result = "value" => Awaited[pc]
  BY <1>1, <1>2, <1>3 DEF Attempt, Called, Slept
<1>6. TypeOK' /\ Places'
  BY <1>1, <1>4 DEF IInv, TypeOK, Places
<1>7. Seen'
  BY <1>1, <1>5, Domains DEF Seen, NetworkIsUp, RefreshesAreOver, Running
<1>8. Disk' /\ Up' /\ Proxied' /\ Accepted' /\ Ends'
  BY <1>1 DEF IInv, Disk, Up, Proxied, Accepted, Ends, Exists, Running, OsFits, Good
<1>9. SetupFacts' /\ SetupDone' /\ WarmupFacts'
  BY <1>1
     DEF IInv, SetupFacts, SetupDone, WarmupFacts, InSetup, InWarmup, Exists, Running, OsFits, TagFits
<1> QED  BY <1>6, <1>7, <1>8, <1>9 DEF IInv

LEMMA WaitedKeeps == IInv /\ Waited => IInv'
<1> SUFFICES ASSUME IInv, Waited
             PROVE  IInv'
  OBVIOUS
<1>1. pc \in Waits /\ pc \in GuestLabels /\ call' = NewCall /\ UNCHANGED <<host, vm, want, proxy, phase>>
  BY Domains DEF Waited, GuestLabels
<1>2. vm \in VmType /\ broke \in SUBSET Troubles
  BY DEF IInv, TypeOK
<1>3. CASE call.result = "error" /\ Goto("raised") /\ broke' = broke \cup {"slow"}
  <2>1. TypeOK'
    BY <1>1, <1>3, NewCallFacts DEF IInv, TypeOK, Goto, Troubles
  <2>2. Places' /\ Disk'
    BY <1>1, <1>3, NewCallFacts, Domains DEF IInv, Places, Disk, Exists, Goto
  <2>3. Up' /\ SetupFacts' /\ SetupDone' /\ Seen' /\ WarmupFacts' /\ Proxied' /\ Accepted' /\ Ends'
    BY <1>1, <1>3, Domains
       DEF Up, SetupFacts, SetupDone, Seen, WarmupFacts, Proxied, Accepted, Ends, Troubles, Goto,
           GuestLabels, InSetup, InWarmup
  <2> QED  BY <2>1, <2>2, <2>3 DEF IInv
<1>4. CASE call.result = "value" /\ Forward /\ UNCHANGED broke /\ InWarmup
  <2>1. pc' = WarmupNext[pc] /\ pc \notin {"completed", "cache", "proxy", "image"}
    BY <1>1, <1>4, Domains DEF Forward, Goto, InWarmup
  <2> QED  BY <1>1, <1>2, <1>4, <2>1, WarmupForward, SamePlain
<1>5. CASE call.result = "value" /\ Forward /\ UNCHANGED broke /\ InSetup
  <2>1. pc' = SetupNext[pc] /\ phase = "setup" /\ phase' = "setup"
    BY <1>1, <1>5 DEF Forward, Goto, InSetup
  <2>2. pc' \in {"permissions", "aptconf", "proxy"}
    BY <1>1, <2>1, Domains, SetupOrder
  <2>3. Rank[pc'] = Rank[pc] + 1 /\ Done(pc') = Done(pc)
    BY <1>1, <2>1, Domains, DoneNext DEF Parts
  <2>4. TypeOK'
    BY <1>1, <1>5, <2>2, Domains, NewCallFacts DEF IInv, TypeOK, Labels, GuestLabels
  <2>5. Places' /\ Disk'
    BY <1>1, <2>1, <2>2, NewCallFacts, Domains DEF IInv, Places, Disk, Exists
  <2>6. Up'
    BY <1>1, <1>5 DEF IInv, Up, Running
  <2>7. SetupFacts'
    BY <1>1, <1>5, <2>2 DEF IInv, SetupFacts, Exists
  <2>8. SetupDone'
    <3>1. Rank[pc'] > 10 => Rank[pc] > 10 \/ pc = "online"
      BY <1>1, <2>3, Domains, Ranks
    <3>2. Rank[pc'] > 18 => Rank[pc] > 18 \/ pc = "watch"
      BY <1>1, <2>3, Domains, Ranks
    <3> QED  BY <1>1, <1>5, <2>3, <3>1, <3>2 DEF IInv, SetupDone, Seen, Exists, Running
  <2>9. Seen' /\ WarmupFacts' /\ Proxied' /\ Accepted' /\ Ends'
    BY <2>1, <2>2, Domains DEF Seen, WarmupFacts, Proxied, Accepted, Ends, InWarmup
  <2> QED  BY <2>4, <2>5, <2>6, <2>7, <2>8, <2>9 DEF IInv
<1> QED  BY <1>1, <1>3, <1>4, <1>5, StepPlaces DEF Waited

LEMMA PermissionsKeeps == IInv /\ Permissions => IInv'
<1> SUFFICES ASSUME IInv, Permissions
             PROVE  IInv'
  OBVIOUS
<1>1. pc = "permissions" /\ pc \in GuestLabels /\ pc \notin Waits /\ Forward
      /\ UNCHANGED <<host, vm, session, broke>>
  BY Domains DEF Permissions, GuestLabels
<1>2. call = NewCall /\ UNCHANGED <<want, proxy, phase, call>>
  BY <1>1, StepPlaces DEF session
<1>3. vm \in VmType /\ broke \in SUBSET Troubles
  BY DEF IInv, TypeOK
<1>4. CASE InWarmup
  <2>1. pc' = WarmupNext[pc]
    BY <1>1, <1>4 DEF Forward, Goto, InWarmup
  <2> QED  BY <1>1, <1>2, <1>3, <1>4, <2>1, WarmupForward, SamePlain
<1>5. CASE InSetup
  <2>1. pc' = "network" /\ phase' = "setup" /\ phase = "setup"
    BY <1>1, <1>2, <1>5, SetupOrder DEF Forward, Goto, InSetup
  <2>2. TypeOK'
    BY <1>1, <1>2, <2>1, Domains DEF IInv, TypeOK, Labels, GuestLabels
  <2>3. Places' /\ Disk'
    BY <1>1, <1>2, <2>1, Domains DEF IInv, Places, Disk, Exists
  <2>4. Up' /\ SetupFacts'
    BY <1>1, <1>2, <1>5, <2>1 DEF IInv, Up, SetupFacts, Running, Exists
  <2>5. SetupDone'
    <3>1. Done("network") = Done("permissions")
      BY SetupOrder, Domains, DoneNext DEF Parts
    <3> QED  BY <1>1, <1>5, <2>1, <3>1, Ranks DEF IInv, SetupDone, Exists
  <2>6. Seen' /\ WarmupFacts' /\ Proxied' /\ Accepted' /\ Ends'
    BY <2>1, Domains DEF Seen, WarmupFacts, Proxied, Accepted, Ends, InWarmup
  <2> QED  BY <2>2, <2>3, <2>4, <2>5, <2>6 DEF IInv
<1> QED  BY <1>1, <1>4, <1>5, StepPlaces

LEMMA SetProxyKeeps == IInv /\ SetProxy => IInv'
<1> SUFFICES ASSUME IInv, SetProxy
             PROVE  IInv'
  OBVIOUS
<1>1. /\ pc = "proxy" /\ pc \in GuestLabels /\ pc \notin Waits /\ Forward /\ Running
      /\ UNCHANGED <<host, session, broke>> /\ vm' = [vm EXCEPT !.proxy = proxy]
  BY Domains DEF SetProxy, GuestLabels
<1>2. call = NewCall /\ UNCHANGED <<want, proxy, phase, call>>
  BY <1>1, StepPlaces DEF session
<1>3. vm \in VmType /\ broke \in SUBSET Troubles /\ proxy \in Proxies
  BY DEF IInv, TypeOK
<1>4. /\ vm' \in VmType /\ SameRun(vm, vm') /\ SameMake(vm, vm')
      /\ vm'.conf = vm.conf /\ vm'.proxy = proxy /\ vm'.mounts = vm.mounts /\ vm'.parts = vm.parts
  BY <1>1, <1>3, ProxyType
<1>5. CASE InWarmup
  <2>1. pc' = WarmupNext[pc]
    BY <1>1, <1>5 DEF Forward, Goto, InWarmup
  <2> QED  BY <1>1, <1>2, <1>3, <1>4, <1>5, <2>1, WarmupForward
<1>6. CASE InSetup
  <2>1. pc' = "snaps" /\ phase' = "setup" /\ phase = "setup"
    BY <1>1, <1>2, <1>6, SetupOrder DEF Forward, Goto, InSetup
  <2>2. TypeOK'
    BY <1>1, <1>2, <1>3, <1>4, <2>1, Domains DEF IInv, TypeOK, Labels, GuestLabels
  <2>3. Places'
    BY <1>2, <2>1, Domains DEF IInv, Places
  <2>4. Disk'
    BY <1>4 DEF IInv, Disk, Exists, SameRun, SameMake
  <2>5. Up'
    BY <1>1, <1>4 DEF IInv, Up, Running, SameRun
  <2>6. SetupFacts'
    BY <1>2, <1>4, <1>6, <2>1 DEF IInv, SetupFacts, Exists, SameRun, SameMake
  <2>7. SetupDone'
    <3>1. Done("snaps") = Done("proxy")
      BY SetupOrder, Domains, DoneNext DEF Parts
    <3> QED  BY <1>1, <1>4, <1>6, <2>1, <3>1, Ranks DEF IInv, SetupDone, Exists, Running, SameRun
  <2>8. Proxied'
    BY <1>2, <1>4 DEF Proxied
  <2>9. Seen' /\ WarmupFacts' /\ Accepted' /\ Ends'
    BY <2>1, Domains DEF Seen, WarmupFacts, Accepted, Ends, InWarmup
  <2> QED  BY <2>2, <2>3, <2>4, <2>5, <2>6, <2>7, <2>8, <2>9 DEF IInv
<1> QED  BY <1>1, <1>5, <1>6, StepPlaces

\* Snaps are installed with the refreshes over, in a setup as in a warmup.
LEMMA SnapsFacts ==
  ASSUME IInv, pc = "snaps", Running
  PROVE  "hold" \in vm.parts /\ ~vm.refresh /\ vm.proxy = proxy
<1>1. Exists /\ (InSetup \/ InWarmup)
  BY Domains, StepPlaces DEF Running, Exists, GuestLabels
<1>2. vm.proxy = proxy
  BY <1>1 DEF IInv, Proxied
<1>3. CASE InSetup
  <2>1. "hold" \in Done(pc)
    BY Ranks DEF Done, Parts
  <2> QED  BY <1>1, <1>2, <1>3, <2>1, Ranks DEF IInv, SetupDone
<1>4. CASE InWarmup
  BY <1>1, <1>2, <1>4 DEF IInv, WarmupFacts, Disk, Parts
<1> QED  BY <1>1, <1>3, <1>4

LEMMA InstallSnapsKeeps == IInv /\ InstallSnaps => IInv'
<1> SUFFICES ASSUME IInv, InstallSnaps
             PROVE  IInv'
  OBVIOUS
<1>1. pc = "snaps" /\ Running /\ pc \in GuestLabels /\ pc \notin Waits
  BY Domains DEF InstallSnaps, Leaves, GuestLabels
<1>2. /\ Forward /\ UNCHANGED <<host, session, broke>>
      /\ vm' = [vm EXCEPT !.parts = @ \cup {"snaps"}]
  BY <1>1, SnapsFacts DEF InstallSnaps, Leaves
<1>3. call = NewCall /\ UNCHANGED <<want, proxy, phase, call>>
  BY <1>1, <1>2, StepPlaces DEF session
<1>4. vm \in VmType /\ broke \in SUBSET Troubles /\ "snaps" \in Parts
  BY DEF IInv, TypeOK, Parts
<1>5. /\ vm' \in VmType /\ SameRun(vm, vm') /\ SameMake(vm, vm')
      /\ vm'.conf = vm.conf /\ vm'.proxy = vm.proxy /\ vm'.mounts = vm.mounts
      /\ vm'.parts = vm.parts \cup {"snaps"}
  BY <1>2, <1>4, PartType
<1>6. CASE InWarmup
  <2>1. pc' = WarmupNext[pc]
    BY <1>2, <1>6 DEF Forward, Goto, InWarmup
  <2> QED  BY <1>1, <1>2, <1>3, <1>4, <1>5, <1>6, <2>1, WarmupForward
<1>7. CASE InSetup
  <2>1. pc' = SetupNext[pc]
    BY <1>2, <1>7 DEF Forward, Goto, InSetup
  <2>2. vm'.conf.setup => vm'.parts = Parts /\ ~vm'.refresh
    BY <1>4, <1>5 DEF IInv, Disk, SameRun
  <2>3. vm'.conf.tag \in {vm.tag, Nothing}
    BY <1>5 DEF IInv, Disk
  <2> QED  BY <1>1, <1>2, <1>4, <1>5, <1>7, <2>1, <2>2, <2>3, SetupForward DEF SameRun
<1> QED  BY <1>1, <1>6, <1>7, StepPlaces

-----------------------------------------------------------------------------
(* The body and its end *)

LEMMA MountProjectKeeps == IInv /\ MountProject => IInv'
<1> SUFFICES ASSUME IInv, MountProject
             PROVE  IInv'
  OBVIOUS
<1>1. pc = "use" /\ Running /\ UNCHANGED <<host, pc, want, proxy, phase, call, broke>>
      /\ vm' = [vm EXCEPT !.mounts = @ \cup {"project"}]
  BY DEF MountProject, session
<1>2. vm' \in VmType /\ SameRun(vm, vm') /\ SameDisk(vm, vm')
  <2>1. vm \in VmType /\ vm.mounts \cup {"project"} \in SUBSET {"cache", "project"}
    BY Fields DEF IInv, TypeOK
  <2> QED  BY <1>1, <2>1, MountsType
<1>3. TypeOK' /\ Places'
  BY <1>1, <1>2 DEF IInv, TypeOK, Places
<1>4. Disk' /\ Up'
  BY <1>1, <1>2 DEF IInv, Disk, Up, Exists, Running, SameRun, SameDisk, SameMake
<1>5. SetupFacts' /\ SetupDone' /\ Seen' /\ WarmupFacts' /\ Ends'
  BY <1>1, Domains DEF SetupFacts, SetupDone, Seen, WarmupFacts, Ends, InSetup, InWarmup
<1>6. Proxied' /\ Accepted'
  BY <1>1, <1>2 DEF IInv, Proxied, Accepted, Exists, OsFits, SameRun, SameDisk, SameMake
<1> QED  BY <1>3, <1>4, <1>5, <1>6 DEF IInv

\* After the body the session does nothing to the VM but unmount and stop.
LEMMA LeavingKeeps ==
  ASSUME IInv, pc \in {"use", "unmount", "stop"}, pc' \in {"unmount", "stop", "idle"},
         UNCHANGED <<host, session, broke>>, vm' \in VmType, SameDisk(vm, vm'),
         Exists', vm'.refresh => vm.refresh, Exists,
         pc' # "unmount" => vm'.mounts = {}, pc' = "idle" /\ Running' => vm'.due
  PROVE  IInv'
<1>1. UNCHANGED <<want, proxy, phase, call>>
  BY DEF session
<1>2. TypeOK'
  BY <1>1 DEF IInv, TypeOK, Labels, VmLabels
<1>3. Places' /\ Disk'
  BY <1>1, Domains DEF IInv, Places, Disk, SameDisk, SameMake
<1>4. Up' /\ SetupFacts' /\ SetupDone' /\ Seen' /\ WarmupFacts' /\ Proxied' /\ Accepted' /\ Ends'
  BY <1>1, Domains
     DEF Up, SetupFacts, SetupDone, Seen, WarmupFacts, Proxied, Accepted, Ends,
         GuestLabels, InSetup, InWarmup
<1> QED  BY <1>2, <1>3, <1>4 DEF IInv

LEMMA LeaveKeeps == IInv /\ Leave => IInv'
<1> SUFFICES ASSUME IInv, Leave
             PROVE  IInv'
  OBVIOUS
<1>1. pc = "use" /\ pc' = "unmount" /\ UNCHANGED <<host, vm, want, proxy, phase, call, broke>>
  BY DEF Leave, Goto, session
<1>2. TypeOK'
  BY <1>1 DEF IInv, TypeOK, Labels, VmLabels
<1>3. Places' /\ Disk'
  BY <1>1, Domains DEF IInv, Places, Disk, Exists
<1>4. Up' /\ SetupFacts' /\ SetupDone' /\ Seen' /\ WarmupFacts' /\ Proxied' /\ Accepted' /\ Ends'
  BY <1>1, Domains
     DEF Up, SetupFacts, SetupDone, Seen, WarmupFacts, Proxied, Accepted, Ends,
         GuestLabels, InSetup, InWarmup
<1> QED  BY <1>2, <1>3, <1>4 DEF IInv

LEMMA UnmountAllKeeps == IInv /\ UnmountAll => IInv'
<1> SUFFICES ASSUME IInv, UnmountAll
             PROVE  IInv'
  OBVIOUS
<1>1. pc = "unmount" /\ pc' = "stop" /\ Exists /\ vm' = [vm EXCEPT !.mounts = {}]
      /\ UNCHANGED <<host, session, broke>>
  BY DEF UnmountAll, Goto, Exists
<1>2. vm' \in VmType /\ SameRun(vm, vm') /\ SameDisk(vm, vm') /\ vm'.mounts = {}
  BY <1>1, MountsType DEF IInv, TypeOK
<1> QED  BY <1>1, <1>2, LeavingKeeps DEF SameRun, Exists

LEMMA StopKeeps == IInv /\ Stop => IInv'
<1> SUFFICES ASSUME IInv, Stop
             PROVE  IInv'
  OBVIOUS
<1>1. pc = "stop" /\ pc' = "idle" /\ Exists /\ vm.mounts = {} /\ vm \in VmType
      /\ UNCHANGED <<host, session, broke>>
  BY DEF Stop, Goto, Exists, IInv, Ends, TypeOK
<1>2. CASE vm' = Off(vm)
  BY <1>1, <1>2, OffType, LeavingKeeps DEF Exists, Running
<1>3. CASE Running /\ vm' = [vm EXCEPT !.due = TRUE]
  <2>1. /\ vm' \in VmType /\ SameDisk(vm, vm') /\ vm'.state = vm.state /\ vm'.due
        /\ vm'.refresh = vm.refresh /\ vm'.mounts = vm.mounts
    BY <1>1, <1>3 DEF VmType, SameDisk, SameMake
  <2> QED  BY <1>1, <2>1, LeavingKeeps DEF Exists
<1> QED  BY <1>2, <1>3 DEF Stop

-----------------------------------------------------------------------------
(* Around the session *)

LEMMA LostKeeps == IInv /\ Lost => IInv'
  BY RaiseKeeps DEF Lost, Troubles

LEMMA FailKeeps == IInv /\ (Fail \/ Crash) => IInv'
  BY RaiseKeeps DEF Fail, Crash, Troubles

LEMMA PruneKeeps == IInv /\ Prune => IInv'
<1> SUFFICES ASSUME IInv, Prune
             PROVE  IInv'
  OBVIOUS
<1>1. /\ vm' = NoVm /\ broke' = broke \cup {"gone"} /\ pc' = pc
      /\ UNCHANGED <<host, session>>
  BY DEF Prune
<1>2. broke' \in SUBSET Troubles
  BY <1>1 DEF IInv, TypeOK, Troubles
<1>3. broke \subseteq broke' /\ "gone" \in broke'
  BY <1>1
<1> QED  BY <1>1, <1>2, <1>3, NoVmKeeps

LEMMA TrashKeeps == IInv /\ Trash => IInv'
<1> SUFFICES ASSUME IInv, Trash
             PROVE  IInv'
  OBVIOUS
<1>1. /\ Exists /\ broke' = broke \cup {"gone"} /\ vm' = [Off(vm) EXCEPT !.state = "deleted"]
      /\ UNCHANGED <<host, pc, want, proxy, phase, call>>
  BY DEF Trash, session, Exists
<1>2. vm' \in VmType /\ vm'.state = "deleted" /\ ~vm'.refresh /\ SameDisk(vm, vm')
      /\ vm'.mounts = vm.mounts
  <2>1. PICK off : off = Off(vm)
    OBVIOUS
  <2>2. off \in VmType /\ ~off.refresh /\ SameDisk(vm, off) /\ off.mounts = vm.mounts
    BY <2>1, OffType DEF IInv, TypeOK
  <2>3. vm' = [off EXCEPT !.state = "deleted"]
    BY <1>1, <2>1
  <2> QED  BY <2>2, <2>3 DEF VmType, SameDisk, SameMake
<1>3. TypeOK'
  BY <1>1, <1>2 DEF IInv, TypeOK, Troubles
<1>4. Places' /\ Disk' /\ Up'
  BY <1>1, <1>2 DEF IInv, Places, Disk, Up, Exists, SameDisk, SameMake
<1>5. SetupFacts' /\ SetupDone' /\ Seen'
  BY <1>1, <1>2
     DEF IInv, SetupFacts, SetupDone, Seen, InSetup, Exists, Running, SameDisk, SameMake
<1>6. WarmupFacts' /\ Proxied' /\ Accepted'
  BY <1>1, <1>2
     DEF IInv, WarmupFacts, Proxied, Accepted, InWarmup, Exists, OsFits, TagFits, SameDisk, SameMake
<1>7. Ends'
  BY <1>1, <1>2 DEF IInv, Ends, Running, Good, OsFits, SameDisk, SameMake
<1> QED  BY <1>3, <1>4, <1>5, <1>6, <1>7 DEF IInv

LEMMA DaemonUpKeeps == IInv /\ DaemonUp => IInv'
<1> SUFFICES ASSUME IInv, DaemonUp
             PROVE  IInv'
  OBVIOUS
<1>1. UNCHANGED <<vm, pc, want, proxy, phase, call, broke>>
  BY DEF DaemonUp, session
<1>2. TypeOK'
  BY <1>1 DEF DaemonUp, IInv, TypeOK
<1>3. Places' /\ Disk' /\ Up' /\ Seen'
  BY <1>1 DEF IInv, Places, Disk, Up, Seen, Exists, Running, InSetup
<1>4. SetupFacts' /\ SetupDone' /\ WarmupFacts'
  BY <1>1
     DEF IInv, SetupFacts, SetupDone, WarmupFacts, InSetup, InWarmup, Exists, Running, OsFits, TagFits
<1>5. Proxied' /\ Accepted' /\ Ends'
  BY <1>1 DEF IInv, Proxied, Accepted, Ends, Exists, Running, OsFits, Good
<1> QED  BY <1>2, <1>3, <1>4, <1>5 DEF IInv

\* What the VM does by itself: with refreshes held it begins none, a network that is
\* up stays up, and only a delayed stop switches it off.
LEMMA VmStepKeeps == IInv /\ VmStep => IInv'
<1> SUFFICES ASSUME IInv, VmStep
             PROVE  IInv'
  OBVIOUS
<1>1. Running /\ Exists /\ UNCHANGED <<host, pc, want, proxy, phase, call, broke>>
  BY DEF VmStep, session, Running, Exists
<1>2. /\ vm' \in VmType /\ SameDisk(vm, vm') /\ vm'.mounts = vm.mounts
      /\ \/ vm'.state = "running" /\ vm'.due = vm.due
         \/ vm'.state = "stopped" /\ ~vm'.due /\ vm.due
      /\ vm'.refresh => vm.refresh \/ "hold" \notin vm.parts
      /\ vm'.state = "running" /\ vm.online => vm'.online
  BY VmStepType DEF IInv, TypeOK
<1>3. TypeOK' /\ Places'
  BY <1>1, <1>2 DEF IInv, TypeOK, Places
<1>4. Disk'
  BY <1>1, <1>2 DEF IInv, Disk, Exists, SameDisk, SameMake, Parts
<1>5. Up'
  BY <1>1, <1>2 DEF IInv, Up, Running
<1>6. SetupFacts'
  BY <1>1, <1>2 DEF IInv, SetupFacts, InSetup, Exists, SameDisk, SameMake
<1>7. InSetup /\ Rank[pc] > 17 => "hold" \in vm.parts
  <2>1. Rank[pc] > 17 => "hold" \in Done(pc)
    BY Ranks DEF Done, Parts
  <2> QED  BY <1>1, <2>1 DEF IInv, SetupDone
<1>8. SetupDone'
  <2>1. ASSUME InSetup
        PROVE  Rank[pc] > 18 => Rank[pc] > 17
    BY <2>1, Domains, Ranks DEF InSetup
  <2> QED  BY <1>1, <1>2, <1>7, <2>1 DEF IInv, SetupDone, InSetup, Running, SameDisk
<1>9. Seen'
  BY <1>1, <1>2, <1>7, Ranks DEF IInv, Seen, InSetup, Running
<1>10. WarmupFacts' /\ Proxied' /\ Accepted'
  BY <1>1, <1>2
     DEF IInv, WarmupFacts, Proxied, Accepted, InWarmup, Exists, OsFits, TagFits, SameDisk, SameMake
<1>11. Ends'
  BY <1>1, <1>2 DEF IInv, Ends, Running, Good, OsFits, SameDisk, SameMake
<1> QED  BY <1>3, <1>4, <1>5, <1>6, <1>8, <1>9, <1>10, <1>11 DEF IInv

LEMMA SetupStepKeeps == IInv /\ SetupStep => IInv'
<1> SUFFICES ASSUME IInv, SetupStep
             PROVE  IInv'
  OBVIOUS
<1>1. CASE Unset \/ Tagging \/ Network \/ Finish
  BY <1>1, UnsetKeeps, TaggingKeeps, NetworkKeeps, FinishKeeps
<1>2. CASE \/ Environment \/ DisableAutomaticApt \/ AptConf \/ PreSetupSnapd \/ EnableSnapd
           \/ HoldRefreshes
  BY <1>2, LeavesKeeps
     DEF Environment, DisableAutomaticApt, AptConf, PreSetupSnapd, EnableSnapd, HoldRefreshes, Parts
<1>3. CASE AptUpdate \/ InstallPackages \/ InstallSnapd \/ CleanUp
  BY <1>3, NeedsAptKeeps DEF AptUpdate, InstallPackages, InstallSnapd, CleanUp
<1> QED  BY <1>1, <1>2, <1>3 DEF SetupStep

LEMMA WarmupStepKeeps == IInv /\ WarmupStep => IInv'
  BY CheckSetupKeeps, ImageCheckKeeps, MountCacheKeeps, TryKeeps, WaitedKeeps, PermissionsKeeps,
     SetProxyKeeps, InstallSnapsKeeps DEF WarmupStep

LEMMA SessionKeeps == IInv /\ Session => IInv'
<1>1. IInv /\ Launching => IInv'
  BY LookUpKeeps, StartKeeps, DeleteKeeps, LaunchKeeps, PrepareKeeps DEF Launching
<1>2. IInv /\ Using => IInv'
  BY MountProjectKeeps, LeaveKeeps, UnmountAllKeeps, StopKeeps DEF Using
<1> QED  BY <1>1, <1>2, AvailableKeeps, SetupStepKeeps, WarmupStepKeeps, LostKeeps DEF Session

LEMMA StutterKeeps == IInv /\ UNCHANGED vars => IInv'
<1> SUFFICES ASSUME IInv, UNCHANGED vars
             PROVE  IInv'
  OBVIOUS
<1>1. UNCHANGED <<host, vm, pc, want, proxy, phase, call, broke>>
  BY DEF vars, session
<1>2. TypeOK' /\ Places' /\ Disk' /\ Up' /\ Seen'
  BY <1>1 DEF IInv, TypeOK, Places, Disk, Up, Seen, Exists, Running, InSetup
<1>3. SetupFacts' /\ SetupDone' /\ WarmupFacts'
  BY <1>1
     DEF IInv, SetupFacts, SetupDone, WarmupFacts, InSetup, InWarmup, Exists, Running, OsFits, TagFits
<1>4. Proxied' /\ Accepted' /\ Ends'
  BY <1>1 DEF IInv, Proxied, Accepted, Ends, Exists, Running, OsFits, Good
<1> QED  BY <1>2, <1>3, <1>4 DEF IInv

LEMMA StepInv == IInv /\ [Next]_vars => IInv'
  BY BeginKeeps, SessionKeeps, FailKeeps, PruneKeeps, TrashKeeps, DaemonUpKeeps, VmStepKeeps,
     StutterKeeps DEF Next

LEMMA Invariant == Spec => []IInv
<1>1. Init => IInv
  BY InitInv
<1>2. IInv /\ [Next]_vars => IInv'
  BY StepInv
<1> QED  BY <1>1, <1>2, PTL DEF Spec

-----------------------------------------------------------------------------
(* Every step of a session brings it nearer to its end *)

\* Every wait is given the same time.
Timed == call.deadline = Timeout /\ call.wait = RetryWait

LEMMA NewCallTimed ==
  NewCall.deadline = Timeout /\ NewCall.wait = RetryWait /\ NewCall.now = 0
  BY DEF NewCall, Call

\* No step but an attempt does anything to a call that goes on.
LEMMA CallsOnly ==
  ASSUME [Next]_vars
  PROVE  call' = call \/ call' = NewCall \/ Try
<1>1. CASE Prune \/ Trash \/ Fail \/ Crash \/ DaemonUp \/ VmStep \/ UNCHANGED vars
  BY <1>1 DEF Prune, Trash, Fail, Crash, Raise, DaemonUp, VmStep, vars, session
<1>2. CASE Begin
  BY <1>2 DEF Begin
<1>3. CASE Available
  BY <1>3 DEF Available, Ensure, Install, Await, Ready, Request, Raise, session
<1>4. CASE Launching \/ Using \/ Lost
  BY <1>4
     DEF Launching, LookUp, Start, Delete, Launch, Prepare, Using, MountProject, Leave,
         UnmountAll, Stop, Lost, Raise, session
<1>5. CASE SetupStep
  BY <1>5
     DEF SetupStep, Unset, Tagging, Environment, DisableAutomaticApt, Network, AptConf,
         AptUpdate, InstallPackages, PreSetupSnapd, InstallSnapd, EnableSnapd, HoldRefreshes,
         CleanUp, Finish, Leaves, NeedsApt, Raise, session
<1>6. CASE WarmupStep
  BY <1>6
     DEF WarmupStep, CheckSetup, ImageCheck, MountCache, Waited, Permissions, SetProxy,
         InstallSnaps, Incompatible, Leaves, Raise, session
<1> QED  BY <1>1, <1>2, <1>3, <1>4, <1>5, <1>6 DEF Next, Session

LEMMA TryTakes ==
  ASSUME call \in Calls, Try
  PROVE  \E took \in Nat : call' = Attempt(call, took, Awaited[pc])
<1>1. PICK took \in 0 .. Budget(call) : call' = Attempt(call, took, Awaited[pc])
  BY DEF Try
<1>2. took \in Nat
  BY BudgetFacts
<1> QED  BY <1>1, <1>2

LEMMA TimedKeeps == IInv /\ Timed /\ [Next]_vars => Timed'
<1> SUFFICES ASSUME IInv, Timed, [Next]_vars
             PROVE  Timed'
  OBVIOUS
<1>1. CASE call' = call \/ call' = NewCall
  BY <1>1, NewCallTimed DEF Timed
<1>2. CASE Try
  <2>1. PICK took \in Nat : call' = Attempt(call, took, Awaited[pc])
    BY <1>2, TryTakes DEF IInv, TypeOK
  <2>2. call \in Calls /\ call.wait > 0 /\ call.result = "none" /\ Awaited[pc] \in BOOLEAN
    BY <1>2, AwaitedType, TimesAssumption DEF IInv, TypeOK, Timed, Try
  <2> QED  BY <2>1, <2>2, AttemptTakesTime DEF Timed
<1> QED  BY <1>1, <1>2, CallsOnly

LEMMA OtherRanks ==
  /\ OtherRank["ensure"] = 1 /\ OtherRank["install"] = 2 /\ OtherRank["await"] = 3
  /\ OtherRank["ready"] = 4 /\ OtherRank["request"] = 5 /\ OtherRank["exists"] = 6
  /\ OtherRank["start"] = 7 /\ OtherRank["completed"] = 8 /\ OtherRank["image"] = 9
  /\ OtherRank["cache"] = 10 /\ OtherRank["sysready"] = 11 /\ OtherRank["online"] = 12
  /\ OtherRank["permissions"] = 13 /\ OtherRank["proxy"] = 14 /\ OtherRank["snaps"] = 15
  /\ OtherRank["delete"] = 16 /\ OtherRank["launch"] = 17 /\ OtherRank["prepare"] = 18
  /\ OtherRank["use"] = 41 /\ OtherRank["unmount"] = 42 /\ OtherRank["stop"] = 43
  /\ OtherRank["idle"] = 44 /\ OtherRank["raised"] = 44
  BY DEF OtherRank

LEMMA PlaceType ==
  ASSUME IInv
  PROVE  /\ Place \in 1 .. 44
         /\ pc \in Labels => Place < 44
         /\ pc = "raised" => Place = 44
<1>1. CASE InSetup
  <2>1. Place = 18 + Rank[pc]
    BY <1>1 DEF InSetup, Place
  <2>2. Rank[pc] \in 1 .. 22 /\ pc # "raised"
    BY <1>1, Domains, Ranks DEF InSetup
  <2> QED  BY <2>1, <2>2
<1>2. CASE ~InSetup
  <2>1. Place = OtherRank[pc]
    BY <1>2 DEF InSetup, Place
  <2>2. pc \notin (DOMAIN SetupNext) \ (DOMAIN WarmupNext)
    BY <1>2 DEF IInv, TypeOK, Places, InSetup
  <2>3. CASE pc \in HostLabels
    BY <2>1, <2>3, OtherRanks DEF HostLabels
  <2>4. CASE pc \in VmLabels
    BY <2>1, <2>4, OtherRanks DEF VmLabels
  <2>5. CASE pc \in DOMAIN WarmupNext
    BY <2>1, <2>5, Domains, OtherRanks
  <2>6. CASE pc \in {"idle", "raised"}
    <3>1. pc \notin Labels
      BY <2>6, Domains DEF Labels, HostLabels, VmLabels, GuestLabels
    <3> QED  BY <2>1, <2>6, <3>1, OtherRanks
  <2> QED  BY <2>2, <2>3, <2>4, <2>5, <2>6 DEF IInv, TypeOK, Labels, GuestLabels
<1> QED  BY <1>1, <1>2

LEMMA HereType ==
  ASSUME IInv, Timed
  PROVE  Here \in 0 .. (Timeout + 1)
<1>1. call.now \in Nat /\ Timeout \in Nat
  BY TimesAssumption DEF IInv, TypeOK, Calls
<1>2. call.result = "none" => call.now <= Timeout
  BY <1>1 DEF IInv, Places, InTime, Timed
<1> QED  BY <1>1, <1>2 DEF Here

\* To be further on counts more than whatever is left to be done at one place.
Left(place, here) == (44 - place) * (Timeout + 2) + here

LEMMA Nearer ==
  ASSUME NEW p \in 1 .. 44, NEW q \in 1 .. 44,
         NEW h \in 0 .. (Timeout + 1), NEW k \in 0 .. (Timeout + 1)
  PROVE  /\ q > p => Left(q, k) \in 0 .. (Left(p, h) - 1)
         /\ k < h => Left(p, k) \in 0 .. (Left(p, h) - 1)
         /\ k <= h => Left(p, k) \in 0 .. Left(p, h)
         /\ Left(p, h) \in Nat
<1>1. PICK t \in Nat : t = Timeout + 2
  BY TimesAssumption
<1>2. h \in Nat /\ k \in Nat /\ h < t /\ k < t
  BY <1>1, TimesAssumption
<1>3. \A n \in Nat : n * t \in Nat
  OBVIOUS
<1>4. (44 - p) * t \in Nat /\ (44 - q) * t \in Nat
  BY <1>3
<1>5. ASSUME q > p
      PROVE  (44 - q) * t + t <= (44 - p) * t
  <2>1. PICK n \in Nat : 44 - p = (44 - q) + 1 + n
    BY <1>5
  <2>2. ((44 - q) + 1 + n) * t = (44 - q) * t + t + n * t
    OBVIOUS
  <2>3. n * t \in Nat
    BY <1>3
  <2> QED  BY <1>4, <2>1, <2>2, <2>3
<1>6. Left(p, h) = (44 - p) * t + h /\ Left(p, k) = (44 - p) * t + k
      /\ Left(q, k) = (44 - q) * t + k
  BY <1>1 DEF Left
<1> QED  BY <1>2, <1>4, <1>5, <1>6

\* What it takes that a step brings a session nearer to its end.
Further == Place' > Place \/ (Place' = Place /\ Here' < Here)

LEMMA RaiseFurther ==
  ASSUME IInv, pc \in Labels, pc' = "raised"
  PROVE  Further
<1>1. Place' = 44
  BY Domains, OtherRanks DEF Place
<1> QED  BY <1>1, PlaceType DEF Further

LEMMA ForwardFurther ==
  ASSUME IInv, pc \in GuestLabels, Forward, phase' = phase
  PROVE  Further
<1>1. CASE InSetup
  <2>1. pc' = SetupNext[pc] /\ phase' = "setup" /\ Place = 18 + Rank[pc]
    BY <1>1 DEF InSetup, Forward, Goto, Place
  <2>2. CASE pc = "finish"
    <3>1. pc' = "use" /\ Place' = OtherRank["use"]
      BY <2>1, <2>2, Domains, SetupOrder DEF Place
    <3> QED  BY <2>1, <2>2, <3>1, Ranks, OtherRanks DEF Further
  <2>3. CASE pc # "finish"
    <3>1. pc' \in DOMAIN SetupNext /\ Rank[pc'] = Rank[pc] + 1
      BY <1>1, <2>1, <2>3, DoneNext DEF InSetup
    <3>2. Place' = 18 + Rank[pc']
      BY <2>1, <3>1 DEF Place
    <3>3. Rank[pc] \in Nat
      BY <1>1, Domains, Ranks DEF InSetup
    <3> QED  BY <2>1, <3>1, <3>2, <3>3 DEF Further
  <2> QED  BY <2>2, <2>3
<1>2. CASE InWarmup
  <2>1. pc' = WarmupNext[pc] /\ Place = OtherRank[pc] /\ Place' = OtherRank[pc']
    BY <1>2 DEF InWarmup, Forward, Goto, Place
  <2> QED  BY <1>2, <2>1, Domains, WarmupOrder, OtherRanks DEF InWarmup, Further
<1> QED  BY <1>1, <1>2, StepPlaces

LEMMA AvailableFurther ==
  ASSUME IInv, Available
  PROVE  Further
<1>1. pc \in Labels
  BY DEF Available, Ensure, Install, Await, Ready, Request, Labels, HostLabels
<1>2. ASSUME Raise("unsupported") \/ Raise("refused")
      PROVE  Further
  BY <1>1, <1>2, RaiseFurther DEF Raise, Goto
<1>3. ASSUME pc \in HostLabels, pc' \in HostLabels
      PROVE  Place = OtherRank[pc] /\ Place' = OtherRank[pc']
  BY <1>3, Domains DEF Place, HostLabels
<1>4. CASE Ensure
  BY <1>3, <1>4, OtherRanks DEF Ensure, Goto, Further, HostLabels
<1>5. CASE Install
  BY <1>3, <1>5, OtherRanks DEF Install, Goto, Further, HostLabels
<1>6. CASE Await
  BY <1>3, <1>6, OtherRanks DEF Await, Goto, Further, HostLabels
<1>7. CASE Ready
  BY <1>2, <1>3, <1>7, OtherRanks DEF Ready, Goto, Further, HostLabels
<1>8. CASE Request
  BY <1>2, <1>3, <1>8, OtherRanks DEF Request, Goto, Further, HostLabels
<1> QED  BY <1>4, <1>5, <1>6, <1>7, <1>8 DEF Available

LEMMA LaunchingFurther ==
  ASSUME IInv, Launching
  PROVE  Further
<1>1. CASE LookUp /\ Raise("daemon")
  BY <1>1, RaiseFurther DEF LookUp, Raise, Goto, Labels, HostLabels
<1>2. CASE LookUp /\ ~Raise("daemon")
  BY <1>2, Domains, OtherRanks DEF LookUp, Goto, Place, Further
<1>3. CASE Start
  BY <1>3, Domains, OtherRanks DEF Start, Goto, Place, Further
<1>4. CASE Delete
  BY <1>4, Domains, OtherRanks DEF Delete, Goto, Place, Further
<1>5. CASE Launch
  BY <1>5, Domains, OtherRanks DEF Launch, Goto, Place, Further
<1>6. CASE Prepare
  BY <1>6, Domains, OtherRanks, Ranks DEF Prepare, Goto, Place, Further
<1> QED  BY <1>1, <1>2, <1>3, <1>4, <1>5, <1>6 DEF Launching

LEMMA SetupStepFurther ==
  ASSUME IInv, SetupStep
  PROVE  Further
<1>1. \/ Forward /\ phase' = phase
      \/ pc' = "raised"
  BY DEF SetupStep, Unset, Tagging, Environment, DisableAutomaticApt, Network, AptConf,
         AptUpdate, InstallPackages, PreSetupSnapd, InstallSnapd, EnableSnapd, HoldRefreshes,
         CleanUp, Finish, Leaves, NeedsApt, Raise, Goto, session
<1>2. pc \in GuestLabels
  BY Domains
     DEF SetupStep, Unset, Tagging, Environment, DisableAutomaticApt, Network, AptConf,
         AptUpdate, InstallPackages, PreSetupSnapd, InstallSnapd, EnableSnapd, HoldRefreshes,
         CleanUp, Finish, Leaves, NeedsApt, GuestLabels
<1> QED  BY <1>1, <1>2, ForwardFurther, RaiseFurther DEF Labels

LEMMA TryFurther ==
  ASSUME IInv, IInv', Timed, Timed', Try
  PROVE  Further
<1>1. pc \in Waits /\ pc' = pc /\ phase' = phase /\ call.result = "none"
  BY DEF Try
<1>2. PICK took \in Nat : call' = Attempt(call, took, Awaited[pc])
  BY TryTakes DEF IInv, TypeOK
<1>3. call \in Calls /\ call' \in Calls /\ call.wait > 0 /\ Awaited[pc] \in BOOLEAN
  BY <1>1, AwaitedType, TimesAssumption DEF IInv, TypeOK, Timed
<1>4. call'.result = "none" => call'.now > call.now
  BY <1>1, <1>2, <1>3, AttemptTakesTime
<1>5. call.now \in Nat /\ call'.now \in Nat /\ Timeout \in Nat /\ call.now <= Timeout
  BY <1>1, <1>3, TimesAssumption DEF IInv, Places, InTime, Timed, Calls
<1>6. Place' = Place
  BY <1>1 DEF Place
<1>7. Here = 1 + Timeout - call.now
  BY <1>1 DEF Here
<1>8. Here' = IF call'.result = "none" THEN 1 + Timeout - call'.now ELSE 0
  BY <1>1, Domains DEF Here
<1> QED  BY <1>4, <1>5, <1>6, <1>7, <1>8 DEF Further

LEMMA WarmupStepFurther ==
  ASSUME IInv, IInv', Timed, Timed', WarmupStep
  PROVE  Further
<1>1. CASE Try
  BY <1>1, TryFurther
<1>2. CASE ~Try
  <2>1. pc \in GuestLabels
    BY <1>2, Domains
       DEF WarmupStep, CheckSetup, ImageCheck, MountCache, Waited, Permissions, SetProxy,
           InstallSnaps, Leaves, GuestLabels
  <2>2. \/ Forward /\ phase' = phase
        \/ pc' = "raised"
        \/ pc = "completed" /\ pc' = "delete"
        \/ phase # "setup" /\ pc = "image" /\ pc' = "delete" /\ phase' = phase
    BY <1>2 DEF WarmupStep, CheckSetup, ImageCheck, MountCache, Waited, Permissions, SetProxy,
                InstallSnaps, Incompatible, Leaves, Raise, Goto, session
  <2>3. CASE pc = "completed" /\ pc' = "delete"
    BY <2>3, Domains, OtherRanks DEF Place, Further
  <2>4. CASE phase # "setup" /\ pc = "image" /\ pc' = "delete" /\ phase' = phase
    BY <2>4, Domains, OtherRanks DEF Place, Further
  <2> QED  BY <2>1, <2>2, <2>3, <2>4, ForwardFurther, RaiseFurther DEF Labels
<1> QED  BY <1>1, <1>2

LEMMA UsingFurther ==
  ASSUME IInv, Using
  PROVE  Further
<1>1. CASE MountProject
  <2>1. pc = "use" /\ pc' = pc /\ phase' = phase /\ Running /\ "project" \notin vm.mounts
        /\ vm' = [vm EXCEPT !.mounts = @ \cup {"project"}]
    BY <1>1 DEF MountProject, session
  <2>2. "project" \in vm'.mounts
    BY <2>1 DEF IInv, TypeOK, VmType
  <2>3. pc \notin Waits /\ pc' \notin Waits
    BY <2>1, Domains
  <2>4. Here = 1 /\ Here' = 0
    BY <2>1, <2>2, <2>3 DEF Here
  <2> QED  BY <2>1, <2>4 DEF Place, Further
<1>2. CASE Leave
  BY <1>2, Domains, OtherRanks DEF Leave, Goto, Place, Further
<1>3. CASE UnmountAll
  BY <1>3, Domains, OtherRanks DEF UnmountAll, Goto, Place, Further
<1>4. CASE Stop
  BY <1>4, Domains, OtherRanks DEF Stop, Goto, Place, Further
<1> QED  BY <1>1, <1>2, <1>3, <1>4 DEF Using

LEMMA SessionFurther ==
  ASSUME IInv, IInv', Timed, Timed', Session
  PROVE  Further
<1>1. CASE Lost
  <2>1. pc \in Labels /\ pc' = "raised"
    BY <1>1 DEF Lost, Raise, Goto, Labels, VmLabels
  <2> QED  BY <2>1, RaiseFurther
<1> QED  BY <1>1, AvailableFurther, LaunchingFurther, SetupStepFurther, WarmupStepFurther, UsingFurther
         DEF Session

\* Nobody else takes a session back.
LEMMA OthersFurther ==
  ASSUME IInv, pc \in Labels, [Next]_vars, ~Session
  PROVE  Further \/ (Place' = Place /\ Here' <= Here)
<1>1. CASE Fail \/ Crash
  BY <1>1, RaiseFurther DEF Fail, Crash, Raise, Goto
<1>2. ~Begin
  BY Domains DEF Begin, Labels, HostLabels, VmLabels, GuestLabels
<1>3. CASE Prune \/ Trash \/ DaemonUp \/ VmStep \/ UNCHANGED vars
  <2>1. UNCHANGED <<pc, phase, call>>
    BY <1>3 DEF Prune, Trash, DaemonUp, VmStep, vars, session
  <2>2. Running' => Running /\ vm'.mounts = vm.mounts
    <3>1. CASE Prune
      BY <3>1, NoVmType DEF Prune, Running
    <3>2. CASE Trash
      BY <3>2, OffType DEF Trash, Running, IInv, TypeOK, VmType
    <3>3. CASE DaemonUp \/ UNCHANGED vars
      BY <3>3 DEF DaemonUp, Running, vars
    <3>4. CASE VmStep
      BY <3>4, VmStepType DEF VmStep, IInv, TypeOK
    <3> QED  BY <1>3, <3>1, <3>2, <3>3, <3>4
  <2>3. Place' = Place
    BY <2>1 DEF Place
  <2>4. CASE pc \in Waits
    <3>1. call.now \in Int /\ Timeout \in Int
      BY TimesAssumption DEF IInv, TypeOK, Calls
    <3>2. Here' = Here /\ Here \in Int
      BY <2>1, <2>4, <3>1, Domains DEF Here
    <3> QED  BY <2>3, <3>2
  <2>5. CASE pc \notin Waits
    BY <2>1, <2>2, <2>3, <2>5 DEF Here
  <2> QED  BY <2>4, <2>5
<1> QED  BY <1>1, <1>2, <1>3 DEF Next

-----------------------------------------------------------------------------
(* What the promise needs besides *)

\* A setup that is not over has not set the flag.
NotSetUp == InSetup \/ pc = "prepare" => ~vm.conf.setup

Made == Exists => vm.base \in Bases /\ vm.tag \in Tags

\* The VM of a session runs, or is gone.
Gone == vm.state \in {"absent", "deleted"}

Steady == pc \in GuestLabels \cup {"prepare", "use"} => (Running /\ ~vm.due) \/ Gone

\* The reason for a deletion outlasts what others do.
Rejected == pc = "delete" => ~Good \/ "unread" \in broke \/ Gone

EnvInv == NotSetUp /\ Made /\ Steady /\ Rejected

\* The steps of a session before it has a VM, with the choice between two VMs.
Early == HostLabels \cup {"start", "delete", "launch"}

\* A step that leaves the VM what it is: its make, its configuration and whether it
\* exists.
Plain ==
  /\ SameMake(vm, vm') /\ vm'.conf = vm.conf
  /\ vm'.state = vm.state /\ vm'.due = vm.due
  /\ want' = want

\* ... and where it takes the session.
Stays == UNCHANGED <<pc, phase, broke>>
Before ==
  /\ pc \in Early \ {"launch"} /\ pc' \in Early \ {"delete"}
  /\ pc' = "launch" => ~Exists
  /\ UNCHANGED <<phase, broke>>
Advances ==
  /\ pc \in GuestLabels /\ Forward /\ phase' = phase
  /\ pc # "finish" /\ (pc = "snaps" => Running)
  /\ broke' = broke \/ (pc = "image" /\ broke' = broke \cup {"unread"})
Rejects ==
  /\ InWarmup /\ pc' = "delete" /\ phase' = phase
  /\ broke' = broke \/ broke' = broke \cup {"unread"}
  /\ ~Good \/ "unread" \in broke' \/ Gone
Raises == pc \in Labels /\ pc' = "raised" /\ phase' = phase /\ broke \subseteq broke'
SetsUp == pc = "prepare" /\ pc' = "unset" /\ phase' = "setup" /\ broke' = broke
Closes ==
  pc \in {"use", "unmount"} /\ pc' \in {"unmount", "stop"} /\ UNCHANGED <<phase, broke>>

PlainStep == Plain /\ (Stays \/ Before \/ Advances \/ Rejects \/ Raises \/ SetsUp \/ Closes)

\* The steps that are plain.
PlainActions ==
  \/ Available \/ LookUp \/ Prepare \/ (SetupStep /\ ~(Unset \/ Tagging \/ Finish))
  \/ WarmupStep \/ MountProject \/ Leave \/ UnmountAll \/ Lost \/ Fail \/ Crash \/ DaemonUp
  \/ UNCHANGED vars

LEMMA PlainSame ==
  ASSUME vm' = vm, want' = want
  PROVE  Plain
  BY DEF Plain, SameMake

LEMMA RaiseIsPlain ==
  ASSUME pc \in Labels, NEW trouble, Raise(trouble)
  PROVE  Plain /\ Raises
<1>1. /\ vm' = vm /\ want' = want /\ phase' = phase
      /\ pc' = "raised" /\ broke \subseteq broke'
  BY DEF Raise, Goto, session
<1> QED  BY <1>1, PlainSame DEF Raises

LEMMA LeavesIsPlain ==
  ASSUME IInv, EnvInv, NEW part \in Parts, part \in GuestLabels, Leaves(part)
  PROVE  Plain /\ Advances
<1>1. /\ pc = part /\ vm' = [vm EXCEPT !.parts = @ \cup {part}] /\ Forward /\ Running
      /\ want' = want /\ phase' = phase /\ broke' = broke
  BY DEF Leaves, session
<1>2. SameRun(vm, vm') /\ SameMake(vm, vm') /\ vm'.conf = vm.conf
  BY <1>1, PartType DEF IInv, TypeOK
<1> QED  BY <1>1, <1>2 DEF Plain, Advances, SameRun, Parts

LEMMA AvailableIsPlain ==
  ASSUME Available
  PROVE  PlainStep
<1>1. pc \in HostLabels /\ pc \in Labels
  BY DEF Available, Ensure, Install, Await, Ready, Request, Labels, HostLabels
<1>2. CASE Raise("unsupported") \/ Raise("refused")
  BY <1>1, <1>2, RaiseIsPlain DEF PlainStep
<1>3. CASE ~(Raise("unsupported") \/ Raise("refused"))
  <2>1. vm' = vm /\ want' = want /\ UNCHANGED <<phase, broke>> /\ pc' \in HostLabels
    BY <1>3 DEF Available, Ensure, Install, Await, Ready, Request, Goto, HostLabels, session
  <2>2. Before
    BY <1>1, <2>1 DEF Before, Early, HostLabels
  <2> QED  BY <2>1, <2>2, PlainSame DEF PlainStep
<1> QED  BY <1>2, <1>3

LEMMA LookUpIsPlain ==
  ASSUME LookUp
  PROVE  PlainStep
<1>1. CASE Raise("daemon")
  <2>1. pc \in Labels
    BY DEF LookUp, Labels, HostLabels
  <2> QED  BY <1>1, <2>1, RaiseIsPlain DEF PlainStep
<1>2. CASE ~Raise("daemon")
  <2>1. vm' = vm /\ want' = want /\ Before
    BY <1>2 DEF LookUp, Goto, session, Before, Early, HostLabels
  <2> QED  BY <2>1, PlainSame DEF PlainStep
<1> QED  BY <1>1, <1>2

LEMMA NeedsAptIsPlain ==
  ASSUME IInv, EnvInv, NEW part \in {"update", "packages", "snapd", "cleanup"}, NeedsApt(part)
  PROVE  PlainStep
<1>1. part \in Parts /\ part \in GuestLabels /\ part \in Labels
  BY Domains DEF Parts, GuestLabels, Labels
<1>2. CASE Leaves(part)
  BY <1>1, <1>2, LeavesIsPlain DEF PlainStep
<1>3. CASE pc = part /\ Raise(IF vm.apt THEN "apt" ELSE "offline")
  BY <1>1, <1>3, RaiseIsPlain DEF PlainStep
<1> QED  BY <1>2, <1>3 DEF NeedsApt

LEMMA SetupStepIsPlain ==
  ASSUME IInv, EnvInv, SetupStep, ~(Unset \/ Tagging \/ Finish)
  PROVE  PlainStep
<1>1. {"environment", "autoapt", "aptconf", "udev", "enable", "hold"} \subseteq Parts \cap GuestLabels
  BY Domains DEF Parts, GuestLabels
<1>2. CASE Network
  <2>1. /\ pc = "network" /\ Forward /\ want' = want /\ phase' = phase /\ broke' = broke
        /\ vm' = [vm EXCEPT !.parts = @ \cup {"network"}, !.online = FALSE]
    BY <1>2 DEF Network, session
  <2>2. SameMake(vm, vm') /\ vm'.state = vm.state /\ vm'.due = vm.due /\ vm'.conf = vm.conf
    BY <2>1, NetworkType DEF IInv, TypeOK
  <2>3. pc \in GuestLabels
    BY <2>1, Domains DEF GuestLabels
  <2> QED  BY <2>1, <2>2, <2>3 DEF PlainStep, Plain, Advances
<1>3. CASE AptUpdate \/ InstallPackages \/ InstallSnapd \/ CleanUp
  BY <1>3, NeedsAptIsPlain DEF AptUpdate, InstallPackages, InstallSnapd, CleanUp
<1>4. CASE Environment \/ DisableAutomaticApt \/ AptConf \/ PreSetupSnapd \/ EnableSnapd \/ HoldRefreshes
  BY <1>1, <1>4, LeavesIsPlain
     DEF Environment, DisableAutomaticApt, AptConf, PreSetupSnapd, EnableSnapd, HoldRefreshes,
         PlainStep
<1> QED  BY <1>2, <1>3, <1>4 DEF SetupStep

LEMMA CheckSetupIsPlain ==
  ASSUME IInv, EnvInv, CheckSetup
  PROVE  PlainStep
<1>1. pc = "completed" /\ InWarmup /\ pc \in GuestLabels /\ phase = "warmup"
  BY Domains DEF CheckSetup, IInv, Places, TypeOK, InWarmup, GuestLabels
<1>2. vm' = vm /\ want' = want /\ phase' = phase /\ broke \subseteq broke'
  BY <1>1 DEF CheckSetup, Incompatible, session
<1>3. CASE Forward /\ broke' = broke
  BY <1>1, <1>2, <1>3, PlainSame DEF PlainStep, Advances
<1>4. CASE ~(Running /\ vm.conf.setup) /\ pc' = "delete" /\ broke' = broke
  <2>1. ~Good \/ Gone
    BY <1>1, <1>4 DEF EnvInv, Steady, Good
  <2> QED  BY <1>1, <1>2, <1>4, <2>1, PlainSame DEF PlainStep, Rejects
<1>5. CASE pc' = "delete" /\ broke' = broke \cup {"unread"}
  BY <1>1, <1>2, <1>5, PlainSame DEF PlainStep, Rejects
<1> QED  BY <1>1, <1>3, <1>4, <1>5 DEF CheckSetup, Incompatible, Goto

LEMMA ImageCheckIsPlain ==
  ASSUME IInv, EnvInv, ImageCheck
  PROVE  PlainStep
<1>1. pc = "image" /\ pc \in GuestLabels /\ pc \in Labels
  BY Domains DEF ImageCheck, GuestLabels, Labels
<1>2. CASE Raise("misfit")
  BY <1>1, <1>2, RaiseIsPlain DEF PlainStep
<1>3. CASE ~Raise("misfit")
  <2>1. vm' = vm /\ want' = want /\ phase' = phase /\ broke \subseteq broke'
    BY <1>3 DEF ImageCheck, Incompatible, session
  <2>2. CASE Forward /\ (broke' = broke \/ broke' = broke \cup {"unread"})
    BY <1>1, <2>1, <2>2, PlainSame DEF PlainStep, Advances
  <2>3. CASE ~(OsFits /\ TagFits) /\ phase # "setup" /\ pc' = "delete" /\ broke' = broke
    <3>1. ~Good
      BY <2>3 DEF Good, TagFits
    <3>2. InWarmup
      BY <1>1, <2>3, StepPlaces DEF InSetup
    <3> QED  BY <2>1, <2>3, <3>1, <3>2, PlainSame DEF PlainStep, Rejects
  <2> QED  BY <1>3, <2>2, <2>3 DEF ImageCheck, Incompatible, Goto
<1> QED  BY <1>2, <1>3

LEMMA WaitIsPlain ==
  ASSUME Try \/ Waited
  PROVE  PlainStep
<1>1. /\ vm' = vm /\ want' = want /\ phase' = phase
      /\ pc \in GuestLabels /\ pc \in Labels /\ pc \notin {"snaps", "finish"}
  BY Domains DEF Try, Waited, GuestLabels, Labels
<1>2. CASE Try
  BY <1>1, <1>2, PlainSame DEF Try, PlainStep, Stays
<1>3. CASE Waited /\ Forward /\ UNCHANGED broke
  BY <1>1, <1>3, PlainSame DEF PlainStep, Advances
<1>4. CASE Waited /\ Goto("raised") /\ broke \subseteq broke'
  BY <1>1, <1>4, PlainSame DEF PlainStep, Raises, Goto
<1> QED  BY <1>2, <1>3, <1>4 DEF Waited

LEMMA WarmupStepIsPlain ==
  ASSUME IInv, EnvInv, WarmupStep
  PROVE  PlainStep
<1>1. vm \in VmType
  BY DEF IInv, TypeOK
<1>2. CASE MountCache
  <2>1. /\ pc = "cache" /\ pc \in GuestLabels /\ Forward /\ want' = want
        /\ phase' = phase /\ broke' = broke
    BY <1>2, Domains DEF MountCache, GuestLabels, session
  <2>2. CASE vm' = vm
    BY <2>1, <2>2, PlainSame DEF PlainStep, Advances
  <2>3. CASE vm' = [vm EXCEPT !.mounts = @ \cup {"cache"}]
    <3>1. vm.mounts \cup {"cache"} \in SUBSET {"cache", "project"}
      BY <1>1, Fields
    <3>2. SameRun(vm, vm') /\ SameDisk(vm, vm')
      BY <1>1, <2>3, <3>1, MountsType
    <3> QED  BY <2>1, <3>2 DEF PlainStep, Plain, Advances, SameRun, SameDisk
  <2> QED  BY <1>2, <2>2, <2>3 DEF MountCache
<1>3. CASE Permissions
  <2>1. /\ pc = "permissions" /\ pc \in GuestLabels /\ Forward /\ vm' = vm /\ want' = want
        /\ phase' = phase /\ broke' = broke
    BY <1>3, Domains DEF Permissions, GuestLabels, session
  <2> QED  BY <2>1, PlainSame DEF PlainStep, Advances
<1>4. CASE SetProxy
  <2>1. /\ pc = "proxy" /\ pc \in GuestLabels /\ Forward /\ want' = want
        /\ phase' = phase /\ broke' = broke /\ vm' = [vm EXCEPT !.proxy = proxy]
    BY <1>4, Domains DEF SetProxy, GuestLabels, session
  <2>2. SameRun(vm, vm') /\ SameMake(vm, vm') /\ vm'.conf = vm.conf
    BY <1>1, <2>1, ProxyType DEF IInv, TypeOK
  <2> QED  BY <2>1, <2>2 DEF PlainStep, Plain, Advances, SameRun
<1>5. CASE InstallSnaps
  <2>1. pc = "snaps" /\ Running /\ "snaps" \in Parts /\ "snaps" \in GuestLabels
    BY <1>5, Domains DEF InstallSnaps, Leaves, GuestLabels, Parts
  <2>2. Leaves("snaps")
    BY <1>5, <2>1, SnapsFacts DEF InstallSnaps
  <2> QED  BY <2>1, <2>2, LeavesIsPlain DEF PlainStep
<1> QED  BY <1>2, <1>3, <1>4, <1>5, CheckSetupIsPlain, ImageCheckIsPlain, WaitIsPlain DEF WarmupStep

LEMMA BodyIsPlain ==
  ASSUME IInv, MountProject \/ Leave \/ UnmountAll
  PROVE  PlainStep
<1>1. vm \in VmType
  BY DEF IInv, TypeOK
<1>2. CASE MountProject
  <2>1. /\ want' = want /\ Stays /\ vm' = [vm EXCEPT !.mounts = @ \cup {"project"}]
    BY <1>2 DEF MountProject, session, Stays
  <2>2. vm.mounts \cup {"project"} \in SUBSET {"cache", "project"}
    BY <1>1, Fields
  <2>3. SameRun(vm, vm') /\ SameDisk(vm, vm')
    BY <1>1, <2>1, <2>2, MountsType
  <2> QED  BY <2>1, <2>3 DEF PlainStep, Plain, SameRun, SameDisk
<1>3. CASE Leave
  <2>1. vm' = vm /\ want' = want /\ Closes
    BY <1>3 DEF Leave, Goto, session, Closes
  <2> QED  BY <2>1, PlainSame DEF PlainStep
<1>4. CASE UnmountAll
  <2>1. want' = want /\ Closes /\ vm' = [vm EXCEPT !.mounts = {}]
    BY <1>4 DEF UnmountAll, Goto, session, Closes
  <2>2. SameRun(vm, vm') /\ SameDisk(vm, vm')
    BY <1>1, <2>1, MountsType
  <2> QED  BY <2>1, <2>2 DEF PlainStep, Plain, SameRun, SameDisk
<1> QED  BY <1>2, <1>3, <1>4

\* Every one of them is.
LEMMA PlainSteps ==
  ASSUME IInv, EnvInv, PlainActions
  PROVE  PlainStep
<1>1. CASE Prepare
  <2>1. vm' = vm /\ want' = want /\ SetsUp
    BY <1>1 DEF Prepare, Goto, SetsUp
  <2> QED  BY <2>1, PlainSame DEF PlainStep
<1>2. CASE Lost \/ Fail \/ Crash
  <2>1. pc \in Labels
    BY <1>2 DEF Lost, Fail, Crash, Labels, VmLabels
  <2> QED  BY <1>2, <2>1, RaiseIsPlain DEF Lost, Fail, Crash, PlainStep
<1>3. CASE DaemonUp \/ UNCHANGED vars
  <2>1. vm' = vm /\ want' = want /\ Stays
    BY <1>3 DEF DaemonUp, vars, session, Stays
  <2> QED  BY <2>1, PlainSame DEF PlainStep
<1> QED
  BY <1>1, <1>2, <1>3, AvailableIsPlain, LookUpIsPlain, SetupStepIsPlain, WarmupStepIsPlain,
     BodyIsPlain DEF PlainActions

\* What the other steps do: Unset and Tagging ...
LEMMA UnfinishedConf ==
  ASSUME IInv, EnvInv, Unset \/ Tagging
  PROVE  /\ InSetup /\ pc' \in DOMAIN SetupNext \ {"unset"} /\ phase' = "setup" /\ Running
         /\ SameMake(vm, vm') /\ vm'.state = vm.state /\ vm'.due = vm.due
         /\ ~vm.conf.setup /\ ~vm'.conf.setup
         /\ want' = want
         /\ broke' = broke \/ broke' = broke \cup {"unread"}
<1>1. /\ InSetup /\ pc \in {"unset", "tagging"} /\ Running /\ Forward /\ UNCHANGED session
  BY Domains DEF Unset, Tagging, IInv, TypeOK, Places, InSetup
<1>2. /\ pc' \in DOMAIN SetupNext \ {"unset"} /\ phase' = "setup" /\ want' = want
  BY <1>1, Domains, SetupOrder DEF Forward, Goto, InSetup, session
<1>3. ~vm.conf.setup /\ want.tag \in Tags
  BY <1>1 DEF EnvInv, NotSetUp, IInv, TypeOK, Kinds
<1>4. PICK conf \in {vm.conf, NoConf} :
        /\ Load(conf)
        /\ \/ vm' = [vm EXCEPT !.conf = [conf EXCEPT !.setup = FALSE]]
           \/ vm' = [vm EXCEPT !.conf = [conf EXCEPT !.tag = want.tag]]
  BY DEF Unset, Tagging, Update
<1>5. PICK new : /\ new \in {[conf EXCEPT !.setup = FALSE], [conf EXCEPT !.tag = want.tag]}
                 /\ vm' = [vm EXCEPT !.conf = new]
  BY <1>4
<1>6. new \in [setup : BOOLEAN, tag : Tags \cup {Nothing}] /\ ~new.setup
  BY <1>3, <1>5, Written
<1>7. SameRun(vm, vm') /\ SameMake(vm, vm') /\ vm'.conf = new
  <2>1. vm \in VmType /\ vm' = [vm EXCEPT !.conf = new]
    BY <1>5 DEF IInv, TypeOK
  <2> QED  BY <1>6, <2>1, ConfType
<1>8. broke' = broke \/ broke' = broke \cup {"unread"}
  BY <1>4 DEF Load
<1> QED  BY <1>1, <1>2, <1>3, <1>6, <1>7, <1>8 DEF SameRun

\* ... and Finish.
LEMMA FinishConf ==
  ASSUME IInv, Finish
  PROVE  /\ InSetup /\ pc' = "use" /\ phase' = "setup" /\ Running
         /\ SameMake(vm, vm') /\ vm'.state = vm.state /\ vm'.due = vm.due
         /\ vm'.conf.setup
         /\ want' = want
         /\ broke' = broke \/ broke' = broke \cup {"unread"}
<1>1. InSetup /\ pc = "finish" /\ Running /\ Forward /\ UNCHANGED session
  BY Domains DEF Finish, IInv, TypeOK, Places, InSetup
<1>2. pc' = "use" /\ phase' = "setup" /\ want' = want
  BY <1>1, SetupOrder DEF Forward, Goto, InSetup, session
<1>3. PICK conf \in {vm.conf, NoConf} :
        Load(conf) /\ vm' = [vm EXCEPT !.conf = [conf EXCEPT !.setup = TRUE]]
  BY DEF Finish, Update
<1>4. PICK new : new = [conf EXCEPT !.setup = TRUE] /\ vm' = [vm EXCEPT !.conf = new]
  BY <1>3
<1>5. new \in [setup : BOOLEAN, tag : Tags \cup {Nothing}] /\ new.setup
  BY <1>4, Written
<1>6. SameRun(vm, vm') /\ SameMake(vm, vm') /\ vm'.conf = new
  <2>1. vm \in VmType /\ vm' = [vm EXCEPT !.conf = new]
    BY <1>4 DEF IInv, TypeOK
  <2> QED  BY <1>5, <2>1, ConfType
<1>7. broke' = broke \/ broke' = broke \cup {"unread"}
  BY <1>3 DEF Load
<1> QED  BY <1>1, <1>2, <1>5, <1>6, <1>7 DEF SameRun

LEMMA StopDisk ==
  ASSUME IInv, Stop
  PROVE  /\ SameDisk(vm, vm') /\ Exists /\ Exists' /\ ~Gone /\ ~Gone'
         /\ pc = "stop" /\ pc' = "idle" /\ want' = want /\ broke' = broke
<1>1. /\ pc = "stop" /\ pc' = "idle" /\ Exists /\ ~Gone /\ vm \in VmType
      /\ want' = want /\ broke' = broke
  BY DEF Stop, Goto, Exists, Gone, session, IInv, TypeOK
<1>2. CASE vm' = Off(vm)
  BY <1>1, <1>2, OffType DEF Exists, Gone
<1>3. CASE vm' = [vm EXCEPT !.due = TRUE]
  <2>1. SameDisk(vm, vm') /\ vm'.state = vm.state
    BY <1>1, <1>3 DEF VmType, SameDisk, SameMake
  <2> QED  BY <1>1, <2>1 DEF Exists, Gone
<1> QED  BY <1>2, <1>3 DEF Stop

LEMMA TrashDisk ==
  ASSUME IInv, Trash
  PROVE  /\ SameDisk(vm, vm') /\ vm'.state = "deleted" /\ Exists
         /\ UNCHANGED <<pc, want, phase>> /\ broke' = broke \cup {"gone"}
<1>1. PICK off : off = Off(vm) /\ vm' = [off EXCEPT !.state = "deleted"]
  BY DEF Trash
<1>2. off \in VmType /\ SameDisk(vm, off)
  BY <1>1, OffType DEF IInv, TypeOK
<1>3. SameDisk(vm, vm') /\ vm'.state = "deleted"
  BY <1>1, <1>2 DEF VmType, SameDisk, SameMake
<1> QED  BY <1>3 DEF Trash, Exists, session

LEMMA LaunchDisk ==
  ASSUME IInv, Launch
  PROVE  /\ vm'.state = "running" /\ ~vm'.due
         /\ vm'.base = want.base /\ vm'.tag = want.tag /\ vm'.conf = NoConf
         /\ pc = "launch" /\ pc' = "prepare" /\ phase' = phase /\ want' = want /\ broke' = broke
         /\ ~Exists
  BY LaunchType DEF Launch, Goto, session, IInv, TypeOK

-----------------------------------------------------------------------------
(* It is inductive *)

LEMMA EnvInit == Init => EnvInv
  BY NoVmType, Domains
     DEF Init, EnvInv, NotSetUp, Made, Steady, Rejected, Exists, GuestLabels, InSetup

LEMMA PlainEnv ==
  ASSUME IInv, EnvInv, PlainStep
  PROVE  EnvInv'
<1>1. Plain /\ (Exists' <=> Exists) /\ (Gone' <=> Gone) /\ (Running' <=> Running)
      /\ (want' = want /\ broke \subseteq broke' => (Good' <=> Good))
  BY DEF PlainStep, Plain, SameMake, Exists, Gone, Running, Good, OsFits
<1>2. Made'
  BY <1>1 DEF EnvInv, Made, Plain, SameMake
<1>3. ASSUME (InSetup \/ pc = "prepare")' => InSetup \/ pc = "prepare",
             pc' \in GuestLabels \cup {"prepare", "use"} => pc \in GuestLabels \cup {"prepare", "use"},
             pc' # "delete"
      PROVE  EnvInv'
  BY <1>1, <1>2, <1>3 DEF EnvInv, NotSetUp, Steady, Rejected, Plain
<1>4. CASE Stays
  BY <1>1, <1>2, <1>4 DEF EnvInv, NotSetUp, Steady, Rejected, Plain, Stays, InSetup
<1>5. CASE Before
  BY <1>3, <1>5, Domains DEF Before, Early, HostLabels, InSetup, GuestLabels
<1>6. CASE Advances
  <2>1. pc' \in GuestLabels \cup {"use"} /\ pc' # "prepare"
    <3>1. CASE InSetup
      BY <1>6, <3>1, Domains, SetupOrder DEF Advances, InSetup, Forward, Goto, GuestLabels
    <3>2. CASE InWarmup
      BY <1>6, <3>2, Domains, WarmupOrder DEF Advances, InWarmup, Forward, Goto, GuestLabels
    <3> QED  BY <1>6, <3>1, <3>2, StepPlaces DEF Advances
  <2>2. InSetup' => InSetup
    BY <1>6, StepPlaces DEF Advances, InSetup, InWarmup
  <2> QED  BY <1>3, <1>6, <2>1, <2>2, Domains DEF Advances, GuestLabels
<1>7. CASE Rejects
  <2>1. Rejected'
    BY <1>1, <1>7 DEF Rejects, Rejected, Plain
  <2> QED  BY <1>2, <1>7, <2>1, Domains DEF Rejects, EnvInv, NotSetUp, Steady, InSetup, GuestLabels
<1>8. CASE Raises
  BY <1>3, <1>8, Domains DEF Raises, InSetup, GuestLabels
<1>9. CASE SetsUp
  BY <1>3, <1>9 DEF SetsUp
<1>10. CASE Closes
  BY <1>3, <1>10, Domains DEF Closes, InSetup, GuestLabels
<1> QED  BY <1>4, <1>5, <1>6, <1>7, <1>8, <1>9, <1>10 DEF PlainStep

LEMMA EnvStep == IInv /\ EnvInv /\ [Next]_vars => EnvInv'
<1> SUFFICES ASSUME IInv, EnvInv, [Next]_vars
             PROVE  EnvInv'
  OBVIOUS
<1>1. CASE PlainActions
  BY <1>1, PlainSteps, PlainEnv
<1>2. CASE Begin
  <2>1. pc' = "ensure" /\ vm' = vm
    BY <1>2 DEF Begin, Goto
  <2> QED  BY <2>1, Domains
           DEF EnvInv, NotSetUp, Made, Steady, Rejected, Exists, InSetup, GuestLabels
<1>3. CASE Start
  <2>1. /\ pc' = "completed" /\ Exists /\ vm'.state = "running" /\ ~vm'.due /\ SameMake(vm, vm')
    BY <1>3, StartType DEF Start, Goto, IInv, TypeOK, Exists, SameDisk
  <2> QED  BY <2>1, Domains
           DEF EnvInv, NotSetUp, Made, Steady, Rejected, Exists, Running, InSetup, SameMake
<1>4. CASE Delete
  <2>1. pc' = "launch" /\ ~Exists'
    BY <1>4, NoVmType DEF Delete, Goto, Exists
  <2> QED  BY <2>1, Domains DEF EnvInv, NotSetUp, Made, Steady, Rejected, InSetup, GuestLabels
<1>5. CASE Launch
  <2>1. want.base \in Bases /\ want.tag \in Tags /\ ~NoConf.setup
    BY DEF IInv, TypeOK, Kinds, NoConf
  <2> QED  BY <1>5, <2>1, LaunchDisk DEF EnvInv, NotSetUp, Made, Steady, Rejected, Running
<1>6. CASE Unset \/ Tagging
  <2>1. Made' /\ Steady'
    BY <1>6, UnfinishedConf, Domains
       DEF EnvInv, Made, Steady, Exists, Running, Gone, SameMake, InSetup, GuestLabels
  <2> QED  BY <1>6, <2>1, UnfinishedConf, Domains DEF EnvInv, NotSetUp, Rejected
<1>7. CASE Finish
  <2>1. Made' /\ Steady'
    BY <1>7, FinishConf, Domains
       DEF EnvInv, Made, Steady, Exists, Running, Gone, SameMake, InSetup, GuestLabels
  <2> QED  BY <1>7, <2>1, FinishConf, Domains DEF EnvInv, NotSetUp, Rejected, InSetup
<1>8. CASE Stop
  BY <1>8, StopDisk, Domains
     DEF EnvInv, NotSetUp, Made, Steady, Rejected, InSetup, GuestLabels, SameDisk, SameMake
<1>9. CASE Prune
  <2>1. vm' = NoVm /\ UNCHANGED <<pc, phase>> /\ ~Exists' /\ Gone'
    BY <1>9, NoVmType DEF Prune, session, Exists, Gone
  <2> QED  BY <2>1, NoVmType DEF EnvInv, NotSetUp, Made, Steady, Rejected
<1>10. CASE Trash
  <2>1. Gone'
    BY <1>10, TrashDisk DEF Gone
  <2> QED  BY <1>10, <2>1, TrashDisk
           DEF EnvInv, NotSetUp, Made, Steady, Rejected, InSetup, SameDisk, SameMake
<1>11. CASE VmStep
  <2>1. /\ Running /\ ~Gone /\ UNCHANGED <<pc, phase, want, broke>>
        /\ SameMake(vm, vm') /\ vm'.conf = vm.conf
        /\ \/ vm'.state = "running" /\ vm'.due = vm.due
           \/ vm.due
    BY <1>11, VmStepType DEF VmStep, session, IInv, TypeOK, SameDisk, Running, Gone
  <2>2. (Good' <=> Good) /\ Exists
    BY <2>1 DEF Good, OsFits, SameMake, Running, Exists
  <2> QED  BY <2>1, <2>2 DEF EnvInv, NotSetUp, Made, Steady, Rejected, InSetup, Running, SameMake
<1> QED
  BY <1>1, <1>2, <1>3, <1>4, <1>5, <1>6, <1>7, <1>8, <1>9, <1>10, <1>11
     DEF Next, Session, Launching, Using, PlainActions

-----------------------------------------------------------------------------
(* The refinement *)

\* How the promise sees a session and the VM.
Views ==
  /\ EnvironmentSession = "out" <=> pc \in {"idle", "raised"}
  /\ pc \in Early \ {"launch"} => EnvironmentSession = "asking"
  /\ pc = "launch" => EnvironmentSession = "lacking"
  /\ InWarmup => EnvironmentSession = "asking"
  /\ InSetup \/ pc = "prepare" => EnvironmentSession = "making"
  /\ pc \in {"use", "unmount", "stop"} => EnvironmentSession = "held"
  /\ EnvironmentState =
       IF ~Exists THEN "none"
       ELSE IF vm.conf.setup /\ vm.state # "deleted" THEN "complete" ELSE "partial"

LEMMA ViewsHold == IInv => Views
<1> SUFFICES ASSUME IInv
             PROVE  Views
  OBVIOUS
<1>1. EnvironmentSession = "out" <=> pc \in {"idle", "raised"}
  BY DEF EnvironmentSession
<1>2. pc \in Early \ {"launch"} => EnvironmentSession = "asking"
  BY Domains DEF EnvironmentSession, Early, HostLabels, IInv, Places
<1>3. InWarmup => EnvironmentSession = "asking"
  BY Domains DEF EnvironmentSession, InWarmup
<1>4. InSetup \/ pc = "prepare" => EnvironmentSession = "making"
  BY Domains DEF EnvironmentSession, InSetup
<1>5. pc \in {"use", "unmount", "stop"} => EnvironmentSession = "held"
  BY DEF EnvironmentSession
<1>6. vm.conf.setup /\ Exists => vm.parts = Parts
  BY DEF IInv, Disk
<1>7. EnvironmentState =
        IF ~Exists THEN "none"
        ELSE IF vm.conf.setup /\ vm.state # "deleted" THEN "complete" ELSE "partial"
  BY <1>6 DEF EnvironmentState
<1>8. pc = "launch" => EnvironmentSession = "lacking"
  BY DEF EnvironmentSession
<1> QED  BY <1>1, <1>2, <1>3, <1>4, <1>5, <1>7, <1>8 DEF Views

Env == IInv /\ EnvInv /\ Views

\* A complete VM is good, as the promise sees it, when the checks find it good.
LEMMA GoodFits ==
  ASSUME Env, EnvironmentState = "complete"
  PROVE  /\ OsFits /\ vm.conf.tag = want.tag => <<EnvironmentKind, want>> \in KindFits
         /\ vm.conf.tag = Nothing => EnvironmentBlind
         /\ ~Good => <<EnvironmentKind, want>> \notin KindFits
<1>1. /\ Exists /\ vm.conf.setup /\ vm.base \in Bases /\ vm.tag \in Tags
      /\ vm.conf.tag \in {vm.tag, Nothing}
  BY DEF Env, Views, EnvInv, Made, IInv, Disk
<1>2. want \in Kinds /\ want.tag \in Tags /\ want.tag # Nothing
  BY NamesAssumption DEF Env, IInv, TypeOK, Kinds
<1>3. EnvironmentKind \in Kinds /\ EnvironmentKind.base = vm.base /\ EnvironmentKind.tag = vm.tag
  BY <1>1 DEF EnvironmentKind, Kinds
<1>4. <<EnvironmentKind, want>> \in KindFits <=> vm.tag = want.tag /\ OsFits
  BY <1>2, <1>3 DEF KindFits, OsFits
<1> QED  BY <1>1, <1>2, <1>4 DEF Good, EnvironmentBlind

\* What a step shows of itself that leaves the VM what it is.
Same == EnvironmentState' = EnvironmentState /\ EnvironmentKind' = EnvironmentKind /\ want' = want

LEMMA SameView ==
  ASSUME Env, Env', SameMake(vm, vm'), want' = want, broke \subseteq broke',
         Exists' <=> Exists, vm'.state = "deleted" <=> vm.state = "deleted",
         vm'.conf = vm.conf \/ (~vm.conf.setup /\ ~vm'.conf.setup)
  PROVE  /\ Same
         /\ broke' = broke =>
              EnvironmentBlind' = EnvironmentBlind /\ EnvironmentLost' = EnvironmentLost
         /\ broke' = broke \cup {"unread"} =>
              EnvironmentBlind' = TRUE /\ EnvironmentLost' = EnvironmentLost
         /\ EnvironmentBlind => EnvironmentBlind'
         /\ EnvironmentLost => EnvironmentLost'
<1>1. EnvironmentState' = EnvironmentState
  BY DEF Env, Views
<1>2. EnvironmentKind' = EnvironmentKind
  BY DEF EnvironmentKind, SameMake
<1>3. EnvironmentBlind \in BOOLEAN
  BY DEF EnvironmentBlind, Env, IInv, TypeOK, VmType
<1>4. broke' = broke \/ broke' = broke \cup {"unread"} => EnvironmentLost' = EnvironmentLost
  BY DEF EnvironmentLost
<1>5. EnvironmentLost => EnvironmentLost'
  BY DEF EnvironmentLost
<1> QED  BY <1>1, <1>2, <1>3, <1>4, <1>5 DEF Same, EnvironmentBlind

LEMMA StaysInPromise ==
  ASSUME Same, EnvironmentSession' = EnvironmentSession, EnvironmentBlind' = EnvironmentBlind,
         EnvironmentLost' = EnvironmentLost
  PROVE  [Promise!Next]_(Promise!vars)
  BY DEF Same, Promise!vars

LEMMA MisreadInPromise ==
  ASSUME Same, EnvironmentSession' = EnvironmentSession, EnvironmentSession \in {"asking", "making"},
         EnvironmentBlind' = TRUE, EnvironmentLost' = EnvironmentLost
  PROVE  [Promise!Next]_(Promise!vars)
  BY DEF Same, Promise!Next, Promise!Misread

LEMMA LeavesPromise ==
  ASSUME Same, EnvironmentSession # "out", EnvironmentSession' = "out",
         EnvironmentBlind => EnvironmentBlind', EnvironmentLost => EnvironmentLost'
  PROVE  [Promise!Next]_(Promise!vars)
  BY DEF Same, Promise!Next, Promise!Leave

\* A warmup hands a VM out.
LEMMA HandsOut ==
  ASSUME Env, Env', Plain, Advances, InWarmup, pc' = "use"
  PROVE  [Promise!Next]_(Promise!vars)
<1>1. pc = "snaps" /\ broke' = broke /\ Running /\ Exists
  BY Domains, WarmupOrder DEF Advances, Forward, Goto, InWarmup, Running, Exists
<1>2. Same /\ EnvironmentBlind' = EnvironmentBlind /\ EnvironmentLost' = EnvironmentLost
  BY <1>1, SameView DEF Plain, Exists
<1>3. EnvironmentSession = "asking" /\ EnvironmentSession' = "held"
  BY DEF Env, Views
<1>4. EnvironmentState = "complete"
  BY <1>1 DEF Env, IInv, WarmupFacts, Views, Running
<1>5. <<EnvironmentKind, want>> \in KindFits \/ EnvironmentBlind
  BY <1>1, <1>4, GoodFits DEF Env, IInv, WarmupFacts, TagFits, EnvironmentBlind
<1> QED  BY <1>2, <1>3, <1>4, <1>5 DEF Same, Promise!Next, Promise!Hand

\* A session finds no VM.
LEMMA MissInPromise ==
  ASSUME Env, Env', Plain, Before, pc' = "launch"
  PROVE  [Promise!Next]_(Promise!vars)
<1>1. Same /\ EnvironmentBlind' = EnvironmentBlind /\ EnvironmentLost' = EnvironmentLost
  BY SameView DEF Plain, Before, Exists
<1>2. EnvironmentSession = "asking" /\ EnvironmentSession' = "lacking"
  BY DEF Before, Env, Views
<1>3. EnvironmentState = "none"
  BY DEF Before, Env, Views
<1> QED  BY <1>1, <1>2, <1>3 DEF Same, Promise!Next, Promise!Miss

LEMMA PlainInPromise ==
  ASSUME Env, Env', PlainStep
  PROVE  [Promise!Next]_(Promise!vars)
<1>1. /\ Plain /\ (Exists' <=> Exists) /\ (vm'.state = "deleted" <=> vm.state = "deleted")
      /\ SameMake(vm, vm') /\ vm'.conf = vm.conf /\ want' = want
  BY DEF PlainStep, Plain, Exists
<1>2. broke \subseteq broke' =>
        Same /\ (EnvironmentBlind => EnvironmentBlind') /\ (EnvironmentLost => EnvironmentLost')
  BY <1>1, SameView
<1>3. ASSUME broke' = broke, EnvironmentSession' = EnvironmentSession
      PROVE  [Promise!Next]_(Promise!vars)
  BY <1>1, <1>3, SameView, StaysInPromise
<1>4. ASSUME broke' = broke \cup {"unread"},
             EnvironmentSession' = EnvironmentSession, EnvironmentSession \in {"asking", "making"}
      PROVE  [Promise!Next]_(Promise!vars)
  <2>1. EnvironmentBlind' = TRUE /\ EnvironmentLost' = EnvironmentLost
    BY <1>1, <1>4, SameView
  <2> QED  BY <1>2, <1>4, <2>1, MisreadInPromise
<1>5. CASE Stays
  BY <1>3, <1>5 DEF Stays, EnvironmentSession
<1>6. CASE Before
  <2>1. CASE pc' = "launch"
    BY <1>1, <1>6, <2>1, MissInPromise DEF Before
  <2>2. CASE pc' # "launch"
    BY <1>3, <1>6, <2>2 DEF Before, Env, Views
  <2> QED  BY <2>1, <2>2
<1>7. CASE Advances
  <2>1. CASE InSetup
    <3>1. InSetup'
      BY <1>7, <2>1, DoneNext DEF Advances, Forward, Goto, InSetup
    <3>2. EnvironmentSession' = EnvironmentSession /\ EnvironmentSession = "making"
      BY <2>1, <3>1 DEF Env, Views
    <3> QED  BY <1>3, <1>4, <1>7, <3>2 DEF Advances
  <2>2. CASE InWarmup /\ pc' = "use"
    BY <1>1, <1>7, <2>2, HandsOut
  <2>3. CASE InWarmup /\ pc' # "use"
    <3>1. InWarmup'
      BY <1>7, <2>3, Domains, WarmupOrder DEF Advances, Forward, Goto, InWarmup
    <3>2. EnvironmentSession' = EnvironmentSession /\ EnvironmentSession = "asking"
      BY <2>3, <3>1 DEF Env, Views
    <3> QED  BY <1>3, <1>4, <1>7, <3>2 DEF Advances
  <2> QED  BY <1>7, <2>1, <2>2, <2>3, StepPlaces DEF Advances, Env
<1>8. CASE Rejects
  <2>1. EnvironmentSession' = EnvironmentSession /\ EnvironmentSession = "asking"
    BY <1>8 DEF Rejects, Env, Views, Early
  <2> QED  BY <1>3, <1>4, <1>8, <2>1 DEF Rejects
<1>9. CASE Raises
  <2>1. EnvironmentSession # "out" /\ EnvironmentSession' = "out"
    BY <1>9, Domains DEF Raises, Env, Views, Labels, HostLabels, VmLabels, GuestLabels
  <2> QED  BY <1>2, <1>9, <2>1, LeavesPromise DEF Raises
<1>10. CASE SetsUp
  <2>1. InSetup'
    BY <1>10, Domains DEF SetsUp, InSetup
  <2>2. EnvironmentSession' = EnvironmentSession
    BY <1>10, <2>1 DEF SetsUp, Env, Views
  <2> QED  BY <1>3, <1>10, <2>2 DEF SetsUp
<1>11. CASE Closes
  <2>1. EnvironmentSession' = EnvironmentSession
    BY <1>11 DEF Closes, Env, Views
  <2> QED  BY <1>3, <1>11, <2>1 DEF Closes
<1> QED  BY <1>5, <1>6, <1>7, <1>8, <1>9, <1>10, <1>11 DEF PlainStep

LEMMA BeginInPromise ==
  ASSUME Env, Env', Begin
  PROVE  [Promise!Next]_(Promise!vars)
<1>1. /\ pc \in {"idle", "raised"} /\ pc' = "ensure" /\ vm' = vm /\ want' \in Kinds /\ broke' = {}
  BY DEF Begin, Goto
<1>2. EnvironmentSession = "out" /\ EnvironmentSession' = "asking"
  BY <1>1 DEF Env, Views, Early, HostLabels
<1>3. EnvironmentState' = EnvironmentState /\ EnvironmentKind' = EnvironmentKind
  BY <1>1 DEF EnvironmentState, EnvironmentKind, Exists
<1>4. (EnvironmentBlind' => EnvironmentBlind) /\ (EnvironmentLost' => EnvironmentLost)
  BY <1>1 DEF EnvironmentBlind, EnvironmentLost
<1> QED  BY <1>1, <1>2, <1>3, <1>4 DEF Promise!Next, Promise!Ask

LEMMA StartInPromise ==
  ASSUME Env, Env', Start
  PROVE  [Promise!Next]_(Promise!vars)
<1>1. /\ pc = "start" /\ pc' = "completed" /\ want' = want /\ phase' = phase /\ broke' = broke
      /\ SameMake(vm, vm') /\ vm'.conf = vm.conf
      /\ vm.state \in {"stopped", "running"} /\ vm'.state = "running"
  BY StartType DEF Start, Goto, Env, IInv, TypeOK, SameDisk, session
<1>2. Same /\ EnvironmentBlind' = EnvironmentBlind /\ EnvironmentLost' = EnvironmentLost
  BY <1>1, SameView DEF Exists
<1>3. InWarmup'
  BY <1>1, Domains DEF Env, IInv, Places, TypeOK, InWarmup
<1>4. EnvironmentSession' = EnvironmentSession
  BY <1>1, <1>3 DEF Env, Views, Early
<1> QED  BY <1>2, <1>4, StaysInPromise

\* What is deleted is no loss.
LEMMA DeleteInPromise ==
  ASSUME Env, Env', Delete
  PROVE  [Promise!Next]_(Promise!vars)
<1>1. /\ pc = "delete" /\ pc' = "launch" /\ want' = want /\ broke' = broke /\ vm' = NoVm /\ Exists
  BY DEF Delete, Goto, session
<1>2. EnvironmentSession = "asking" /\ EnvironmentSession' = "lacking"
  BY <1>1 DEF Env, Views, Early
<1>3. EnvironmentState' = "none" /\ EnvironmentKind' = [base |-> Nothing, tag |-> Nothing]
  BY <1>1 DEF EnvironmentState, EnvironmentKind, Exists, NoVm
<1>4. (EnvironmentBlind' => EnvironmentBlind) /\ EnvironmentLost' = EnvironmentLost
  BY <1>1, NoVmType DEF EnvironmentBlind, EnvironmentLost
<1>5. \/ EnvironmentState = "partial"
      \/ EnvironmentState = "complete" /\ ~Gone
  BY <1>1 DEF Env, Views, Gone, Exists
<1>6. EnvironmentState = "complete" => <<EnvironmentKind, want>> \notin KindFits \/ EnvironmentBlind
  BY <1>1, <1>5, GoodFits DEF Env, EnvInv, Rejected, EnvironmentBlind
<1> QED  BY <1>1, <1>2, <1>3, <1>4, <1>5, <1>6 DEF Promise!Next, Promise!Drop

LEMMA LaunchInPromise ==
  ASSUME Env, Env', Launch
  PROVE  [Promise!Next]_(Promise!vars)
<1>1. EnvironmentSession = "lacking" /\ EnvironmentSession' = "making"
  BY LaunchDisk DEF Env, Views, Early
<1>2. EnvironmentState = "none" /\ EnvironmentState' = "partial"
  BY LaunchDisk DEF Env, Views, Exists, NoConf
<1>3. EnvironmentKind' = want
  BY LaunchDisk DEF EnvironmentKind, Env, IInv, TypeOK, Kinds
<1>4. ~vm.conf.setup /\ ~vm'.conf.setup
  BY LaunchDisk DEF Env, IInv, Disk, NoConf
<1>5. EnvironmentBlind' = EnvironmentBlind /\ EnvironmentLost' = EnvironmentLost
  BY <1>4, LaunchDisk DEF EnvironmentBlind, EnvironmentLost, Env
<1> QED  BY <1>1, <1>2, <1>3, <1>5, LaunchDisk DEF Promise!Next, Promise!Make, Env

LEMMA ConfInPromise ==
  ASSUME Env, Env', Unset \/ Tagging
  PROVE  [Promise!Next]_(Promise!vars)
<1>1. /\ InSetup /\ InSetup' /\ SameMake(vm, vm') /\ vm'.state = vm.state
      /\ ~vm.conf.setup /\ ~vm'.conf.setup /\ want' = want
      /\ broke' = broke \/ broke' = broke \cup {"unread"}
  BY UnfinishedConf DEF Env, InSetup
<1>2. EnvironmentSession = "making" /\ EnvironmentSession' = "making"
  BY <1>1 DEF Env, Views
<1>3. /\ Same /\ EnvironmentLost' = EnvironmentLost
      /\ broke' = broke => EnvironmentBlind' = EnvironmentBlind
  BY <1>1, SameView DEF Exists
<1>4. CASE broke' = broke
  BY <1>2, <1>3, <1>4, StaysInPromise
<1>5. CASE broke' = broke \cup {"unread"}
  <2>1. EnvironmentBlind' = TRUE
    BY <1>5 DEF EnvironmentBlind
  <2> QED  BY <1>2, <1>3, <2>1, MisreadInPromise
<1> QED  BY <1>1, <1>4, <1>5

\* Only the session that has made the VM completes it.
LEMMA FinishInPromise ==
  ASSUME Env, Env', Finish
  PROVE  [Promise!Next]_(Promise!vars)
<1>1. /\ InSetup /\ pc' = "use" /\ Running /\ SameMake(vm, vm') /\ vm'.state = vm.state
      /\ vm'.conf.setup /\ want' = want
      /\ broke' = broke \/ broke' = broke \cup {"unread"}
  BY FinishConf DEF Env
<1>2. EnvironmentSession = "making" /\ EnvironmentSession' = "held"
  BY <1>1 DEF Env, Views
<1>3. Exists /\ ~vm.conf.setup
  BY <1>1 DEF Running, Exists, Env, EnvInv, NotSetUp
<1>4. EnvironmentState = "partial" /\ EnvironmentState' = "complete"
  BY <1>1, <1>3 DEF Env, Views, Running, Exists
<1>5. EnvironmentKind = want /\ EnvironmentKind' = EnvironmentKind
  BY <1>1, <1>3 DEF EnvironmentKind, SameMake, Env, IInv, SetupFacts, TypeOK, Kinds
<1>6. (EnvironmentBlind => EnvironmentBlind') /\ EnvironmentLost' = EnvironmentLost
  BY <1>1, <1>3 DEF EnvironmentBlind, EnvironmentLost
<1> QED  BY <1>1, <1>2, <1>4, <1>5, <1>6 DEF Promise!Next, Promise!Complete

LEMMA StopInPromise ==
  ASSUME Env, Env', Stop
  PROVE  [Promise!Next]_(Promise!vars)
<1>1. EnvironmentSession # "out" /\ EnvironmentSession' = "out"
  BY StopDisk DEF Env, Views
<1>2. Same /\ (EnvironmentBlind => EnvironmentBlind') /\ (EnvironmentLost => EnvironmentLost')
  BY StopDisk, SameView DEF Env, SameDisk, Gone
<1> QED  BY <1>1, <1>2, LeavesPromise

\* Another process deletes the VM, or the user does.
LEMMA LossInPromise ==
  ASSUME Env, Env', Prune \/ Trash
  PROVE  [Promise!Next]_(Promise!vars)
<1>1. UNCHANGED <<pc, want, phase>> /\ broke' = broke \cup {"gone"} /\ Exists
  BY DEF Prune, Trash, session, Exists
<1>2. EnvironmentSession' = EnvironmentSession /\ EnvironmentState # "none"
      /\ EnvironmentLost' = TRUE
  BY <1>1 DEF EnvironmentSession, EnvironmentState, EnvironmentLost
<1>3. CASE Prune
  <2>1. EnvironmentState' = "none" /\ EnvironmentKind' = [base |-> Nothing, tag |-> Nothing]
    BY <1>3 DEF Prune, EnvironmentState, EnvironmentKind, Exists, NoVm
  <2>2. EnvironmentBlind' => EnvironmentBlind
    BY <1>1, <1>3, NoVmType DEF Prune, EnvironmentBlind
  <2> QED  BY <1>1, <1>2, <2>1, <2>2 DEF Promise!Next, Promise!Lose
<1>4. CASE Trash
  <2>1. EnvironmentState' = "partial"
    BY <1>4, TrashDisk DEF Env, Views, Exists
  <2>2. EnvironmentKind' = EnvironmentKind /\ (EnvironmentBlind' => EnvironmentBlind)
    BY <1>1, <1>4, TrashDisk DEF Env, EnvironmentKind, EnvironmentBlind, SameDisk, SameMake
  <2> QED  BY <1>1, <1>2, <2>1, <2>2 DEF Promise!Next, Promise!Lose
<1> QED  BY <1>3, <1>4

LEMMA VmStepInPromise ==
  ASSUME Env, Env', VmStep
  PROVE  [Promise!Next]_(Promise!vars)
<1>1. /\ UNCHANGED <<pc, want, phase, broke>> /\ SameMake(vm, vm') /\ vm'.conf = vm.conf
      /\ vm.state = "running" /\ vm'.state \in {"running", "stopped"}
  BY VmStepType DEF VmStep, session, Env, IInv, TypeOK, SameDisk, Running
<1>2. Same /\ EnvironmentBlind' = EnvironmentBlind /\ EnvironmentLost' = EnvironmentLost
  BY <1>1, SameView DEF Exists
<1>3. EnvironmentSession' = EnvironmentSession
  BY <1>1 DEF EnvironmentSession
<1> QED  BY <1>2, <1>3, StaysInPromise

-----------------------------------------------------------------------------
(* The theorems *)

\* Every variable keeps its type.
THEOREM TypeCorrect == Spec => []TypeOK
<1>1. IInv => TypeOK
  BY DEF IInv
<1> QED  BY <1>1, Invariant, PTL

\* A wait ends at most one retry after its deadline, and gives up no earlier than one
\* retry before it.
THEOREM WaitsCorrect == Spec => []WaitsAreBounded
<1>1. IInv => WaitsAreBounded
  BY DEF IInv, Places, WaitsAreBounded
<1> QED  BY <1>1, Invariant, PTL

\* What a session hands out has been set up to the last step, for this base and proxy.
THEOREM AcceptedCorrect == Spec => []AcceptedIsComplete
<1>1. IInv => AcceptedIsComplete
  BY DEF IInv, Disk, Proxied, Accepted, AcceptedIsComplete, Exists
<1> QED  BY <1>1, Invariant, PTL

\* Nothing but a deletion takes the VM away from the application that uses it.
THEOREM UseCorrect == Spec => []UseIsUndisturbed
<1>1. IInv => UseIsUndisturbed
  BY DEF IInv, Up, UseIsUndisturbed
<1> QED  BY <1>1, Invariant, PTL

\* No snap is installed while snapd refreshes others or has an old proxy.
THEOREM SnapsCorrect == Spec => []SnapsUndisturbed
<1>1. IInv => SnapsUndisturbed
  BY SnapsFacts DEF SnapsUndisturbed
<1> QED  BY <1>1, Invariant, PTL

\* A session that ends leaves nothing mounted and the VM off, or about to be.
THEOREM EndsCorrect == Spec => []SessionEndsClean
<1>1. IInv => SessionEndsClean
  BY DEF IInv, Ends, SessionEndsClean
<1> QED  BY <1>1, Invariant, PTL

\* The network that is not up yet, a refresh, and a new VM never fail a session.
THEOREM RaisesCorrect == Spec => []RaisesForAReason
<1>1. IInv => RaisesForAReason
  BY DEF IInv, Ends, RaisesForAReason
<1> QED  BY <1>1, Invariant, PTL

\* A VM that is set up and of the kind asked for is not deleted by a session.
THEOREM GoodVmCorrect == Spec => GoodVmIsKept
<1>1. IInv /\ [Next]_vars =>
        (pc = "delete" /\ vm' = NoVm => ~Good \/ broke' \cap {"gone", "unread"} # {})
  <2> SUFFICES ASSUME IInv, [Next]_vars, pc = "delete", vm' = NoVm, Good
               PROVE  broke' \cap {"gone", "unread"} # {}
    OBVIOUS
  <2>1. broke \cap {"gone", "unread"} # {}
    BY DEF IInv, Ends
  <2>2. broke \subseteq broke'
    <3>1. CASE Prune \/ Trash \/ Fail \/ Crash
      BY <3>1 DEF Prune, Trash, Fail, Crash, Raise
    <3>2. CASE DaemonUp \/ VmStep \/ UNCHANGED vars
      BY <3>2 DEF DaemonUp, VmStep, vars
    <3>3. CASE Begin
      BY <3>3 DEF Begin
    <3>4. CASE Available
      BY <3>4 DEF Available, Ensure, Install, Await, Ready, Request, Raise
    <3>5. CASE Launching \/ Using \/ Lost
      BY <3>5
         DEF Launching, LookUp, Start, Delete, Launch, Prepare, Using, MountProject, Leave,
             UnmountAll, Stop, Lost, Raise
    <3>6. CASE SetupStep
      BY <3>6
         DEF SetupStep, Unset, Tagging, Environment, DisableAutomaticApt, Network, AptConf,
             AptUpdate, InstallPackages, PreSetupSnapd, InstallSnapd, EnableSnapd, HoldRefreshes,
             CleanUp, Finish, Leaves, NeedsApt, Raise
    <3>7. CASE WarmupStep
      BY <3>7
         DEF WarmupStep, CheckSetup, ImageCheck, MountCache, Try, Waited, Permissions, SetProxy,
             InstallSnaps, Leaves, Raise, Waits
    <3> QED  BY <3>1, <3>2, <3>3, <3>4, <3>5, <3>6, <3>7 DEF Next, Session
  <2> QED  BY <2>1, <2>2
<1>2. IInv /\ [Next]_vars =>
        [pc = "delete" /\ vm' = NoVm => ~Good \/ broke' \cap {"gone", "unread"} # {}]_vars
  BY <1>1
<1> QED  BY <1>2, Invariant, PTL DEF Spec, GoodVmIsKept

\* Each step of a session brings it nearer to its end, by a number that no fault, no
\* deletion and no step of the VM makes larger: whatever happens, a session takes no more
\* than forty-four times the steps that one wait may take.
THEOREM AdvancesCorrect == Spec => SessionAdvances
<1> DEFINE Bounds == Place \in 1 .. 44 /\ Here \in 0 .. (Timeout + 1)
<1>1. Init => IInv /\ Timed
  BY InitInv, NewCallTimed DEF Init, Timed
<1>2. IInv /\ Timed /\ [Next]_vars => IInv' /\ Timed'
  BY StepInv, TimedKeeps
<1>3. IInv /\ Timed => Bounds
  BY PlaceType, HereType
<1>4. ASSUME IInv, IInv', Timed, Timed', Bounds, Bounds', [Next]_vars
      PROVE  [/\ Session => StepsLeft' \in 0 .. (StepsLeft - 1)
              /\ pc \in Labels => StepsLeft' \in 0 .. StepsLeft]_vars
  <2>1. StepsLeft = Left(Place, Here) /\ StepsLeft' = Left(Place', Here')
    BY DEF StepsLeft, Left
  <2>2. Left(Place, Here) \in Nat
    BY <1>4, Nearer
  <2>3. ASSUME Further
        PROVE  StepsLeft' \in 0 .. (StepsLeft - 1)
    BY <1>4, <2>1, <2>3, Nearer DEF Further
  <2>4. Session => StepsLeft' \in 0 .. (StepsLeft - 1)
    BY <1>4, <2>3, SessionFurther
  <2>5. StepsLeft' \in 0 .. (StepsLeft - 1) => StepsLeft' \in 0 .. StepsLeft
    BY <2>1, <2>2
  <2>6. ASSUME pc \in Labels, ~Session
        PROVE  StepsLeft' \in 0 .. StepsLeft
    <3>1. CASE Place' = Place /\ Here' <= Here
      BY <1>4, <2>1, <3>1, Nearer
    <3> QED  BY <1>4, <2>3, <2>5, <2>6, <3>1, OthersFurther
  <2> QED  BY <2>4, <2>5, <2>6
<1> QED  BY <1>1, <1>2, <1>3, <1>4, PTL DEF Spec, SessionAdvances

\* The provider keeps the promise of launched_environment(), for every base, tag and
\* proxy, whatever fails and whoever deletes the VM.
THEOREM EnvironmentCorrect == Spec => ImplementsEnvironment
<1>1. Init => IInv /\ EnvInv
  BY InitInv, EnvInit
<1>2. IInv /\ EnvInv /\ [Next]_vars => IInv' /\ EnvInv'
  BY StepInv, EnvStep
<1>3. IInv => Views
  BY ViewsHold
<1>4. Init => Promise!Init
  <2> SUFFICES ASSUME Init
               PROVE  Promise!Init
    OBVIOUS
  <2>1. vm = NoVm /\ pc = "idle" /\ want \in Kinds /\ broke = {}
    BY DEF Init
  <2>2. EnvironmentState = "none" /\ EnvironmentSession = "out"
        /\ EnvironmentKind = [base |-> Nothing, tag |-> Nothing] /\ EnvironmentBlind = FALSE
        /\ EnvironmentLost = FALSE
    BY <2>1 DEF EnvironmentState, EnvironmentSession, EnvironmentKind, EnvironmentBlind,
                EnvironmentLost, Exists, NoVm, NoConf
  <2> QED  BY <2>1, <2>2 DEF Promise!Init
<1>5. ASSUME IInv, EnvInv, Views, IInv', EnvInv', Views', [Next]_vars
      PROVE  [Promise!Next]_(Promise!vars)
  <2>1. Env /\ Env'
    BY <1>5 DEF Env
  <2>2. CASE PlainActions
    BY <1>5, <2>1, <2>2, PlainSteps, PlainInPromise
  <2> QED
    BY <1>5, <2>1, <2>2, BeginInPromise, StartInPromise, DeleteInPromise, LaunchInPromise,
       ConfInPromise, FinishInPromise, StopInPromise, LossInPromise, VmStepInPromise
       DEF Next, Session, Launching, Using, PlainActions
<1> QED  BY <1>1, <1>2, <1>3, <1>4, <1>5, PTL DEF Spec, ImplementsEnvironment, Promise!Spec
=============================================================================
