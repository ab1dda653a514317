----------------------------- MODULE InstanceUse -----------------------------
(***************************************************************************)
(* One instance of the LXD provider over its life: sessions, each one a    *)
(* process in LXDProvider.launched_environment(), that create it from the  *)
(* base, find it again, use it, and stop it now or some minutes later.     *)
(* The delayed shutdown waits inside the guest and outlives the session.   *)
(*                                                                         *)
(* An action is one call to the LXD server or one command in the guest.    *)
(* launched_environment() sets auto_clean and map_user_uid, and takes the  *)
(* instance for the same user every time.                                  *)
(***************************************************************************)
EXTENDS Naturals

CONSTANTS
  Procs,   \* the processes that may have a session
  Delays,  \* how sessions end: a subset of {"now", "later"}
  Copies,  \* how launch() comes to copy the base: a subset of CopyKinds
  Faults   \* what may go wrong: a subset of FaultKinds

CopyKinds ==
  { "valid",     \* launch() found a valid base
    "built",     \* _create_instance() built the base for this session
    "followed" } \* _create_instance() waited for another builder

FaultKinds ==
  { "crash",    \* the process of a session is killed
    "reboot",   \* the host is restarted
    "guest",    \* a command for the guest fails, and an exception says so
    "silent" }  \* a command for the guest fails, and nobody looks

ASSUME DelaysAssumption == Delays \subseteq {"now", "later"}
ASSUME CopiesAssumption == Copies \subseteq CopyKinds
ASSUME FaultsAssumption == Faults \subseteq FaultKinds

VARIABLES
  inst,       \* the instance, as the LXD server has it
  pc,         \* where each session is, "idle" when there is none
  via,        \* how each session came to its instance
  crowd,      \* history: two sessions were alive at the same time
  surprised,  \* history: the sessions under which a shutdown has come
  excused     \* history: the sessions in which something failed

history == <<crowd, surprised, excused>>
vars == <<inst, pc, via, history>>

-----------------------------------------------------------------------------
(* State *)

\* In the order of launched_environment().
PCs == {"idle", "idmap", "clean", "running", "cancel",
        "copy", "copied", "map",
        "start", "start_taken", "claim", "start_cancel",
        "lxc_start", "started", "mark", "hostname",
        "warmup", "mount",
        "use", "unmount", "stop", "stopped", "release", "shutdown"}

Absent == [run |-> "ABSENT", status |-> "NONE", mapped |-> FALSE,
           named |-> FALSE, mounted |-> FALSE, pending |-> FALSE]

Exists == inst.run # "ABSENT"
Running == inst.run = "RUNNING"

\* Mutant: the shutdown stays scheduled.
Halted_TimerStays(i) == [i EXCEPT !.run = "STOPPED"]

\* The instance when it has stopped: a shutdown that was scheduled in the
\* guest is forgotten, the devices and the keys stay.
Halted(i) == [i EXCEPT !.run = "STOPPED", !.pending = FALSE]

Active(p) == pc[p] # "idle"

\* launch() has not returned yet.
Launching(p) ==
  pc[p] \notin {"idle", "use", "unmount", "stop", "stopped", "release",
                "shutdown"}

-----------------------------------------------------------------------------
(* Helpers of the actions *)

Goto(p, at) == pc' = [pc EXCEPT ![p] = at]

\* An exception leaves launched_environment(), or its end is reached.
\* Nothing is undone.
Leave(p) == Goto(p, "idle")

\* A command for the guest fails and raises.
GuestFails(p) ==
  /\ "guest" \in Faults
  /\ Leave(p)
  /\ excused' = excused \union {p}

\* Every call of the lxc client raises when the instance is not there.
Gone(p) == ~Exists /\ Leave(p) /\ UNCHANGED <<inst, via, history>>

\* `shutdown -c`, whose result is not looked at.
CancelShutdown(p) ==
  \/ /\ Exists
     /\ inst' = [inst EXCEPT !.pending = FALSE]
     /\ UNCHANGED excused
  \/ /\ ~Exists
     /\ UNCHANGED <<inst, excused>>
  \/ /\ "silent" \in Faults
     /\ excused' = excused \union {p}
     /\ UNCHANGED inst

-----------------------------------------------------------------------------
(* launch() and _launch_existing_instance() *)

Init ==
  /\ inst = Absent
  /\ pc = [p \in Procs |-> "idle"]
  /\ via = [p \in Procs |-> "existing"]
  /\ crowd = FALSE
  /\ surprised = {}
  /\ excused = {}

\* A session begins: instance.exists().
Enter(p) ==
  /\ pc[p] = "idle"
  /\ Goto(p, IF Exists THEN "idmap" ELSE "copy")
  /\ via' = [via EXCEPT ![p] = "existing"]
  /\ crowd' = (crowd \/ \E q \in Procs : Active(q))
  /\ excused' = excused \ {p}
  /\ surprised' = surprised \ {p}
  /\ UNCHANGED inst

\* Mutant: an instance without id map is taken as it is.
CheckIdMap_AnyMap(p) ==
  /\ pc[p] = "idmap"
  /\ \/ Gone(p)
     \/ Exists /\ Goto(p, "running") /\ UNCHANGED <<inst, via, history>>

CheckIdMap(p) ==
  /\ pc[p] = "idmap"
  /\ \/ Gone(p)
     \/ /\ Exists
        /\ Goto(p, IF inst.mapped THEN "running" ELSE "clean")
        /\ UNCHANGED <<inst, via, history>>

\* auto_clean: the instance is deleted and made again from the base.
Clean(p) ==
  /\ pc[p] = "clean"
  /\ \/ Gone(p)
     \/ /\ Exists
        /\ inst' = Absent
        /\ Goto(p, "copy")
        /\ UNCHANGED <<via, history>>

\* Mutant: every instance is taken for running.
CheckRunning_Always(p) ==
  /\ pc[p] = "running"
  /\ \/ Gone(p)
     \/ Exists /\ Goto(p, "cancel") /\ UNCHANGED <<inst, via, history>>

CheckRunning(p) ==
  /\ pc[p] = "running"
  /\ \/ Gone(p)
     \/ /\ Exists
        /\ Goto(p, IF Running THEN "cancel" ELSE "start")
        /\ UNCHANGED <<inst, via, history>>

\* Mutant: the shutdown of the last session is not cancelled.
Cancel_Forgotten(p) ==
  /\ pc[p] = "cancel"
  /\ Goto(p, "warmup")
  /\ UNCHANGED <<inst, via, history>>

\* The instance was running: its shutdown is cancelled.  Its status is
\* neither looked at nor set.
Cancel(p) ==
  /\ pc[p] = "cancel"
  /\ CancelShutdown(p)
  /\ Goto(p, "warmup")
  /\ UNCHANGED <<via, crowd, surprised>>

-----------------------------------------------------------------------------
(* A new instance: the copy of the base, in launch() or _create_instance() *)

\* The keys of the base are copied with it.  Its hostname is that of the
\* process that built it.
Copy(p) ==
  /\ pc[p] = "copy"
  /\ \/ \E kind \in Copies :
          /\ ~Exists
          /\ inst' = [Absent EXCEPT !.run = "STOPPED", !.status = "FINISHED",
                                    !.named = (kind = "built")]
          /\ via' = [via EXCEPT ![p] = kind]
          /\ Goto(p, IF kind = "valid" THEN "copied" ELSE "map")
     \/ /\ Exists
        /\ Leave(p)
        /\ UNCHANGED <<inst, via>>
  /\ UNCHANGED history

\* launch() stops the copy if it runs.  Here stop() is one step.
StopCopy(p) ==
  /\ pc[p] = "copied"
  /\ \/ Gone(p)
     \/ /\ Exists
        /\ inst' = IF Running THEN Halted([inst EXCEPT !.status = "FINISHED"])
                              ELSE inst
        /\ Goto(p, "map")
        /\ UNCHANGED <<via, history>>

SetIdMap(p) ==
  /\ pc[p] = "map"
  /\ \/ Gone(p)
     \/ /\ Exists
        /\ inst' = [inst EXCEPT !.mapped = TRUE]
        /\ Goto(p, "start")
        /\ UNCHANGED <<via, history>>

-----------------------------------------------------------------------------
(* LXDInstance.start() *)

Start(p) ==
  /\ pc[p] = "start"
  /\ \/ Gone(p)
     \/ /\ Exists
        /\ Goto(p, IF Running THEN "start_taken" ELSE "lxc_start")
        /\ UNCHANGED <<inst, via, history>>

\* "The same instance cannot be used by multiple processes."
StartTaken(p) ==
  /\ pc[p] = "start_taken"
  /\ \/ Gone(p)
     \/ /\ Exists
        /\ IF inst.status = "FINISHED" THEN Goto(p, "claim") ELSE Leave(p)
        /\ UNCHANGED <<inst, via, history>>

Claim(p) ==
  /\ pc[p] = "claim"
  /\ \/ Gone(p)
     \/ /\ Exists
        /\ inst' = [inst EXCEPT !.status = "IN_USE"]
        /\ Goto(p, "start_cancel")
        /\ UNCHANGED <<via, history>>

\* Mutant: the hostname of the base's builder stays.
AfterStart_KeepsHostname(p) == "warmup"

\* Where start() returns to.
AfterStart(p) == IF via[p] = "valid" THEN "hostname" ELSE "warmup"

StartCancel(p) ==
  /\ pc[p] = "start_cancel"
  /\ CancelShutdown(p)
  /\ Goto(p, AfterStart(p))
  /\ UNCHANGED <<via, crowd, surprised>>

\* `lxc start` fails if the instance runs already.
LxcStart(p) ==
  /\ pc[p] = "lxc_start"
  /\ \/ /\ inst.run = "STOPPED"
        /\ inst' = [inst EXCEPT !.run = "RUNNING"]
        /\ Goto(p, "started")
     \/ /\ inst.run # "STOPPED"
        /\ Leave(p)
        /\ UNCHANGED inst
  /\ UNCHANGED <<via, history>>

\* It is seen running, or not for the whole timeout.
Started(p) ==
  /\ pc[p] = "started"
  /\ IF Running THEN Goto(p, "mark") ELSE Leave(p)
  /\ UNCHANGED <<inst, via, history>>

MarkInUse(p) ==
  /\ pc[p] = "mark"
  /\ \/ Gone(p)
     \/ /\ Exists
        /\ inst' = [inst EXCEPT !.status = "IN_USE"]
        /\ Goto(p, AfterStart(p))
        /\ UNCHANGED <<via, history>>

-----------------------------------------------------------------------------
(* The guest: setup_hostname() and warmup() *)

SetHostname(p) ==
  /\ pc[p] = "hostname"
  /\ \/ /\ Running
        /\ inst' = [inst EXCEPT !.named = TRUE]
        /\ Goto(p, "warmup")
        /\ UNCHANGED excused
     \/ GuestFails(p) /\ UNCHANGED inst
     \/ ~Running /\ Leave(p) /\ UNCHANGED <<inst, excused>>
  /\ UNCHANGED <<via, crowd, surprised>>

\* Mutant: the instance is not cleaned.
NotSetUp_Raises(p) == Leave(p)

\* warmup() without the setup flag: BaseCompatibilityError, for which
\* _launch_existing_instance() cleans the instance.
NotSetUp(p) == IF via[p] = "existing" THEN Goto(p, "clean") ELSE Leave(p)

\* _ensure_setup_completed().  The configuration is there since the base was
\* set up; but when the command that looks for it fails, because the instance
\* does not run or for whatever reason, it is taken for missing.
CheckSetup(p) ==
  /\ pc[p] = "warmup"
  /\ \/ Running /\ Goto(p, "mount") /\ UNCHANGED excused
     \/ ~Running /\ NotSetUp(p) /\ UNCHANGED excused
     \/ /\ "silent" \in Faults
        /\ NotSetUp(p)
        /\ excused' = excused \union {p}
     \/ GuestFails(p)
  /\ UNCHANGED <<inst, via, crowd, surprised>>

\* The rest of warmup(), and ensure_guest_compatible().  There may be no
\* cache to mount, and a mount that fails is only logged.
Mount(p) ==
  /\ pc[p] = "mount"
  /\ \/ /\ Running
        /\ \E m \in {TRUE, inst.mounted} :
             inst' = [inst EXCEPT !.mounted = m]
        /\ Goto(p, "use")
        /\ UNCHANGED excused
     \/ GuestFails(p) /\ UNCHANGED inst
     \/ ~Running /\ Leave(p) /\ UNCHANGED <<inst, excused>>
  /\ UNCHANGED <<via, crowd, surprised>>

-----------------------------------------------------------------------------
(* The end of a session: unmount_all() and LXDInstance.stop() *)

\* Mutant: the instance is stopped without unmounting.
Use_StopsFirst(p) ==
  /\ pc[p] = "use"
  /\ \E d \in Delays : Goto(p, IF d = "now" THEN "stop" ELSE "release")
  /\ UNCHANGED <<inst, via, history>>

Use(p) ==
  /\ pc[p] = "use"
  /\ Goto(p, "unmount")
  /\ UNCHANGED <<inst, via, history>>

\* When an unmount fails, stop() is not called.
UnmountAll(p) ==
  /\ pc[p] = "unmount"
  /\ \/ Gone(p)
     \/ /\ Exists
        /\ inst' = [inst EXCEPT !.mounted = FALSE]
        /\ \E d \in Delays : Goto(p, IF d = "now" THEN "stop" ELSE "release")
        /\ UNCHANGED <<via, history>>
     \/ GuestFails(p) /\ UNCHANGED <<inst, via, crowd, surprised>>

Stop(p) ==
  /\ pc[p] = "stop"
  /\ \/ /\ Running
        /\ inst' = Halted(inst)
        /\ Goto(p, "stopped")
     \/ /\ ~Running
        /\ Leave(p)
        /\ UNCHANGED inst
  /\ UNCHANGED <<via, history>>

Stopped(p) ==
  /\ pc[p] = "stopped"
  /\ Leave(p)
  /\ inst' = IF inst.run = "STOPPED" THEN [inst EXCEPT !.status = "FINISHED"]
                                     ELSE inst
  /\ UNCHANGED <<via, history>>

\* stop(delay_mins): the status first, then the shutdown.
Release(p) ==
  /\ pc[p] = "release"
  /\ \/ Gone(p)
     \/ /\ Exists
        /\ inst' = [inst EXCEPT !.status = "FINISHED"]
        /\ Goto(p, "shutdown")
        /\ UNCHANGED <<via, history>>

Shutdown(p) ==
  /\ pc[p] = "shutdown"
  /\ \/ /\ Running
        /\ inst' = [inst EXCEPT !.pending = TRUE]
        /\ Leave(p)
        /\ UNCHANGED excused
     \/ GuestFails(p) /\ UNCHANGED inst
     \/ ~Running /\ Leave(p) /\ UNCHANGED <<inst, excused>>
  /\ UNCHANGED <<via, crowd, surprised>>

-----------------------------------------------------------------------------
(* The environment *)

\* The minutes are over.
Fire ==
  /\ inst.pending
  /\ inst' = Halted(inst)
  /\ surprised' = surprised \union {p \in Procs : Active(p)}
  /\ UNCHANGED <<pc, via, crowd, excused>>

Crash(p) ==
  /\ "crash" \in Faults
  /\ Active(p)
  /\ Leave(p)
  /\ excused' = excused \union {p}
  /\ UNCHANGED <<inst, via, crowd, surprised>>

Reboot ==
  /\ "reboot" \in Faults
  /\ pc' = [p \in Procs |-> "idle"]
  /\ excused' = excused \union {p \in Procs : Active(p)}
  /\ inst' = IF Running THEN Halted(inst) ELSE inst
  /\ UNCHANGED <<via, crowd, surprised>>

-----------------------------------------------------------------------------
\* One step of the session of process p.
Session(p) ==
  \/ Enter(p) \/ CheckIdMap(p) \/ Clean(p) \/ CheckRunning(p) \/ Cancel(p)
  \/ Copy(p) \/ StopCopy(p) \/ SetIdMap(p)
  \/ Start(p) \/ StartTaken(p) \/ Claim(p) \/ StartCancel(p)
  \/ LxcStart(p) \/ Started(p) \/ MarkInUse(p)
  \/ SetHostname(p) \/ CheckSetup(p) \/ Mount(p)
  \/ Use(p) \/ UnmountAll(p) \/ Stop(p) \/ Stopped(p)
  \/ Release(p) \/ Shutdown(p)

Next ==
  \/ \E p \in Procs : Session(p) \/ Crash(p)
  \/ Fire
  \/ Reboot

Spec == Init /\ [][Next]_vars

-----------------------------------------------------------------------------
(* Properties *)

Instance == [run : {"ABSENT", "STOPPED", "RUNNING"},
             status : {"NONE", "FINISHED", "IN_USE"},
             mapped : BOOLEAN, named : BOOLEAN, mounted : BOOLEAN,
             pending : BOOLEAN]

\* Every variable has its type, and only what runs can be about to stop.
TypeOK ==
  /\ inst \in Instance
  /\ inst.pending => Running
  /\ pc \in [Procs -> PCs]
  /\ via \in [Procs -> {"existing"} \union CopyKinds]
  /\ crowd \in BOOLEAN
  /\ surprised \subseteq Procs
  /\ excused \subseteq Procs

\* As long as sessions come one after the other, the instance that a session
\* uses runs, maps the user and is not about to be shut down by an earlier
\* session - after crashes, reboots and sessions that failed at
\* any point, and with shutdowns that fire at any time.
UseIsUndisturbed ==
  ~crowd => \A p \in Procs :
    pc[p] = "use" /\ p \notin excused =>
      Running /\ inst.mapped /\ ~inst.pending

\* An instance is never started without its id map, as long as sessions come
\* one after the other: one that a session left unmapped is cleaned first.
RunsOnlyMapped ==
  ~crowd => (Running => inst.mapped)

\* An instance that the session has made has the hostname that its own process
\* asked for, also when another process built the base; a copy made by
\* _create_instance() after it waited for that builder is the exception.
MadeIsNamed ==
  ~crowd => \A p \in Procs :
    pc[p] = "use" /\ via[p] \in {"valid", "built"} => inst.named

\* launch() raises only when something fails: a session that is alone gets
\* its instance whatever an earlier session left behind, even when a delayed
\* shutdown fires between two of its calls.
LaunchSucceedsAlone ==
  [][\A p \in Procs :
       Launching(p) /\ pc'[p] = "idle" => crowd \/ p \in excused']_vars

\* When a session comes to its end, "all directories are unmounted and the
\* environment is stopped" (launched_environment), or about to be, unless the
\* command that ends it failed.
SessionEndsClean ==
  [][\A p \in Procs :
       /\ pc[p] \in {"unmount", "stop", "stopped", "release", "shutdown"}
       /\ pc'[p] = "idle"
       => \/ crowd \/ p \in excused'
          \/ ~inst'.mounted /\ (inst'.run = "RUNNING" => inst'.pending)]_vars

\* auto_clean deletes no instance that is set up and mapped, as long as
\* sessions come one after the other: not even after a crash, except in a
\* session under which a shutdown has fired or in which a command has failed.
CleansOnlyBroken ==
  [][inst.mapped /\ inst'.run = "ABSENT" =>
       \/ crowd
       \/ \E p \in excused \union surprised : pc[p] = "clean"]_vars

\* The same without regard to shutdowns: an instance is cleaned only if it is
\* incompatible or its id map does not match (_launch_existing_instance).
GoodInstanceIsKept ==
  [][inst.mapped /\ inst'.run = "ABSENT" => crowd]_vars

\* "The same instance cannot be used by multiple processes."
OneUser ==
  \A p, q \in Procs : pc[p] = "use" /\ pc[q] = "use" => p = q
=============================================================================
