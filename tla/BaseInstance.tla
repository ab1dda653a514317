---------------------------- MODULE BaseInstance ----------------------------
(***************************************************************************)
(* The shared base instance of the LXD provider: several processes call    *)
(* launcher.launch(use_base_instance=True) at the same time, each for an   *)
(* instance of its own, and all of them for the same base instance.        *)
(*                                                                         *)
(* There is no lock.  The processes coordinate through the LXD server      *)
(* only: `lxc launch` creates a name once, and three configuration keys of *)
(* the base (user.craft_providers.status, .timer, .pid) tell the others    *)
(* how far its creator is.  An action is one call to the server with the   *)
(* Python code that surrounds it.                                          *)
(*                                                                         *)
(* The timer key is kept as the set of processes whose InstanceTimer       *)
(* thread runs: a waiter only asks whether the key still changes.          *)
(***************************************************************************)
EXTENDS Naturals

CONSTANTS
  Procs,       \* the processes that call launch()
  NoProc,      \* the pid of a process that is long gone
  SetupSteps,  \* how many steps Base.setup() is cut into
  MaxRetries,  \* lxc.MAX_RETRIES
  Faults       \* what may go wrong: a subset of FaultKinds

FaultKinds ==
  { "crash",    \* a process is killed
    "reboot",   \* the host is restarted
    "launch",   \* `lxc launch` fails for a reason of its own
    "setup",    \* a command of Base.setup() fails or times out
    "info",     \* one reading call to the server fails
    "expire",   \* the base grows older than the expiration
    "slow" }    \* a step that no timer covers lasts over 60 seconds

ASSUME ProcsAssumption == NoProc \notin Procs
ASSUME StepsAssumption == SetupSteps \in Nat \ {0}
ASSUME RetriesAssumption == MaxRetries \in Nat \ {0}
ASSUME FaultsAssumption == Faults \subseteq FaultKinds

VARIABLES
  base,      \* the base instance, as the LXD server has it
  pc,        \* where each process is in launch()
  seen,      \* the instance state a process read in its last info()
  via,       \* who called check_instance_status(): _is_valid or LXC.launch
  retry,     \* retry_count of LXC.launch
  step,      \* the setup steps a process has done
  ticking,   \* the processes whose InstanceTimer thread runs
  copied,    \* what each process got as its copy of the base
  current,   \* history: processes that have read this incarnation only
  disturbed  \* history: a base was deleted under a process that relied on it

local == <<seen, via, retry, step>>
history == <<copied, current, disturbed>>
vars == <<base, pc, local, ticking, history>>

-----------------------------------------------------------------------------
(* State *)

Steps == 1..SetupSteps

RunStates == {"ABSENT", "CREATING", "STOPPED", "RUNNING"}
Statuses == {"NONE", "STARTING", "PREPARING", "FINISHED"}

\* In the order of the code: launch(), _is_valid(), check_instance_status(),
\* LXC.launch(), _create_instance().
PCs == {"exists", "valid", "state", "status", "pid", "delete",
        "wait", "wait_status", "cleanup",
        "lxc_launch", "creating", "get_status",
        "prepare", "setup", "finish", "stop", "stopped",
        "copy", "done", "failed", "dead"}

Absent == [run |-> "ABSENT", status |-> "NONE", pid |-> NoProc,
           steps |-> {}, old |-> FALSE]

\* A base that an earlier process, long gone, has left.
Ready(old) == [run |-> "STOPPED", status |-> "FINISHED", pid |-> NoProc,
               steps |-> Steps, old |-> old]

Exists == base.run # "ABSENT"

\* `lxc delete --force` and `lxc copy` are refused while LXD creates or
\* starts the instance.
Free == base.run \in {"STOPPED", "RUNNING"}

\* The "Status" line of `lxc info`.
InfoState == IF base.run = "RUNNING" THEN "RUNNING" ELSE "STOPPED"

Complete == base.steps = Steps

\* A process that has not called launch() yet waits at "exists".
Alive(p) == pc[p] \notin {"exists", "dead"}

\* The processes that rely on the base they launched or found ready.
RelyingPCs == {"get_status", "prepare", "setup", "finish", "stop",
               "stopped", "copy"}

\* The process that has created the base and is not through with it.
Building(p) ==
  \/ pc[p] \in {"creating", "prepare", "setup", "finish", "stop", "stopped"}
  \/ pc[p] = "get_status" /\ base.status # "FINISHED"

\* Mutant: the loop is left after one reading of the timer.
TimerSilent_OneReading == TRUE

\* A waiter reads 20 times the same timer, 60 seconds long: no timer thread
\* runs, and no builder is between two steps that a timer covers.
TimerSilent ==
  /\ ticking = {}
  /\ "slow" \notin Faults => \A p \in Procs : ~Building(p)

-----------------------------------------------------------------------------
(* Helpers of the actions *)

Goto(p, at) == pc' = [pc EXCEPT ![p] = at]

\* The process takes the branch `to` on an answer about the present base.
Observe(p, to) ==
  /\ Goto(p, to)
  /\ current' = current \union {p}

\* The call raises LXDError without an answer from the server.
ReadFails(p, to) ==
  /\ "info" \in Faults
  /\ Goto(p, to)
  /\ current' = current \ {p}

\* An exception leaves launch().  Nothing is undone: the base stays as it
\* is and a timer thread that was started goes on.
Fail(p) == Goto(p, "failed")

DeleteBase(p) ==
  /\ base' = Absent
  /\ current' = {}
  /\ disturbed' = (disturbed \/ \E q \in Procs : pc[q] \in RelyingPCs)

-----------------------------------------------------------------------------
(* launch() and _is_valid() *)

Init ==
  /\ base \in {Absent, Ready(FALSE), Ready(TRUE)}
  /\ pc = [p \in Procs |-> "exists"]
  /\ seen = [p \in Procs |-> "STOPPED"]
  /\ via = [p \in Procs |-> "valid"]
  /\ retry = [p \in Procs |-> 0]
  /\ step = [p \in Procs |-> 0]
  /\ ticking = {}
  /\ copied = [p \in Procs |-> "none"]
  /\ current = {}
  /\ disturbed = FALSE

CheckExists(p) ==
  /\ pc[p] = "exists"
  /\ Goto(p, IF Exists THEN "valid" ELSE "lxc_launch")
  /\ UNCHANGED <<base, local, ticking, history>>

\* _is_valid: info(), and the age of the base.
CheckAge(p) ==
  /\ pc[p] = "valid"
  /\ \/ ReadFails(p, "delete")
     \/ Observe(p, IF Exists /\ ~base.old THEN "state" ELSE "delete")
  /\ UNCHANGED <<base, local, ticking, copied, disturbed>>

\* _wait_for_instance_ready: the state is read first ...
ReadState(p) ==
  /\ pc[p] = "state"
  /\ \/ ReadFails(p, "delete") /\ UNCHANGED seen
     \/ ~Exists /\ Observe(p, "delete") /\ UNCHANGED seen
     \/ /\ Exists
        /\ seen' = [seen EXCEPT ![p] = InfoState]
        /\ Goto(p, "status")
        /\ UNCHANGED current
  /\ UNCHANGED <<base, via, retry, step, ticking, copied, disturbed>>

\* Mutant: a stopped base is taken for ready, whatever its status.
ReadStatus_StoppedOnly(p) ==
  /\ pc[p] = "status"
  /\ \/ ReadFails(p, "delete")
     \/ ~Exists /\ Observe(p, "delete")
     \/ /\ Exists
        /\ Goto(p, IF seen[p] = "STOPPED" THEN "copy" ELSE "pid")
        /\ UNCHANGED current
  /\ UNCHANGED <<base, local, ticking, copied, disturbed>>

\* ... and the status key with another call.
ReadStatus(p) ==
  /\ pc[p] = "status"
  /\ \/ ReadFails(p, "delete")
     \/ ~Exists /\ Observe(p, "delete")
     \/ /\ Exists
        /\ Goto(p, IF base.status = "FINISHED" /\ seen[p] = "STOPPED"
                     THEN "copy" ELSE "pid")
        /\ UNCHANGED current
  /\ UNCHANGED <<base, local, ticking, copied, disturbed>>

\* The pid key, and whether /proc has that process.
ReadPid(p) ==
  /\ pc[p] = "pid"
  /\ \/ ReadFails(p, "delete") /\ UNCHANGED via
     \/ ~Exists /\ Observe(p, "delete") /\ UNCHANGED via
     \/ /\ Exists
        /\ IF base.pid \in Procs /\ Alive(base.pid)
             THEN Goto(p, "wait") /\ via' = [via EXCEPT ![p] = "valid"]
             ELSE Goto(p, "delete") /\ UNCHANGED via
        /\ UNCHANGED current
  /\ UNCHANGED <<base, seen, retry, step, ticking, copied, disturbed>>

\* base_instance.delete(): an LXDError here is not caught.
DeleteInvalid(p) ==
  /\ pc[p] = "delete"
  /\ \/ Free /\ DeleteBase(p) /\ Goto(p, "lxc_launch")
     \/ ~Free /\ Fail(p) /\ UNCHANGED <<base, current, disturbed>>
  /\ UNCHANGED <<local, ticking, copied>>

-----------------------------------------------------------------------------
(* LXC.check_instance_status() *)

\* After an LXDError of the waiting _is_valid answers False, and LXC.launch
\* deletes the base.
AfterWait(p) == IF via[p] = "valid" THEN "delete" ELSE "cleanup"

PollState(p) ==
  /\ pc[p] = "wait"
  /\ Exists
  /\ seen' = [seen EXCEPT ![p] = InfoState]
  /\ Goto(p, "wait_status")
  /\ UNCHANGED <<base, via, retry, step, ticking, history>>

\* A reading fails when 600 seconds have passed since the wait began, whatever
\* the readings before have shown: the base is gone, or the call has failed.
\* How long a wait has lasted is left open: it may stay here for any time.
PollGivesUp(p) ==
  /\ pc[p] \in {"wait", "wait_status"}
  /\ \/ ~Exists /\ Observe(p, AfterWait(p))
     \/ ReadFails(p, AfterWait(p))
  /\ UNCHANGED <<base, local, ticking, copied, disturbed>>

\* Mutant: the status is not looked at.
PollReady_StoppedOnly(p) ==
  /\ pc[p] = "wait_status"
  /\ seen[p] = "STOPPED"
  /\ Goto(p, IF via[p] = "valid" THEN "copy" ELSE "get_status")
  /\ UNCHANGED <<base, local, ticking, history>>

PollReady(p) ==
  /\ pc[p] = "wait_status"
  /\ base.status = "FINISHED" /\ seen[p] = "STOPPED"
  /\ Goto(p, IF via[p] = "valid" THEN "copy" ELSE "get_status")
  /\ UNCHANGED <<base, local, ticking, history>>

\* The base is not ready, or one of the calls fails before the 600 seconds are
\* over: the error is swallowed, and so is what the other calls have shown.
PollAgain(p) ==
  /\ pc[p] = "wait_status"
  /\ ~(base.status = "FINISHED" /\ seen[p] = "STOPPED") \/ "info" \in Faults
  /\ Goto(p, "wait")
  /\ UNCHANGED <<base, local, ticking, history>>

\* The timer queue holds one value: the last reading leaves the loop.
PollTimesOut(p) ==
  /\ pc[p] = "wait_status"
  /\ Exists
  /\ ~(base.status = "FINISHED" /\ seen[p] = "STOPPED")
  /\ TimerSilent
  /\ Observe(p, AfterWait(p))
  /\ UNCHANGED <<base, local, ticking, copied, disturbed>>

-----------------------------------------------------------------------------
(* LXC.launch() *)

\* Mutant: one busy answer too many is followed by another wait.
MayRetry_OneTooMany(p) == retry[p] <= MaxRetries - 1

\* A busy answer is waited for, except in the last attempt.
MayRetry(p) == retry[p] < MaxRetries - 1

\* LXD creates the name once.  While it does, another `lxc launch` is told
\* that the instance is busy; afterwards that the name is taken.
LxcLaunch(p) ==
  /\ pc[p] = "lxc_launch"
  /\ \/ /\ ~Exists
        /\ base' = [Absent EXCEPT !.run = "CREATING", !.status = "STARTING",
                                  !.pid = p]
        /\ current' = {}
        /\ Goto(p, "creating")
        /\ UNCHANGED via
     \/ /\ base.run = "CREATING"
        /\ MayRetry(p)
        /\ via' = [via EXCEPT ![p] = "launch"]
        /\ Goto(p, "wait")
        /\ UNCHANGED <<base, current>>
     \/ /\ \/ base.run = "CREATING" /\ ~MayRetry(p)
           \/ Free
           \/ "launch" \in Faults
        /\ Fail(p)
        /\ UNCHANGED <<base, via, current>>
  /\ UNCHANGED <<seen, retry, step, ticking, copied, disturbed>>

\* `lxc launch` returns, the instance runs; or the start has failed.
Launched(p) ==
  /\ pc[p] = "creating"
  /\ \/ base' = [base EXCEPT !.run = "RUNNING"] /\ Goto(p, "get_status")
     \/ /\ "launch" \in Faults
        /\ base' = [base EXCEPT !.run = "STOPPED"]
        /\ Fail(p)
  /\ UNCHANGED <<local, ticking, history>>

\* The follower's LXDError: delete, whatever the answer, and try again.
DeleteBroken(p) ==
  /\ pc[p] = "cleanup"
  /\ \/ Free /\ DeleteBase(p)
     \/ ~Free /\ UNCHANGED <<base, current, disturbed>>
  /\ retry' = [retry EXCEPT ![p] = @ + 1]
  /\ Goto(p, "lxc_launch")
  /\ UNCHANGED <<seen, via, step, ticking, copied>>

-----------------------------------------------------------------------------
(* _create_instance() *)

\* Mutant: the follower configures a base that is already configured.
GetStatus_NotChecked(p) ==
  /\ pc[p] = "get_status"
  /\ \/ ~Exists /\ Fail(p)
     \/ Exists /\ Goto(p, "prepare")
  /\ UNCHANGED <<base, local, ticking, history>>

GetStatus(p) ==
  /\ pc[p] = "get_status"
  /\ \/ ~Exists /\ Fail(p)
     \/ Exists /\ Goto(p, IF base.status = "FINISHED" THEN "copy"
                                                      ELSE "prepare")
  /\ UNCHANGED <<base, local, ticking, history>>

\* Status PREPARING, and the timer thread is started.
Prepare(p) ==
  /\ pc[p] = "prepare"
  /\ \/ /\ ~Exists
        /\ Fail(p)
        /\ UNCHANGED <<base, ticking>>
     \/ /\ Exists
        /\ base' = [base EXCEPT !.status = "PREPARING"]
        /\ ticking' = ticking \union {p}
        /\ Goto(p, "setup")
  /\ UNCHANGED <<local, history>>

\* Mutant: a command that fails does not end the setup with an exception.
Setup_Unchecked(p) ==
  /\ pc[p] = "setup"
  /\ \/ base.run = "RUNNING" /\ base' = [base EXCEPT !.steps = @ \union {step[p] + 1}]
     \/ (base.run # "RUNNING" \/ "setup" \in Faults) /\ UNCHANGED base
  /\ step' = [step EXCEPT ![p] = @ + 1]
  /\ Goto(p, IF step[p] + 1 = SetupSteps THEN "finish" ELSE "setup")
  /\ UNCHANGED <<seen, via, retry, ticking, history>>

\* prepare_instance(), Base.setup() and _set_timezone(), one command after
\* the other, on whatever instance has the name.
Setup(p) ==
  /\ pc[p] = "setup"
  /\ \/ /\ base.run = "RUNNING"
        /\ base' = [base EXCEPT !.steps = @ \union {step[p] + 1}]
        /\ step' = [step EXCEPT ![p] = @ + 1]
        /\ Goto(p, IF step[p] + 1 = SetupSteps THEN "finish" ELSE "setup")
     \/ /\ base.run # "RUNNING" \/ "setup" \in Faults
        /\ Fail(p)
        /\ UNCHANGED <<base, step>>
  /\ UNCHANGED <<seen, via, retry, ticking, history>>

\* Status FINISHED, and the timer is told to stop.
Finish(p) ==
  /\ pc[p] = "finish"
  /\ \/ /\ ~Exists
        /\ Fail(p)
        /\ UNCHANGED <<base, ticking>>
     \/ /\ Exists
        /\ base' = [base EXCEPT !.status = "FINISHED"]
        /\ ticking' = ticking \ {p}
        /\ Goto(p, "stop")
  /\ UNCHANGED <<local, history>>

\* LXDInstance.stop(): `lxc stop` ...
Stop(p) ==
  /\ pc[p] = "stop"
  /\ \/ /\ base.run = "RUNNING"
        /\ base' = [base EXCEPT !.run = "STOPPED"]
        /\ Goto(p, "stopped")
     \/ /\ base.run # "RUNNING"
        /\ Fail(p)
        /\ UNCHANGED base
  /\ UNCHANGED <<local, ticking, history>>

\* ... and, once it is seen stopped or gone, status FINISHED.
Stopped(p) ==
  /\ pc[p] = "stopped"
  /\ \/ /\ Exists /\ InfoState = "STOPPED"
        /\ base' = [base EXCEPT !.status = "FINISHED"]
        /\ Goto(p, "copy")
     \/ ~Exists /\ Goto(p, "copy") /\ UNCHANGED base
     \/ base.run = "RUNNING" /\ Fail(p) /\ UNCHANGED base
  /\ UNCHANGED <<local, ticking, history>>

\* lxc copy, from _create_instance or from launch.  launch() looks whether
\* the base runs, but does nothing about it.
Copy(p) ==
  /\ pc[p] = "copy"
  /\ \/ /\ Free
        /\ copied' = [copied EXCEPT ![p] =
                        IF Complete THEN "complete" ELSE "incomplete"]
        /\ Goto(p, "done")
     \/ /\ ~Free
        /\ Fail(p)
        /\ UNCHANGED copied
  /\ UNCHANGED <<base, local, ticking, current, disturbed>>

-----------------------------------------------------------------------------
(* The environment *)

\* Mutant: the timer thread is not a daemon, and the process lives with it.
Exit_TimerGoesOn(p) ==
  /\ pc[p] \in {"done", "failed"}
  /\ Goto(p, "dead")
  /\ UNCHANGED <<base, local, ticking, history>>

\* The process ends, with its daemon threads.
Exit(p) ==
  /\ pc[p] \in {"done", "failed"}
  /\ Goto(p, "dead")
  /\ ticking' = ticking \ {p}
  /\ UNCHANGED <<base, local, history>>

\* What is left of an instance that LXD was creating for a client that died.
Abandoned == {Absent, [base EXCEPT !.run = "STOPPED"],
                      [base EXCEPT !.run = "RUNNING"]}

Crash(p) ==
  /\ "crash" \in Faults
  /\ Alive(p)
  /\ Goto(p, "dead")
  /\ ticking' = ticking \ {p}
  /\ \/ pc[p] = "creating" /\ base' \in Abandoned
     \/ pc[p] # "creating" /\ UNCHANGED base
  /\ UNCHANGED <<local, history>>

Reboot ==
  /\ "reboot" \in Faults
  /\ \E p \in Procs : Alive(p)
  /\ pc' = [p \in Procs |-> IF Alive(p) THEN "dead" ELSE pc[p]]
  /\ ticking' = {}
  /\ base' = IF Exists THEN [base EXCEPT !.run = "STOPPED"] ELSE base
  /\ UNCHANGED <<local, history>>

\* The expiration is days, a setup minutes.
Expire ==
  /\ "expire" \in Faults
  /\ base.run = "STOPPED" /\ base.status = "FINISHED" /\ ~base.old
  /\ \A p \in Procs : ~Building(p)
  /\ base' = [base EXCEPT !.old = TRUE]
  /\ UNCHANGED <<pc, local, ticking, history>>

-----------------------------------------------------------------------------
\* One step of the program of process p.
Program(p) ==
  \/ CheckExists(p) \/ CheckAge(p) \/ ReadState(p) \/ ReadStatus(p)
  \/ ReadPid(p) \/ DeleteInvalid(p)
  \/ PollState(p) \/ PollGivesUp(p) \/ PollReady(p) \/ PollAgain(p)
  \/ PollTimesOut(p)
  \/ LxcLaunch(p) \/ Launched(p) \/ DeleteBroken(p)
  \/ GetStatus(p) \/ Prepare(p) \/ Setup(p) \/ Finish(p)
  \/ Stop(p) \/ Stopped(p) \/ Copy(p)

Next ==
  \/ \E p \in Procs : Program(p) \/ Exit(p) \/ Crash(p)
  \/ Reboot
  \/ Expire

Spec == Init /\ [][Next]_vars

\* The scheduler runs every live process.  A waiter that keeps reading one timer
\* value leaves its loop after 20 readings, and as no error is swallowed after
\* 600 seconds, one that finds the base ready again and again sees it in the
\* end: PollAgain is not for ever.
Fairness ==
  \A p \in Procs :
    WF_vars(Program(p)) /\ SF_vars(PollTimesOut(p)) /\ SF_vars(PollReady(p))

\* A process whose launch() fails ends.  One that catches the error and goes on
\* leaves its timer running, and those who wait for it wait for ever.
SpecExiting ==
  /\ Spec
  /\ Fairness
  /\ \A p \in Procs : WF_vars(pc[p] = "failed" /\ Exit(p))

-----------------------------------------------------------------------------
(* Properties *)

Base == [run : RunStates, status : Statuses, pid : Procs \union {NoProc},
         steps : SUBSET Steps, old : BOOLEAN]

\* Every variable has its type; in particular LXC.launch() never counts more
\* than MAX_RETRIES attempts.
TypeOK ==
  /\ base \in Base
  /\ pc \in [Procs -> PCs]
  /\ seen \in [Procs -> {"STOPPED", "RUNNING"}]
  /\ via \in [Procs -> {"valid", "launch"}]
  /\ retry \in [Procs -> 0..MaxRetries - 1]
  /\ step \in [Procs -> 0..SetupSteps]
  /\ ticking \subseteq Procs
  /\ copied \in [Procs -> {"none", "complete", "incomplete"}]
  /\ current \subseteq Procs
  /\ disturbed \in BOOLEAN

\* As long as no base was deleted under a process that relied on it, the
\* status FINISHED tells the truth: the setup of this very incarnation has
\* run to its end (the promise of check_instance_status's docstring).
FinishedIsComplete ==
  ~disturbed => (base.status = "FINISHED" => Complete)

\* As long as no base was deleted under a process that relied on it, one
\* process at most creates and configures it, and the pid key names it
\* (the comment in _create_instance: only one caller can create it).
OneBuilder ==
  ~disturbed => \A p \in Procs : Building(p) => base.pid = p

\* As long as no base was deleted under a process that relied on it, what is
\* copied to an instance is a base whose setup is complete, whichever of the
\* three ways to the copy a process took.
CopiesAreComplete ==
  ~disturbed => \A p \in Procs : copied[p] # "incomplete"

\* A process that deletes the base on answers of the server about this
\* incarnation does not delete it under the process that is building it: dead
\* creators, expired bases and silent timers are told apart from a setup at
\* work.  A process outside of `current` may: what it has read is of an earlier
\* base (ReadyToBeCopied), or a call has failed (ReadFails), which in the waiting
\* loop is held against the base after 600 seconds (PollGivesUp), though its
\* timer changes.
FreshVerdictSparesBuilder ==
  [][\A p \in current :
       /\ ~disturbed
       /\ pc[p] \in {"delete", "cleanup"}
       /\ Free /\ pc'[p] = "lxc_launch"
       => \A q \in Procs : ~Building(q)]_vars

\* The process that writes the content of the base, up to status FINISHED.
AtWork(p) ==
  \/ pc[p] \in {"creating", "prepare", "setup", "finish"}
  \/ pc[p] = "get_status" /\ base.status # "FINISHED"

\* The base as the cache it is meant to be.
CachePhase ==
  IF ~Exists THEN "none"
  ELSE IF base.status = "FINISHED" /\ Complete THEN "ready"
  ELSE "building"

CacheBuilder ==
  IF base.pid \in Procs /\ AtWork(base.pid) THEN base.pid ELSE NoProc

Cache == INSTANCE BaseCache WITH
  phase <- CachePhase,
  builder <- CacheBuilder,
  taken <- {p \in Procs : copied[p] # "none"},
  broken <- disturbed

\* The protocol implements the cache: one builder, no copy of a part, no
\* drop under a builder, until a base is deleted under a process that relies
\* on it.
ImplementsCache == Cache!Spec

\* The calls to the server that a process has still to make at most, those of
\* check_instance_status()'s loop counted once: how far its place in the code
\* is from the end, and an attempt of LXC.launch() for each one left.
CallsAfter(at, caller) ==
  CASE at = "exists" -> 17
    [] at = "valid" -> 16
    [] at = "state" -> 15
    [] at = "status" -> 14
    [] at = "pid" -> 13
    [] at \in {"wait", "wait_status"} -> IF caller = "valid" THEN 12 ELSE 9
    [] at = "delete" -> 11
    [] at = "lxc_launch" -> 10
    [] at \in {"creating", "cleanup"} -> 8
    [] at = "get_status" -> 7
    [] at = "prepare" -> 6
    [] at = "setup" -> 5
    [] at = "finish" -> 4
    [] at = "stop" -> 3
    [] at = "stopped" -> 2
    [] at = "copy" -> 1
    [] OTHER -> 0

CallsLeft(p) ==
  CallsAfter(pc[p], via[p]) + (SetupSteps - step[p])
    + 3 * (MaxRetries - retry[p])

\* Whatever the others do to the base, a process comes nearer to the end of
\* launch() with every step that is not one more reading of the waiting loop:
\* the validity test, the wait, the deletion and the retries of LXC.launch()
\* never send one another round for ever.
LaunchAdvances ==
  [][\A p \in Procs :
       /\ CallsLeft(p)' <= CallsLeft(p)
       /\ CallsLeft(p)' = CallsLeft(p) =>
            \/ pc'[p] \in {pc[p], "dead"}
            \/ {pc[p], pc'[p]} \subseteq {"wait", "wait_status"}]_vars

\* What keeps a waiter whose readings are answered in the loop of
\* check_instance_status() is a process at work on the base, or the timer thread
\* that a failed launch() has left running in a process that goes on: never a
\* process that has ended.  (Readings that fail hold it for 600 seconds at most.)
WaitHasReason ==
  ~TimerSilent =>
    \E p \in Procs : Building(p) \/ (p \in ticking /\ pc[p] = "failed")

\* Every call of launch() returns or raises.
EveryLaunchEnds ==
  \A p \in Procs : (pc[p] # "exists") ~> (pc[p] \in {"done", "failed", "dead"})

\* A base that is FINISHED and STOPPED "is ready to be copied": without a
\* condition on what other processes delete.
ReadyToBeCopied ==
  base.status = "FINISHED" /\ base.run = "STOPPED" => Complete
=============================================================================
