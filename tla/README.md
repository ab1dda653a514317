# TLA+ models of craft-providers

This directory holds a verification development for craft-providers, the
library with which the craft applications create, configure and reuse build
environments in LXD containers and Multipass virtual machines. It consists of
TLA+ modules translated from the Python source, TLC configurations that check
them on small instances, and proofs for TLAPS.

Paths below are relative to `src/craft_providers/`.

## 1. Inventory of the system

| part | source | state it keeps | operations | who it interacts with |
|---|---|---|---|---|
| base instance | `lxd/launcher.py`, `lxd/lxc.py` | the instance `base-instance-*` on the LXD server; its keys `user.craft_providers.status`, `.timer`, `.pid`; a timer thread in the process that builds it | `launch`, `_is_valid`, `_wait_for_instance_ready`, `_create_instance`, `LXC.launch`, `check_instance_status` | every process that launches an instance of the same image and base; only the server is shared |
| use of one instance | `lxd/launcher.py`, `lxd/lxd_instance.py`, `lxd/lxd_provider.py` | run state, status key, mounts, a pending delayed shutdown inside the guest | `_launch_existing_instance`, `start`, `stop(delay_mins)`, `unmount_all`, `launched_environment` | other processes on the same project; the clock of the guest |
| setup and warmup | `base.py`, `instance_config.py` | `/etc/craft-instance.conf` in the guest: compatibility tag, `setup` flag, snaps | `setup`, `warmup`, `InstanceConfiguration.load/save/update` | launcher, snap installer |
| distribution bases | `bases/*.py` | none of their own | hooks called by `setup`/`warmup` | guest commands |
| snap installer | `actions/snap_installer.py`, `util/snap_cmd.py` | the snaps in the guest, and the record of them in the configuration | `inject_from_host`, `install_from_store` | snapd of the host and of the guest |
| project, remotes | `lxd/project.py`, `lxd/remotes.py` | LXD project and its default profile; remotes | `create_with_default_profile`, `purge`, `add_remote` | other processes |
| id map | `lxd/launcher.py` | `raw.idmap` of the instance | `_check_id_map`, `_set_id_map` | `launch` |
| snap hooks | `hookutil.py` | none | `configure_hook`, `remove_hook` | all instances of an LXD project |
| LXD installation | `lxd/installer.py`, `lxd/lxd.py` | none | `install`, `ensure_lxd_is_ready` | snapd, lxd |
| lxc client | `lxd/lxc.py` | one lock around `lxc` | one method per `lxc` command | the LXD server |
| retry helper | `util/retry.py` | none | `retry_until_timeout` | most waits |
| Multipass | `multipass/*.py` | virtual machine, mounts | `launch`, `start`, `stop`, `mount`, `launched_environment` | the multipass service |
| interfaces, checks, helpers | `provider.py`, `executor.py`, `bases/checks.py`, `util/*.py` | none | abstract classes, name formatting, version checks | |

### What is hard in it

* There is no lock between processes. `launch()` relies on the LXD server
  creating a name once, and on three configuration keys of the base that the
  others poll. Every decision is taken on an answer that may be old when it is
  used, and `delete` acts on a *name*, not on the incarnation that was judged.
* A process may die between any two calls, and the host may restart; the base
  then stays as it was, and the next process must tell this from a setup that
  is still at work (pid in `/proc`, timer that still changes).
* Delayed shutdowns run in the guest and outlive the process that asked for
  them.
* The configuration file in the guest is read, changed and written back
  without a lock; what could not be read counts as absent.
* Making a project takes two calls, and so does finding out that one is
  needed; snap hooks and `clean` commands list and delete the instances of a
  project and know nothing of the processes that launch in it.
* A virtual machine goes on by itself between two commands: it boots, gets its
  network, runs apt jobs and snap refreshes, and is stopped by a delayed stop.

### What makes each part correct

* base instance: nobody copies a base whose setup is not complete; one process
  at a time builds it; nobody deletes it under its builder; every call ends.
* use of one instance: what `launch()` returns runs, is set up and is not about
  to shut down; a good instance is not cleaned away; one user at a time.
* setup: `setup: true` is written only after every step; warmup accepts no
  instance without it; an update drops no data.
* snap installer: the record agrees with what is installed.
* project: whoever finds the project finds its profile complete.
* id map: what `_set_id_map` writes, `_check_id_map` accepts, and no other.
* hooks: current bases and the instances made from them survive.
* names: two instances never share one, and what reads a name back gets the
  part it looks for.
* Multipass: what `launch()` returns runs, is set up and of the kind that was
  asked for; a good VM is kept; every session ends.
* retries: the helper adds nothing to what its attempts are late, and gives up
  none early.

## 2. Plan

In this order, most important behaviour first.

1. `BaseInstance`, `BaseCache`, `BaseInstanceProofs` - the shared base (done).
2. `InstanceUse`, `InstanceUseProofs` - one instance over several sessions and
   processes: existing instance, `start`, `stop`, delayed shutdown, auto clean
   (done).
3. `GuestSetup`, `GuestSetupProofs` - what is inside an instance: setup
   interrupted at any step, the configuration file, warmup, the snap installer
   and its records (done).
4. `LxdProject`, `LxdProjectProofs` - LXD made usable, remote, project and
   profile, launches, `purge`, `prune`, `clean` and the snap hooks, by several
   processes on one server (done). With it the pure functions it rests on:
   `InstanceNames`, `IdMap`, `IdMapProofs`, and `ProjectNames`,
   `ProjectNamesProofs` for the places that use them (done).
5. `Multipass`, `MultipassProofs` - the other provider, with setup and warmup
   step by step (done), on `Retry`, `RetryProofs` (done).
   `LaunchedEnvironment` - what `launched_environment()` promises, whatever the
   provider; `Multipass` and `GuestSetup` implement it (done).
6. Overlapping sessions in `GuestSetup`: the configuration file is then loaded
   and saved in two steps, and an update can lose another one.
7. `BaseInstance` and `InstanceUse` composed through the copy.
8. AlmaLinux and CentOS as instances of the steps of `Multipass`; the lookup of
   the archive of a release at its end; devices, files and the pro commands of
   the lxc client.

| module | extends | checked by | proved in |
|---|---|---|---|
| `BaseInstance` (refines `BaseCache`) | | `MCBaseInstance`: `base_safety`, `base_live`, `base_stale` | `BaseInstanceProofs` |
| `InstanceUse` | | `MCInstanceUse`: `inst_safety`, `inst_lost`, `inst_shared` | `InstanceUseProofs` |
| `GuestSetup` (refines `LaunchedEnvironment`) | | `MCGuestSetup`: `guest_safety`, `guest_gone` | `GuestSetupProofs` |
| `LxdProject` | | `MCLxdProject`: `project_safety`, `project_race`, `hook_current` | `LxdProjectProofs` |
| `ProjectNames` | `LxdProject`, `InstanceNames`, `IdMap` | `MCLxdProject`: `project_safety` | `ProjectNamesProofs`, `IdMapProofs` |
| `Multipass` (refines `LaunchedEnvironment`) | `Retry` | `MCMultipass`: `multipass_safety` | `MultipassProofs`, `RetryProofs` |

Operators whose name has an underscore (`Slept_Always`) are marked as mutants:
they are a definition with a plausible bug, which the property named with it in
`PROJECT.json` must reject. No specification uses them.

## 3. The shared base: `BaseInstance`

`BaseInstance` is `launch(use_base_instance=True)` from
`base_instance.exists()` (launcher.py:843) to `lxc.copy` (189 or 897), run by
any number of processes, each for an instance of its own and all for one base.
One action is one call to the LXD server together with the Python code around
it, because other processes can act between any two calls.

| variable | code |
|---|---|
| `base` | the instance on the server: run state, keys `status` and `pid`, the setup steps that were run in it, whether it is past its expiration |
| `pc[p]` | where process p is in `launch` and the functions it calls |
| `seen[p]` | `instance_state` / `instance_info`, read one call before the status |
| `via[p]` | which caller `check_instance_status` returns to |
| `retry[p]` | `retry_count` of `LXC.launch` |
| `step[p]` | how far p is in `Base.setup()` |
| `ticking` | the processes whose `InstanceTimer` thread runs (stands for the key `timer`: a waiter only asks whether it still changes) |
| `copied[p]` | history: what p's copy of the base contains |
| `current` | history: the processes whose reading of the base is of the present incarnation |
| `disturbed` | history: a base was deleted under a process that relied on it |

The actions follow the code: `CheckExists` (843), `CheckAge` (319-348),
`ReadState`, `ReadStatus`, `ReadPid` (635-691), `DeleteInvalid` (869), the five
`Poll...` actions (`check_instance_status`, lxc.py:1257-1336), `LxcLaunch`,
`Launched`, `DeleteBroken` (`LXC.launch`, 759-820), `GetStatus`, `Prepare`,
`Setup`, `Finish`, `Stop`, `Stopped`, `Copy` (`_create_instance`, 143-195).
The environment can end a process, kill it (`Crash`), restart the host
(`Reboot`) and let the base grow old (`Expire`). The constant `Faults` says
which of these, and which failing calls, a run allows.

What LXD does is modelled from how the code uses it: it creates a name once;
during the creation another `lxc launch` is refused as busy, afterwards because
the name is taken; `delete` and `copy` are refused during the creation; the
keys are there as soon as the name is.

### Properties and runs

* `base_safety` (3 processes, 2 setup steps, 2 attempts, every fault but
  `slow`; 840 894 states). `FinishedIsComplete`, `OneBuilder` and
  `CopiesAreComplete` hold *as long as no base was deleted under a process that
  relied on it* (`~disturbed`). The run `base_stale` shows that the condition
  is needed. `FreshVerdictSparesBuilder` says when the deletion is safe: a
  process that acts on answers of the server about the present incarnation never
  deletes it under its builder. A process that has none may: its readings are of
  an earlier base (run `base_stale`), or a call has failed.
  `ImplementsCache` is the refinement of `BaseCache`, a
  cache with one entry: `CachePhase` and `CacheBuilder` are the mapping.
  Two setup steps are enough for a setup that is half done; three processes for
  a builder, a follower in `LXC.launch` and a waiter in `_is_valid`; two
  attempts for the last one to differ from the others. Without `slow` the
  60 seconds of the waiter are longer than each step of the builder that no
  timer covers (`TimerSilent`); with it a waiter can time out under a builder
  that is alive but slow, which is what the code accepts.
* `base_live` (2 processes, all faults, 3 attempts; 19 845 states).
  `EveryLaunchEnds`: every call returns, raises, or dies with its process, also
  when readings of the waiting loop fail and are swallowed.
* `base_stale` is a violation of what docstrings and the changelog say; see
  section 9.

A reading of the waiting loop fails because the base is gone, or by itself (the
fault `info`). The error is swallowed (`PollAgain`) until 600 seconds have passed
since the wait began, and raised after that (`PollGivesUp`), whatever the timer
has shown meanwhile. How long a wait has lasted is not counted: `PollGivesUp` is
possible at every failing reading, since a process may have waited that long at
any place of the loop. A follower in `LXC.launch` that gives up in this way deletes
a base whose builder is at work; the model takes this step, it sets `disturbed`,
and `FreshVerdictSparesBuilder` excepts it, because the code cannot tell.

Fairness: every live process is scheduled (`WF` of `Program(p)`), and a waiter
that reads one and the same timer value leaves its loop after 20 readings (`SF`
of `PollTimesOut`: the deque of lxc.py:1288 holds 20 values). One that finds the
base ready again and again sees it in the end (`SF` of `PollReady`): only a call
that fails in the same round can hide it, and no error is swallowed after 600
seconds. `SpecExiting` adds that a process whose `launch()` raised ends, as the
craft applications do. That is needed: `config_timer.stop()` (launcher.py:179) is
not in a `finally`, and a process that catches the error keeps the timer of its
failed setup going, so that others wait for ever. `WaitHasReason` (below) says
that there is no other way to wait in vain.

### What is proved

`BaseInstanceProofs` proves for every set of processes, every number of setup
steps and attempts and every set of faults: `TypeCorrect`,
`FinishedMeansComplete`, `SingleBuilder`, `OnlyCompleteCopies`, `Refinement`;
and `FreshVerdictsSpare` under the assumption `"slow" \notin Faults`, for
verdicts on answers about the present incarnation, as said above.

None of the invariants is inductive. The strengthening is
`IInv == Basic /\ (~disturbed => Sound)`:

* `Basic` holds whatever is deleted: the types; a base is absent exactly when
  its status is NONE; a process that has not come to its setup has done no step
  of it; a builder's timer runs; a process that waits in `LXC.launch` has an
  attempt left; a creator at `creating` finds a base in creation with its pid.
* `Sound == KeysAreTrue /\ RelianceIsSound`. `KeysAreTrue` relates the keys of
  the base to the process its pid names: a status that is FINISHED means that
  all steps are done, a base in creation has a creator at `creating`, a process
  that builds is the one of the pid, a base past its expiration is finished and
  has no builder. `RelianceIsSound` says of each process at one of the
  `RelyingPCs` what the base looks like to it: a builder finds the steps that
  it has done itself, a process at `copy` finds all of them, and no copy is
  incomplete.

`Sound` is lost exactly by `DeleteBase` while some process is at one of
`RelyingPCs`, and that is what sets `disturbed`. `VerdictsHold` is the
invariant behind `FreshVerdictsSpare`: a process that goes to `delete` or
`cleanup` with readings of this incarnation has a reason that stays true until
it acts, because only a new incarnation can have a builder again
(`NoNewBuilder`). The assumptions are those of the module (`NoProc` is no
process, at least one step, at least one attempt).

Two more theorems are the safety part of "every launch ends"; they hold of
`Basic` alone, so also after a base was deleted under somebody.
`LaunchNearsItsEnd` proves `LaunchAdvances`: `CallsLeft`, a number between 0
and 17 + SetupSteps + 3 * MaxRetries, falls with every step of a process that
is not one more reading of the waiting loop, and nothing that other processes,
a crash or a reboot do ever raises it. An attempt counts for 3 calls, because
`DeleteBroken` is two places before `lxc_launch` and uses up an attempt.
`WaitsHaveReason` proves `WaitHasReason`: the loop can be held only by a process
at work on the base, or by the timer thread of a failed `launch()` whose
process goes on (invariant `TimersAreOfSetups`). So a launch that does not end
is held in that loop by such a leaked timer, or by a builder that does not go on;
readings that fail hold it for 600 seconds at most. TLC has checked both
definitions on the instance of `base_safety` with every fault, `slow` included.

Only model-checked: liveness (`EveryLaunchEnds`), which needs fairness and
ENABLED; what it needs beyond the two theorems is that an enabled process
makes its step.

## 4. One instance over its sessions: `InstanceUse`

`InstanceUse` is `LXDProvider.launched_environment()` for one instance: what
`launch()` does with it (launcher.py:774-794, 360-445, 893-928), the body, and
`unmount_all()` and `stop()` at the end. Sessions of several processes follow
each other or overlap; each can end now or with a delayed shutdown, which is
`shutdown +N` inside the guest and fires when it likes. Where the base comes
from is the subject of `BaseInstance`; here `Copies` says which of the three
ways to the copy a run allows.

| variable | code |
|---|---|
| `inst` | the instance on the server: `run`, key `status`, `mapped` (raw.idmap), `named` (hostname set for its own process), `mounted` (disk devices), `pending` (a scheduled shutdown) |
| `pc[p]` | where the session of p is, in the order of `launched_environment` |
| `via[p]` | how it came to the instance: found it, or copied the base in `launch` ("valid") or `_create_instance` ("built", "followed") |
| `crowd` | history: two sessions were alive at the same time |
| `surprised` | history: the sessions under which a shutdown has fired |
| `excused` | history: the sessions in which something failed |

`Enter` (774), `CheckIdMap` (397-417), `Clean` (the two deletions of
`auto_clean`), `CheckRunning` and `Cancel` (424-426), `Copy`, `StopCopy`,
`SetIdMap` (893-914), `Start`, `StartTaken`, `Claim`, `StartCancel`,
`LxcStart`, `Started`, `MarkInUse` (lxd_instance.py:560-602), `SetHostname`,
`CheckSetup`, `Mount` (the hostname and `warmup()`), `Use`, `UnmountAll`,
`Stop`, `Stopped`, `Release`, `Shutdown` (lxd_instance.py:539-554, 628-667,
705-718). `Fire`, `Crash` and `Reboot` are the environment. Two kinds of
failing commands differ in what the code makes of them: those that raise
(`"guest"`) end the session; those nobody looks at (`"silent"`) are
`shutdown -c` and the `test -f` of `pull_file`, whose failure means "no such
file".

### Properties and runs

* `inst_safety` (2 processes, both delays, every way to the copy, every fault;
  206 132 states). Its properties speak of sessions that come one after the
  other (`~crowd`), because nothing in the code excludes the others
  (`inst_shared`): two processes are then enough, one before and one after, and
  a process may have any number of sessions. `UseIsUndisturbed`,
  `RunsOnlyMapped`, `LaunchSucceedsAlone`, `SessionEndsClean` hold after
  crashes, reboots and failed sessions, and while an old shutdown fires between
  any two calls. `CleansOnlyBroken` says what can make `auto_clean` delete a
  good instance. `MadeIsNamed`: a new instance is handed out with the hostname
  of its own session and not with that of the base, whether the session built
  the base or found it. The two exceptions are in the property: a session that
  waited for another builder in `_create_instance` keeps the hostname of that
  builder, and an instance taken again keeps what a killed session left.
* `inst_lost`, `inst_shared` are violations; see section 9.

### What is proved

`InstanceUseProofs` proves all seven properties of `inst_safety` for any
processes, delays, copies and faults. The invariant is
`IInv == Basic /\ (~crowd => Sound)`: `Basic` is the type invariant with
`pending` only on what runs; `Sound` says that at most one session is alive,
that what runs is mapped, and for each session what it may rely on where it is
(`Checked`: the instance exists from the check on; `Prepared`: what has been
mapped, started and cancelled so far, unless a shutdown has come or something
failed; `Named`: from where on the hostname is its own). A second session sets
`crowd`, and only `Enter` can do it (`OthersIdle`, `OwnStep`). The three action
properties follow from the same invariant, action by action.

## 5. What is inside an instance: `GuestSetup`

`GuestSetup` is the life of one instance seen from inside: `Base.setup()` and
`Base.warmup()` (base.py), the snaps of `actions/snap_installer.py`, and the
file `/etc/craft-instance.conf` (instance_config.py), the only memory that one
session leaves to the next. The session makes the instance when it is not
there (`_create_instance` with `use_base_instance=False`, or the building of a
base) and then always warms it up, as `launch()` does. Sessions follow one
another and may differ in their compatibility tag and in the source they want
for each snap; `InstanceUse` and `BaseInstance` treat the ones that overlap.

| variable | code |
|---|---|
| `guest` | the instance: whether it exists, the tag it was set up for (`made`), the setup steps that were run in it (`done`), the snaps in it |
| `conf` | the configuration file: whether it is there, `setup`, `compatibility_tag`, the entries of `snaps` |
| `hostrev` | the revisions that the snapd of the host has |
| `pc`, `phase`, `at` | where the session is, in `setup()` or in `warmup()`, and at which snap of `_install_snaps()` |
| `tag`, `want` | `compatibility_tag` of the base; for each snap host or store |
| `fresh` | the session made the instance, so that `BaseCompatibilityError` is raised and not answered with a clean |
| `rev`, `recorded` | the revision that was read, and the one that the configuration gave |
| `broke` | history: this session was broken off |
| `unread` | history: a configuration of this instance was not read |
| `doubtful` | history: the snaps that a session was changing when it was broken off, or that the host replaced between the query of the revision and the download |

| actions | code |
|---|---|
| `Begin`, `Create`, `Clean`, `End` | `launch` as far as it decides between creation, warmup and auto clean (launcher.py) |
| `Unset`, `ImageCheck`, `SetTag`, `OsStep`, `CleanUp`, `Finish` | `Base.setup()`: the flag, `_image_check` and the compatibility tag, the tag, the steps of the OS, `_clean_up`, `_update_setup_status(True)` |
| `CheckSetup`, `ImageCheck`, `Ready` | `Base.warmup()`: `_ensure_setup_completed`, the image check again, the waits |
| `HostInfo`, `CheckRecord`, `Remove`, `Inject`, `Install`, `Query`, `Save` | `inject_from_host`, `install_from_store`, `_get_snap_revision_ensuring_source`, and `InstanceConfiguration.update` |
| `Break`, `HostRefresh` | the environment: a command raises or the process dies; snapd of the host refreshes or reverts a snap |

`Load(c)` is `InstanceConfiguration.load()`. `pull_file()` takes any failure of
its `test -f` for "no such file", so an unreadable file is a missing one, and
the next `update()` writes a new file over it (`unread`). As the sessions
follow one another, `update()` (load, merge, save) is one action. Of snapd,
the model takes what the code relies on: `snap remove` of a snap that is not
there succeeds, `snap install` of one that is there leaves it as it is, and
`snap refresh` of one that is not there fails. The snap of the base
(`core22` and so on) that the installer brings in first goes through the same
function and is one more snap before the others.

### Properties and runs

* `guest_safety` (2 snaps, 2 revisions, 2 tags, 2 steps of the OS, every
  fault; 714 164 states). `AcceptedIsComplete`: warmup accepts no instance
  whose setup was broken off, wherever, and none of another tag.
  `RecordsAreTrue`: the record agrees with the guest. `AcceptedHasSnaps`: a
  session that has not failed has its snaps, from the source it wants.
  `CleanRunSucceeds`: whatever earlier sessions have left, a session in which
  nothing fails succeeds. The exception is a real one: a snap that was removed
  and not installed again, and whose record is of the store, makes every later
  session that wants it from the store fail in `snap refresh`.
  `ImplementsEnvironment` is the refinement of `LaunchedEnvironment`, with it
  that auto clean deletes no instance that is good for the session
  (`GoodGuestIsKept`, a theorem of its own). Each has the exceptions it names and
  no other: `unread` for the instance, `doubtful` for a single snap.
  Two snaps let one be in doubt beside one that is not, and let the update for
  one drop the entry of the other; two tags give an instance that must be
  cleaned; two revisions a refresh between the query and the download; two
  steps a setup that is half done. The number of sessions is not bounded.
* `guest_gone` is a violation; see section 9. It has one snap and one fault.

### What launched_environment promises: `LaunchedEnvironment`

`LaunchedEnvironment` has six variables and none of the steps: the instance is
`none`, `partial` or `complete`, and of a kind; the session is `out`, `asking`
(it looks at what is there), `lacking` (there is no instance, or not any more),
`making` (it sets up what it has made) or `held` (it has handed the instance
out). It promises that an instance becomes complete only under the one session
that made it, without interruption; that only a complete one is handed out, of
a kind that fits; and that a session drops no complete one that fits. The last
is why `lacking` is a state of its own: a session that drops an instance moves
on, while one that loses it to somebody else (`Lose`) stays where it is, and is
told (`lost`). `Fits` relates the kind of an instance to the one asked for: it
is equality of tags in `GuestSetup`, and in `Multipass` equality of tags with
the same base, or with any base if the development base asks.

All a session knows of an instance is its configuration file. One that could
not be read, or lost its tag by being written anew, makes the session `blind`:
it may drop a good instance or hand out one of another kind. Even a blind
session never hands out an incomplete instance, and that is the part of the
promise for which there is no excuse.

`GuestSetup` (one provider's steps around the snap installer) and `Multipass`
(the steps of the set-up one by one, the VM beside them) implement it with
mappings that only look at their present state. In `GuestSetup` nobody else
deletes the instance (`lost` is `FALSE`), so that every deletion there is one
that the promise allows a session.

### What is proved

`GuestSetupProofs` proves all six properties of `guest_safety` for every
number of snaps and of setup steps, any revisions and tags, and every set of
faults. The invariant is
`IInv == TypeOK /\ Shape /\ Progress /\ ConfIsTrue /\ SnapsAgree`:

* `Shape` ties the place of the session to its other variables: a session is in
  `setup()` only in an instance it has made, and is at a snap only while
  `_install_snaps()` runs.
* `Progress` says how many steps are done at each place of `setup()`; this is
  what makes `Finish` write `setup: true` after the last step only.
* `ConfIsTrue` reads the file: a flag `yes` means that all steps are done, and
  a tag is the one that the instance was made for; as long as every
  configuration was read, both are there when they should be.
* `SnapsAgree` is `RecordsAreTrue` with what it needs to be inductive, as long
  as every configuration was read: what the snap in the guest is at each place
  of the installer (`AtIsKnown`), and that the snaps before `at` are installed
  from the source the session wants (`Served`).

`AcceptedIsComplete` follows from `ConfIsTrue` at `CheckSetup`;
`AcceptedHasSnaps` from `SnapsAgree` with `at = NSnaps + 1`; `CleanRunSucceeds`
and `GoodGuestIsKept` action by action from the same invariant.
`EnvironmentCorrect` is the refinement: `Views` says what the mapping shows at
each place, `PlainSteps` collects the actions that it does not show
(`LackingStays` that none of them comes to a creation), and `BeginInPromise`,
`CreateInPromise`, `CleanInPromise`, `FinishInPromise` and the case of
`CheckSetup` name the step of the promise for the others. `IInv` is strong
enough for it as it stands. The assumptions are those of the module: counts are
natural numbers, `None` is no tag and no revision, `Faults` is a subset of
`FaultKinds`.

## 6. One project on one server: `LxdProject`

`LxdProject` is everything that creates or deletes in the LXD project of an
application. Each process runs operations on one server: `launch` and `plain`
(`ensure_provider_is_available`, `_ensure_project_exists`, `launch()` with and
without a base), `purge` (project.py), `prune` and `prune_templates`
(`LXDProvider.prune`), `clean` (`clean_project_environments`), and the snap
hooks `configure` and `remove` (hookutil.py). One action is one call to `lxc`,
`snap` or `lxd` with the Python code after it. How a base is built and waited
for is `BaseInstance`; here it is two steps, because what the configure hook
looks at changes between them: `lxc launch` leaves the description of the image
(`generic`), and the end of the setup writes the name of the base
(`Describe`, launcher.py `_create_instance`).

| variable | code |
|---|---|
| `lxd` | the host: snap installed, `lxd init` run, the user in the group, version supported |
| `remote` | the image remote is known to the client |
| `project` | `absent`, `bare` (created, with its empty default profile) or `valid` |
| `images` | the project holds cached images; `project delete` refuses then |
| `inst` | for each instance of the project its `image.description`, or `none` |
| `pc`, `op`, `runs` | where each process is, in which operation, how many it has begun |
| `todo`, `gone` | what its last listing leaves it to delete; `delete_base_full_names` of the hook |
| `met` | history: what happened to its operation: something was made or deleted by another process, a call failed |
| `interrupted` | history: a process stopped between `project_create` and `profile_edit` |

The initial states are all states that earlier runs and the user can have left:
any LXD, any project that has its profile, any instances with any descriptions.

### Names and id maps: `InstanceNames`, `IdMap`

`InstanceNames` is `get_instance_name` (executor.py) with what reads a name
back: `is_base_instance`, `is_current_base_instance` (hookutil.py). A character
is one of a few classes, and the hash is kept as the name it stands for. The
inputs are the names around the lengths at which something changes (40, 61 to
63) with each kind of character at the ends. `IdMap` is `_set_id_map` and
`_check_id_map` over all ids given or not.

These functions are checked in the run of `LxdProject`, at the places that use
them, which is what `ProjectNames` states: `NamesAreValid` where an instance is
launched, `NamesIdentify` where one is looked up or deleted by its name,
`BasesAreRecognised` where the configure hook goes through the bases,
`IdMapRoundTrip` where an instance is taken again.

### Properties and runs

* `project_safety` (2 processes, one operation each, from every initial state,
  every fault; 638 330 states). `BareOnlyMeanwhile`: a project without a
  profile is about to get it, or a process was stopped between the two calls.
  `RaisesForAReason`: two processes that add the remote or create the project
  at once do not fail in doing so; `Excused` lists every reason. Beside these
  there is one exception, spelled out in `MeetsEmptyProfile`: a launch that meets
  the empty profile of a project which another process is still to fill, or was
  stopped before it did. `HookSparesCurrent`: the configure hook deletes a current
  base and its copies only if they were something else when it listed them.
  `NoOrphans`: after a configure hook that deleted the old base and succeeded,
  nothing made from it is left. Two processes make every pair of operations
  interleave; that each runs one is enough because the initial states are
  already those that any earlier operations leave. `TagFits` is `TRUE`: the tag
  stands in the part of the name that is kept.
* `project_race` is that exception, a violation of what the changelog says of
  two processes that launch at once; see section 9. Two processes, no fault.
* `hook_current` is a violation; see section 9. One process and no fault;
  `TagFits` is what `InstanceNames` computes for the example of the docstring.

The processes are symmetric, and the view leaves out what an operation has left
in its variables when it is over. The run has no liveness property.

### What is proved

`LxdProjectProofs` proves `TypeCorrect`, `BareCorrect`, `RaisesCorrect`,
`NoOrphansCorrect`, and, if `TagFits`, `SparesCorrect`, for any number of
processes and operations and any faults. The invariant is
`IInv == TypeOK /\ BaseDescs /\ BareOnlyMeanwhile /\ \A p \in Procs : Own(p)`;
`Own(p)` says of a process which operation its place belongs to (`OpFits`),
what a launch has seen (`Launcher`) and a cleaner has listed (`Lister`), and
what the hook's lists contain (`Sparing`, `Pursuing`). What a process has seen
is old by the time it acts; the invariant says that it is still true *or the
process was told* (`met`). A step of p therefore keeps the facts of another
process q if it leaves q's variables alone (`SameLocals`), notes what it makes
or deletes (`Told`), and gives no instance a description q must not miss.
`OthersKeep` is that lemma, and each action proves its two halves.

`IdMapProofs.EveryMapIsReadBack` proves the round trip for every set of ids:
the map that was written is accepted by the next session with the same
arguments, except that an id 0 given by another user is written as that user's
own id and read as 0 (`Honoured`).

`ProjectNamesProofs` proves the four properties of `ProjectNames` (`NamesValid`,
`NamesTold`, `BasesTold`, `MapsRoundTrip`), for any lengths that leave room for
the hash, from facts about names *of any length*: `NamesConform` (what LXD and
Multipass take), `NamesDiffer` (two names never get one instance, up to a
collision of the hash), `NamesStay` (a name that was made is made no further,
as `list_instances()` and the hooks need). The regular expressions of the code
take characters off both ends of a name; where they stop is found as the least
element of a set of positions, so that these proofs are inductions over the
characters that need no induction theorem. For the hook there are two
theorems, which together draw the line exactly: `CurrentAreTold` for every
application whose name leaves the tag in the part that is kept, whatever
follows it, and `CutTagIsMissed` for every other one whose name is cut. The
finding `hook_current` is therefore not about the application of the docstring
alone.

## 7. The other provider: `Multipass`

`Multipass` is `MultipassProvider.launched_environment()` for one project:
installation (`multipass/installer.py`, `ensure_multipass_is_ready`),
`launch()`, `Base.setup()` or `Base.warmup()`, mounts, the body, `unmount_all`,
`stop` now or later. It is also the module in which the steps of `setup()` and
`warmup()` are told apart (`SetupNext`, `WarmupNext`): each has what it needs of
the guest, what it leaves there and what it can fail for. `GuestSetup` counts
the steps and looks into the one that installs the snaps; the two agree on the
flag and the tag of the configuration file.

| variable | code |
|---|---|
| `host` | Multipass on the host: client, daemon answering, version supported |
| `vm` | the VM: state (also `deleted`, which is not purged), the base and tag it was made for, the configuration file, the steps of the setup on its disk, the proxy of snapd, mounts, a pending delayed stop; booted, online, an apt job or a snap refresh running |
| `pc`, `phase` | where the session is; in `setup()` or in `warmup()` |
| `want`, `proxy` | what the session asks for, and the proxy of its environment |
| `call` | the call to `retry_until_timeout` of the step that waits |
| `broke` | history: what has gone wrong for this session |

Beside the session act: the VM itself (`VmStep`: `Boot`, `GetAddress`, the
automatic apt job and snap refresh until the setup has put them off, `Fire` of
a delayed stop), `DaemonUp`, another process (`Prune`) and the user (`Trash`).
Sessions follow each other without a bound, each with its base, tag and proxy;
each can fail or be killed after any command.

`Retry` is `retry_until_timeout` attempt by attempt. The helper tells an attempt
its budget and does not interrupt it; `over` adds up by how much the attempts of
a call have exceeded theirs. The three waits of the module (`sysready`, `online`,
`watch`) run it with `Try` and `Waited`. They pass the budget to the command as
its timeout, so that `over` stays 0; `LXDInstance.start()`, `restart()`, `stop()`
and the request to the archive of old releases ignore it, and can be as late as
their last attempt takes.

### Properties and runs

* `multipass_safety` (2 bases, one of them the development base, 2 tags, 2
  proxies, timeout 3, wait 2, every fault; 280 340 states).
  `AcceptedIsComplete`: what is handed out went through every step of a setup,
  whichever sessions were broken off before, is of the base and tag asked for,
  and its snapd has the proxy of this session. `UseIsUndisturbed`: a delayed
  stop of an earlier session does not hit it. `SnapsUndisturbed`: snaps are
  installed while no refresh runs. `SessionEndsClean`: nothing stays mounted,
  and the VM is off or about to be. `RaisesForAReason`: the network that is not
  up yet, a refresh under way or a new VM that does not fit are never the
  reason of a failure. `GoodVmIsKept`: `launch()` deletes only what is not set
  up or of another kind. `WaitsAreBounded`: a wait begins no attempt
  after its deadline, is over one wait later, and does not give up early.
  `ImplementsEnvironment`: the promise of `LaunchedEnvironment` (section 5).
  `SessionAdvances`: `StepsLeft`, a number between 0 and 44 * (Timeout + 2),
  falls with every step of a session, and nothing that happens beside the
  session raises it. It counts the places that are left (`Rank`, `OtherRank`)
  and, at a wait, the time that is left for it; a VM that is deleted and made
  anew moves the session on, because it never comes back to `exists`.
  `SessionEnds` (liveness): every session returns, raises or dies.
  Two tags and bases give VMs that must be cleaned and VMs that must be kept;
  two proxies one that changes; with a timeout of 3 and a wait of 2 an attempt
  can end before, at and after the soft deadline.

Deadlock is checked: in every state the session or its environment can go on.

Fairness: `WF` of `Session`, because every `multipass` command returns and the
application ends; and `WF` of `DaemonUp`, because `install()` waits for the
daemon without a timeout, so that nothing ends if it never answers. The VM and
the faults are not fair: no wait relies on the VM ever booting.

### What is proved

`MultipassProofs` proves the type invariant and all other safety and action
properties of the run for any bases, tags, proxies, times and faults, from
`IInv`, a conjunction of named parts: `Places` (which places belong to
which phase, and that no call is left over), `Disk` (a flag `setup` in the file
means every part is there and nothing refreshes, a tag is the one it was made
with), `Up`, `SetupFacts` and `SetupDone` (at each step of `setup()` the steps
of lower `Rank` are done: `Done`), `Seen` (what a wait has seen lasts until its
next step), `WarmupFacts`, `Proxied`, `Accepted`, `Ends`. The order of the steps
enters the proof in one place, `DoneNext`. `RetryProofs` is about the helper for
any caller: `CallsAreInTime` proves that `InTime` holds at every moment of every
call, for any timeout, wait and durations of the attempts, within their budgets
or not: the call is late by what its attempts have exceeded their budgets, and
by one wait after the last, never by its own sleeps. `AttemptTakesTime` proves
that a failed attempt which is not the last takes time.

`AdvancesCorrect` proves `SessionAdvances`, for every timeout: with
`AttemptTakesTime` a wait cannot go round without an end, and no deletion sends
the session back. This is the part of `SessionEnds` that can be proved here;
the other two are that a session never waits for something that does not come
(deadlock freedom, which the run checks, and the daemon) and fairness, so that
`SessionEnds` itself is only model-checked.

`EnvironmentCorrect` is the refinement of `LaunchedEnvironment`. It needs more
than `IInv`: between two steps of a session the VM may be deleted, pruned or
lose its network, and the verdict that the session acts on must still be good.
`EnvInv` adds that the flag `setup` is not in the file before the setup has
ended (`NotSetUp`); that a VM is made of a base and a tag that exist (`Made`);
that the VM of a session runs with no stop due, or is gone (`Steady`); and that
the reason for which a session is about to delete a VM outlasts the steps of the
others (`Rejected`). `PlainStep` collects the steps the promise does not show.

## 8. Not modelled here

* Out of the prover's reach, and therefore only model-checked: liveness
  (`EveryLaunchEnds`, `SessionEnds`), which needs fairness and ENABLED. Every
  other property of a passing run is a theorem.
* The pid key is compared with `/proc`; that the operating system gives the
  pid of a dead process to another one is left out. So is reading the timer key
  as an action of its own: it is read in the same round as the status and only
  compared with earlier rounds.
* `BaseInstance` and `InstanceUse` are not composed: what the first promises to
  the second is `CopiesAreComplete`, and the second takes it for granted (its
  copies are set up).
* In `InstanceUse`: `auto_clean=False`, `ephemeral`, and the id map as such
  (only whether it is there; all sessions are of one user).
* `use_base_instance=False` runs the code of `_create_instance` that is the
  same for the base, without the copy; `GuestSetup` has it for what happens
  inside the instance.
* In `GuestSetup` and `Multipass`: two sessions at the same time in one
  instance; the commands a step of `setup()` runs; bases whose snaps are
  installed in another channel or classic.
* In `LxdProject`: `simulate=True` of the hooks; the table of image remotes,
  which chooses a constant.
* AlmaLinux and CentOS: the order of their steps is that of `Base`, with dnf
  and yum where Ubuntu has apt. The lookup of the archive of a release at its
  end, and the checks for unstable images and foreign architectures, are one
  choice (`Request`, `AptConf`).
* The comparisons of versions, devices and disks, push and pull of files, the
  pro commands, command lines, progress output and logging.

## 9. Findings

* `base_stale`: two processes find an expired base; the second deletes the new
  base of the first, whose last calls then mark the base of the second as
  FINISHED and stop it before it is complete.
* `inst_lost`: a delayed shutdown fires between `is_running()` and
  `shutdown -c`. `warmup()` runs on a stopped instance, its configuration
  counts as missing, and `auto_clean` deletes a good instance.
* `inst_shared`: a running instance is taken without a look at its status, and
  two processes use it; the guard in `start()` is on the other branch.
* `guest_gone`: a session is broken off between `snap remove` and the
  installation that follows it. The record of the removed snap is still there;
  the next session that wants the recorded source and revision skips the snap
  and succeeds without it.
* `project_race`: two processes launch in a project that does not exist. One has
  created it and not yet copied the default profile; the other finds the project,
  goes on to `lxc launch`, and fails because the profile has no disk.
* `hook_current`: the hook knows a current base by the tag in its name, and
  `get_instance_name` cuts names after 40 characters. For an application with a
  name longer than eleven letters, the example of the docstring among them, the
  hook deletes the current base and every instance made from it.

Smaller things that were met while modelling. They contradict no statement of
the repository, or are visible in the text alone, so no run is about them:

* The 600 seconds of `check_instance_status` are counted from the start of the
  wait (lxc.py:1285), not from the last answer: after a long wait one failing call
  is raised where it was swallowed before, and `LXC.launch` (802) deletes the base
  by force under a builder whose timer changes.
* `config_timer.stop()` is reached only when the setup succeeds. A process that
  survives the error of its setup keeps the timer going, and `check_instance_status`
  of the others never times out (`WaitHasReason`; `SpecExiting` has such a
  process end).
* Of two processes that launch at the same time, the one whose `lxc launch`
  comes after the base has started gets "already exists", which `LXC.launch`
  (lxc.py:778) does not wait after; it fails.
* A session that waited for another builder in `_create_instance` copies the
  base without `setup_hostname`, and keeps the hostname of the builder.
* A crash between `project_create` and `profile_edit` leaves for good what
  `project_race` shows for a moment: later processes find the project and do not
  look at the profile (`interrupted`).
* A configure hook that is killed between the bases and their copies leaves the
  copies for good: the next one finds no old base. A base whose builder was
  killed still has the description of the image; when the hook deletes it, it
  also deletes current instances launched without a base, which have the same
  description. An instance without a description ends the hook.
* `purge` passes `remote` to every call but `lxc.image_list` (project.py:95).
* `simulate` is not looked at by `delete_all_images`; the message of
  `HookError` (hookutil.py:62) lacks the `f` of an f-string.
* `_check_id_map` with `map_user_uid=False` accepts an instance that has the
  map of its user, although the docstring speaks of an instance without one. An
  instance whose project directory belongs to root, used by another user, is
  cleaned in every session.
* The last attempt of `retry_until_timeout` has `retry_wait` as its budget, so
  a call can end up to one wait after its timeout, and later if the attempt does
  not keep to its budget.
* Multipass: `install()` waits for the daemon without a timeout, while a daemon
  that is installed and not ready is not waited for. `multipass list` shows
  deleted VMs, so that each session raises until the user purges. A setup that
  fails leaves its VM running with the cache mounted. The development base
  accepts a VM of any version.
* An update of a configuration file that cannot be read writes a new one
  without the tag, and a missing tag is compatible with every base.
* `CentOSBase` writes `_cache_dir` (centos.py:92) where the code reads
  `_cache_path`.
