------------------------------ MODULE GuestSetup ------------------------------
(***************************************************************************)
(* What is inside one instance over its life: the setup of Base.setup(),   *)
(* the snaps of actions/snap_installer.py, and the file                    *)
(* /etc/craft-instance.conf that says which of it was done.  Sessions come *)
(* one after the other; each one sets up the instance if it is not there   *)
(* (as _create_instance() does without a base instance), and warms it up.  *)
(*                                                                         *)
(* Sessions may want a snap from the host or from the store, and may have  *)
(* another compatibility tag than the one that made the instance.          *)
(***************************************************************************)
EXTENDS Naturals

CONSTANTS
  NSnaps,   \* the snaps of the base, in the order they are installed
  Revs,     \* the revisions of snaps
  Tags,     \* compatibility tags
  OsSteps,  \* the steps of setup() before the snaps
  Faults    \* what may go wrong: a subset of FaultKinds

FaultKinds ==
  { "break",    \* a command fails with an exception, or the process dies
    "unread",   \* `test -f` fails and the file counts as missing
    "refresh" } \* snapd refreshes or reverts a snap of the host

None == "none"

ASSUME CountsAssumption == NSnaps \in Nat /\ OsSteps \in Nat
ASSUME NoneAssumption == None \notin Tags /\ None \notin Revs
ASSUME FaultsAssumption == Faults \subseteq FaultKinds

SnapIds == 1 .. NSnaps

VARIABLES
  guest,     \* the instance: its snaps, and how far its setup has come
  conf,      \* /etc/craft-instance.conf
  hostrev,   \* the revisions of the snaps on the host
  pc,        \* where the session is, "idle" when there is none
  tag,       \* the compatibility tag of the session
  want,      \* the source from which the session wants each snap
  fresh,     \* the session has made the instance itself
  phase,     \* it is in setup() or in warmup()
  at,        \* the snap it has come to in _install_snaps()
  rev,       \* the revision it has read, of the host or of the target
  recorded,  \* the revision that the configuration gave for the snap
  broke,     \* history: the session was broken off
  unread,    \* history: a configuration of this instance was not read
  doubtful   \* history: the snaps something has happened to half way

session == <<tag, want, fresh, phase>>
history == <<broke, unread, doubtful>>
vars == <<guest, conf, hostrev, pc, session, at, rev, recorded, history>>

-----------------------------------------------------------------------------
(* State *)

Sources == {"host", "store"}
NoSnap == [source |-> None, rev |-> None]
NoSnaps == [s \in SnapIds |-> NoSnap]

\* The steps of setup(): those of the OS, the clean up, and the flag.
Steps == OsSteps + 2

NoGuest == [exists |-> FALSE, made |-> None, done |-> 0, snaps |-> NoSnaps]
NoConf == [there |-> FALSE, setup |-> None, tag |-> None, snaps |-> NoSnaps]

PCs == {"idle", "create", "unset", "image", "tag", "os", "ready",
        "info", "record", "remove", "inject", "install", "query", "save",
        "cleanup", "finish", "check", "clean", "accepted"}

\* Places at which a snap of the guest may differ from its record.
Halfway == {"inject", "install", "query", "save"}

-----------------------------------------------------------------------------
(* Helpers of the actions *)

Goto(where) == pc' = where

\* An exception leaves the session, or its end is reached.  Nothing is undone.
Leave == Goto("idle")

\* InstanceConfiguration.load() gives c.  pull_file() takes any failure of
\* `test -f` for a missing file.
Load(c) ==
  \/ c = conf /\ UNCHANGED unread
  \/ "unread" \in Faults /\ c = NoConf /\ unread' = TRUE

\* Mutant: the instance that was found is not cleaned.
Incompatible_Raises == Leave

\* BaseCompatibilityError: _launch_existing_instance() cleans the instance
\* that it has found, _create_instance() does not clean its own.
Incompatible == IF fresh THEN Leave ELSE Goto("clean")

\* _install_snaps() goes on with snap s, or is through with all of them.
FromSnap(s) ==
  /\ at' = s
  /\ Goto(IF s > NSnaps
          THEN IF phase = "setup" THEN "cleanup" ELSE "accepted"
          ELSE IF want[s] = "host" THEN "info" ELSE "record")

-----------------------------------------------------------------------------
(* launch(), and the deletion of an instance that is not compatible *)

Init ==
  /\ guest = NoGuest
  /\ conf = NoConf
  /\ hostrev \in [SnapIds -> Revs]
  /\ pc = "idle"
  /\ tag \in Tags
  /\ want \in [SnapIds -> Sources]
  /\ fresh = FALSE
  /\ phase = "warmup"
  /\ at = 0
  /\ rev = None
  /\ recorded = None
  /\ broke = FALSE
  /\ unread = FALSE
  /\ doubtful = {}

Begin ==
  /\ pc = "idle"
  /\ tag' \in Tags
  /\ want' \in [SnapIds -> Sources]
  /\ fresh' = FALSE
  /\ phase' = "warmup"
  /\ Goto(IF guest.exists THEN "check" ELSE "create")
  /\ at' = 0
  /\ rev' = None
  /\ recorded' = None
  /\ broke' = FALSE
  /\ UNCHANGED <<guest, conf, hostrev, unread, doubtful>>

Create ==
  /\ pc = "create"
  /\ guest' = [NoGuest EXCEPT !.exists = TRUE, !.made = tag]
  /\ fresh' = TRUE
  /\ phase' = "setup"
  /\ Goto("unset")
  /\ UNCHANGED <<conf, hostrev, tag, want, at, rev, recorded, history>>

Clean ==
  /\ pc = "clean"
  /\ guest' = NoGuest
  /\ conf' = NoConf
  /\ unread' = FALSE
  /\ doubtful' = {}
  /\ Goto("create")
  /\ UNCHANGED <<hostrev, session, at, rev, recorded, broke>>

-----------------------------------------------------------------------------
(* Base.setup() *)

\* The configuration says that the setup is not complete.
Unset ==
  /\ pc = "unset"
  /\ \E c \in {conf, NoConf} :
       /\ Load(c)
       /\ conf' = [c EXCEPT !.there = TRUE, !.setup = "no"]
  /\ Goto("image")
  /\ UNCHANGED <<guest, hostrev, session, at, rev, recorded, broke, doubtful>>

\* _image_check(), in setup() and in warmup(): no tag is as good as the right
\* one.
ImageCheck ==
  /\ pc = "image"
  /\ \E c \in {conf, NoConf} :
       /\ Load(c)
       /\ IF c.tag \in {None, tag}
          THEN Goto(IF phase = "setup" THEN "tag" ELSE "ready")
          ELSE Incompatible
  /\ UNCHANGED <<guest, conf, hostrev, session, at, rev, recorded, broke,
                 doubtful>>

SetTag ==
  /\ pc = "tag"
  /\ \E c \in {conf, NoConf} :
       /\ Load(c)
       /\ conf' = [c EXCEPT !.there = TRUE, !.tag = tag]
  /\ Goto("os")
  /\ UNCHANGED <<guest, hostrev, session, at, rev, recorded, broke, doubtful>>

\* Mutant: a step of the setup is run once more.
OsStep_OneMore ==
  /\ pc = "os"
  /\ IF guest.done <= OsSteps
     THEN /\ guest' = [guest EXCEPT !.done = @ + 1]
          /\ UNCHANGED <<pc, at>>
     ELSE FromSnap(1) /\ UNCHANGED guest
  /\ UNCHANGED <<conf, hostrev, session, rev, recorded, history>>

\* The commands between the tag and the snaps: environment, packages,
\* network, snapd.
OsStep ==
  /\ pc = "os"
  /\ IF guest.done < OsSteps
     THEN /\ guest' = [guest EXCEPT !.done = @ + 1]
          /\ UNCHANGED <<pc, at>>
     ELSE FromSnap(1) /\ UNCHANGED guest
  /\ UNCHANGED <<conf, hostrev, session, rev, recorded, history>>

CleanUp ==
  /\ pc = "cleanup"
  /\ guest' = [guest EXCEPT !.done = @ + 1]
  /\ Goto("finish")
  /\ UNCHANGED <<conf, hostrev, session, at, rev, recorded, history>>

\* _finish(), and then the warmup of _create_instance().
Finish ==
  /\ pc = "finish"
  /\ \E c \in {conf, NoConf} :
       /\ Load(c)
       /\ conf' = [c EXCEPT !.there = TRUE, !.setup = "yes"]
  /\ guest' = [guest EXCEPT !.done = @ + 1]
  /\ phase' = "warmup"
  /\ Goto("check")
  /\ UNCHANGED <<hostrev, tag, want, fresh, at, rev, recorded, broke, doubtful>>

-----------------------------------------------------------------------------
(* Base.warmup() *)

\* Mutant: it is enough that there is a configuration.
CheckSetup_Present ==
  /\ pc = "check"
  /\ \E c \in {conf, NoConf} :
       /\ Load(c)
       /\ IF c.there THEN Goto("image") ELSE Incompatible
  /\ UNCHANGED <<guest, conf, hostrev, session, at, rev, recorded, broke,
                 doubtful>>

\* _ensure_setup_completed()
CheckSetup ==
  /\ pc = "check"
  /\ \E c \in {conf, NoConf} :
       /\ Load(c)
       /\ IF c.there /\ c.setup = "yes" THEN Goto("image") ELSE Incompatible
  /\ UNCHANGED <<guest, conf, hostrev, session, at, rev, recorded, broke,
                 doubtful>>

\* Mounts, the wait for system and network, permissions, snapd.
Ready ==
  /\ pc = "ready"
  /\ FromSnap(1)
  /\ UNCHANGED <<guest, conf, hostrev, session, rev, recorded, history>>

\* The session ends, and nothing has failed.
End ==
  /\ pc = "accepted"
  /\ Leave
  /\ UNCHANGED <<guest, conf, hostrev, session, at, rev, recorded, history>>

-----------------------------------------------------------------------------
(* inject_from_host() and install_from_store(), for the snap `at` *)

\* inject_from_host() asks the snapd of the host for the revision.
HostInfo ==
  /\ pc = "info"
  /\ rev' = hostrev[at]
  /\ Goto("record")
  /\ UNCHANGED <<guest, conf, hostrev, session, at, recorded, history>>

Fetch == Goto(IF want[at] = "host" THEN "inject" ELSE "install")

\* Mutant: a snap of another source is installed over.
CheckRecord_AnySource ==
  /\ pc = "record"
  /\ \E c \in {conf, NoConf} :
       LET entry == c.snaps[at]
       IN /\ Load(c)
          /\ IF entry = NoSnap \/ entry.source # want[at]
             THEN recorded' = None /\ Fetch /\ UNCHANGED at
             ELSE /\ recorded' = entry.rev
                  /\ IF want[at] = "host" /\ entry.rev = rev
                     THEN FromSnap(at + 1)
                     ELSE Fetch /\ UNCHANGED at
  /\ UNCHANGED <<guest, conf, hostrev, session, rev, broke, doubtful>>

\* _get_snap_revision_ensuring_source() up to `snap remove`; a snap of the
\* host that has the recorded revision is skipped.
CheckRecord ==
  /\ pc = "record"
  /\ \E c \in {conf, NoConf} :
       LET entry == c.snaps[at]
       IN /\ Load(c)
          /\ \/ /\ entry = NoSnap
                /\ recorded' = None
                /\ Fetch
                /\ UNCHANGED at
             \/ /\ entry # NoSnap /\ entry.source # want[at]
                /\ recorded' = None
                /\ Goto("remove")
                /\ UNCHANGED at
             \/ /\ entry # NoSnap /\ entry.source = want[at]
                /\ recorded' = entry.rev
                /\ IF want[at] = "host" /\ entry.rev = rev
                   THEN FromSnap(at + 1)
                   ELSE Fetch /\ UNCHANGED at
  /\ UNCHANGED <<guest, conf, hostrev, session, rev, broke, doubtful>>

\* Mutant: the snap is not installed again.
Remove_Only ==
  /\ pc = "remove"
  /\ guest' = [guest EXCEPT !.snaps[at] = NoSnap]
  /\ FromSnap(at + 1)
  /\ UNCHANGED <<conf, hostrev, session, rev, recorded, history>>

\* `snap remove` of a snap that is not installed is no failure.
Remove ==
  /\ pc = "remove"
  /\ guest' = [guest EXCEPT !.snaps[at] = NoSnap]
  /\ Fetch
  /\ UNCHANGED <<conf, hostrev, session, at, rev, recorded, history>>

\* Assertions and file of what the host has now, and `snap install <file>`.
Inject ==
  /\ pc = "inject"
  /\ guest' = [guest EXCEPT !.snaps[at] = [source |-> "host",
                                           rev |-> hostrev[at]]]
  /\ doubtful' = IF hostrev[at] = rev THEN doubtful ELSE doubtful \union {at}
  /\ Goto("save")
  /\ UNCHANGED <<conf, hostrev, session, at, rev, recorded, broke, unread>>

\* `snap install`, which leaves a snap that is there as it is, and
\* `snap refresh`, which fails for one that is not, and may fail for one that
\* is not of the store.
Install ==
  /\ pc = "install"
  /\ \/ /\ IF recorded = None THEN guest.snaps[at] = NoSnap
                              ELSE /\ guest.snaps[at] # NoSnap
                                   /\ guest.snaps[at].source = "store"
        /\ \E r \in Revs :
             guest' = [guest EXCEPT !.snaps[at] = [source |-> "store",
                                                   rev |-> r]]
        /\ Goto("query")
     \/ /\ guest.snaps[at] # NoSnap
        /\ recorded # None => guest.snaps[at].source = "host"
        /\ Goto("query")
        /\ UNCHANGED guest
     \/ /\ recorded # None
        /\ \/ guest.snaps[at] = NoSnap
           \/ guest.snaps[at].source = "host"
        /\ Leave
        /\ UNCHANGED guest
  /\ UNCHANGED <<conf, hostrev, session, at, rev, recorded, history>>

\* _get_target_snap_revision_from_snapd()
Query ==
  /\ pc = "query"
  /\ rev' = guest.snaps[at].rev
  /\ Goto("save")
  /\ UNCHANGED <<guest, conf, hostrev, session, at, recorded, history>>

\* Mutant: the configuration is written with the new entry only.
Save_Replaces ==
  /\ pc = "save"
  /\ conf' = [NoConf EXCEPT !.there = TRUE,
                            !.snaps[at] = [source |-> want[at], rev |-> rev]]
  /\ FromSnap(at + 1)
  /\ UNCHANGED <<guest, hostrev, session, rev, recorded, history>>

\* InstanceConfiguration.update() with the revision and the source.
Save ==
  /\ pc = "save"
  /\ \E c \in {conf, NoConf} :
       /\ Load(c)
       /\ conf' = [c EXCEPT !.there = TRUE,
                            !.snaps[at] = [source |-> want[at], rev |-> rev]]
  /\ FromSnap(at + 1)
  /\ UNCHANGED <<guest, hostrev, session, rev, recorded, broke, doubtful>>

-----------------------------------------------------------------------------
(* What may go wrong, and the host *)

\* A command fails and raises, or the process dies: the session is over.
Break ==
  /\ "break" \in Faults
  /\ pc \notin {"idle", "accepted"}
  /\ Leave
  /\ broke' = TRUE
  /\ doubtful' = IF pc \in Halfway THEN doubtful \union {at} ELSE doubtful
  /\ UNCHANGED <<guest, conf, hostrev, session, at, rev, recorded, unread>>

HostRefresh ==
  /\ "refresh" \in Faults
  /\ \E s \in SnapIds, r \in Revs : hostrev' = [hostrev EXCEPT ![s] = r]
  /\ UNCHANGED <<guest, conf, pc, session, at, rev, recorded, history>>

-----------------------------------------------------------------------------
Next ==
  \/ Begin \/ Create \/ Clean
  \/ Unset \/ ImageCheck \/ SetTag \/ OsStep \/ CleanUp \/ Finish
  \/ CheckSetup \/ Ready \/ End
  \/ HostInfo \/ CheckRecord \/ Remove \/ Inject \/ Install \/ Query \/ Save
  \/ Break \/ HostRefresh

Spec == Init /\ [][Next]_vars

-----------------------------------------------------------------------------
(* Properties *)

Entry == [source : Sources, rev : Revs]
SnapSet == [SnapIds -> Entry \union {NoSnap}]
Guest == [exists : BOOLEAN, made : Tags \union {None}, done : 0 .. Steps,
          snaps : SnapSet]
Conf == [there : BOOLEAN, setup : {None, "no", "yes"},
         tag : Tags \union {None}, snaps : SnapSet]

\* Every variable has its type.
TypeOK ==
  /\ guest \in Guest
  /\ conf \in Conf
  /\ hostrev \in [SnapIds -> Revs]
  /\ pc \in PCs
  /\ tag \in Tags
  /\ want \in [SnapIds -> Sources]
  /\ fresh \in BOOLEAN
  /\ phase \in {"setup", "warmup"}
  /\ at \in 0 .. NSnaps + 1
  /\ rev \in Revs \union {None}
  /\ recorded \in Revs \union {None}
  /\ broke \in BOOLEAN
  /\ unread \in BOOLEAN
  /\ doubtful \subseteq SnapIds

\* warmup() is past its checks.
PastChecks ==
  /\ phase = "warmup"
  /\ pc \in {"ready", "info", "record", "remove", "inject", "install",
             "query", "save", "accepted"}

\* warmup() accepts only an instance on which every step of the setup was
\* run, wherever earlier sessions were broken off, and one that was set up
\* for its own tag, unless a configuration could not be read.
AcceptedIsComplete ==
  PastChecks => /\ guest.done = Steps
                /\ guest.made = tag \/ unread

\* The record of the snaps agrees with the guest, except for snaps that
\* a session was changing when it was broken off, or that changed on
\* the host while they were injected.
RecordsAreTrue ==
  unread \/
  \A s \in SnapIds \ doubtful :
    conf.snaps[s] = guest.snaps[s] \/ (s = at /\ pc \in Halfway)

\* After a session that has not failed, every snap is there and comes from
\* the source the session wants, with the same exceptions.
AcceptedHasSnaps ==
  pc = "accepted" =>
    unread \/
    \A s \in SnapIds \ doubtful :
      guest.snaps[s] # NoSnap /\ guest.snaps[s].source = want[s]

\* A session in which nothing fails succeeds, whatever sessions before it
\* have left - except for snaps that they left half way.
CleanRunSucceeds ==
  [][pc \notin {"idle", "accepted"} /\ pc' = "idle" =>
       broke' \/ unread' \/ at \in doubtful]_vars

\* An instance that is set up for the tag of the session is never cleaned,
\* unless its configuration could not be read.
GoodGuestIsKept ==
  [][pc = "clean" /\ pc' = "create" =>
       guest.done < Steps \/ guest.made # tag \/ unread]_vars

\* The instance as the environment that launched_environment() promises.
EnvironmentState ==
  IF ~guest.exists THEN "none"
  ELSE IF guest.done = Steps THEN "complete"
  ELSE "partial"

EnvironmentSession ==
  IF pc = "idle" THEN "out"
  ELSE IF phase = "setup" THEN "making"
  ELSE IF pc = "accepted" THEN "held"
  ELSE IF pc = "create" THEN "lacking"
  ELSE "asking"

Promise == INSTANCE LaunchedEnvironment WITH
  Kinds <- Tags,
  Fits <- {<<t, t>> : t \in Tags},
  NoKind <- None,
  state <- EnvironmentState,
  kind <- guest.made,
  sess <- EnvironmentSession,
  want <- tag,
  blind <- unread,
  lost <- FALSE

\* setup() and warmup() keep the promise of launched_environment(): an instance is set
\* up by one session without interruption, only a complete one of the right tag is
\* handed out, and none of these is cleaned, unless its configuration is not read.
ImplementsEnvironment == Promise!Spec

\* The same as AcceptedHasSnaps without exceptions: "ensure the installation
\* source" (_get_snap_revision_ensuring_source).
SuccessMeansInstalled ==
  pc = "accepted" => \A s \in SnapIds : guest.snaps[s] # NoSnap
=============================================================================
