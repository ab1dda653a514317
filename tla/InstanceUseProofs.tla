-------------------------- MODULE InstanceUseProofs --------------------------
(***************************************************************************)
(* Proofs about InstanceUse, for any set of processes, any choice of       *)
(* delays, ways to the copy and faults.                                    *)
(***************************************************************************)
EXTENDS InstanceUse, TLAPS

\* Sessions come one after the other.
Alone == \A p, q \in Procs : Active(p) /\ Active(q) => p = q

\* What session p has seen to on its way to where it is, when it is alone.
\* Only a shutdown or an unseen failure explains an instance that is not as
\* the session believes.
Explained(p) == p \in excused \union surprised

\* While the instance is made or checked.
Checked(p) ==
  /\ pc[p] = "idmap" => Exists
  /\ pc[p] = "clean" => Exists /\ (inst.mapped => Explained(p))
  /\ pc[p] \in {"running", "cancel"} =>
       inst.mapped /\ (pc[p] = "cancel" => Running \/ Explained(p))
  /\ pc[p] \in {"cancel", "running", "idmap"} => via[p] = "existing"
  /\ pc[p] = "copy" => ~Exists
  /\ pc[p] \in {"copied", "map", "lxc_start", "start"} => inst.run = "STOPPED"

\* While it is started and used.
Prepared(p) ==
  /\ pc[p] \in {"lxc_start", "start"} => inst.mapped
  /\ pc[p] \notin {"start_taken", "claim", "start_cancel"}
  /\ pc[p] \in {"started", "mark", "hostname"} => Running /\ ~inst.pending
  /\ pc[p] = "warmup" =>
       /\ inst.mapped
       /\ via[p] # "existing" => Running /\ ~inst.pending
       /\ p \notin excused => ~inst.pending
       /\ Running \/ Explained(p)
  /\ pc[p] \in {"mount", "use"} =>
       inst.mapped /\ (p \notin excused => Running /\ ~inst.pending)
  /\ pc[p] \in {"stop", "stopped", "release", "shutdown"} => ~inst.mounted
  /\ pc[p] = "stopped" => inst.run = "STOPPED"

\* From where on a new instance has the hostname of its own process.
Named(p) ==
  /\ pc[p] = "copied" => via[p] = "valid"
  /\ via[p] = "built" /\ pc[p] \in {"map", "start", "lxc_start", "started", "mark",
                                    "warmup", "mount", "use"} => inst.named
  /\ via[p] = "valid" /\ pc[p] \in {"warmup", "mount", "use"} => inst.named

Basic ==
  /\ TypeOK
  /\ ~Exists => inst = Absent

\* The inductive invariant.
Sound ==
  /\ Alone
  /\ Running => inst.mapped
  /\ \A p \in Procs : Checked(p) /\ Prepared(p) /\ Named(p)

IInv == Basic /\ (~crowd => Sound)

-----------------------------------------------------------------------------
LEMMA AbsentType == Absent \in Instance
  BY DEF Absent, Instance

LEMMA BasicInit == Init => Basic
<1> SUFFICES ASSUME Init PROVE Basic
  OBVIOUS
<1>1. inst \in Instance
  BY AbsentType DEF Init
<1>2. inst = Absent /\ ~inst.pending
  BY DEF Init, Absent
<1> QED
  BY <1>1, <1>2 DEF Init, Basic, TypeOK, PCs

LEMMA SoundInit == Init => Sound
  BY DEF Init, Sound, Alone, Active, Absent, Running, Checked, Prepared,
         Named

LEMMA BasicNext == Basic /\ [Next]_vars => Basic'
<1> USE AbsentType, CopiesAssumption
    DEF TypeOK, Instance, Absent, PCs, CopyKinds, Exists, Running, Halted,
        Goto, Leave, GuestFails, Gone, CancelShutdown, AfterStart, NotSetUp,
        history
<1> SUFFICES ASSUME Basic, [Next]_vars
             PROVE  Basic'
  OBVIOUS
<1> USE DEF Basic
<1>1. ASSUME NEW p \in Procs, Enter(p)
      PROVE  Basic'
  BY <1>1 DEF Enter
<1>2. ASSUME NEW p \in Procs, CheckIdMap(p)
      PROVE  Basic'
  BY <1>2 DEF CheckIdMap
<1>3. ASSUME NEW p \in Procs, Clean(p)
      PROVE  Basic'
  BY <1>3 DEF Clean
<1>4. ASSUME NEW p \in Procs, CheckRunning(p)
      PROVE  Basic'
  BY <1>4 DEF CheckRunning
<1>5. ASSUME NEW p \in Procs, Cancel(p)
      PROVE  Basic'
  BY <1>5 DEF Cancel
<1>6. ASSUME NEW p \in Procs, Copy(p)
      PROVE  Basic'
  <2>1. CASE Exists
    BY <1>6, <2>1 DEF Copy
  <2>2. CASE ~Exists
    <3>1. PICK kind \in CopyKinds :
            /\ inst' = [Absent EXCEPT !.run = "STOPPED", !.status = "FINISHED",
                                      !.named = (kind = "built")]
            /\ via' = [via EXCEPT ![p] = kind]
            /\ Goto(p, IF kind = "valid" THEN "copied" ELSE "map")
      BY <1>6, <2>2 DEF Copy
    <3>2. /\ inst' \in Instance
          /\ inst'.run = "STOPPED" /\ ~inst'.pending
      BY <3>1
    <3>3. /\ via' \in [Procs -> {"existing"} \union CopyKinds]
          /\ pc' \in [Procs -> PCs]
      BY <3>1
    <3> QED
      BY <1>6, <2>2, <3>2, <3>3 DEF Copy
  <2> QED
    BY <2>1, <2>2
<1>7. ASSUME NEW p \in Procs, StopCopy(p)
      PROVE  Basic'
  <2>1. CASE Running /\ Exists
    <3>1. /\ inst' = Halted([inst EXCEPT !.status = "FINISHED"])
          /\ pc' \in [Procs -> PCs]
      BY <1>7, <2>1 DEF StopCopy
    <3>2. /\ inst' \in Instance
          /\ inst'.run = "STOPPED" /\ ~inst'.pending
      BY <3>1
    <3> QED
      BY <1>7, <2>1, <3>1, <3>2 DEF StopCopy
  <2>2. CASE ~Running
    BY <1>7, <2>2 DEF StopCopy
  <2> QED
    BY <2>1, <2>2
<1>8. ASSUME NEW p \in Procs, SetIdMap(p)
      PROVE  Basic'
  BY <1>8 DEF SetIdMap
<1>9. ASSUME NEW p \in Procs, Start(p)
      PROVE  Basic'
  BY <1>9 DEF Start
<1>10. ASSUME NEW p \in Procs, StartTaken(p)
      PROVE  Basic'
  BY <1>10 DEF StartTaken
<1>11. ASSUME NEW p \in Procs, Claim(p)
      PROVE  Basic'
  BY <1>11 DEF Claim
<1>12. ASSUME NEW p \in Procs, StartCancel(p)
      PROVE  Basic'
  BY <1>12 DEF StartCancel
<1>13. ASSUME NEW p \in Procs, LxcStart(p)
      PROVE  Basic'
  BY <1>13 DEF LxcStart
<1>14. ASSUME NEW p \in Procs, Started(p)
      PROVE  Basic'
  BY <1>14 DEF Started
<1>15. ASSUME NEW p \in Procs, MarkInUse(p)
      PROVE  Basic'
  BY <1>15 DEF MarkInUse
<1>16. ASSUME NEW p \in Procs, SetHostname(p)
      PROVE  Basic'
  BY <1>16 DEF SetHostname
<1>17. ASSUME NEW p \in Procs, CheckSetup(p)
      PROVE  Basic'
  BY <1>17 DEF CheckSetup
<1>18. ASSUME NEW p \in Procs, Mount(p)
      PROVE  Basic'
  BY <1>18 DEF Mount
<1>19. ASSUME NEW p \in Procs, Use(p)
      PROVE  Basic'
  BY <1>19 DEF Use
<1>20. ASSUME NEW p \in Procs, UnmountAll(p)
      PROVE  Basic'
  BY <1>20 DEF UnmountAll
<1>21. ASSUME NEW p \in Procs, Stop(p)
      PROVE  Basic'
  BY <1>21 DEF Stop
<1>22. ASSUME NEW p \in Procs, Stopped(p)
      PROVE  Basic'
  BY <1>22 DEF Stopped
<1>23. ASSUME NEW p \in Procs, Release(p)
      PROVE  Basic'
  BY <1>23 DEF Release
<1>24. ASSUME NEW p \in Procs, Shutdown(p)
      PROVE  Basic'
  BY <1>24 DEF Shutdown
<1>25. ASSUME NEW p \in Procs, Crash(p)
      PROVE  Basic'
  BY <1>25 DEF Crash
<1>26. CASE Fire
  BY <1>26 DEF Fire, Active
<1>27. CASE Reboot
  BY <1>27 DEF Reboot, Active
<1>28. CASE UNCHANGED vars
  BY <1>28 DEF vars
<1> QED
  BY <1>1, <1>2, <1>3, <1>4, <1>5, <1>6, <1>7, <1>8, <1>9, <1>10, <1>11, <1>12, <1>13, <1>14, <1>15, <1>16, <1>17, <1>18, <1>19, <1>20, <1>21, <1>22, <1>23, <1>24, <1>25, <1>26, <1>27, <1>28 DEF Next, Session

-----------------------------------------------------------------------------
\* A session that steps while it is alone: the others are idle, before and
\* after.
LEMMA OthersIdle ==
  ASSUME Basic, Sound, ~crowd',
         NEW p \in Procs, Session(p) \/ Crash(p)
  PROVE  \A q \in Procs \ {p} : pc[q] = "idle" /\ pc'[q] = "idle"
<1> USE DEF Basic, TypeOK, Sound, Alone, Active, Goto, Leave, GuestFails, Gone,
            NotSetUp
<1> SUFFICES ASSUME NEW q \in Procs, q # p
             PROVE  pc[q] = "idle" /\ pc'[q] = "idle"
  OBVIOUS
<1>1. pc'[q] = pc[q]
  BY DEF Session, Enter, CheckIdMap, Clean, CheckRunning, Cancel, Copy, StopCopy, SetIdMap, Start, StartTaken, Claim, StartCancel, LxcStart, Started, MarkInUse, SetHostname, CheckSetup, Mount, Use, UnmountAll, Stop, Stopped, Release, Shutdown, Crash
<1>2. CASE Enter(p)
  BY <1>1, <1>2 DEF Enter
<1>3. CASE ~Enter(p)
  <2>1. pc[p] # "idle"
    BY <1>3 DEF Session, CheckIdMap, Clean, CheckRunning, Cancel, Copy, StopCopy, SetIdMap, Start, StartTaken, Claim, StartCancel, LxcStart, Started, MarkInUse, SetHostname, CheckSetup, Mount, Use, UnmountAll, Stop, Stopped, Release, Shutdown, Crash
  <2> QED
    BY <1>1, <2>1
<1> QED
  BY <1>2, <1>3

\* What one step of a session that is alone leaves for the session itself.
LEMMA OwnStep ==
  ASSUME Basic, Basic', Sound, ~crowd, ~crowd',
         NEW p \in Procs, Session(p) \/ Crash(p)
  PROVE  (Running => inst.mapped)' /\ Checked(p)' /\ Prepared(p)'
<1> USE DEF Basic, TypeOK, Instance, PCs, CopyKinds, Sound, Checked, Prepared,
            Explained, Exists, Running, Absent, Halted, Goto, Leave,
            GuestFails, Gone, CancelShutdown, AfterStart, NotSetUp, history
<1>1. CASE Enter(p)
  BY <1>1 DEF Enter
<1>2. CASE CheckIdMap(p)
  BY <1>2 DEF CheckIdMap
<1>3. CASE Clean(p)
  BY <1>3 DEF Clean
<1>4. CASE CheckRunning(p)
  BY <1>4 DEF CheckRunning
<1>5. CASE Cancel(p)
  BY <1>5 DEF Cancel
<1>6. CASE Copy(p)
  <2>1. CASE Exists
    BY <1>6, <2>1 DEF Copy
  <2>2. CASE ~Exists
    <3>1. PICK kind \in CopyKinds :
            /\ inst' = [Absent EXCEPT !.run = "STOPPED", !.status = "FINISHED",
                                      !.named = (kind = "built")]
            /\ Goto(p, IF kind = "valid" THEN "copied" ELSE "map")
      BY <1>6, <2>2, CopiesAssumption DEF Copy
    <3>2. inst'.run = "STOPPED"
      BY <3>1
    <3>3. pc'[p] \in {"copied", "map"}
      BY <3>1
    <3> QED
      BY <3>2, <3>3
  <2> QED
    BY <2>1, <2>2
<1>7. CASE StopCopy(p)
  BY <1>7 DEF StopCopy
<1>8. CASE SetIdMap(p)
  BY <1>8 DEF SetIdMap
<1>9. CASE Start(p)
  BY <1>9 DEF Start
<1>10. CASE StartTaken(p)
  BY <1>10 DEF StartTaken
<1>11. CASE Claim(p)
  BY <1>11 DEF Claim
<1>12. CASE StartCancel(p)
  BY <1>12 DEF StartCancel
<1>13. CASE LxcStart(p)
  BY <1>13 DEF LxcStart
<1>14. CASE Started(p)
  BY <1>14 DEF Started
<1>15. CASE MarkInUse(p)
  BY <1>15 DEF MarkInUse
<1>16. CASE SetHostname(p)
  BY <1>16 DEF SetHostname
<1>17. CASE CheckSetup(p)
  BY <1>17 DEF CheckSetup
<1>18. CASE Mount(p)
  BY <1>18 DEF Mount
<1>19. CASE Use(p)
  BY <1>19 DEF Use
<1>20. CASE UnmountAll(p)
  BY <1>20 DEF UnmountAll
<1>21. CASE Stop(p)
  <2>1. CASE Running
    <3>1. inst' = Halted(inst) /\ Goto(p, "stopped")
      BY <1>21, <2>1 DEF Stop
    <3>2. /\ inst'.run = "STOPPED" /\ pc'[p] = "stopped"
          /\ inst'.mounted = inst.mounted
      BY <3>1
    <3>3. ~inst.mounted
      BY <1>21 DEF Stop
    <3> QED
      BY <3>2, <3>3
  <2>2. CASE ~Running
    BY <1>21, <2>2 DEF Stop
  <2> QED
    BY <2>1, <2>2
<1>22. CASE Stopped(p)
  BY <1>22 DEF Stopped
<1>23. CASE Release(p)
  BY <1>23 DEF Release
<1>24. CASE Shutdown(p)
  BY <1>24 DEF Shutdown
<1>25. CASE Crash(p)
  BY <1>25 DEF Crash
<1> QED
  BY <1>1, <1>2, <1>3, <1>4, <1>5, <1>6, <1>7, <1>8, <1>9, <1>10, <1>11, <1>12, <1>13, <1>14, <1>15, <1>16, <1>17, <1>18, <1>19, <1>20, <1>21, <1>22, <1>23, <1>24, <1>25 DEF Session

\* The hostname, through the same steps.
LEMMA OwnName ==
  ASSUME Basic, Sound, ~crowd, ~crowd',
         NEW p \in Procs, Session(p) \/ Crash(p)
  PROVE  Named(p)'
<1> USE DEF Basic, TypeOK, Instance, PCs, CopyKinds, Sound, Prepared, Named,
            Exists, Running, Absent, Halted, Goto, Leave, GuestFails, Gone,
            CancelShutdown, AfterStart, NotSetUp, history
<1>1. CASE Copy(p)
  <2>1. CASE Exists
    BY <1>1, <2>1 DEF Copy
  <2>2. CASE ~Exists
    <3>1. PICK kind \in CopyKinds :
            /\ inst' = [Absent EXCEPT !.run = "STOPPED", !.status = "FINISHED",
                                      !.named = (kind = "built")]
            /\ via' = [via EXCEPT ![p] = kind]
            /\ Goto(p, IF kind = "valid" THEN "copied" ELSE "map")
      BY <1>1, <2>2, CopiesAssumption DEF Copy
    <3>2. via'[p] = kind /\ inst'.named = (kind = "built")
      BY <3>1
    <3>3. pc'[p] = IF kind = "valid" THEN "copied" ELSE "map"
      BY <3>1
    <3> QED
      BY <3>2, <3>3
  <2> QED
    BY <2>1, <2>2
<1>2. CASE StopCopy(p)
  <2>1. Checked(p)
    OBVIOUS
  <2> QED
    BY <1>2, <2>1 DEF StopCopy, Checked
<1>3. CASE Enter(p) \/ CheckIdMap(p) \/ Clean(p) \/ CheckRunning(p) \/ Cancel(p)
  <2>1. Checked(p)
    OBVIOUS
  <2> QED
    BY <1>3, <2>1 DEF Checked, Enter, CheckIdMap, Clean, CheckRunning, Cancel
<1>4. CASE SetIdMap(p)
  BY <1>4 DEF SetIdMap
<1>5. CASE Start(p) \/ StartTaken(p) \/ Claim(p) \/ StartCancel(p)
  BY <1>5 DEF Start, StartTaken, Claim, StartCancel
<1>6. CASE LxcStart(p) \/ Started(p) \/ MarkInUse(p)
  BY <1>6 DEF LxcStart, Started, MarkInUse
<1>7. CASE SetHostname(p)
  BY <1>7 DEF SetHostname
<1>8. CASE CheckSetup(p)
  BY <1>8 DEF CheckSetup
<1>9. CASE Mount(p)
  BY <1>9 DEF Mount
<1>10. CASE \/ Use(p) \/ UnmountAll(p) \/ Stop(p) \/ Stopped(p) \/ Release(p)
           \/ Shutdown(p) \/ Crash(p)
  <2>1. pc'[p] \notin {"copied", "map", "start", "lxc_start", "started", "mark",
                       "warmup", "mount", "use"}
    BY <1>10 DEF Use, UnmountAll, Stop, Stopped, Release, Shutdown, Crash
  <2> QED
    BY <2>1
<1> QED
  BY <1>1, <1>2, <1>3, <1>4, <1>5, <1>6, <1>7, <1>8, <1>9, <1>10 DEF Session

LEMMA SoundNext ==
  ASSUME Basic, ~crowd => Sound, [Next]_vars, ~crowd'
  PROVE  Sound'
<1> USE DEF Sound
<1>0. Basic' /\ ~crowd /\ Sound
  <2>1. crowd => crowd'
    BY DEF Next, vars, history, Session, Crash, Fire, Reboot, Gone, Enter,
           CheckIdMap, Clean, CheckRunning, Cancel, Copy, StopCopy, SetIdMap,
           Start, StartTaken, Claim, StartCancel, LxcStart, Started,
           MarkInUse, SetHostname, CheckSetup, Mount, Use, UnmountAll, Stop,
           Stopped, Release, Shutdown
  <2> QED
    BY <2>1, BasicNext
<1>1. ASSUME NEW p \in Procs, Session(p) \/ Crash(p)
      PROVE  Sound'
  <2>1. \A q \in Procs \ {p} : pc[q] = "idle" /\ pc'[q] = "idle"
    BY <1>0, <1>1, OthersIdle
  <2>2. (Running => inst.mapped)' /\ Checked(p)' /\ Prepared(p)' /\ Named(p)'
    BY <1>0, <1>1, OwnStep, OwnName
  <2>3. \A q \in Procs \ {p} : Checked(q)' /\ Prepared(q)' /\ Named(q)'
    BY <2>1 DEF Checked, Prepared, Named
  <2>4. Alone'
    BY <2>1 DEF Alone, Active
  <2> QED
    BY <2>2, <2>3, <2>4
<1>2. CASE Fire
  <2> USE <1>0, <1>2 DEF Basic, TypeOK, Instance, Running, Exists, Absent,
                         Fire, Active
  <2>1. /\ inst.run = "RUNNING" /\ inst.pending
        /\ inst'.run = "STOPPED" /\ ~inst'.pending
        /\ inst'.mapped = inst.mapped /\ inst'.mounted = inst.mounted
        /\ inst'.named = inst.named
    BY DEF Halted
  <2>2. \A p \in Procs : Checked(p)'
    BY <2>1 DEF Checked, Explained
  <2>3. \A p \in Procs : Prepared(p)'
    BY <2>1 DEF Checked, Prepared, Explained
  <2>4. Alone' /\ (Running => inst.mapped)'
    BY <2>1 DEF Alone
  <2>5. \A p \in Procs : Named(p)'
    BY <2>1 DEF Named
  <2> QED
    BY <2>2, <2>3, <2>4, <2>5
<1>3. CASE Reboot
  <2>1. \A p \in Procs : pc'[p] = "idle"
    BY <1>3 DEF Reboot
  <2>2. \A p \in Procs : Checked(p)' /\ Prepared(p)' /\ Named(p)'
    BY <2>1 DEF Checked, Prepared, Named
  <2>3. Alone'
    BY <2>1 DEF Alone, Active
  <2>4. ~Running'
    BY <1>0, <1>3 DEF Reboot, Running, Halted, Basic, TypeOK, Instance
  <2> QED
    BY <2>2, <2>3, <2>4 DEF Running
<1>4. CASE UNCHANGED vars
  BY <1>0, <1>4 DEF vars, history, Alone, Active, Running, Checked, Prepared,
                    Named, Explained, Exists
<1> QED
  BY <1>1, <1>2, <1>3, <1>4 DEF Next

\* In a step of a session the others stay where they are.
LEMMA OthersStay ==
  ASSUME Basic, NEW p \in Procs, Session(p) \/ Crash(p),
         NEW q \in Procs, q # p
  PROVE  pc'[q] = pc[q]
BY DEF Basic, TypeOK, Session, Enter, CheckIdMap, Clean, CheckRunning, Cancel,
   Copy, StopCopy, SetIdMap, Start, StartTaken, Claim, StartCancel, LxcStart,
   Started, MarkInUse, SetHostname, CheckSetup, Mount, Use, UnmountAll, Stop,
   Stopped, Release, Shutdown, Crash, Gone, Goto, Leave, GuestFails, NotSetUp

LEMMA Invariance == Spec => []IInv
<1>1. Init => IInv
  BY BasicInit, SoundInit DEF IInv
<1>2. IInv /\ [Next]_vars => IInv'
  BY BasicNext, SoundNext DEF IInv
<1> QED
  BY <1>1, <1>2, PTL DEF Spec

-----------------------------------------------------------------------------
\* The types, and that only a running instance has a shutdown scheduled.
THEOREM TypeCorrect == Spec => []TypeOK
<1>1. IInv => TypeOK
  BY DEF IInv, Basic
<1> QED
  BY <1>1, Invariance, PTL

\* A session that is alone uses an instance that runs, is mapped and is not
\* about to be shut down.
THEOREM UseUndisturbed == Spec => []UseIsUndisturbed
<1>1. IInv => UseIsUndisturbed
  BY DEF IInv, Sound, Prepared, UseIsUndisturbed
<1> QED
  BY <1>1, Invariance, PTL

\* A session that is alone uses an instance of its own making under the hostname
\* that it asked for.
THEOREM MadeNamed == Spec => []MadeIsNamed
<1>1. IInv => MadeIsNamed
  BY DEF IInv, Sound, Named, MadeIsNamed
<1> QED
  BY <1>1, Invariance, PTL

\* As long as sessions come one after the other, what runs has its id map.
THEOREM OnlyMappedRuns == Spec => []RunsOnlyMapped
<1>1. IInv => RunsOnlyMapped
  BY DEF IInv, Sound, RunsOnlyMapped
<1> QED
  BY <1>1, Invariance, PTL

\* auto_clean deletes no good instance, except after a shutdown under the
\* session or a failed command.
THEOREM GoodIsKept == Spec => CleansOnlyBroken
<1>1. ASSUME IInv, [Next]_vars, inst.mapped, inst'.run = "ABSENT", ~crowd
      PROVE  \E p \in excused \union surprised : pc[p] = "clean"
  <2> USE <1>1 DEF IInv, Basic, TypeOK, Instance, Exists, Running, Halted
  <2>1. inst.run # "ABSENT"
    BY DEF Absent
  <2>2. ASSUME NEW p \in Procs, Session(p) \/ Crash(p)
        PROVE  Clean(p)
    BY <2>1, <2>2 DEF Session, Enter, CheckIdMap, CheckRunning, Cancel, Copy,
         StopCopy, SetIdMap, Start, StartTaken, Claim, StartCancel, LxcStart,
         Started, MarkInUse, SetHostname, CheckSetup, Mount, Use, UnmountAll,
         Stop, Stopped, Release, Shutdown, Crash, Gone, CancelShutdown,
         GuestFails, Absent
  <2>3. ASSUME NEW p \in Procs, Clean(p)
        PROVE  pc[p] = "clean" /\ p \in excused \union surprised
    BY <2>1, <2>3 DEF Clean, Sound, Checked, Explained
  <2>4. ~Fire /\ ~Reboot /\ ~UNCHANGED vars
    <3>1. Halted(inst).run = "STOPPED"
      OBVIOUS
    <3> QED
      BY <2>1, <3>1 DEF Fire, Reboot, vars
  <2> QED
    BY <2>2, <2>3, <2>4 DEF Next
<1>2. IInv /\ [Next]_vars =>
        [inst.mapped /\ inst'.run = "ABSENT" =>
           \/ crowd
           \/ \E p \in excused \union surprised : pc[p] = "clean"]_vars
  BY <1>1
<1> QED
  BY <1>2, Invariance, PTL DEF Spec, CleansOnlyBroken

\* launch() raises for a session that is alone only after something failed
\* in that session.
THEOREM AloneSucceeds == Spec => LaunchSucceedsAlone
<1>1. ASSUME IInv, [Next]_vars, NEW p \in Procs,
             Launching(p), pc'[p] = "idle", ~crowd
      PROVE  p \in excused'
  <2> USE <1>1 DEF IInv, Basic, TypeOK, Instance, Exists, Running, Launching,
                   Active, Sound
  <2>1. ASSUME NEW q \in Procs, Session(q) \/ Crash(q), q # p
        PROVE  FALSE
    <3>1. pc'[p] = pc[p]
      BY <2>1, OthersStay
    <3> QED
      BY <3>1
  <2>2. CASE Session(p)
    <3> USE DEF Gone, Goto, Leave, GuestFails, NotSetUp, Checked, Prepared,
                Absent, AfterStart, CopyKinds
    <3>1. ~Enter(p)
      BY DEF Enter
    <3>2. CASE CheckIdMap(p)
      BY <3>2 DEF CheckIdMap
    <3>3. CASE Clean(p)
      BY <3>3 DEF Clean
    <3>4. CASE CheckRunning(p)
      BY <3>4 DEF CheckRunning
    <3>5. CASE Cancel(p)
      BY <3>5 DEF Cancel
    <3>6. CASE Copy(p)
      BY <3>6 DEF Copy
    <3>7. CASE StopCopy(p)
      BY <3>7 DEF StopCopy
    <3>8. CASE SetIdMap(p)
      BY <3>8 DEF SetIdMap
    <3>9. CASE Start(p)
      BY <3>9 DEF Start
    <3>10. CASE StartTaken(p)
      BY <3>10 DEF StartTaken
    <3>11. CASE Claim(p)
      BY <3>11 DEF Claim
    <3>12. CASE StartCancel(p)
      BY <3>12 DEF StartCancel
    <3>13. CASE LxcStart(p)
      BY <3>13 DEF LxcStart
    <3>14. CASE Started(p)
      BY <3>14 DEF Started
    <3>15. CASE MarkInUse(p)
      BY <3>15 DEF MarkInUse
    <3>16. CASE SetHostname(p)
      BY <3>16 DEF SetHostname
    <3>17. CASE CheckSetup(p)
      BY <3>17 DEF CheckSetup
    <3>18. CASE Mount(p)
      BY <3>18 DEF Mount
    <3>19. ~(Use(p) \/ UnmountAll(p) \/ Stop(p) \/ Stopped(p) \/ Release(p)
            \/ Shutdown(p))
      BY DEF Use, UnmountAll, Stop, Stopped, Release, Shutdown
    <3> QED
      BY <2>2, <3>1, <3>2, <3>3, <3>4, <3>5, <3>6, <3>7, <3>8, <3>9, <3>10, <3>11, <3>12, <3>13, <3>14, <3>15, <3>16, <3>17, <3>18, <3>19 DEF Session
  <2>3. CASE Crash(p)
    BY <2>3 DEF Crash
  <2>4. CASE Reboot
    BY <2>4 DEF Reboot
  <2>5. ~Fire /\ ~UNCHANGED vars
    BY DEF Fire, vars
  <2> QED
    BY <2>1, <2>2, <2>3, <2>4, <2>5 DEF Next
<1>2. IInv /\ [Next]_vars =>
        [\A p \in Procs :
           Launching(p) /\ pc'[p] = "idle" => crowd \/ p \in excused']_vars
  BY <1>1
<1> QED
  BY <1>2, Invariance, PTL DEF Spec, LaunchSucceedsAlone

\* A session that is alone and comes to its end leaves no mount behind, and
\* an instance that has stopped or is about to.
THEOREM EndsClean == Spec => SessionEndsClean
<1>1. ASSUME IInv, [Next]_vars, NEW p \in Procs,
             pc[p] \in {"unmount", "stop", "stopped", "release", "shutdown"},
             pc'[p] = "idle", ~crowd, p \notin excused'
      PROVE  ~inst'.mounted /\ (inst'.run = "RUNNING" => inst'.pending)
  <2> USE <1>1 DEF IInv, Basic, TypeOK, Instance, Exists, Running, Sound,
                   Prepared, Absent, Halted
  <2>1. ASSUME NEW q \in Procs, Session(q) \/ Crash(q), q # p
        PROVE  FALSE
    BY <2>1, OthersStay
  <2>2. CASE Session(p) \/ Crash(p)
    <3> USE DEF Gone, Goto, Leave, GuestFails
    <3>1. \/ UnmountAll(p) \/ Stop(p) \/ Stopped(p) \/ Release(p)
          \/ Shutdown(p) \/ Crash(p)
      BY <2>2 DEF Session, Enter, CheckIdMap, Clean, CheckRunning, Cancel,
           Copy, StopCopy, SetIdMap, Start, StartTaken, Claim, StartCancel,
           LxcStart, Started, MarkInUse, SetHostname, CheckSetup, Mount, Use
    <3>2. CASE Stop(p)
      BY <3>2 DEF Stop
    <3>3. CASE Stopped(p)
      BY <3>3 DEF Stopped
    <3>4. CASE Release(p)
      BY <3>4 DEF Release
    <3>5. CASE Shutdown(p)
      BY <3>5 DEF Shutdown
    <3>6. CASE Crash(p)
      BY <3>6 DEF Crash
    <3>7. CASE UnmountAll(p)
      BY <3>7 DEF UnmountAll
    <3> QED
      BY <3>1, <3>2, <3>3, <3>4, <3>5, <3>6, <3>7
  <2>3. CASE Reboot
    BY <2>3 DEF Reboot, Active
  <2>4. ~Fire /\ ~UNCHANGED vars
    BY DEF Fire, vars
  <2> QED
    BY <2>1, <2>2, <2>3, <2>4 DEF Next
<1>2. IInv /\ [Next]_vars =>
        [\A p \in Procs :
           /\ pc[p] \in {"unmount", "stop", "stopped", "release", "shutdown"}
           /\ pc'[p] = "idle"
           => \/ crowd \/ p \in excused'
              \/ ~inst'.mounted /\ (inst'.run = "RUNNING" => inst'.pending)]_vars
  BY <1>1
<1> QED
  BY <1>2, Invariance, PTL DEF Spec, SessionEndsClean
=============================================================================
