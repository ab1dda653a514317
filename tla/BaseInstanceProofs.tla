------------------------- MODULE BaseInstanceProofs -------------------------
(***************************************************************************)
(* Proofs about BaseInstance, for any number of processes, any length of   *)
(* the setup, any number of retries and any set of faults.                 *)
(***************************************************************************)
EXTENDS BaseInstance, TLAPS

\* The part of the invariant that holds of every state: the typing, what is
\* left of an absent base, the steps of a process that has not set up, and
\* that a setup at work is covered by a timer; and that LXC.launch() waits
\* only while it may try again, and no call takes the base away from the
\* process that is creating it.
Basic ==
  /\ TypeOK
  /\ base.status = "NONE" <=> ~Exists
  /\ \A p \in Procs :
       pc[p] \notin {"setup", "finish", "stop", "stopped", "copy", "done",
                     "failed", "dead"} => step[p] = 0
  /\ \A p \in Procs : pc[p] = "setup" => step[p] < SetupSteps
  /\ \A p \in Procs : pc[p] \in {"setup", "finish"} => p \in ticking
  /\ \A p \in Procs :
       \/ pc[p] = "cleanup"
       \/ pc[p] \in {"wait", "wait_status"} /\ via[p] = "launch"
       => MayRetry(p)
  /\ \A p \in Procs :
       pc[p] = "creating" => base.run = "CREATING" /\ base.pid = p

\* What the status key says about the base and about the processes.
KeysAreTrue ==
  /\ base.status = "FINISHED" => Complete
  /\ base.run = "CREATING" =>
       /\ base.status = "STARTING"
       /\ base.pid \in Procs
       /\ pc[base.pid] = "creating"
  /\ \A p \in Procs : Building(p) => base.pid = p
  /\ base.old => base.status = "FINISHED" /\ \A p \in Procs : ~Building(p)

\* What a process that relies on the base may count on.
RelianceIsSound ==
  \A p \in Procs :
    /\ pc[p] = "get_status" => base.status \in {"STARTING", "FINISHED"}
    /\ pc[p] = "prepare" => base.status = "STARTING"
    /\ pc[p] = "setup" =>
         base.status = "PREPARING" /\ 1..step[p] \subseteq base.steps
    /\ pc[p] = "finish" => base.status = "PREPARING" /\ Complete
    /\ pc[p] \in {"stop", "stopped", "copy"} => base.status = "FINISHED"
    /\ copied[p] # "incomplete"

\* The inductive invariant.
Sound == KeysAreTrue /\ RelianceIsSound
IInv == Basic /\ (~disturbed => Sound)

\* A process that has decided, on this incarnation alone, to delete the base
\* decides rightly for as long as the incarnation lives.
VerdictsHold ==
  ~disturbed /\ Exists =>
    \A p \in current : pc[p] \in {"delete", "cleanup"} =>
      \A q \in Procs : ~Building(q)
-----------------------------------------------------------------------------
(* The helpers of the actions, expanded wherever an action is. *)

\* The two records the code creates, and the changes it makes to one.
LEMMA AbsentType == Absent \in Base
  BY DEF Absent, Base, RunStates, Statuses

LEMMA ReadyType == ASSUME NEW old \in BOOLEAN PROVE Ready(old) \in Base
  BY DEF Ready, Base, RunStates, Statuses

LEMMA CreatingType ==
  ASSUME NEW p \in Procs
  PROVE  [Absent EXCEPT !.run = "CREATING", !.status = "STARTING", !.pid = p]
           \in Base
  BY DEF Absent, Base, RunStates, Statuses

LEMMA RunType ==
  ASSUME NEW b \in Base, NEW r \in RunStates
  PROVE  /\ [b EXCEPT !.run = r] \in Base
         /\ [b EXCEPT !.run = r].run = r
         /\ [b EXCEPT !.run = r].status = b.status
  BY DEF Base

LEMMA BasicInit == Init => Basic
<1> SUFFICES ASSUME Init PROVE Basic
  OBVIOUS
<1> USE DEF Init
<1>1. base \in Base
  BY AbsentType, ReadyType
<1>2. TypeOK
  <2>1. pc \in [Procs -> PCs]
    BY DEF PCs
  <2>2. retry \in [Procs -> 0..MaxRetries - 1]
    BY RetriesAssumption
  <2>3. step \in [Procs -> 0..SetupSteps]
    BY StepsAssumption
  <2> QED
    BY <1>1, <2>1, <2>2, <2>3 DEF TypeOK
<1>3. base.status = "NONE" <=> ~Exists
  BY DEF Exists, Absent, Ready
<1> QED
  BY <1>2, <1>3 DEF Basic

LEMMA BasicNext == Basic /\ [Next]_vars => Basic'
<1> USE StepsAssumption, RetriesAssumption
    DEF TypeOK, Base, Absent, RunStates, Statuses, PCs, Exists, Steps,
        Goto, Observe, ReadFails, Fail, DeleteBase, AfterWait, Free, InfoState,
        MayRetry, local, history
<1> SUFFICES ASSUME Basic, [Next]_vars
             PROVE  Basic'
  OBVIOUS
<1>1. ASSUME NEW p \in Procs, CheckExists(p)
      PROVE  Basic'
  BY <1>1 DEF Basic, CheckExists
<1>2. ASSUME NEW p \in Procs, CheckAge(p)
      PROVE  Basic'
  BY <1>2 DEF Basic, CheckAge
<1>3. ASSUME NEW p \in Procs, ReadState(p)
      PROVE  Basic'
  BY <1>3 DEF Basic, ReadState
<1>4. ASSUME NEW p \in Procs, ReadStatus(p)
      PROVE  Basic'
  BY <1>4 DEF Basic, ReadStatus
<1>5. ASSUME NEW p \in Procs, ReadPid(p)
      PROVE  Basic'
  BY <1>5 DEF Basic, ReadPid
<1>6. ASSUME NEW p \in Procs, DeleteInvalid(p)
      PROVE  Basic'
  <2>1. base' \in Base /\ (base'.status = "NONE" <=> base'.run = "ABSENT")
    BY <1>6, AbsentType DEF Basic, DeleteInvalid
  <2>2. TypeOK'
    BY <1>6, <2>1 DEF Basic, DeleteInvalid
  <2> QED
    BY <1>6, <2>1, <2>2 DEF Basic, DeleteInvalid
<1>7. ASSUME NEW p \in Procs, PollState(p)
      PROVE  Basic'
  BY <1>7 DEF Basic, PollState
<1>8. ASSUME NEW p \in Procs, PollGivesUp(p)
      PROVE  Basic'
  BY <1>8 DEF Basic, PollGivesUp
<1>9. ASSUME NEW p \in Procs, PollReady(p)
      PROVE  Basic'
  BY <1>9 DEF Basic, PollReady
<1>10. ASSUME NEW p \in Procs, PollAgain(p)
      PROVE  Basic'
  BY <1>10 DEF Basic, PollAgain
<1>11. ASSUME NEW p \in Procs, PollTimesOut(p)
      PROVE  Basic'
  BY <1>11 DEF Basic, PollTimesOut
<1>12. ASSUME NEW p \in Procs, LxcLaunch(p)
      PROVE  Basic'
  <2>1. base' \in Base /\ (base'.status = "NONE" <=> base'.run = "ABSENT")
    BY <1>12, CreatingType DEF Basic, LxcLaunch
  <2>2. TypeOK'
    BY <1>12, <2>1 DEF Basic, LxcLaunch
  <2>3. \A q \in Procs :
           pc'[q] = "creating" => base'.run = "CREATING" /\ base'.pid = q
    <3>1. CASE ~Exists /\ base'.pid = p /\ base'.run = "CREATING"
      BY <1>12, <3>1 DEF Basic, LxcLaunch
    <3>2. CASE UNCHANGED base /\ pc'[p] # "creating"
      BY <1>12, <3>2 DEF Basic, LxcLaunch
    <3>3. pc \in [Procs -> PCs] /\ p \in Procs
      BY <1>12 DEF Basic
    <3>4. \/ /\ ~Exists
             /\ base' = [Absent EXCEPT !.run = "CREATING",
                                       !.status = "STARTING", !.pid = p]
          \/ UNCHANGED base /\ pc' = [pc EXCEPT ![p] = "wait"]
          \/ UNCHANGED base /\ pc' = [pc EXCEPT ![p] = "failed"]
      BY <1>12 DEF LxcLaunch
    <3> QED
      BY <3>1, <3>2, <3>3, <3>4
  <2> QED
    BY <1>12, <2>1, <2>2, <2>3 DEF Basic, LxcLaunch
<1>13. ASSUME NEW p \in Procs, Launched(p)
      PROVE  Basic'
  <2>1. base' \in Base /\ (base'.status = "NONE" <=> base'.run = "ABSENT")
    <3>1. base \in Base /\ base.status # "NONE"
      BY <1>13 DEF Basic, Launched
    <3>2. "RUNNING" \in RunStates /\ "STOPPED" \in RunStates
      OBVIOUS
    <3>3. \/ base' = [base EXCEPT !.run = "RUNNING"]
          \/ base' = [base EXCEPT !.run = "STOPPED"]
      BY <1>13 DEF Launched
    <3>4. base'.status = "NONE" <=> base'.run = "ABSENT"
      BY <3>1, <3>3
    <3> HIDE DEF Base, RunStates
    <3> QED
      BY <3>1, <3>2, <3>3, <3>4, RunType
  <2>2. TypeOK'
    BY <1>13, <2>1 DEF Basic, Launched
  <2> QED
    BY <1>13, <2>1, <2>2 DEF Basic, Launched
<1>14. ASSUME NEW p \in Procs, DeleteBroken(p)
      PROVE  Basic'
  <2>1. base' \in Base /\ (base'.status = "NONE" <=> base'.run = "ABSENT")
    BY <1>14, AbsentType DEF Basic, DeleteBroken
  <2>2. retry' \in [Procs -> 0..MaxRetries - 1]
    BY <1>14 DEF Basic, DeleteBroken
  <2>3. TypeOK'
    BY <1>14, <2>1, <2>2 DEF Basic, DeleteBroken
  <2> QED
    BY <1>14, <2>1, <2>3 DEF Basic, DeleteBroken
<1>15. ASSUME NEW p \in Procs, GetStatus(p)
      PROVE  Basic'
  BY <1>15 DEF Basic, GetStatus
<1>16. ASSUME NEW p \in Procs, Prepare(p)
      PROVE  Basic'
  BY <1>16 DEF Basic, Prepare
<1>17. ASSUME NEW p \in Procs, Setup(p)
      PROVE  Basic'
  BY <1>17 DEF Basic, Setup
<1>18. ASSUME NEW p \in Procs, Finish(p)
      PROVE  Basic'
  BY <1>18 DEF Basic, Finish
<1>19. ASSUME NEW p \in Procs, Stop(p)
      PROVE  Basic'
  BY <1>19 DEF Basic, Stop
<1>20. ASSUME NEW p \in Procs, Stopped(p)
      PROVE  Basic'
  BY <1>20 DEF Basic, Stopped
<1>21. ASSUME NEW p \in Procs, Copy(p)
      PROVE  Basic'
  BY <1>21 DEF Basic, Copy
<1>22. ASSUME NEW p \in Procs, Exit(p)
      PROVE  Basic'
  BY <1>22 DEF Basic, Exit, Abandoned, Alive
<1>23. ASSUME NEW p \in Procs, Crash(p)
      PROVE  Basic'
  <2>1. base' \in Base /\ (base'.status = "NONE" <=> base'.run = "ABSENT")
    <3>1. /\ base \in Base
          /\ base.status = "NONE" <=> base.run = "ABSENT"
          /\ pc[p] = "creating" => base.status # "NONE"
      BY DEF Basic
    <3>2. "RUNNING" \in RunStates /\ "STOPPED" \in RunStates
      OBVIOUS
    <3>3. \/ base' = base
          \/ base' = Absent
          \/ /\ pc[p] = "creating"
             /\ \/ base' = [base EXCEPT !.run = "RUNNING"]
                \/ base' = [base EXCEPT !.run = "STOPPED"]
      BY <1>23 DEF Crash, Abandoned
    <3>4. base'.status = "NONE" <=> base'.run = "ABSENT"
      BY <3>1, <3>3
    <3> HIDE DEF Base, RunStates, Absent
    <3> QED
      BY <3>1, <3>2, <3>3, <3>4, RunType, AbsentType
  <2>2. TypeOK'
    BY <1>23, <2>1 DEF Basic, Crash, Abandoned, Alive
  <2> QED
    BY <1>23, <2>1, <2>2 DEF Basic, Crash, Abandoned, Alive
<1>24. CASE Reboot
  BY <1>24 DEF Basic, Reboot, Alive
<1>25. CASE Expire
  BY <1>25 DEF Basic, Expire, Alive
<1>26. CASE UNCHANGED vars
  BY <1>26 DEF Basic, vars
<1> QED
  BY <1>1, <1>2, <1>3, <1>4, <1>5, <1>6, <1>7, <1>8, <1>9, <1>10, <1>11, <1>12, <1>13, <1>14, <1>15, <1>16, <1>17, <1>18, <1>19, <1>20, <1>21, <1>22, <1>23, <1>24, <1>25, <1>26 DEF Next, Program
-----------------------------------------------------------------------------
\* Only a deletion disturbs, and what is disturbed stays so.
LEMMA DisturbedStays == Basic /\ [Next]_vars /\ ~disturbed' => ~disturbed
  BY DEF Basic, TypeOK, Next, Program, vars, local, history, CheckExists,
         CheckAge, ReadState, ReadStatus, ReadPid, DeleteInvalid, PollState,
         PollGivesUp, PollReady, PollAgain, PollTimesOut, LxcLaunch, Launched,
         DeleteBroken, GetStatus, Prepare, Setup, Finish, Stop, Stopped, Copy,
         Exit, Crash, Reboot, Expire, DeleteBase

LEMMA SoundInit == Init => Sound
  BY DEF Init, Sound, KeysAreTrue, RelianceIsSound, Complete, Building,
         Absent, Ready

LEMMA SoundNext ==
  ASSUME Basic, Basic', Sound, [Next]_vars, ~disturbed'
  PROVE  Sound'
<1> USE StepsAssumption, ProcsAssumption
    DEF Sound, KeysAreTrue, RelianceIsSound, Building, Complete, Exists,
        Goto, Observe, ReadFails, Fail, DeleteBase, AfterWait, Free, InfoState,
        local, history, RelyingPCs, Absent
<1>0. /\ base \in Base /\ base' \in Base
      /\ pc \in [Procs -> PCs]
      /\ step \in [Procs -> 0..SetupSteps]
      /\ copied \in [Procs -> {"none", "complete", "incomplete"}]
      /\ base.status = "NONE" <=> ~Exists
      /\ \A p \in Procs :
           pc[p] = "creating" => base.run = "CREATING" /\ base.pid = p
      /\ \A p \in Procs : pc[p] = "prepare" => step[p] = 0
  BY DEF Basic, TypeOK
<1>1. ASSUME NEW p \in Procs, CheckExists(p)
      PROVE  Sound'
  BY <1>0, <1>1 DEF CheckExists
<1>2. ASSUME NEW p \in Procs, CheckAge(p)
      PROVE  Sound'
  BY <1>0, <1>2 DEF CheckAge
<1>3. ASSUME NEW p \in Procs, ReadState(p)
      PROVE  Sound'
  BY <1>0, <1>3 DEF ReadState
<1>4. ASSUME NEW p \in Procs, ReadStatus(p)
      PROVE  Sound'
  BY <1>0, <1>4 DEF ReadStatus
<1>5. ASSUME NEW p \in Procs, ReadPid(p)
      PROVE  Sound'
  BY <1>0, <1>5 DEF ReadPid
<1>6. ASSUME NEW p \in Procs, DeleteInvalid(p)
      PROVE  Sound'
  <2>1. CASE ~Free
    BY <1>0, <1>6, <2>1 DEF DeleteInvalid
  <2>2. CASE Free
    <3>1. /\ base'.run = "ABSENT" /\ base'.status = "NONE"
          /\ base'.old = FALSE
      BY <1>6, <2>2 DEF DeleteInvalid
    <3>2. \A q \in Procs : pc[q] \notin RelyingPCs /\ pc[q] # "creating"
      BY <1>0, <1>6, <2>2 DEF DeleteInvalid
    <3>3. pc' = [pc EXCEPT ![p] = "lxc_launch"] /\ copied' = copied
      BY <1>6, <2>2 DEF DeleteInvalid
    <3>4. \A q \in Procs : /\ pc'[q] \notin RelyingPCs /\ pc'[q] # "creating"
                           /\ copied'[q] = copied[q]
      BY <1>0, <3>2, <3>3
    <3>5. KeysAreTrue'
      BY <3>1, <3>4
    <3>6. RelianceIsSound'
      BY <3>1, <3>4
    <3> QED
      BY <3>5, <3>6
  <2> QED
    BY <2>1, <2>2
<1>7. ASSUME NEW p \in Procs, PollState(p)
      PROVE  Sound'
  BY <1>0, <1>7 DEF PollState
<1>8. ASSUME NEW p \in Procs, PollGivesUp(p)
      PROVE  Sound'
  BY <1>0, <1>8 DEF PollGivesUp
<1>9. ASSUME NEW p \in Procs, PollReady(p)
      PROVE  Sound'
  BY <1>0, <1>9 DEF PollReady
<1>10. ASSUME NEW p \in Procs, PollAgain(p)
      PROVE  Sound'
  BY <1>0, <1>10 DEF PollAgain
<1>11. ASSUME NEW p \in Procs, PollTimesOut(p)
      PROVE  Sound'
  BY <1>0, <1>11 DEF PollTimesOut
<1>12. ASSUME NEW p \in Procs, LxcLaunch(p)
      PROVE  Sound'
  <2>1. /\ \/ UNCHANGED base /\ pc' = [pc EXCEPT ![p] = "wait"]
           \/ UNCHANGED base /\ pc' = [pc EXCEPT ![p] = "failed"]
           \/ /\ base.run = "ABSENT"
              /\ base'.run = "CREATING" /\ base'.status = "STARTING"
              /\ base'.pid = p /\ base'.steps = {} /\ base'.old = FALSE
              /\ pc' = [pc EXCEPT ![p] = "creating"]
    BY <1>0, <1>12 DEF LxcLaunch, Base
  <2>2. KeysAreTrue'
    BY <1>0, <1>12, <2>1 DEF LxcLaunch
  <2>3. RelianceIsSound'
    BY <1>0, <1>12, <2>1 DEF LxcLaunch
  <2> QED
    BY <2>2, <2>3
<1>13. ASSUME NEW p \in Procs, Launched(p)
      PROVE  Sound'
  <2>1. /\ base'.status = base.status
        /\ base'.pid = base.pid
        /\ base'.steps = base.steps
        /\ base'.old = base.old
        /\ base'.run \in {"RUNNING", "STOPPED"}
    BY <1>0, <1>13 DEF Launched, Base
  <2>2. KeysAreTrue'
    BY <1>0, <1>13, <2>1 DEF Launched
  <2>3. RelianceIsSound'
    BY <1>0, <1>13, <2>1 DEF Launched
  <2> QED
    BY <2>2, <2>3
<1>14. ASSUME NEW p \in Procs, DeleteBroken(p)
      PROVE  Sound'
  <2>1. CASE ~Free
    BY <1>0, <1>14, <2>1 DEF DeleteBroken
  <2>2. CASE Free
    <3>1. /\ base'.run = "ABSENT" /\ base'.status = "NONE"
          /\ base'.old = FALSE
      BY <1>14, <2>2 DEF DeleteBroken
    <3>2. \A q \in Procs : pc[q] \notin RelyingPCs /\ pc[q] # "creating"
      BY <1>0, <1>14, <2>2 DEF DeleteBroken
    <3>3. pc' = [pc EXCEPT ![p] = "lxc_launch"] /\ copied' = copied
      BY <1>14, <2>2 DEF DeleteBroken
    <3>4. \A q \in Procs : /\ pc'[q] \notin RelyingPCs /\ pc'[q] # "creating"
                           /\ copied'[q] = copied[q]
      BY <1>0, <3>2, <3>3
    <3>5. KeysAreTrue'
      BY <3>1, <3>4
    <3>6. RelianceIsSound'
      BY <3>1, <3>4
    <3> QED
      BY <3>5, <3>6
  <2> QED
    BY <2>1, <2>2
<1>15. ASSUME NEW p \in Procs, GetStatus(p)
      PROVE  Sound'
  BY <1>0, <1>15 DEF GetStatus
<1>16. ASSUME NEW p \in Procs, Prepare(p)
      PROVE  Sound'
  <2>1. /\ base'.run = base.run
        /\ base'.pid = base.pid
        /\ base'.steps = base.steps
        /\ base'.old = base.old
        /\ base'.status = IF Exists THEN "PREPARING" ELSE base.status
    BY <1>0, <1>16 DEF Prepare, Base
  <2>2. KeysAreTrue'
    BY <1>0, <1>16, <2>1 DEF Prepare
  <2>3. RelianceIsSound'
    BY <1>0, <1>16, <2>1 DEF Prepare
  <2> QED
    BY <2>2, <2>3
<1>17. ASSUME NEW p \in Procs, Setup(p)
      PROVE  Sound'
  <2>1. /\ base'.run = base.run
        /\ base'.status = base.status
        /\ base'.pid = base.pid
        /\ base'.old = base.old
        /\ \/ UNCHANGED <<base, step>> /\ pc' = [pc EXCEPT ![p] = "failed"]
           \/ /\ base.run = "RUNNING"
              /\ base'.steps = base.steps \union {step[p] + 1}
              /\ step' = [step EXCEPT ![p] = @ + 1]
              /\ pc' = [pc EXCEPT ![p] = IF step[p] + 1 = SetupSteps THEN "finish" ELSE "setup"]
    BY <1>0, <1>17 DEF Setup, Base
  <2>2. KeysAreTrue'
    BY <1>0, <1>17, <2>1 DEF Setup
  <2>3. RelianceIsSound'
    <3>1. CASE pc'[p] = "failed"
      BY <1>0, <1>17, <2>1, <3>1 DEF Setup
    <3>2. CASE pc'[p] # "failed"
      <4>1. /\ \A q \in Procs : q # p => pc'[q] = pc[q] /\ step'[q] = step[q]
            /\ step'[p] = step[p] + 1
            /\ base'.steps = base.steps \union {step'[p]}
            /\ pc'[p] \in {"setup", "finish"}
            /\ pc'[p] = "finish" => step'[p] = SetupSteps
            /\ copied' = copied
        BY <1>0, <1>17, <2>1, <3>2 DEF Setup
      <4>2. 1..step'[p] \subseteq base'.steps
        BY <1>0, <1>17, <4>1 DEF Setup
      <4>3. base'.steps \subseteq Steps
        BY <1>0 DEF Base
      <4>4. pc'[p] = "finish" => base'.steps = Steps
        BY <4>1, <4>2, <4>3 DEF Steps
      <4>5. base'.status = "PREPARING"
        BY <1>17, <2>1 DEF Setup
      <4>6. \A q \in Procs : q # p => pc'[q] \notin {"prepare", "setup",
                 "finish", "stop", "stopped", "copy"}
        BY <1>0, <1>17, <4>1 DEF Setup
      <4>7. \A q \in Procs : pc'[q] # "get_status"
        BY <1>0, <1>17, <4>1 DEF Setup
      <4> QED
        BY <4>1, <4>2, <4>4, <4>5, <4>6, <4>7
    <3> QED
      BY <3>1, <3>2
  <2> QED
    BY <2>2, <2>3
<1>18. ASSUME NEW p \in Procs, Finish(p)
      PROVE  Sound'
  <2>1. /\ base'.run = base.run
        /\ base'.pid = base.pid
        /\ base'.steps = base.steps
        /\ base'.old = base.old
        /\ base'.status = IF Exists THEN "FINISHED" ELSE base.status
    BY <1>0, <1>18 DEF Finish, Base
  <2>2. KeysAreTrue'
    BY <1>0, <1>18, <2>1 DEF Finish
  <2>3. RelianceIsSound'
    BY <1>0, <1>18, <2>1 DEF Finish
  <2> QED
    BY <2>2, <2>3
<1>19. ASSUME NEW p \in Procs, Stop(p)
      PROVE  Sound'
  <2>1. /\ base'.status = base.status
        /\ base'.pid = base.pid
        /\ base'.steps = base.steps
        /\ base'.old = base.old
        /\ base'.run = IF base.run = "RUNNING" THEN "STOPPED" ELSE base.run
    BY <1>0, <1>19 DEF Stop, Base
  <2>2. KeysAreTrue'
    BY <1>0, <1>19, <2>1 DEF Stop
  <2>3. RelianceIsSound'
    BY <1>0, <1>19, <2>1 DEF Stop
  <2> QED
    BY <2>2, <2>3
<1>20. ASSUME NEW p \in Procs, Stopped(p)
      PROVE  Sound'
  <2>1. /\ base'.run = base.run
        /\ base'.pid = base.pid
        /\ base'.steps = base.steps
        /\ base'.old = base.old
        /\ base'.status = base.status \/ base'.status = "FINISHED"
    BY <1>0, <1>20 DEF Stopped, Base
  <2>2. KeysAreTrue'
    BY <1>0, <1>20, <2>1 DEF Stopped
  <2>3. RelianceIsSound'
    BY <1>0, <1>20, <2>1 DEF Stopped
  <2> QED
    BY <2>2, <2>3
<1>21. ASSUME NEW p \in Procs, Copy(p)
      PROVE  Sound'
  BY <1>0, <1>21 DEF Copy
<1>22. ASSUME NEW p \in Procs, Exit(p)
      PROVE  Sound'
  BY <1>0, <1>22 DEF Exit
<1>23. ASSUME NEW p \in Procs, Crash(p)
      PROVE  Sound'
  <2>1. /\ \/ base' = base
           \/ base' = Absent
           \/ /\ base'.run \in {"RUNNING", "STOPPED"}
              /\ base'.status = base.status /\ base'.pid = base.pid
              /\ base'.steps = base.steps /\ base'.old = base.old
    BY <1>0, <1>23 DEF Crash, Abandoned, Alive, Base
  <2>2. KeysAreTrue'
    <3>1. CASE pc[p] # "creating"
      BY <1>0, <1>23, <3>1 DEF Crash
    <3>2. CASE pc[p] = "creating" /\ base'.run # "CREATING"
      <4>1. \A q \in Procs : Building(q) => q = p
        BY <1>0, <3>2
      <4>2. \A q \in Procs : ~Building(q)'
        BY <1>0, <1>23, <2>1, <4>1 DEF Crash
      <4>3. base.status = "STARTING"
        BY <1>0, <3>2
      <4>4. base.old = FALSE
        BY <1>0, <4>3 DEF Base
      <4> QED
        BY <2>1, <3>2, <4>2, <4>3, <4>4
    <3>3. pc[p] = "creating" => base'.run # "CREATING"
      BY <1>0, <1>23 DEF Crash, Abandoned, Base
    <3> QED
      BY <3>1, <3>2, <3>3
  <2>3. RelianceIsSound'
    BY <1>0, <1>23, <2>1 DEF Crash, Abandoned, Alive
  <2> QED
    BY <2>2, <2>3
<1>24. CASE Reboot
  BY <1>0, <1>24 DEF Reboot, Alive
<1>25. CASE Expire
  BY <1>0, <1>25 DEF Expire, Alive
<1>26. CASE UNCHANGED vars
  BY <1>26 DEF vars
<1> QED
  BY <1>1, <1>2, <1>3, <1>4, <1>5, <1>6, <1>7, <1>8, <1>9, <1>10, <1>11, <1>12, <1>13, <1>14, <1>15, <1>16, <1>17, <1>18, <1>19, <1>20, <1>21, <1>22, <1>23, <1>24, <1>25, <1>26 DEF Next, Program
-----------------------------------------------------------------------------
(* The theorems *)

LEMMA Invariance == Spec => []IInv
<1>1. Init => IInv
  BY BasicInit, SoundInit DEF IInv
<1>2. IInv /\ [Next]_vars => IInv'
  BY BasicNext, SoundNext, DisturbedStays DEF IInv
<1> QED
  BY <1>1, <1>2, PTL DEF Spec

\* Every variable keeps its type, and LXC.launch() its number of attempts.
THEOREM TypeCorrect == Spec => []TypeOK
<1>1. IInv => TypeOK
  BY DEF IInv, Basic
<1> QED
  BY <1>1, Invariance, PTL

\* Until a base is deleted under a process that relies on it, the status
\* FINISHED is only found on a base whose setup has run to its end.
THEOREM FinishedMeansComplete == Spec => []FinishedIsComplete
<1>1. IInv => FinishedIsComplete
  BY DEF IInv, Sound, KeysAreTrue, FinishedIsComplete
<1> QED
  BY <1>1, Invariance, PTL

\* Until then, one process at most builds the base, and the pid key names it.
THEOREM SingleBuilder == Spec => []OneBuilder
<1>1. IInv => OneBuilder
  BY DEF IInv, Sound, KeysAreTrue, OneBuilder
<1> QED
  BY <1>1, Invariance, PTL

\* Until then, every instance is a copy of a base whose setup is complete.
THEOREM OnlyCompleteCopies == Spec => []CopiesAreComplete
<1>1. IInv => CopiesAreComplete
  BY DEF IInv, Sound, RelianceIsSound, CopiesAreComplete
<1> QED
  BY <1>1, Invariance, PTL
-----------------------------------------------------------------------------
(* The end of launch() *)

\* What LaunchAdvances says of one process.
Nearer(p) ==
  /\ CallsLeft(p)' <= CallsLeft(p)
  /\ CallsLeft(p)' = CallsLeft(p) =>
       \/ pc'[p] \in {pc[p], "dead"}
       \/ {pc[p], pc'[p]} \subseteq {"wait", "wait_status"}

\* The number of calls after each place in the code.
LEMMA Places ==
  ASSUME NEW caller
  PROVE  /\ CallsAfter("exists", caller) = 17
         /\ CallsAfter("valid", caller) = 16
         /\ CallsAfter("state", caller) = 15
         /\ CallsAfter("status", caller) = 14
         /\ CallsAfter("pid", caller) = 13
         /\ CallsAfter("wait", caller) = IF caller = "valid" THEN 12 ELSE 9
         /\ CallsAfter("wait_status", caller) = IF caller = "valid" THEN 12 ELSE 9
         /\ CallsAfter("delete", caller) = 11
         /\ CallsAfter("lxc_launch", caller) = 10
         /\ CallsAfter("creating", caller) = 8
         /\ CallsAfter("cleanup", caller) = 8
         /\ CallsAfter("get_status", caller) = 7
         /\ CallsAfter("prepare", caller) = 6
         /\ CallsAfter("setup", caller) = 5
         /\ CallsAfter("finish", caller) = 4
         /\ CallsAfter("stop", caller) = 3
         /\ CallsAfter("stopped", caller) = 2
         /\ CallsAfter("copy", caller) = 1
         /\ CallsAfter("done", caller) = 0
         /\ CallsAfter("failed", caller) = 0
         /\ CallsAfter("dead", caller) = 0
  BY DEF CallsAfter

LEMMA PlacesType ==
  ASSUME NEW at \in PCs, NEW caller
  PROVE  CallsAfter(at, caller) \in 0..17
  BY Places DEF PCs

\* The number of calls left is a number, so that it cannot fall for ever.
LEMMA CallsLeftType ==
  ASSUME TypeOK, NEW p \in Procs
  PROVE  CallsLeft(p) \in 0..17 + SetupSteps + 3 * MaxRetries
<1>1. CallsAfter(pc[p], via[p]) \in 0..17
  BY PlacesType DEF TypeOK
<1>2. step[p] \in 0..SetupSteps /\ retry[p] \in 0..MaxRetries - 1
  BY DEF TypeOK
<1> QED
  BY <1>1, <1>2, StepsAssumption, RetriesAssumption DEF CallsLeft

LEMMA CallsLeftTypeNext ==
  ASSUME TypeOK', NEW p \in Procs
  PROVE  CallsLeft(p)' \in 0..17 + SetupSteps + 3 * MaxRetries
<1>1. CallsAfter(pc'[p], via'[p]) \in 0..17
  BY PlacesType DEF TypeOK
<1>2. step'[p] \in 0..SetupSteps /\ retry'[p] \in 0..MaxRetries - 1
  BY DEF TypeOK
<1> QED
  BY <1>1, <1>2, StepsAssumption, RetriesAssumption DEF CallsLeft

\* A process in which nothing changes is as near to the end as before.
LEMMA StillNear ==
  ASSUME TypeOK, NEW p \in Procs,
         pc'[p] = pc[p], via'[p] = via[p],
         retry'[p] = retry[p], step'[p] = step[p]
  PROVE  Nearer(p)
<1>1. CallsLeft(p)' = CallsLeft(p)
  BY DEF CallsLeft
<1>2. CallsLeft(p) \in Nat
  BY CallsLeftType, StepsAssumption, RetriesAssumption
<1> QED
  BY <1>1, <1>2 DEF Nearer

\* A step to a place nearer to the end, in the same attempt; or to one that is
\* not farther, if it is the end of the process or within the waiting loop.
LEMMA NearerPlace ==
  ASSUME TypeOK, TypeOK', NEW p \in Procs,
         retry'[p] = retry[p], step'[p] = step[p],
         \/ CallsAfter(pc'[p], via'[p]) < CallsAfter(pc[p], via[p])
         \/ /\ CallsAfter(pc'[p], via'[p]) <= CallsAfter(pc[p], via[p])
            /\ \/ pc'[p] = "dead"
               \/ {pc[p], pc'[p]} \subseteq {"wait", "wait_status"}
  PROVE  Nearer(p)
<1> DEFINE rest == (SetupSteps - step[p]) + 3 * (MaxRetries - retry[p])
           before == CallsAfter(pc[p], via[p])
           after == CallsAfter(pc'[p], via'[p])
<1>1. step[p] \in 0..SetupSteps /\ retry[p] \in 0..MaxRetries - 1
  BY DEF TypeOK
<1>2. rest \in Nat
  BY <1>1, StepsAssumption, RetriesAssumption
<1>3. before \in 0..17 /\ after \in 0..17
  BY PlacesType DEF TypeOK
<1>4. CallsLeft(p) = before + rest /\ CallsLeft(p)' = after + rest
  BY <1>1, <1>3, StepsAssumption, RetriesAssumption DEF CallsLeft
<1>5. \/ after < before
      \/ /\ after <= before
         /\ \/ pc'[p] = "dead"
            \/ {pc[p], pc'[p]} \subseteq {"wait", "wait_status"}
  OBVIOUS
<1> HIDE DEF rest, before, after
<1> QED
  BY <1>2, <1>3, <1>4, <1>5 DEF Nearer

LEMMA NearerNext ==
  ASSUME Basic, Basic', [Next]_vars, NEW p \in Procs
  PROVE  Nearer(p)
<1> USE DEF Basic, TypeOK, PCs, Goto, Observe, ReadFails, Fail, DeleteBase,
        AfterWait, local, history
<1>1. ASSUME NEW q \in Procs, CheckExists(q)
      PROVE  Nearer(p)
  <2>1. CASE p # q
    BY <1>1, <2>1, StillNear DEF CheckExists
  <2>2. CASE p = q
    BY <1>1, <2>2, NearerPlace, Places DEF CheckExists
  <2> QED
    BY <2>1, <2>2
<1>2. ASSUME NEW q \in Procs, CheckAge(q)
      PROVE  Nearer(p)
  <2>1. CASE p # q
    BY <1>2, <2>1, StillNear DEF CheckAge
  <2>2. CASE p = q
    BY <1>2, <2>2, NearerPlace, Places DEF CheckAge
  <2> QED
    BY <2>1, <2>2
<1>3. ASSUME NEW q \in Procs, ReadState(q)
      PROVE  Nearer(p)
  <2>1. CASE p # q
    BY <1>3, <2>1, StillNear DEF ReadState
  <2>2. CASE p = q
    BY <1>3, <2>2, NearerPlace, Places DEF ReadState
  <2> QED
    BY <2>1, <2>2
<1>4. ASSUME NEW q \in Procs, ReadStatus(q)
      PROVE  Nearer(p)
  <2>1. CASE p # q
    BY <1>4, <2>1, StillNear DEF ReadStatus
  <2>2. CASE p = q
    BY <1>4, <2>2, NearerPlace, Places DEF ReadStatus
  <2> QED
    BY <2>1, <2>2
<1>5. ASSUME NEW q \in Procs, ReadPid(q)
      PROVE  Nearer(p)
  <2>1. CASE p # q
    BY <1>5, <2>1, StillNear DEF ReadPid
  <2>2. CASE p = q
    BY <1>5, <2>2, NearerPlace, Places DEF ReadPid
  <2> QED
    BY <2>1, <2>2
<1>6. ASSUME NEW q \in Procs, DeleteInvalid(q)
      PROVE  Nearer(p)
  <2>1. CASE p # q
    BY <1>6, <2>1, StillNear DEF DeleteInvalid
  <2>2. CASE p = q
    BY <1>6, <2>2, NearerPlace, Places DEF DeleteInvalid
  <2> QED
    BY <2>1, <2>2
<1>7. ASSUME NEW q \in Procs, PollState(q)
      PROVE  Nearer(p)
  <2>1. CASE p # q
    BY <1>7, <2>1, StillNear DEF PollState
  <2>2. CASE p = q
    BY <1>7, <2>2, NearerPlace, Places DEF PollState
  <2> QED
    BY <2>1, <2>2
<1>8. ASSUME NEW q \in Procs, PollGivesUp(q)
      PROVE  Nearer(p)
  <2>1. CASE p # q
    BY <1>8, <2>1, StillNear DEF PollGivesUp
  <2>2. CASE p = q
    BY <1>8, <2>2, NearerPlace, Places DEF PollGivesUp
  <2> QED
    BY <2>1, <2>2
<1>9. ASSUME NEW q \in Procs, PollReady(q)
      PROVE  Nearer(p)
  <2>1. CASE p # q
    BY <1>9, <2>1, StillNear DEF PollReady
  <2>2. CASE p = q
    BY <1>9, <2>2, NearerPlace, Places DEF PollReady
  <2> QED
    BY <2>1, <2>2
<1>10. ASSUME NEW q \in Procs, PollAgain(q)
      PROVE  Nearer(p)
  <2>1. CASE p # q
    BY <1>10, <2>1, StillNear DEF PollAgain
  <2>2. CASE p = q
    BY <1>10, <2>2, NearerPlace, Places DEF PollAgain
  <2> QED
    BY <2>1, <2>2
<1>11. ASSUME NEW q \in Procs, PollTimesOut(q)
      PROVE  Nearer(p)
  <2>1. CASE p # q
    BY <1>11, <2>1, StillNear DEF PollTimesOut
  <2>2. CASE p = q
    BY <1>11, <2>2, NearerPlace, Places DEF PollTimesOut
  <2> QED
    BY <2>1, <2>2
<1>12. ASSUME NEW q \in Procs, LxcLaunch(q)
      PROVE  Nearer(p)
  <2>1. CASE p # q
    BY <1>12, <2>1, StillNear DEF LxcLaunch
  <2>2. CASE p = q
    BY <1>12, <2>2, NearerPlace, Places DEF LxcLaunch
  <2> QED
    BY <2>1, <2>2
<1>13. ASSUME NEW q \in Procs, Launched(q)
      PROVE  Nearer(p)
  <2>1. CASE p # q
    BY <1>13, <2>1, StillNear DEF Launched
  <2>2. CASE p = q
    BY <1>13, <2>2, NearerPlace, Places DEF Launched
  <2> QED
    BY <2>1, <2>2
<1>14. ASSUME NEW q \in Procs, DeleteBroken(q)
      PROVE  Nearer(p)
  <2>1. CASE p # q
    BY <1>14, <2>1, StillNear DEF DeleteBroken
  <2>2. CASE p = q
    <3>1. /\ pc[p] = "cleanup" /\ pc'[p] = "lxc_launch"
          /\ via'[p] = via[p] /\ step'[p] = step[p]
          /\ retry'[p] = retry[p] + 1
      BY <1>14, <2>2 DEF DeleteBroken
    <3>2. CallsLeft(p)' < CallsLeft(p)
      <4>1. CallsAfter(pc[p], via[p]) = 8 /\ CallsAfter(pc'[p], via'[p]) = 10
        BY <3>1, Places
      <4>2. step[p] \in 0..SetupSteps /\ retry[p] \in 0..MaxRetries - 1
        OBVIOUS
      <4> QED
        BY <3>1, <4>1, <4>2, StepsAssumption, RetriesAssumption DEF CallsLeft
    <3>3. CallsLeft(p) \in Nat /\ CallsLeft(p)' \in Nat
      BY CallsLeftType, CallsLeftTypeNext, StepsAssumption, RetriesAssumption
    <3> QED
      BY <3>2, <3>3 DEF Nearer
  <2> QED
    BY <2>1, <2>2
<1>15. ASSUME NEW q \in Procs, GetStatus(q)
      PROVE  Nearer(p)
  <2>1. CASE p # q
    BY <1>15, <2>1, StillNear DEF GetStatus
  <2>2. CASE p = q
    BY <1>15, <2>2, NearerPlace, Places DEF GetStatus
  <2> QED
    BY <2>1, <2>2
<1>16. ASSUME NEW q \in Procs, Prepare(q)
      PROVE  Nearer(p)
  <2>1. CASE p # q
    BY <1>16, <2>1, StillNear DEF Prepare
  <2>2. CASE p = q
    BY <1>16, <2>2, NearerPlace, Places DEF Prepare
  <2> QED
    BY <2>1, <2>2
<1>17. ASSUME NEW q \in Procs, Setup(q)
      PROVE  Nearer(p)
  <2>1. CASE p # q
    BY <1>17, <2>1, StillNear DEF Setup
  <2>2. CASE p = q /\ UNCHANGED step
    BY <1>17, <2>2, NearerPlace, Places DEF Setup
  <2>3. CASE p = q /\ step' = [step EXCEPT ![p] = @ + 1]
    <3>1. /\ pc[p] = "setup" /\ pc'[p] \in {"setup", "finish"}
          /\ via'[p] = via[p] /\ retry'[p] = retry[p]
          /\ step'[p] = step[p] + 1
      BY <1>17, <2>3 DEF Setup
    <3>2. CallsLeft(p)' < CallsLeft(p)
      <4>1. /\ CallsAfter(pc[p], via[p]) = 5
            /\ CallsAfter(pc'[p], via'[p]) \in {4, 5}
        BY <3>1, Places
      <4>2. step[p] \in 0..SetupSteps /\ retry[p] \in 0..MaxRetries - 1
        OBVIOUS
      <4> QED
        BY <3>1, <4>1, <4>2, StepsAssumption, RetriesAssumption DEF CallsLeft
    <3>3. CallsLeft(p) \in Nat /\ CallsLeft(p)' \in Nat
      BY CallsLeftType, CallsLeftTypeNext, StepsAssumption, RetriesAssumption
    <3> QED
      BY <3>2, <3>3 DEF Nearer
  <2> QED
    BY <1>17, <2>1, <2>2, <2>3 DEF Setup
<1>18. ASSUME NEW q \in Procs, Finish(q)
      PROVE  Nearer(p)
  <2>1. CASE p # q
    BY <1>18, <2>1, StillNear DEF Finish
  <2>2. CASE p = q
    BY <1>18, <2>2, NearerPlace, Places DEF Finish
  <2> QED
    BY <2>1, <2>2
<1>19. ASSUME NEW q \in Procs, Stop(q)
      PROVE  Nearer(p)
  <2>1. CASE p # q
    BY <1>19, <2>1, StillNear DEF Stop
  <2>2. CASE p = q
    BY <1>19, <2>2, NearerPlace, Places DEF Stop
  <2> QED
    BY <2>1, <2>2
<1>20. ASSUME NEW q \in Procs, Stopped(q)
      PROVE  Nearer(p)
  <2>1. CASE p # q
    BY <1>20, <2>1, StillNear DEF Stopped
  <2>2. CASE p = q
    BY <1>20, <2>2, NearerPlace, Places DEF Stopped
  <2> QED
    BY <2>1, <2>2
<1>21. ASSUME NEW q \in Procs, Copy(q)
      PROVE  Nearer(p)
  <2>1. CASE p # q
    BY <1>21, <2>1, StillNear DEF Copy
  <2>2. CASE p = q
    BY <1>21, <2>2, NearerPlace, Places DEF Copy
  <2> QED
    BY <2>1, <2>2
<1>22. ASSUME NEW q \in Procs, Exit(q)
      PROVE  Nearer(p)
  <2>1. CASE p # q
    BY <1>22, <2>1, StillNear DEF Exit
  <2>2. CASE p = q
    BY <1>22, <2>2, NearerPlace, Places DEF Exit
  <2> QED
    BY <2>1, <2>2
<1>23. ASSUME NEW q \in Procs, Crash(q)
      PROVE  Nearer(p)
  <2>1. CASE p # q
    BY <1>23, <2>1, StillNear DEF Crash
  <2>2. CASE p = q
    BY <1>23, <2>2, NearerPlace, Places DEF Crash
  <2> QED
    BY <2>1, <2>2
<1>24. CASE Reboot
  BY <1>24, StillNear, NearerPlace, Places, PlacesType DEF Reboot
<1>25. CASE Expire
  BY <1>25, StillNear DEF Expire
<1>26. CASE UNCHANGED vars
  BY <1>26, StillNear DEF vars
<1> QED
  BY <1>1, <1>2, <1>3, <1>4, <1>5, <1>6, <1>7, <1>8, <1>9, <1>10, <1>11, <1>12, <1>13, <1>14, <1>15, <1>16, <1>17, <1>18, <1>19, <1>20, <1>21, <1>22, <1>23, <1>24, <1>25, <1>26 DEF Next, Program

\* However many processes there are and whatever they do to the base, each one
\* comes nearer to the end of launch() with every step but a further reading
\* of the waiting loop.
THEOREM LaunchNearsItsEnd == Spec => LaunchAdvances
<1>1. IInv /\ IInv' /\ [Next]_vars => \A p \in Procs : Nearer(p)
  BY NearerNext DEF IInv
<1>2. IInv /\ IInv' /\ [Next]_vars =>
        [\A p \in Procs :
           /\ CallsLeft(p)' <= CallsLeft(p)
           /\ CallsLeft(p)' = CallsLeft(p) =>
                \/ pc'[p] \in {pc[p], "dead"}
                \/ {pc[p], pc'[p]} \subseteq {"wait", "wait_status"}]_vars
  BY <1>1 DEF Nearer
<1> QED
  BY <1>2, Invariance, PTL DEF Spec, LaunchAdvances

\* A timer thread runs in a process that sets up the base, or that has failed
\* to and has not ended.
TimersAreOfSetups ==
  \A p \in ticking : pc[p] \in {"setup", "finish", "failed"}

LEMMA TimersNext ==
  Basic /\ TimersAreOfSetups /\ [Next]_vars => TimersAreOfSetups'
<1> SUFFICES ASSUME Basic, TimersAreOfSetups, [Next]_vars
             PROVE  TimersAreOfSetups'
  OBVIOUS
<1> USE DEF Basic, TypeOK, TimersAreOfSetups, Goto, Observe, ReadFails, Fail,
        AfterWait, local, history
<1>1. ASSUME NEW q \in Procs, CheckExists(q)
      PROVE  TimersAreOfSetups'
  BY <1>1 DEF CheckExists
<1>2. ASSUME NEW q \in Procs, CheckAge(q)
      PROVE  TimersAreOfSetups'
  BY <1>2 DEF CheckAge
<1>3. ASSUME NEW q \in Procs, ReadState(q)
      PROVE  TimersAreOfSetups'
  BY <1>3 DEF ReadState
<1>4. ASSUME NEW q \in Procs, ReadStatus(q)
      PROVE  TimersAreOfSetups'
  BY <1>4 DEF ReadStatus
<1>5. ASSUME NEW q \in Procs, ReadPid(q)
      PROVE  TimersAreOfSetups'
  BY <1>5 DEF ReadPid
<1>6. ASSUME NEW q \in Procs, DeleteInvalid(q)
      PROVE  TimersAreOfSetups'
  BY <1>6 DEF DeleteInvalid
<1>7. ASSUME NEW q \in Procs, PollState(q)
      PROVE  TimersAreOfSetups'
  BY <1>7 DEF PollState
<1>8. ASSUME NEW q \in Procs, PollGivesUp(q)
      PROVE  TimersAreOfSetups'
  BY <1>8 DEF PollGivesUp
<1>9. ASSUME NEW q \in Procs, PollReady(q)
      PROVE  TimersAreOfSetups'
  BY <1>9 DEF PollReady
<1>10. ASSUME NEW q \in Procs, PollAgain(q)
      PROVE  TimersAreOfSetups'
  BY <1>10 DEF PollAgain
<1>11. ASSUME NEW q \in Procs, PollTimesOut(q)
      PROVE  TimersAreOfSetups'
  BY <1>11 DEF PollTimesOut
<1>12. ASSUME NEW q \in Procs, LxcLaunch(q)
      PROVE  TimersAreOfSetups'
  BY <1>12 DEF LxcLaunch
<1>13. ASSUME NEW q \in Procs, Launched(q)
      PROVE  TimersAreOfSetups'
  BY <1>13 DEF Launched
<1>14. ASSUME NEW q \in Procs, DeleteBroken(q)
      PROVE  TimersAreOfSetups'
  BY <1>14 DEF DeleteBroken
<1>15. ASSUME NEW q \in Procs, GetStatus(q)
      PROVE  TimersAreOfSetups'
  BY <1>15 DEF GetStatus
<1>16. ASSUME NEW q \in Procs, Prepare(q)
      PROVE  TimersAreOfSetups'
  BY <1>16 DEF Prepare
<1>17. ASSUME NEW q \in Procs, Setup(q)
      PROVE  TimersAreOfSetups'
  BY <1>17 DEF Setup
<1>18. ASSUME NEW q \in Procs, Finish(q)
      PROVE  TimersAreOfSetups'
  BY <1>18 DEF Finish
<1>19. ASSUME NEW q \in Procs, Stop(q)
      PROVE  TimersAreOfSetups'
  BY <1>19 DEF Stop
<1>20. ASSUME NEW q \in Procs, Stopped(q)
      PROVE  TimersAreOfSetups'
  BY <1>20 DEF Stopped
<1>21. ASSUME NEW q \in Procs, Copy(q)
      PROVE  TimersAreOfSetups'
  BY <1>21 DEF Copy
<1>22. ASSUME NEW q \in Procs, Exit(q)
      PROVE  TimersAreOfSetups'
  BY <1>22 DEF Exit
<1>23. ASSUME NEW q \in Procs, Crash(q)
      PROVE  TimersAreOfSetups'
  BY <1>23 DEF Crash
<1>24. CASE Reboot
  BY <1>24 DEF Reboot
<1>25. CASE Expire
  BY <1>25 DEF Expire
<1>26. CASE UNCHANGED vars
  BY <1>26 DEF vars
<1> QED
  BY <1>1, <1>2, <1>3, <1>4, <1>5, <1>6, <1>7, <1>8, <1>9, <1>10, <1>11, <1>12, <1>13, <1>14, <1>15, <1>16, <1>17, <1>18, <1>19, <1>20, <1>21, <1>22, <1>23, <1>24, <1>25, <1>26 DEF Next, Program

\* A waiter that gets its answers and cannot leave the loop waits for a process
\* at work, or for the timer of a failed launch() whose process goes on: the one
\* way to wait in vain, which SpecExiting rules out.
THEOREM WaitsHaveReason == Spec => []WaitHasReason
<1>1. Init => TimersAreOfSetups
  BY DEF Init, TimersAreOfSetups
<1>2. TypeOK /\ TimersAreOfSetups => WaitHasReason
  BY DEF TypeOK, TimersAreOfSetups, WaitHasReason, TimerSilent, Building
<1>3. IInv => Basic /\ TypeOK
  BY DEF IInv, Basic
<1> QED
  BY <1>1, <1>2, <1>3, TimersNext, Invariance, PTL DEF Spec
-----------------------------------------------------------------------------
(* Verdicts *)

\* A builder of the base is its creator, from the creation on.
LEMMA NoNewBuilder ==
  ASSUME Basic, Basic', Sound, [Next]_vars, ~disturbed', Exists
  PROVE  \A q \in Procs : Building(q)' => Building(q)
<1> USE DEF Sound, KeysAreTrue, RelianceIsSound, Building, Exists,
        Goto, Observe, ReadFails, Fail, DeleteBase, AfterWait, Free, InfoState,
        local, history, RelyingPCs, Absent
<1>0. /\ base \in Base
      /\ pc \in [Procs -> PCs]
      /\ base.status = "NONE" <=> ~Exists
      /\ \A p \in Procs :
           pc[p] = "creating" => base.run = "CREATING" /\ base.pid = p
  BY DEF Basic, TypeOK
<1> SUFFICES ASSUME NEW q \in Procs, Building(q)'
             PROVE  Building(q)
  OBVIOUS
<1>1. ASSUME NEW p \in Procs, CheckExists(p)
      PROVE  Building(q)
  BY <1>0, <1>1 DEF CheckExists
<1>2. ASSUME NEW p \in Procs, CheckAge(p)
      PROVE  Building(q)
  BY <1>0, <1>2 DEF CheckAge
<1>3. ASSUME NEW p \in Procs, ReadState(p)
      PROVE  Building(q)
  BY <1>0, <1>3 DEF ReadState
<1>4. ASSUME NEW p \in Procs, ReadStatus(p)
      PROVE  Building(q)
  BY <1>0, <1>4 DEF ReadStatus
<1>5. ASSUME NEW p \in Procs, ReadPid(p)
      PROVE  Building(q)
  BY <1>0, <1>5 DEF ReadPid
<1>6. ASSUME NEW p \in Procs, DeleteInvalid(p)
      PROVE  Building(q)
  BY <1>0, <1>6 DEF DeleteInvalid
<1>7. ASSUME NEW p \in Procs, PollState(p)
      PROVE  Building(q)
  BY <1>0, <1>7 DEF PollState
<1>8. ASSUME NEW p \in Procs, PollGivesUp(p)
      PROVE  Building(q)
  BY <1>0, <1>8 DEF PollGivesUp
<1>9. ASSUME NEW p \in Procs, PollReady(p)
      PROVE  Building(q)
  BY <1>0, <1>9 DEF PollReady
<1>10. ASSUME NEW p \in Procs, PollAgain(p)
      PROVE  Building(q)
  BY <1>0, <1>10 DEF PollAgain
<1>11. ASSUME NEW p \in Procs, PollTimesOut(p)
      PROVE  Building(q)
  BY <1>0, <1>11 DEF PollTimesOut
<1>12. ASSUME NEW p \in Procs, LxcLaunch(p)
      PROVE  Building(q)
  BY <1>0, <1>12 DEF LxcLaunch
<1>13. ASSUME NEW p \in Procs, Launched(p)
      PROVE  Building(q)
  BY <1>0, <1>13 DEF Launched
<1>14. ASSUME NEW p \in Procs, DeleteBroken(p)
      PROVE  Building(q)
  BY <1>0, <1>14 DEF DeleteBroken
<1>15. ASSUME NEW p \in Procs, GetStatus(p)
      PROVE  Building(q)
  BY <1>0, <1>15 DEF GetStatus
<1>16. ASSUME NEW p \in Procs, Prepare(p)
      PROVE  Building(q)
  BY <1>0, <1>16 DEF Prepare
<1>17. ASSUME NEW p \in Procs, Setup(p)
      PROVE  Building(q)
  BY <1>0, <1>17 DEF Setup
<1>18. ASSUME NEW p \in Procs, Finish(p)
      PROVE  Building(q)
  BY <1>0, <1>18 DEF Finish
<1>19. ASSUME NEW p \in Procs, Stop(p)
      PROVE  Building(q)
  <2>1. base'.status = base.status
    BY <1>0, <1>19 DEF Stop, Base
  <2> QED
    BY <1>0, <1>19, <2>1 DEF Stop
<1>20. ASSUME NEW p \in Procs, Stopped(p)
      PROVE  Building(q)
  <2>1. base'.status = base.status \/ base'.status = "FINISHED"
    BY <1>0, <1>20 DEF Stopped, Base
  <2> QED
    BY <1>0, <1>20, <2>1 DEF Stopped
<1>21. ASSUME NEW p \in Procs, Copy(p)
      PROVE  Building(q)
  BY <1>0, <1>21 DEF Copy
<1>22. ASSUME NEW p \in Procs, Exit(p)
      PROVE  Building(q)
  BY <1>0, <1>22 DEF Exit
<1>23. ASSUME NEW p \in Procs, Crash(p)
      PROVE  Building(q)
  BY <1>0, <1>23 DEF Crash, Abandoned, Alive
<1>24. CASE Reboot
  BY <1>0, <1>24 DEF Reboot, Alive
<1>25. CASE Expire
  BY <1>0, <1>25 DEF Expire, Alive
<1>26. CASE UNCHANGED vars
  BY <1>26 DEF vars
<1> QED
  BY <1>1, <1>2, <1>3, <1>4, <1>5, <1>6, <1>7, <1>8, <1>9, <1>10, <1>11, <1>12, <1>13, <1>14, <1>15, <1>16, <1>17, <1>18, <1>19, <1>20, <1>21, <1>22, <1>23, <1>24, <1>25, <1>26 DEF Next, Program

\* A verdict that is reached on what the base is now is right: nobody builds
\* an expired base, the base of a dead process, or one whose timer is silent.
LEMMA NewVerdictIsRight ==
  ASSUME "slow" \notin Faults,
         Basic, Basic', Sound, [Next]_vars, ~disturbed', Exists, Exists',
         NEW r \in current', pc'[r] \in {"delete", "cleanup"},
         ~(r \in current /\ pc[r] \in {"delete", "cleanup"})
  PROVE  \A q \in Procs : ~Building(q)
<1> USE DEF Exists, Goto, Observe, ReadFails, Fail, DeleteBase, AfterWait,
        local, history, Absent
<1>0. /\ pc \in [Procs -> PCs] /\ r \in Procs
      /\ base.old => \A q \in Procs : ~Building(q)
      /\ \A q \in Procs : Building(q) => base.pid = q /\ Alive(q)
  BY DEF Basic, TypeOK, Sound, KeysAreTrue, Building, Alive
<1>1. ASSUME NEW p \in Procs, CheckExists(p)
      PROVE  \A q \in Procs : ~Building(q)
  BY <1>0, <1>1 DEF CheckExists
<1>2. ASSUME NEW p \in Procs, CheckAge(p)
      PROVE  \A q \in Procs : ~Building(q)
  BY <1>0, <1>2 DEF CheckAge
<1>3. ASSUME NEW p \in Procs, ReadState(p)
      PROVE  \A q \in Procs : ~Building(q)
  BY <1>0, <1>3 DEF ReadState
<1>4. ASSUME NEW p \in Procs, ReadStatus(p)
      PROVE  \A q \in Procs : ~Building(q)
  BY <1>0, <1>4 DEF ReadStatus
<1>5. ASSUME NEW p \in Procs, ReadPid(p)
      PROVE  \A q \in Procs : ~Building(q)
  BY <1>0, <1>5 DEF ReadPid
<1>6. ASSUME NEW p \in Procs, DeleteInvalid(p)
      PROVE  \A q \in Procs : ~Building(q)
  BY <1>0, <1>6 DEF DeleteInvalid
<1>7. ASSUME NEW p \in Procs, PollState(p)
      PROVE  \A q \in Procs : ~Building(q)
  BY <1>0, <1>7 DEF PollState
<1>8. ASSUME NEW p \in Procs, PollGivesUp(p)
      PROVE  \A q \in Procs : ~Building(q)
  BY <1>0, <1>8 DEF PollGivesUp
<1>9. ASSUME NEW p \in Procs, PollReady(p)
      PROVE  \A q \in Procs : ~Building(q)
  BY <1>0, <1>9 DEF PollReady
<1>10. ASSUME NEW p \in Procs, PollAgain(p)
      PROVE  \A q \in Procs : ~Building(q)
  BY <1>0, <1>10 DEF PollAgain
<1>11. ASSUME NEW p \in Procs, PollTimesOut(p)
      PROVE  \A q \in Procs : ~Building(q)
  BY <1>0, <1>11 DEF PollTimesOut, TimerSilent
<1>12. ASSUME NEW p \in Procs, LxcLaunch(p)
      PROVE  \A q \in Procs : ~Building(q)
  BY <1>0, <1>12 DEF LxcLaunch
<1>13. ASSUME NEW p \in Procs, Launched(p)
      PROVE  \A q \in Procs : ~Building(q)
  BY <1>0, <1>13 DEF Launched
<1>14. ASSUME NEW p \in Procs, DeleteBroken(p)
      PROVE  \A q \in Procs : ~Building(q)
  BY <1>0, <1>14 DEF DeleteBroken
<1>15. ASSUME NEW p \in Procs, GetStatus(p)
      PROVE  \A q \in Procs : ~Building(q)
  BY <1>0, <1>15 DEF GetStatus
<1>16. ASSUME NEW p \in Procs, Prepare(p)
      PROVE  \A q \in Procs : ~Building(q)
  BY <1>0, <1>16 DEF Prepare
<1>17. ASSUME NEW p \in Procs, Setup(p)
      PROVE  \A q \in Procs : ~Building(q)
  BY <1>0, <1>17 DEF Setup
<1>18. ASSUME NEW p \in Procs, Finish(p)
      PROVE  \A q \in Procs : ~Building(q)
  BY <1>0, <1>18 DEF Finish
<1>19. ASSUME NEW p \in Procs, Stop(p)
      PROVE  \A q \in Procs : ~Building(q)
  BY <1>0, <1>19 DEF Stop
<1>20. ASSUME NEW p \in Procs, Stopped(p)
      PROVE  \A q \in Procs : ~Building(q)
  BY <1>0, <1>20 DEF Stopped
<1>21. ASSUME NEW p \in Procs, Copy(p)
      PROVE  \A q \in Procs : ~Building(q)
  BY <1>0, <1>21 DEF Copy
<1>22. ASSUME NEW p \in Procs, Exit(p)
      PROVE  \A q \in Procs : ~Building(q)
  BY <1>0, <1>22 DEF Exit
<1>23. ASSUME NEW p \in Procs, Crash(p)
      PROVE  \A q \in Procs : ~Building(q)
  BY <1>0, <1>23 DEF Crash, Abandoned, Alive
<1>24. CASE Reboot
  BY <1>0, <1>24 DEF Reboot, Alive
<1>25. CASE Expire
  BY <1>0, <1>25 DEF Expire, Alive
<1>26. CASE UNCHANGED vars
  BY <1>26 DEF vars
<1> QED
  BY <1>1, <1>2, <1>3, <1>4, <1>5, <1>6, <1>7, <1>8, <1>9, <1>10, <1>11, <1>12, <1>13, <1>14, <1>15, <1>16, <1>17, <1>18, <1>19, <1>20, <1>21, <1>22, <1>23, <1>24, <1>25, <1>26 DEF Next, Program
LEMMA VerdictsNext ==
  ASSUME "slow" \notin Faults, IInv, IInv', VerdictsHold, [Next]_vars
  PROVE  VerdictsHold'
<1> SUFFICES ASSUME ~disturbed', Exists',
                    NEW r \in current', pc'[r] \in {"delete", "cleanup"},
                    NEW q \in Procs, Building(q)'
             PROVE  FALSE
  BY DEF VerdictsHold
<1>1. Basic /\ Basic' /\ Sound /\ ~disturbed
  BY DisturbedStays DEF IInv
<1>2. CASE Exists
  <2>1. Building(q)
    BY <1>1, <1>2, NoNewBuilder
  <2>2. CASE r \in current /\ pc[r] \in {"delete", "cleanup"}
    BY <1>1, <1>2, <2>1, <2>2 DEF VerdictsHold
  <2>3. CASE ~(r \in current /\ pc[r] \in {"delete", "cleanup"})
    BY <1>1, <1>2, <2>1, <2>3, NewVerdictIsRight
  <2> QED
    BY <2>2, <2>3
<1>3. CASE ~Exists
  <2>1. base' = base \/ base' = Absent \/ current' = {}
    BY <1>1, <1>3 DEF Basic, TypeOK, Next, Program, vars, local, history,
      Exists, Free, CheckExists, CheckAge, ReadState, ReadStatus, ReadPid,
      DeleteInvalid, DeleteBase, PollState, PollGivesUp, PollReady, PollAgain,
      PollTimesOut, LxcLaunch, Launched, DeleteBroken, GetStatus, Prepare,
      Setup, Finish, Stop, Stopped, Copy, Exit, Crash, Reboot, Expire
  <2> QED
    BY <1>3, <2>1 DEF Exists, Absent
<1> QED
  BY <1>2, <1>3

\* When no step outside a timer lasts longer than a waiter's patience, a
\* process that deletes the base on what it has read of this incarnation never
\* deletes it under its builder.
THEOREM FreshVerdictsSpare ==
  ASSUME "slow" \notin Faults
  PROVE  Spec => FreshVerdictSparesBuilder
<1>1. Init => VerdictsHold
  BY DEF Init, VerdictsHold
<1>2. IInv /\ IInv' /\ VerdictsHold /\ [Next]_vars => VerdictsHold'
  BY VerdictsNext
<1>3. VerdictsHold =>
        [\A p \in current :
           /\ ~disturbed
           /\ pc[p] \in {"delete", "cleanup"}
           /\ Free /\ pc'[p] = "lxc_launch"
           => \A q \in Procs : ~Building(q)]_vars
  BY DEF VerdictsHold, Free, Exists
<1> QED
  BY <1>1, <1>2, <1>3, Invariance, PTL DEF Spec, FreshVerdictSparesBuilder
-----------------------------------------------------------------------------
(* The protocol implements the cache *)

LEMMA CacheInit == Init => Cache!Init
  BY StepsAssumption, ProcsAssumption
  DEF Init, Cache!Init, CachePhase, CacheBuilder, Exists, Complete, Absent,
      Ready, Steps

LEMMA CacheStep ==
  ASSUME Basic, Basic', Sound, Sound', [Next]_vars, ~disturbed'
  PROVE  Cache!Next \/ UNCHANGED Cache!vars
<1> USE ProcsAssumption
    DEF Goto, Observe, ReadFails, Fail, AfterWait, Free, InfoState,
        local, history, Absent, CachePhase, CacheBuilder, Exists, AtWork,
        Cache!vars, Complete
<1>0. /\ base \in Base
      /\ pc \in [Procs -> PCs]
      /\ base.status = "NONE" <=> ~Exists
      /\ disturbed = FALSE /\ disturbed' = FALSE
      /\ \A q \in Procs : AtWork(q) => base.pid = q
      /\ \A q \in Procs : AtWork(q)' => base'.pid = q
      /\ \A q \in Procs : AtWork(q) => base.status \in {"STARTING", "PREPARING"}
  BY DisturbedStays
     DEF Basic, TypeOK, Sound, KeysAreTrue, RelianceIsSound, Building
<1>1. ASSUME NEW p \in Procs, CheckExists(p)
      PROVE  Cache!Next \/ UNCHANGED Cache!vars
  BY <1>0, <1>1 DEF CheckExists
<1>2. ASSUME NEW p \in Procs, CheckAge(p)
      PROVE  Cache!Next \/ UNCHANGED Cache!vars
  BY <1>0, <1>2 DEF CheckAge
<1>3. ASSUME NEW p \in Procs, ReadState(p)
      PROVE  Cache!Next \/ UNCHANGED Cache!vars
  BY <1>0, <1>3 DEF ReadState
<1>4. ASSUME NEW p \in Procs, ReadStatus(p)
      PROVE  Cache!Next \/ UNCHANGED Cache!vars
  BY <1>0, <1>4 DEF ReadStatus
<1>5. ASSUME NEW p \in Procs, ReadPid(p)
      PROVE  Cache!Next \/ UNCHANGED Cache!vars
  BY <1>0, <1>5 DEF ReadPid
<1>6. ASSUME NEW p \in Procs, DeleteInvalid(p)
      PROVE  Cache!Next \/ UNCHANGED Cache!vars
  <2>1. CASE ~Free
    BY <1>0, <1>6, <2>1 DEF DeleteInvalid
  <2>2. CASE Free
    <3>1. \A q \in Procs : ~AtWork(q)
      BY <1>0, <1>6, <2>2 DEF DeleteInvalid, DeleteBase, RelyingPCs, Basic
    <3>2. CacheBuilder = NoProc
      BY <3>1
    <3>3. CachePhase' = "none" /\ CacheBuilder' = NoProc /\ copied' = copied
      BY <1>6, <2>2 DEF DeleteInvalid, DeleteBase
    <3> QED
      BY <1>0, <3>2, <3>3 DEF Cache!Next, Cache!Drop
  <2> QED
    BY <2>1, <2>2
<1>7. ASSUME NEW p \in Procs, PollState(p)
      PROVE  Cache!Next \/ UNCHANGED Cache!vars
  BY <1>0, <1>7 DEF PollState
<1>8. ASSUME NEW p \in Procs, PollGivesUp(p)
      PROVE  Cache!Next \/ UNCHANGED Cache!vars
  BY <1>0, <1>8 DEF PollGivesUp
<1>9. ASSUME NEW p \in Procs, PollReady(p)
      PROVE  Cache!Next \/ UNCHANGED Cache!vars
  BY <1>0, <1>9 DEF PollReady
<1>10. ASSUME NEW p \in Procs, PollAgain(p)
      PROVE  Cache!Next \/ UNCHANGED Cache!vars
  BY <1>0, <1>10 DEF PollAgain
<1>11. ASSUME NEW p \in Procs, PollTimesOut(p)
      PROVE  Cache!Next \/ UNCHANGED Cache!vars
  BY <1>0, <1>11 DEF PollTimesOut
<1>12. ASSUME NEW p \in Procs, LxcLaunch(p)
      PROVE  Cache!Next \/ UNCHANGED Cache!vars
  <2>1. CASE UNCHANGED base /\ pc'[p] \in {"wait", "failed"}
    BY <1>0, <1>12, <2>1 DEF LxcLaunch
  <2>2. CASE ~Exists /\ pc' = [pc EXCEPT ![p] = "creating"]
    <3>1. base'.run = "CREATING" /\ base'.status = "STARTING" /\ base'.pid = p
      BY <1>0, <1>12, <2>2 DEF LxcLaunch
    <3>2. CachePhase' = "building" /\ CacheBuilder' = p /\ CachePhase = "none"
      BY <1>0, <2>2, <3>1
    <3>3. copied' = copied
      BY <1>12 DEF LxcLaunch
    <3> QED
      BY <1>0, <3>2, <3>3 DEF Cache!Next, Cache!Begin
  <2>3. pc'[p] \in {"wait", "failed", "creating"}
    BY <1>0, <1>12 DEF LxcLaunch
  <2> QED
    BY <1>0, <1>12, <2>1, <2>2 DEF LxcLaunch
<1>13. ASSUME NEW p \in Procs, Launched(p)
      PROVE  Cache!Next \/ UNCHANGED Cache!vars
  <2>1. /\ base'.status = base.status /\ base'.pid = base.pid
        /\ base'.steps = base.steps /\ base'.run # "ABSENT" /\ Exists
    BY <1>0, <1>13 DEF Launched, Base, Basic
  <2>2. AtWork(p) /\ p = base.pid
    BY <1>0, <1>13 DEF Launched
  <2>3. CASE pc' = [pc EXCEPT ![p] = "get_status"]
    BY <1>0, <1>13, <2>1, <2>2, <2>3 DEF Launched
  <2>4. CASE pc' = [pc EXCEPT ![p] = "failed"]
    <3>1. CachePhase = "building" /\ CacheBuilder = p
      BY <1>0, <2>1, <2>2
    <3>2. CachePhase' = "building" /\ CacheBuilder' = NoProc /\ copied' = copied
      BY <1>0, <1>13, <2>1, <2>2, <2>4 DEF Launched
    <3> QED
      BY <1>0, <3>1, <3>2 DEF Cache!Next, Cache!GiveUp
  <2> QED
    BY <1>13, <2>3, <2>4 DEF Launched
<1>14. ASSUME NEW p \in Procs, DeleteBroken(p)
      PROVE  Cache!Next \/ UNCHANGED Cache!vars
  <2>1. CASE ~Free
    BY <1>0, <1>14, <2>1 DEF DeleteBroken
  <2>2. CASE Free
    <3>1. \A q \in Procs : ~AtWork(q)
      BY <1>0, <1>14, <2>2 DEF DeleteBroken, DeleteBase, RelyingPCs, Basic
    <3>2. CacheBuilder = NoProc
      BY <3>1
    <3>3. CachePhase' = "none" /\ CacheBuilder' = NoProc /\ copied' = copied
      BY <1>14, <2>2 DEF DeleteBroken, DeleteBase
    <3> QED
      BY <1>0, <3>2, <3>3 DEF Cache!Next, Cache!Drop
  <2> QED
    BY <2>1, <2>2
<1>15. ASSUME NEW p \in Procs, GetStatus(p)
      PROVE  Cache!Next \/ UNCHANGED Cache!vars
  <2>1. Exists /\ UNCHANGED <<base, copied>>
    BY <1>0, <1>15 DEF GetStatus, Sound, RelianceIsSound
  <2>2. \A q \in Procs : AtWork(q)' <=> AtWork(q)
    BY <1>0, <1>15, <2>1 DEF GetStatus
  <2> QED
    BY <1>0, <2>1, <2>2
<1>16. ASSUME NEW p \in Procs, Prepare(p)
      PROVE  Cache!Next \/ UNCHANGED Cache!vars
  <2>1. /\ Exists /\ base'.run = base.run /\ base'.pid = base.pid
        /\ base'.status = "PREPARING" /\ base.status = "STARTING"
        /\ pc' = [pc EXCEPT ![p] = "setup"] /\ copied' = copied
    BY <1>0, <1>16 DEF Prepare, Base, Sound, RelianceIsSound
  <2>2. AtWork(p) /\ AtWork(p)' /\ p = base.pid
    BY <1>0, <1>16, <2>1 DEF Prepare
  <2> QED
    BY <1>0, <2>1, <2>2
<1>17. ASSUME NEW p \in Procs, Setup(p)
      PROVE  Cache!Next \/ UNCHANGED Cache!vars
  <2>1. /\ Exists /\ base'.run = base.run /\ base'.pid = base.pid
        /\ base'.status = "PREPARING" /\ base.status = "PREPARING"
        /\ copied' = copied
    BY <1>0, <1>17 DEF Setup, Base, Sound, RelianceIsSound
  <2>2. AtWork(p) /\ p = base.pid
    BY <1>0, <1>17 DEF Setup
  <2>3. CASE pc'[p] \in {"setup", "finish"}
    BY <1>0, <2>1, <2>2, <2>3
  <2>4. CASE pc' = [pc EXCEPT ![p] = "failed"]
    <3>1. CachePhase = "building" /\ CacheBuilder = p
      BY <1>0, <2>1, <2>2
    <3>2. CachePhase' = "building" /\ CacheBuilder' = NoProc /\ copied' = copied
      BY <1>0, <2>1, <2>2, <2>4
    <3> QED
      BY <1>0, <3>1, <3>2 DEF Cache!Next, Cache!GiveUp
  <2> QED
    BY <1>0, <1>17, <2>3, <2>4 DEF Setup
<1>18. ASSUME NEW p \in Procs, Finish(p)
      PROVE  Cache!Next \/ UNCHANGED Cache!vars
  <2>1. /\ Exists /\ base'.run = base.run /\ base'.pid = base.pid
        /\ base'.steps = base.steps /\ Complete
        /\ base'.status = "FINISHED" /\ base.status = "PREPARING"
        /\ copied' = copied /\ pc' = [pc EXCEPT ![p] = "stop"]
    BY <1>0, <1>18 DEF Finish, Base, Sound, RelianceIsSound
  <2>2. AtWork(p) /\ p = base.pid
    BY <1>0, <1>18 DEF Finish
  <2>3. CachePhase = "building" /\ CacheBuilder = p
    BY <2>1, <2>2
  <2>4. CachePhase' = "ready" /\ CacheBuilder' = NoProc
    BY <1>0, <2>1, <2>2
  <2> QED
    BY <1>0, <2>1, <2>3, <2>4 DEF Cache!Next, Cache!Publish
<1>19. ASSUME NEW p \in Procs, Stop(p)
      PROVE  Cache!Next \/ UNCHANGED Cache!vars
  <2>1. /\ base'.pid = base.pid /\ base'.steps = base.steps
        /\ base'.status = "FINISHED" /\ base.status = "FINISHED"
        /\ base'.run # "ABSENT" /\ Exists /\ copied' = copied
    BY <1>0, <1>19 DEF Stop, Base, Sound, RelianceIsSound
  <2>2. \A q \in Procs : ~AtWork(q) /\ ~AtWork(q)'
    BY <1>0, <1>19, <2>1 DEF Stop
  <2> QED
    BY <1>0, <2>1, <2>2
<1>20. ASSUME NEW p \in Procs, Stopped(p)
      PROVE  Cache!Next \/ UNCHANGED Cache!vars
  <2>1. /\ base'.pid = base.pid /\ base'.steps = base.steps
        /\ base'.status = "FINISHED" /\ base.status = "FINISHED"
        /\ base'.run # "ABSENT" /\ Exists /\ copied' = copied
    BY <1>0, <1>20 DEF Stopped, Base, Sound, RelianceIsSound
  <2>2. \A q \in Procs : ~AtWork(q) /\ ~AtWork(q)'
    BY <1>0, <1>20, <2>1 DEF Stopped
  <2> QED
    BY <1>0, <2>1, <2>2
<1>21. ASSUME NEW p \in Procs, Copy(p)
      PROVE  Cache!Next \/ UNCHANGED Cache!vars
  <2>1. CASE ~Free
    BY <1>0, <1>21, <2>1 DEF Copy
  <2>2. CASE Free
    <3>1. CachePhase = "ready"
      BY <1>0, <1>21, <2>2 DEF Copy, Sound, KeysAreTrue, RelianceIsSound
    <3>2. base' = base /\ \A q \in Procs : AtWork(q)' <=> AtWork(q)
      BY <1>0, <1>21, <2>2 DEF Copy
    <3>3. CachePhase' = CachePhase /\ CacheBuilder' = CacheBuilder
      BY <1>0, <3>2
    <3>4. copied' = [copied EXCEPT ![p] =
                       IF Complete THEN "complete" ELSE "incomplete"]
      BY <1>21, <2>2 DEF Copy
    <3>5. {q \in Procs : copied[q] # "none"}' =
            {q \in Procs : copied[q] # "none"} \union {p}
      BY <3>4 DEF Basic, TypeOK
    <3> QED
      BY <1>0, <3>1, <3>3, <3>5 DEF Cache!Next, Cache!Take
  <2> QED
    BY <2>1, <2>2
<1>22. ASSUME NEW p \in Procs, Exit(p)
      PROVE  Cache!Next \/ UNCHANGED Cache!vars
  BY <1>0, <1>22 DEF Exit
<1>23. ASSUME NEW p \in Procs, Crash(p)
      PROVE  Cache!Next \/ UNCHANGED Cache!vars
  <2>1. copied' = copied /\ pc' = [pc EXCEPT ![p] = "dead"]
    BY <1>23 DEF Crash
  <2>2. CASE AtWork(p)
    <3>1. CachePhase = "building" /\ CacheBuilder = p
      BY <1>0, <2>2
    <3>2. CacheBuilder' = NoProc
      <4>1. base.pid = p
        BY <1>0, <2>2
      <4>2. base'.pid \in {base.pid, NoProc}
        BY <1>0, <1>23 DEF Crash, Abandoned, Base
      <4>3. ~AtWork(p)'
        BY <1>0, <2>1
      <4> QED
        BY <4>1, <4>2, <4>3
    <3>3. base'.run # "ABSENT" => base'.status = base.status
      BY <1>0, <1>23 DEF Crash, Abandoned, Base
    <3>4. CachePhase' \in {"none", "building"}
      BY <1>0, <2>2, <3>3
    <3> QED
      BY <1>0, <2>1, <3>1, <3>2, <3>4 DEF Cache!Next, Cache!GiveUp
  <2>3. CASE ~AtWork(p)
    <3>1. base' = base
      BY <1>23, <2>3 DEF Crash
    <3>2. \A q \in Procs : AtWork(q)' <=> AtWork(q)
      BY <1>0, <2>1, <2>3, <3>1
    <3> QED
      BY <1>0, <2>1, <3>1, <3>2
  <2> QED
    BY <2>2, <2>3
<1>24. CASE Reboot
  <2>1. /\ base'.status = base.status /\ base'.pid = base.pid
        /\ base'.steps = base.steps /\ copied' = copied
        /\ base'.run = "ABSENT" <=> base.run = "ABSENT"
    BY <1>0, <1>24 DEF Reboot, Base
  <2>2. CachePhase' = CachePhase
    BY <2>1
  <2>3. \A q \in Procs : ~AtWork(q)'
    BY <1>0, <1>24 DEF Reboot, Alive
  <2>4. CacheBuilder' = NoProc
    BY <2>3
  <2>5. CASE CacheBuilder = NoProc
    BY <1>0, <2>1, <2>2, <2>4, <2>5
  <2>6. CASE CacheBuilder # NoProc
    <3>1. CachePhase = "building"
      BY <1>0, <2>6
    <3> QED
      BY <1>0, <2>1, <2>2, <2>4, <2>6, <3>1 DEF Cache!Next, Cache!GiveUp
  <2> QED
    BY <2>5, <2>6
<1>25. CASE Expire
  BY <1>0, <1>25 DEF Expire, Alive
<1>26. CASE UNCHANGED vars
  BY <1>26 DEF vars
<1> QED
  BY <1>1, <1>2, <1>3, <1>4, <1>5, <1>6, <1>7, <1>8, <1>9, <1>10, <1>11, <1>12, <1>13, <1>14, <1>15, <1>16, <1>17, <1>18, <1>19, <1>20, <1>21, <1>22, <1>23, <1>24, <1>25, <1>26 DEF Next, Program

\* Spec implements the abstract cache, for every value of the constants.
THEOREM Refinement == Spec => ImplementsCache
<1>1. Init => Cache!Init
  BY CacheInit
<1>2. IInv /\ IInv' /\ [Next]_vars => [disturbed' \/ Cache!Next]_(Cache!vars)
  BY CacheStep, DisturbedStays DEF IInv
<1> QED
  BY <1>1, <1>2, Invariance, PTL DEF Spec, ImplementsCache, Cache!Spec
=============================================================================
