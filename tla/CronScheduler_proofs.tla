----------------------- MODULE CronScheduler_proofs -----------------------
(***************************************************************************)
(* Proofs about CronScheduler, for any jobs, runs and schedules, any       *)
(* number of edits and crashes, and any length of time.                    *)
(***************************************************************************)
EXTENDS CronScheduler, TLAPS

----------------------------------------------------------------------------
(* The inductive invariant.                                                *)

\* A run in cron_runs has a job of its own.
RecordsDistinct ==
  \A r, q \in Runs : running[r] = running[q] /\ running[r] # None => r = q

\* The task of a job that is still there works on the run recorded for it.
TaskIsRecorded ==
  \A r \in Runs : task[r] # None =>
    /\ row[task[r]] # "new"
    /\ row[task[r]] = "there" => running[r] = task[r]

\* A job that is not in the table is not claimed.
AbsentIsFree == \A j \in Jobs : row[j] # "there" => claim[j] = None

\* A process that is down executes nothing, and was started in the past.
DownIsIdle == /\ phase = "down" => \A r \in Runs : task[r] = None
              /\ boot <= now

ClaimInv == /\ RecordsDistinct
            /\ RunningMeansClaimed
            /\ TaskIsRecorded
            /\ AbsentIsFree
            /\ DownIsIdle

TaskInv == ClaimInv /\ OneRunPerJob /\ OrphansAreFresh

IInv == TypeOK /\ TaskInv /\ WakesInTime

USE DEF jobVars, loopVars

----------------------------------------------------------------------------
(* What the operators of the model return.                                 *)

\* compute_next_run_at gives an instant.
LEMMA NextRunIsInstant ==
  ASSUME NEW s \in Schedules, NEW from \in Nat
  PROVE  ComputeNextRunAt(s, from) \in Instant
<1>1. s.kind \in {"at", "every", "cron"} /\ s.val \in Nat \ {0} /\ s.off \in Int
  BY ScheduleAssumption
<1>2. (from \div s.val + 1) * s.val \in Int
  BY <1>1
<1> QED
  BY <1>1, <1>2 DEF ComputeNextRunAt, Instant

\* Claiming gives each due job a run of its own that was free.
LEMMA ClaimedRuns ==
  ASSUME NEW js \in SUBSET Jobs, NEW run \in [js -> FreeRuns], Claimed(js, run),
         NEW r \in Runs, running \in [Runs -> Jobs \cup {None}]
  PROVE  \/ running'[r] = running[r] /\ \A j \in js : run[j] # r
         \/ /\ running'[r] \in js
            /\ run[running'[r]] = r
            /\ running[r] = None
            /\ task[r] = None
BY DEF Claimed, FreeRuns

----------------------------------------------------------------------------
(* Type correctness.                                                       *)

LEMMA InitTypeOK ==
  ASSUME Init
  PROVE  TypeOK
<1>1. (CHOOSE s \in Schedules : TRUE) \in Schedules
  BY ScheduleAssumption
<1>2. /\ on \in [Jobs -> BOOLEAN]
      /\ permit \in BOOLEAN
  BY DEF Init
<1>3. /\ row \in [Jobs -> {"new", "there", "deleted"}]
      /\ sch \in [Jobs -> Schedules]
      /\ next \in [Jobs -> Instant \cup {None}]
      /\ claim \in [Jobs -> Times \cup {None}]
  BY <1>1 DEF Init
<1>4. /\ running \in [Runs -> Jobs \cup {None}]
      /\ \A r \in Runs : running[r] # None => row[running[r]] = "there"
      /\ task \in [Runs -> Jobs \cup {None}]
      /\ done \subseteq Jobs
  BY DEF Init
<1>5. /\ wake \in Nat /\ owed \in 0..edits
      /\ now \in Times /\ boot \in Times
      /\ edits \in 0..MaxEdits /\ crashes \in 0..MaxCrashes
      /\ phase \in {"down", "coalesce", "claim", "plan", "sleep"}
  BY BoundAssumption DEF Init, Times
<1> QED
  BY <1>2, <1>3, <1>4, <1>5 DEF TypeOK

\* The steps of the scheduler.
LEMMA SchedulerTypeOK ==
  ASSUME TypeOK, Boot \/ Claim \/ Plan \/ Awake
  PROVE  TypeOK'
<1>1. CASE Boot
  <2>1. claim' \in [Jobs -> Times \cup {None}]
    BY <1>1 DEF Boot, TypeOK
  <2>2. /\ running' \in [Runs -> Jobs \cup {None}]
        /\ \A r \in Runs : running'[r] # None => running'[r] = running[r]
    BY <1>1 DEF Boot, TypeOK
  <2> QED
    BY <1>1, <2>1, <2>2 DEF Boot, TypeOK
<1>2. CASE Claim
  <2>1. PICK run \in [Due -> FreeRuns] :
          /\ Claimed(Due, run)
          /\ task' = [r \in Runs |-> IF \E j \in Due : run[j] = r
                                     THEN running'[r] ELSE task[r]]
    BY <1>2 DEF Claim
  <2>2. claim' \in [Jobs -> Times \cup {None}]
    BY <2>1 DEF Claimed, TypeOK
  <2>3. ASSUME NEW r \in Runs
        PROVE  running'[r] = running[r] \/ running'[r] \in Due
    BY <2>1, ClaimedRuns DEF Due, TypeOK
  <2>4. /\ running' \in [Runs -> Jobs \cup {None}]
        /\ \A r \in Runs : running'[r] # None => row[running'[r]] = "there"
    <3>1. DOMAIN running' = Runs /\ running' = [r \in Runs |-> running'[r]]
      BY <2>1 DEF Claimed
    <3> QED
      BY <2>3, <3>1 DEF Due, Claimable, TypeOK
  <2>5. task' \in [Runs -> Jobs \cup {None}]
    BY <2>1, <2>4 DEF TypeOK
  <2> QED
    BY <1>2, <2>2, <2>4, <2>5 DEF Claim, TypeOK
<1>3. CASE Plan
  <2>1. wake' \in Nat
    <3>1. now \in Nat /\ now + Default \in Nat
      BY BoundAssumption DEF TypeOK, Times
    <3>2. ASSUME NEW j \in Jobs, Claimable(j),
                 wake' = IF next[j].t <= now THEN now ELSE next[j].t
          PROVE  wake' \in Nat
      BY <3>1, <3>2 DEF Claimable, TypeOK, Instant
    <3> QED
      BY <1>3, <3>1, <3>2 DEF Plan
  <2> QED
    BY <1>3, <2>1 DEF Plan, TypeOK
<1>4. CASE Awake
  BY <1>4 DEF Awake, TypeOK
<1> QED
  BY <1>1, <1>2, <1>3, <1>4

\* The end of an execution.
LEMMA CompleteTypeOK ==
  ASSUME TypeOK, NEW r \in Runs, Complete(r)
  PROVE  TypeOK'
<1>1. task[r] \in Jobs
  BY DEF Complete, TypeOK
<1>2. /\ running' \in [Runs -> Jobs \cup {None}]
      /\ \A q \in Runs : running'[q] # None => running'[q] = running[q]
      /\ task' \in [Runs -> Jobs \cup {None}]
  BY DEF Complete, TypeOK
<1>3. /\ on' \in [Jobs -> BOOLEAN]
      /\ next' \in [Jobs -> Instant \cup {None}]
  <2>1. ComputeNextRunAt(sch[task[r]], now) \in Instant
    BY <1>1, NextRunIsInstant DEF TypeOK, Times
  <2>2. on' = on \/ on' = [on EXCEPT ![task[r]] = FALSE]
    BY DEF Complete, Reschedule
  <2>3. \/ next' = next
        \/ next' = [next EXCEPT ![task[r]] = None]
        \/ next' = [next EXCEPT ![task[r]] = ComputeNextRunAt(sch[task[r]], now)]
    BY DEF Complete, Reschedule
  <2>4. on' \in [Jobs -> BOOLEAN]
    BY <2>2 DEF TypeOK
  <2>5. next' \in [Jobs -> Instant \cup {None}]
    BY <2>1, <2>3 DEF TypeOK
  <2> QED
    BY <2>4, <2>5
<1>4. claim' \in [Jobs -> Times \cup {None}] /\ done' \subseteq Jobs
  BY <1>1 DEF Complete, TypeOK
<1> QED
  BY <1>2, <1>3, <1>4 DEF Complete, TypeOK

\* A next_run_at that a command writes.
LEMMA NextRunTyped ==
  ASSUME TypeOK, NEW s \in Schedules, NEW b \in BOOLEAN
  PROVE  NextRun(s, b) \in Instant \cup {None}
BY NextRunIsInstant DEF NextRun, TypeOK, Times

\* The commands of the user.
LEMMA CommandsTypeOK ==
  ASSUME TypeOK, Commands
  PROVE  TypeOK'
<1>1. /\ owed' \in 0..edits'
      /\ edits' \in 0..MaxEdits
      /\ UNCHANGED <<loopVars, task, now, boot, done, crashes>>
  <2>1. Command
    BY DEF Commands, CreateCronJob, UpdateCronJob, ToggleCronJob, DeleteCronJob
  <2> QED
    BY <2>1, BoundAssumption DEF Command, TypeOK
<1> DEFINE JobsTyped ==
             /\ row \in [Jobs -> {"new", "there", "deleted"}]
             /\ sch \in [Jobs -> Schedules]
             /\ on \in [Jobs -> BOOLEAN]
             /\ next \in [Jobs -> Instant \cup {None}]
             /\ claim \in [Jobs -> Times \cup {None}]
             /\ running \in [Runs -> Jobs \cup {None}]
             /\ \A r \in Runs : running[r] # None => row[running[r]] = "there"
<1>2. ASSUME NEW j \in Jobs, NEW s \in Schedules, NEW b \in BOOLEAN,
             CreateCronJob(j, s, b)
      PROVE  JobsTyped'
  <2>1. NextRun(s, b) \in Instant \cup {None}
    BY NextRunTyped
  <2>2. next' \in [Jobs -> Instant \cup {None}]
    BY <1>2, <2>1 DEF CreateCronJob, TypeOK
  <2>3. on' \in [Jobs -> BOOLEAN]
    BY <1>2 DEF CreateCronJob, TypeOK
  <2> QED
    BY <1>2, <2>2, <2>3 DEF CreateCronJob, TypeOK
<1>3. ASSUME NEW j \in Jobs, NEW s \in Schedules, NEW e \in BOOLEAN, NEW b \in BOOLEAN,
             UpdateCronJob(j, s, e, b)
      PROVE  JobsTyped'
  <2>1. NextRun(s, b) \in Instant \cup {None}
    BY NextRunTyped
  <2>2. \/ next' = next
        \/ next' = [next EXCEPT ![j] = NextRun(s, b)]
    BY <1>3 DEF UpdateCronJob, TypeOK
  <2>3. next' \in [Jobs -> Instant \cup {None}]
    BY <2>1, <2>2 DEF TypeOK
  <2>4. on' \in [Jobs -> BOOLEAN]
    BY <1>3 DEF UpdateCronJob, TypeOK
  <2> QED
    BY <1>3, <2>3, <2>4 DEF UpdateCronJob, TypeOK
<1>4. ASSUME NEW j \in Jobs, NEW b \in BOOLEAN, ToggleCronJob(j, b)
      PROVE  JobsTyped'
  <2>1. NextRun(sch[j], b) \in Instant \cup {None}
    BY NextRunTyped DEF TypeOK
  <2>2. next' \in [Jobs -> Instant \cup {None}]
    BY <1>4, <2>1 DEF ToggleCronJob, TypeOK
  <2>3. on' \in [Jobs -> BOOLEAN]
    BY <1>4 DEF ToggleCronJob, TypeOK
  <2> QED
    BY <1>4, <2>2, <2>3 DEF ToggleCronJob, TypeOK
<1>5. ASSUME NEW j \in Jobs, DeleteCronJob(j)
      PROVE  JobsTyped'
  <2>1. on' \in [Jobs -> BOOLEAN]
    BY <1>5 DEF DeleteCronJob, TypeOK
  <2>2. next' \in [Jobs -> Instant \cup {None}]
    BY <1>5 DEF DeleteCronJob, TypeOK
  <2>3. /\ running' \in [Runs -> Jobs \cup {None}]
        /\ \A r \in Runs : running'[r] # None =>
             running'[r] = running[r] /\ running[r] # j
    BY <1>5 DEF DeleteCronJob, TypeOK
  <2> QED
    BY <1>5, <2>1, <2>2, <2>3 DEF DeleteCronJob, TypeOK
<1>6. JobsTyped'
  BY <1>2, <1>3, <1>4, <1>5 DEF Commands
<1> QED
  BY <1>1, <1>6 DEF TypeOK

\* Notices, the clock and crashes.
LEMMA EnvironmentTypeOK ==
  ASSUME TypeOK,
         \/ NotifyChange \/ Tick \/ Crash \/ CrashClaiming
         \/ \E r \in Runs : CrashCompleting(r)
         \/ UNCHANGED vars
  PROVE  TypeOK'
<1>1. CASE NotifyChange
  BY <1>1, BoundAssumption DEF NotifyChange, TypeOK
<1>2. CASE Tick
  BY <1>2, BoundAssumption DEF Tick, TypeOK, Times
<1>3. ASSUME Down
      PROVE  /\ UNCHANGED <<row, sch, on, next, wake, now, boot, done, edits>>
             /\ phase' = "down"
             /\ permit' = FALSE
             /\ owed' \in 0..edits'
             /\ crashes' \in 0..MaxCrashes
             /\ task' \in [Runs -> Jobs \cup {None}]
  BY <1>3, BoundAssumption DEF Down, TypeOK
<1>4. CASE Crash
  BY <1>3, <1>4 DEF Crash, TypeOK
<1>5. CASE CrashClaiming
  <2>0. PICK js \in SUBSET Due, j \in Due : \E run \in [js -> FreeRuns] :
          /\ Distinct(run)
          /\ claim' = [i \in Jobs |-> IF i \in js \cup {j} THEN now ELSE claim[i]]
          /\ running' = [r \in Runs |-> IF \E i \in js : run[i] = r
                                        THEN CHOOSE i \in js : run[i] = r
                                        ELSE running[r]]
    BY <1>5 DEF CrashClaiming
  <2>1. PICK run \in [js -> FreeRuns] :
          /\ claim' = [i \in Jobs |-> IF i \in js \cup {j} THEN now ELSE claim[i]]
          /\ running' = [r \in Runs |-> IF \E i \in js : run[i] = r
                                        THEN CHOOSE i \in js : run[i] = r
                                        ELSE running[r]]
    BY <2>0
  <2>2. claim' \in [Jobs -> Times \cup {None}]
    BY <2>1 DEF TypeOK
  <2>3. ASSUME NEW r \in Runs
        PROVE  running'[r] = running[r] \/ running'[r] \in Due
    BY <2>1
  <2>4. /\ running' \in [Runs -> Jobs \cup {None}]
        /\ \A r \in Runs : running'[r] # None => row[running'[r]] = "there"
    <3>1. running' = [r \in Runs |-> running'[r]]
      BY <2>1
    <3> QED
      BY <2>3, <3>1 DEF Due, Claimable, TypeOK
  <2> QED
    BY <1>3, <1>5, <2>2, <2>4 DEF CrashClaiming, TypeOK
<1>6. ASSUME NEW r \in Runs, CrashCompleting(r)
      PROVE  TypeOK'
  <2>1. /\ running' \in [Runs -> Jobs \cup {None}]
        /\ \A q \in Runs : running'[q] # None => running'[q] = running[q]
    BY <1>6 DEF CrashCompleting, TypeOK
  <2> QED
    BY <1>3, <1>6, <2>1 DEF CrashCompleting, TypeOK
<1>7. CASE UNCHANGED vars
  BY <1>7 DEF vars, TypeOK
<1> QED
  BY <1>1, <1>2, <1>4, <1>5, <1>6, <1>7

----------------------------------------------------------------------------
(* Claims, runs and tasks: one lemma for each action that touches them.    *)

\* A claim that is reset takes its run with it; nothing executes yet.
LEMMA BootKeeps ==
  ASSUME TypeOK, TaskInv, Boot
  PROVE  TaskInv'
<1>1. /\ phase = "down" /\ phase' = "coalesce"
      /\ boot' = now
      /\ UNCHANGED <<row, task, now>>
      /\ now \in Nat /\ Stale \in Nat
  BY BoundAssumption DEF Boot, TypeOK, Times
<1>2. \A j \in Jobs : \/ claim'[j] = claim[j] /\ j \notin StaleJobs
                      \/ claim'[j] = None /\ j \in StaleJobs
  BY DEF Boot
<1>3. \A r \in Runs : \/ running'[r] = running[r] /\ running[r] \notin StaleJobs
                      \/ running'[r] = None
  BY DEF Boot
<1> USE DEF TaskInv, ClaimInv, RecordsDistinct, RunningMeansClaimed, TaskIsRecorded,
        AbsentIsFree, DownIsIdle, OneRunPerJob, OrphansAreFresh
<1>4. \A r \in Runs : task[r] = None
  BY <1>1
<1>5. ASSUME NEW j \in Jobs, claim'[j] # None
      PROVE  claim'[j] >= boot' - Stale
  <2>1. claim'[j] = claim[j] /\ claim[j] \in Nat /\ j \notin StaleJobs
    BY <1>2, <1>5 DEF TypeOK, Times
  <2>2. row[j] = "there"
    BY <1>5, <2>1
  <2> QED
    BY <1>1, <1>5, <2>1, <2>2 DEF StaleJobs
<1>6. RunningMeansClaimed'
  BY <1>2, <1>3 DEF TypeOK
<1> QED
  BY <1>1, <1>2, <1>3, <1>4, <1>5, <1>6

\* A due job is not claimed, so that nothing executes it or is recorded for it;
\* each gets a run that was free.
LEMMA ClaimKeeps ==
  ASSUME TypeOK, TaskInv, Claim
  PROVE  TaskInv'
<1>1. PICK run \in [Due -> FreeRuns] :
        /\ Claimed(Due, run)
        /\ task' = [r \in Runs |-> IF \E j \in Due : run[j] = r
                                   THEN running'[r] ELSE task[r]]
  BY DEF Claim
<1>2. ASSUME NEW r \in Runs
      PROVE  \/ /\ running'[r] = running[r]
                /\ task'[r] = task[r]
             \/ /\ running'[r] \in Due
                /\ run[running'[r]] = r
                /\ running[r] = None
                /\ task[r] = None
                /\ task'[r] = running'[r]
  <2>1. Due \subseteq Jobs /\ running \in [Runs -> Jobs \cup {None}]
    BY DEF Due, TypeOK
  <2>2. \/ running'[r] = running[r] /\ \A j \in Due : run[j] # r
        \/ /\ running'[r] \in Due
           /\ run[running'[r]] = r
           /\ running[r] = None
           /\ task[r] = None
    BY <1>1, <2>1, ClaimedRuns
  <2>3. task'[r] = IF \E j \in Due : run[j] = r THEN running'[r] ELSE task[r]
    BY <1>1
  <2> QED
    BY <2>2, <2>3
<1>3. \A j \in Jobs : \/ claim'[j] = claim[j] /\ j \notin Due
                      \/ claim'[j] = now /\ j \in Due
  BY <1>1 DEF Claimed
<1> USE DEF TaskInv, ClaimInv, RecordsDistinct, RunningMeansClaimed, TaskIsRecorded,
        AbsentIsFree, DownIsIdle, OneRunPerJob, OrphansAreFresh
<1>4. /\ phase # "down" /\ phase' # "down"
      /\ UNCHANGED <<row, boot, now>>
      /\ now \in Nat /\ boot \in Nat /\ Stale \in Nat /\ None \notin Nat
  BY BoundAssumption DEF Claim, TypeOK, Times
<1>5. \A j \in Due : /\ row[j] = "there" /\ claim[j] = None
                     /\ \A r \in Runs : running[r] # j /\ task[r] # j
  BY BoundAssumption DEF Due, Claimable, TypeOK
<1>6. RecordsDistinct'
  BY <1>2, <1>5
<1>7. RunningMeansClaimed'
  <2> SUFFICES ASSUME NEW r \in Runs, running'[r] # None
               PROVE  claim'[running'[r]] # None
    OBVIOUS
  <2>1. CASE running'[r] = running[r]
    BY <1>3, <1>4, <2>1 DEF TypeOK
  <2>2. CASE running'[r] \in Due
    BY <1>3, <1>4, <2>2 DEF Due
  <2> QED
    BY <1>2, <2>1, <2>2
<1>8. TaskIsRecorded'
  BY <1>2, <1>4, <1>5
<1>9. AbsentIsFree' /\ DownIsIdle'
  BY <1>3, <1>4, <1>5
<1>10. OneRunPerJob'
  BY <1>2, <1>5
<1>11. OrphansAreFresh'
  <2> SUFFICES ASSUME NEW j \in Jobs, claim'[j] # None, \A r \in Runs : task'[r] # j
               PROVE  claim'[j] >= boot - Stale
    BY <1>4
  <2>1. CASE claim'[j] = now
    BY <1>4, <2>1
  <2>2. CASE claim'[j] = claim[j] /\ j \notin Due
    <3>1. \A r \in Runs : task[r] # j
      BY <1>2, <1>4, <2>2, BoundAssumption
    <3> QED
      BY <1>4, <2>2, <3>1
  <2> QED
    BY <1>3, <2>1, <2>2
<1> QED
  BY <1>6, <1>7, <1>8, <1>9, <1>10, <1>11

\* A task that ends has the only run of its job, and releases the claim.
LEMMA CompleteKeeps ==
  ASSUME TypeOK, TaskInv, NEW r \in Runs, Complete(r)
  PROVE  TaskInv'
<1> USE DEF TaskInv, ClaimInv, RecordsDistinct, RunningMeansClaimed, TaskIsRecorded,
        AbsentIsFree, DownIsIdle, OneRunPerJob, OrphansAreFresh
<1> DEFINE j == task[r]
<1>1. /\ j \in Jobs
      /\ running' = [running EXCEPT ![r] = None]
      /\ task' = [task EXCEPT ![r] = None]
      /\ UNCHANGED <<row, phase, boot, now>>
  BY DEF Complete, TypeOK
<1>2. \/ row[j] = "there" /\ claim' = [claim EXCEPT ![j] = None]
      \/ row[j] # "there" /\ claim' = claim
  BY DEF Complete
<1>3. phase # "down"
  BY <1>1, BoundAssumption DEF Complete
<1>4. \A q \in Runs \ {r} : running'[q] = running[q] /\ task'[q] = task[q]
  BY <1>1 DEF TypeOK
<1>5. running'[r] = None /\ task'[r] = None
  BY <1>1 DEF TypeOK
<1>6. \A i \in Jobs \ {j} : claim'[i] = claim[i]
  BY <1>2 DEF TypeOK
<1>7. claim'[j] = None
  BY <1>1, <1>2 DEF TypeOK
<1>8. RecordsDistinct'
  BY <1>4, <1>5
<1>9. RunningMeansClaimed'
  <2> SUFFICES ASSUME NEW q \in Runs \ {r}, running[q] # None
               PROVE  claim'[running[q]] # None
    BY <1>4, <1>5
  <2>1. row[running[q]] = "there" /\ running[q] \in Jobs /\ claim[running[q]] # None
    BY DEF TypeOK
  <2>2. running[q] # j
    BY <1>1, <2>1, BoundAssumption
  <2> QED
    BY <1>6, <2>1, <2>2
<1>10. TaskIsRecorded'
  BY <1>1, <1>4, <1>5
<1>11. AbsentIsFree' /\ DownIsIdle'
  BY <1>1, <1>3, <1>6, <1>7
<1>12. OneRunPerJob'
  BY <1>4, <1>5
<1>13. OrphansAreFresh'
  BY <1>1, <1>3, <1>4, <1>5, <1>6, <1>7
<1> QED
  BY <1>8, <1>9, <1>10, <1>11, <1>12, <1>13

\* A command leaves claims and runs alone, except that a deleted job loses both.
LEMMA CommandsKeep ==
  ASSUME TypeOK, TaskInv, Commands
  PROVE  TaskInv'
<1> USE DEF TaskInv, ClaimInv, RecordsDistinct, RunningMeansClaimed, TaskIsRecorded,
        AbsentIsFree, DownIsIdle, OneRunPerJob, OrphansAreFresh
<1>1. UNCHANGED <<phase, task, now, boot>>
  BY DEF Commands, CreateCronJob, UpdateCronJob, ToggleCronJob, DeleteCronJob, Command
<1>2. ASSUME UNCHANGED <<claim, running>>,
             \A j \in Jobs : row'[j] = row[j] \/ (row[j] = "new" /\ row'[j] = "there")
      PROVE  TaskInv'
  <2>1. AbsentIsFree'
    BY <1>2
  <2>2. TaskIsRecorded'
    BY <1>1, <1>2 DEF TypeOK
  <2> QED
    BY <1>1, <1>2, <2>1, <2>2
<1>3. ASSUME NEW j \in Jobs, DeleteCronJob(j)
      PROVE  TaskInv'
  <2>1. \A i \in Jobs : IF i = j THEN row'[i] = "deleted" /\ claim'[i] = None
                                 ELSE row'[i] = row[i] /\ claim'[i] = claim[i]
    BY <1>3 DEF DeleteCronJob, TypeOK
  <2>2. \A r \in Runs : IF running[r] = j THEN running'[r] = None
                                         ELSE running'[r] = running[r]
    BY <1>3 DEF DeleteCronJob, TypeOK
  <2>3. RecordsDistinct' /\ AbsentIsFree' /\ OrphansAreFresh'
    BY <1>1, <2>1, <2>2
  <2>4. RunningMeansClaimed'
    BY <2>1, <2>2 DEF TypeOK
  <2>5. TaskIsRecorded'
    BY <1>1, <2>1, <2>2 DEF TypeOK
  <2> QED
    BY <1>1, <2>3, <2>4, <2>5
<1>4. ASSUME NEW j \in Jobs, NEW s \in Schedules, NEW b \in BOOLEAN,
             \/ CreateCronJob(j, s, b) \/ ToggleCronJob(j, b)
             \/ \E e \in BOOLEAN : UpdateCronJob(j, s, e, b)
      PROVE  TaskInv'
  <2>1. UNCHANGED <<claim, running>>
    BY <1>4 DEF CreateCronJob, UpdateCronJob, ToggleCronJob
  <2>2. row' = row \/ (row[j] = "new" /\ row' = [row EXCEPT ![j] = "there"])
    BY <1>4 DEF CreateCronJob, UpdateCronJob, ToggleCronJob
  <2>3. \A i \in Jobs : row'[i] = row[i] \/ (row[i] = "new" /\ row'[i] = "there")
    BY <2>2 DEF TypeOK
  <2> QED
    BY <1>2, <2>1, <2>3
<1> QED
  BY <1>3, <1>4, ScheduleAssumption DEF Commands

\* A crash ends every task.  Between the statements of a claim it leaves claims
\* without a run, between those of a completion a claim without its run.
LEMMA CrashKeeps ==
  ASSUME TypeOK, TaskInv,
         Crash \/ CrashClaiming \/ \E r \in Runs : CrashCompleting(r)
  PROVE  TaskInv'
<1>1. /\ phase' = "down"
      /\ \A r \in Runs : task'[r] = None
      /\ UNCHANGED <<row, now, boot>>
  BY DEF Crash, CrashClaiming, CrashCompleting, Down
<1> USE DEF TaskInv, ClaimInv, RecordsDistinct, RunningMeansClaimed, TaskIsRecorded,
        AbsentIsFree, DownIsIdle, OneRunPerJob, OrphansAreFresh
<1> SUFFICES RecordsDistinct' /\ RunningMeansClaimed' /\ AbsentIsFree'
  BY <1>1
<1>2. CASE Crash
  BY <1>1, <1>2 DEF Crash
<1>3. CASE CrashClaiming
  <2>1. PICK js \in SUBSET Due, j \in Due : \E run \in [js -> FreeRuns] :
          /\ Distinct(run)
          /\ claim' = [i \in Jobs |-> IF i \in js \cup {j} THEN now ELSE claim[i]]
          /\ running' = [r \in Runs |-> IF \E i \in js : run[i] = r
                                        THEN CHOOSE i \in js : run[i] = r
                                        ELSE running[r]]
    BY <1>3 DEF CrashClaiming
  <2>2. PICK run \in [js -> FreeRuns] :
          /\ claim' = [i \in Jobs |-> IF i \in js \cup {j} THEN now ELSE claim[i]]
          /\ running' = [r \in Runs |-> IF \E i \in js : run[i] = r
                                        THEN CHOOSE i \in js : run[i] = r
                                        ELSE running[r]]
    BY <2>1
  <2>3. ASSUME NEW r \in Runs
        PROVE  \/ running'[r] = running[r]
               \/ running'[r] \in js /\ run[running'[r]] = r
    <3>1. running'[r] = IF \E i \in js : run[i] = r
                        THEN CHOOSE i \in js : run[i] = r ELSE running[r]
      BY <2>2
    <3> QED
      BY <3>1
  <2>4. \A i \in Due : /\ row[i] = "there" /\ claim[i] = None
                       /\ \A r \in Runs : running[r] # i
    BY BoundAssumption DEF Due, Claimable, TypeOK
  <2>5. now # None
    BY BoundAssumption DEF TypeOK, Times
  <2>6. RecordsDistinct'
    BY <2>3, <2>4
  <2>7. RunningMeansClaimed'
    BY <2>2, <2>3, <2>5 DEF TypeOK, Due
  <2>8. AbsentIsFree'
    BY <1>1, <2>2, <2>4
  <2> QED
    BY <2>6, <2>7, <2>8
<1>4. ASSUME NEW r \in Runs, CrashCompleting(r)
      PROVE  RecordsDistinct' /\ RunningMeansClaimed' /\ AbsentIsFree'
  BY <1>1, <1>4 DEF CrashCompleting, TypeOK
<1> QED
  BY <1>2, <1>3, <1>4

\* The other steps touch neither claims nor runs nor tasks.
LEMMA OthersKeep ==
  ASSUME TypeOK, TaskInv,
         Plan \/ Awake \/ NotifyChange \/ Tick \/ UNCHANGED vars
  PROVE  TaskInv'
<1>1. /\ UNCHANGED <<row, claim, running, task, boot>>
      /\ phase' = "down" <=> phase = "down"
      /\ now' = now \/ now' = now + 1
  BY DEF Plan, Awake, NotifyChange, Tick, vars
<1>2. now \in Nat /\ boot \in Nat
  BY BoundAssumption DEF TypeOK, Times
<1> QED
  BY <1>1, <1>2 DEF TaskInv, ClaimInv, RecordsDistinct, RunningMeansClaimed,
     TaskIsRecorded, AbsentIsFree, DownIsIdle, OneRunPerJob, OrphansAreFresh

----------------------------------------------------------------------------
(* The sleep.  While the loop sleeps and no command is on its way, jobs only *)
(* become claimable by being completed, and those are in done.               *)

\* What a step must leave as it is for the sleep to stay right.
LEMMA StillInTime ==
  ASSUME TypeOK, WakesInTime,
         Asleep' => Asleep,
         wake' = wake, now' \in {now, now + 1}, done \subseteq done',
         \A j \in Jobs : Claimable(j) => Claimable(j)' /\ next'[j] = next[j],
         \A j \in Jobs : Claimable(j)' => Claimable(j) \/ j \in done'
  PROVE  WakesInTime'
<1> SUFFICES ASSUME Asleep', OneOffset', NEW j \in Jobs \ done', Claimable(j)'
             PROVE  wake' <= next'[j].t \/ wake' <= now'
  BY DEF WakesInTime
<1>1. Claimable(j) /\ j \notin done /\ next'[j] = next[j]
  OBVIOUS
<1>2. OneOffset
  BY DEF OneOffset
<1>3. wake <= next[j].t \/ wake <= now
  BY <1>1, <1>2 DEF WakesInTime
<1>4. wake \in Nat /\ now \in Nat
  BY BoundAssumption DEF TypeOK, Times
<1> QED
  BY <1>1, <1>3, <1>4

\* The sleep that is planned is right: with one offset, the least text is the
\* least time.
LEMMA PlansInTime ==
  ASSUME TypeOK, Plan
  PROVE  WakesInTime'
<1> SUFFICES ASSUME OneOffset, NEW j \in Jobs, Claimable(j)
             PROVE  wake' <= next[j].t \/ wake' <= now
  BY DEF WakesInTime, OneOffset, Claimable, Plan
<1>1. PICK i \in Jobs : /\ Claimable(i)
                        /\ Digits(next[i]) <= Digits(next[j])
                        /\ wake' = IF next[i].t <= now THEN now ELSE next[i].t
  BY DEF Plan
<1>2. next[i] \in Instant /\ next[j] \in Instant /\ now \in Int
  BY <1>1 DEF Claimable, TypeOK, Times
<1>3. next[i].off = next[j].off
  BY <1>1 DEF OneOffset
<1>4. next[i].t <= next[j].t
  BY <1>1, <1>2, <1>3 DEF Digits, Instant
<1> QED
  BY <1>1, <1>2, <1>4 DEF Instant

\* A job that is completed is in done; it was claimed, and not claimable, until
\* then.
LEMMA CompletesInTime ==
  ASSUME TypeOK, TaskInv, WakesInTime, NEW r \in Runs, Complete(r)
  PROVE  WakesInTime'
<1> DEFINE j == task[r]
<1>1. /\ j \in Jobs /\ j # None
      /\ UNCHANGED <<row, sch, phase, wake, permit, owed, now>>
  BY DEF Complete, TypeOK
<1>2. CASE row[j] = "there"
  <2>1. claim[j] # None
    BY <1>1, <1>2 DEF TaskInv, ClaimInv, TaskIsRecorded, RunningMeansClaimed
  <2>2. /\ claim' = [claim EXCEPT ![j] = None]
        /\ done' = done \cup {j}
        /\ on' = on \/ on' = [on EXCEPT ![j] = FALSE]
        /\ \E n : next' = [next EXCEPT ![j] = n]
    BY <1>2 DEF Complete, Reschedule
  <2>3. \A i \in Jobs \ {j} : /\ claim'[i] = claim[i]
                              /\ on'[i] = on[i]
                              /\ next'[i] = next[i]
    BY <2>2 DEF TypeOK
  <2>4. \A i \in Jobs : Claimable(i) => i # j
    BY <2>1 DEF Claimable
  <2>5. /\ \A i \in Jobs : Claimable(i) => Claimable(i)' /\ next'[i] = next[i]
        /\ \A i \in Jobs : Claimable(i)' => Claimable(i) \/ i \in done'
    BY <1>1, <2>2, <2>3, <2>4 DEF Claimable
  <2>6. Asleep' => Asleep
    BY <1>1 DEF Asleep
  <2> QED
    BY <1>1, <2>2, <2>5, <2>6, StillInTime
<1>3. CASE row[j] # "there"
  <2>1. UNCHANGED <<on, next, claim, done>>
    BY <1>3 DEF Complete
  <2> QED
    BY <1>1, <2>1 DEF WakesInTime, Asleep, OneOffset, Claimable
<1> QED
  BY <1>2, <1>3

\* Every other step wakes the loop, is about to, or only lets time pass.
LEMMA OthersInTime ==
  ASSUME TypeOK, WakesInTime,
         \/ Boot \/ Claim \/ Awake \/ Commands \/ NotifyChange \/ Tick
         \/ Crash \/ CrashClaiming \/ \E r \in Runs : CrashCompleting(r)
         \/ UNCHANGED vars
  PROVE  WakesInTime'
<1>1. CASE Boot \/ Claim \/ Awake \/ Crash \/ CrashClaiming
             \/ \E r \in Runs : CrashCompleting(r)
  <2>1. phase' # "sleep"
    BY <1>1 DEF Boot, Claim, Awake, Crash, CrashClaiming, CrashCompleting, Down
  <2> QED
    BY <2>1 DEF WakesInTime, Asleep
<1>2. CASE Commands
  <2>1. owed' = owed + 1 /\ owed \in Nat
    BY <1>2, BoundAssumption
       DEF Commands, CreateCronJob, UpdateCronJob, ToggleCronJob, DeleteCronJob,
           Command, TypeOK
  <2> QED
    BY <2>1 DEF WakesInTime, Asleep
<1>3. CASE NotifyChange
  BY <1>3 DEF NotifyChange, WakesInTime, Asleep
<1>4. CASE Tick \/ UNCHANGED vars
  <2>1. /\ UNCHANGED <<row, on, next, claim, phase, wake, permit, owed, done>>
        /\ now' \in {now, now + 1}
    BY <1>4 DEF Tick, vars
  <2>2. \A j \in Jobs : Claimable(j)' <=> Claimable(j)
    BY <2>1 DEF Claimable
  <2>3. Asleep' => Asleep
    BY <2>1 DEF Asleep
  <2> QED
    BY <2>1, <2>2, <2>3, StillInTime
<1> QED
  BY <1>1, <1>2, <1>3, <1>4

----------------------------------------------------------------------------
(* The lock that the claims implement.                                     *)

Holders == [j \in Jobs |-> {r \in Runs : task[r] = j}]
Armed   == {j \in Jobs : Claimable(j)}
Gone    == {j \in Jobs : row[j] = "deleted"}

\* A job that can be claimed is executed by nobody.
LEMMA ArmedIsFree ==
  ASSUME TypeOK, TaskInv, NEW j \in Jobs, row[j] = "new" \/ claim[j] = None, row[j] # "deleted"
  PROVE  Holders[j] = {}
<1> SUFFICES ASSUME NEW r \in Runs, task[r] = j PROVE FALSE
  BY DEF Holders
<1>1. row[j] = "there" /\ running[r] = j
  BY BoundAssumption DEF TaskInv, ClaimInv, TaskIsRecorded, TypeOK
<1>2. claim[j] # None
  BY <1>1, BoundAssumption DEF TaskInv, ClaimInv, RunningMeansClaimed
<1> QED
  BY <1>1, <1>2

\* A claim starts each due job with the run it was given.
LEMMA ClaimStarts ==
  ASSUME TypeOK, TaskInv, Claim, NEW js \in SUBSET Jobs, js = Due
  PROVE  JL!Start(js)
<1>1. PICK run \in [Due -> FreeRuns] :
        /\ Distinct(run)
        /\ Claimed(Due, run)
        /\ task' = [r \in Runs |-> IF \E j \in Due : run[j] = r
                                   THEN running'[r] ELSE task[r]]
  BY DEF Claim
<1>2. /\ Due \subseteq Armed
      /\ \A j \in Due : Holders[j] = {}
  BY ArmedIsFree DEF Due, Armed, Claimable
<1>3. run \in [Due -> Runs]
  BY <1>1 DEF FreeRuns
<1>4. \A i \in Jobs, j \in Due : run[j] \notin Holders[i]
  BY <1>1, BoundAssumption DEF FreeRuns, Holders
<1>5. \A i, j \in Due : run[i] = run[j] => i = j
  BY <1>1 DEF Distinct
<1>6. \A r \in Runs : IF \E j \in Due : run[j] = r
                      THEN task'[r] \in Due /\ run[task'[r]] = r
                      ELSE task'[r] = task[r]
  <2> SUFFICES ASSUME NEW r \in Runs
               PROVE  IF \E j \in Due : run[j] = r
                      THEN task'[r] \in Due /\ run[task'[r]] = r
                      ELSE task'[r] = task[r]
    OBVIOUS
  <2>1. running \in [Runs -> Jobs \cup {None}] /\ Due \subseteq Jobs
    BY DEF TypeOK, Due
  <2>2. \/ running'[r] = running[r] /\ \A j \in Due : run[j] # r
        \/ running'[r] \in Due /\ run[running'[r]] = r
    BY <1>1, <2>1, ClaimedRuns
  <2> QED
    BY <1>1, <2>2
<1>7. Holders' = [j \in Jobs |-> IF j \in Due THEN {run[j]} ELSE Holders[j]]
  <2> SUFFICES ASSUME NEW j \in Jobs
               PROVE  {r \in Runs : task'[r] = j} = IF j \in Due THEN {run[j]} ELSE Holders[j]
    BY DEF Holders
  <2>1. CASE j \in Due
    <3>1. \A r \in Runs : task[r] # j
      BY <1>2, <2>1 DEF Holders
    <3> QED
      BY <1>3, <1>5, <1>6, <2>1, <3>1
  <2>2. CASE j \notin Due
    <3>1. \A r \in Runs : task'[r] = j <=> task[r] = j
      BY <1>1, <1>6, <2>2, BoundAssumption DEF FreeRuns
    <3> QED
      BY <2>2, <3>1 DEF Holders
  <2> QED
    BY <2>1, <2>2
<1>8. Armed' = Armed \ Due
  <2>1. now # None /\ UNCHANGED <<row, on, next>>
    BY BoundAssumption DEF TypeOK, Times, Claim
  <2>2. \A j \in Jobs : claim'[j] = IF j \in Due THEN now ELSE claim[j]
    BY <1>1 DEF Claimed
  <2> QED
    BY <2>1, <2>2 DEF Armed, Claimable
<1>9. Gone' = Gone
  BY DEF Claim, Gone
<1>10. \A j \in Due : JL!Free(j)
  BY <1>2 DEF Due, Holders, JL!Free
<1>11. \E f \in [Due -> Runs] :
         /\ \A i, j \in Due : f[i] = f[j] => i = j
         /\ \A i \in Jobs, j \in Due : f[j] \notin Holders[i]
         /\ Holders' = [j \in Jobs |-> IF j \in Due THEN {f[j]} ELSE Holders[j]]
  BY <1>3, <1>4, <1>5, <1>7
<1> QED
  BY <1>2, <1>8, <1>9, <1>10, <1>11 DEF JL!Start, Holders, Armed, Gone

\* The end of an execution releases its job, and arms it only if it is there.
LEMMA CompleteFinishes ==
  ASSUME TypeOK, TaskInv, NEW r \in Runs, NEW j \in Jobs, task[r] = j, Complete(r)
  PROVE  JL!Finish(j, r)
<1>1. UNCHANGED row
  BY DEF Complete
<1>2. Holders[j] = {r}
  BY BoundAssumption DEF Holders, Complete, TaskInv, OneRunPerJob
<1>3. Holders' = [Holders EXCEPT ![j] = {}]
  <2> SUFFICES ASSUME NEW i \in Jobs
               PROVE  {q \in Runs : task'[q] = i} = IF i = j THEN {} ELSE Holders[i]
    BY DEF Holders
  <2>1. \A q \in Runs : task'[q] = IF q = r THEN None ELSE task[q]
    BY DEF Complete, TypeOK
  <2>2. \A q \in Runs : task[q] = j => q = r
    BY <1>2 DEF Holders
  <2> QED
    BY <2>1, <2>2, BoundAssumption DEF Holders
<1>4. \A i \in Jobs \ {j} : Claimable(i)' <=> Claimable(i)
  <2>1. CASE row[j] = "there"
    <3>1. /\ claim' = [claim EXCEPT ![j] = None]
          /\ on' = on \/ on' = [on EXCEPT ![j] = FALSE]
          /\ \E n : next' = [next EXCEPT ![j] = n]
      BY <2>1 DEF Complete, Reschedule
    <3>2. \A i \in Jobs \ {j} : /\ claim'[i] = claim[i]
                                /\ on'[i] = on[i]
                                /\ next'[i] = next[i]
      BY <3>1 DEF TypeOK
    <3> QED
      BY <1>1, <3>2 DEF Claimable
  <2>2. CASE row[j] # "there"
    BY <1>1, <2>2 DEF Complete, Claimable
  <2> QED
    BY <2>1, <2>2
<1>5. ~Claimable(j)
  BY <1>1, <1>2, ArmedIsFree DEF Claimable
<1>6. Claimable(j)' => j \notin Gone
  BY <1>1 DEF Claimable, Gone
<1>7. Armed' \in {Armed, Armed \cup ({j} \ Gone)}
  BY <1>1, <1>4, <1>5, <1>6 DEF Armed
<1>8. Gone' = Gone
  BY <1>1 DEF Gone
<1> QED
  BY <1>2, <1>3, <1>7, <1>8 DEF JL!Finish, Holders, Armed, Gone

\* An edit arms a job, if at all, that nothing executes.
LEMMA CommandsEdit ==
  ASSUME TypeOK, TaskInv, Commands
  PROVE  \E j \in Jobs : JL!Edit(j) \/ JL!Delete(j)
<1>1. Holders' = Holders
  BY DEF Holders, Commands, CreateCronJob, UpdateCronJob, ToggleCronJob, DeleteCronJob, Command
<1>2. ASSUME NEW j \in Jobs, DeleteCronJob(j)
      PROVE  JL!Delete(j)
  <2>1. \A i \in Jobs : IF i = j THEN row'[i] = "deleted"
                        ELSE /\ row'[i] = row[i] /\ on'[i] = on[i]
                             /\ next'[i] = next[i] /\ claim'[i] = claim[i]
    BY <1>2 DEF DeleteCronJob, TypeOK
  <2>2. row[j] = "there"
    BY <1>2 DEF DeleteCronJob
  <2>3. Gone' = Gone \cup {j} /\ j \notin Gone /\ Armed' = Armed \ {j}
    BY <2>1, <2>2 DEF Gone, Armed, Claimable
  <2> QED
    BY <1>1, <2>3 DEF JL!Delete, Holders, Armed, Gone
<1>3. ASSUME NEW j \in Jobs, NEW s \in Schedules, NEW b \in BOOLEAN,
             \/ CreateCronJob(j, s, b) \/ ToggleCronJob(j, b)
             \/ \E e \in BOOLEAN : UpdateCronJob(j, s, e, b)
      PROVE  JL!Edit(j)
  <2>1. /\ claim' = claim
        /\ row[j] \in {"new", "there"}
        /\ row' = row \/ row' = [row EXCEPT ![j] = "there"]
        /\ \E v : on' = [on EXCEPT ![j] = v]
        /\ next' = next \/ \E v : next' = [next EXCEPT ![j] = v]
    <3>1. ASSUME CreateCronJob(j, s, b) \/ ToggleCronJob(j, b)
          PROVE  next' = next \/ \E v : next' = [next EXCEPT ![j] = v]
      BY <3>1 DEF CreateCronJob, ToggleCronJob
    <3>2. ASSUME NEW e \in BOOLEAN, UpdateCronJob(j, s, e, b)
          PROVE  next' = next \/ \E v : next' = [next EXCEPT ![j] = v]
      BY <3>2 DEF UpdateCronJob
    <3>3. \E v : on' = [on EXCEPT ![j] = v]
      BY <1>3 DEF CreateCronJob, UpdateCronJob, ToggleCronJob
    <3>4. /\ claim' = claim
          /\ row[j] \in {"new", "there"}
          /\ row' = row \/ row' = [row EXCEPT ![j] = "there"]
      BY <1>3 DEF CreateCronJob, UpdateCronJob, ToggleCronJob
    <3> QED
      BY <1>3, <3>1, <3>2, <3>3, <3>4
  <2>2. /\ \A i \in Jobs \ {j} : /\ row'[i] = row[i] /\ on'[i] = on[i]
                                 /\ next'[i] = next[i]
        /\ row'[j] \in {"new", "there"}
    BY <2>1 DEF TypeOK
  <2>3. Gone' = Gone /\ j \notin Gone
    BY <2>1, <2>2 DEF Gone
  <2>4. Armed' \in {Armed \ {j}, Armed \cup {j}}
    BY <2>1, <2>2 DEF Armed, Claimable
  <2>5. j \in Armed' => Holders[j] = {}
    BY <2>1, ArmedIsFree DEF Armed, Claimable
  <2> QED
    BY <1>1, <2>3, <2>4, <2>5 DEF JL!Edit, JL!Free, Holders, Armed, Gone
<1> QED
  BY <1>2, <1>3, ScheduleAssumption DEF Commands

\* A start releases old claims; nothing executes then.
LEMMA BootRecovers ==
  ASSUME TypeOK, TaskInv, Boot
  PROVE  JL!Recover
<1>1. /\ \A r \in Runs : task[r] = None
      /\ UNCHANGED <<row, on, next, task>>
      /\ \A j \in Jobs : claim'[j] \in {claim[j], None}
  BY DEF Boot, TaskInv, ClaimInv, DownIsIdle
<1>2. Armed \subseteq Armed' /\ Armed' \subseteq Jobs \ Gone
  BY <1>1 DEF Armed, Gone, Claimable
<1>3. Holders' = Holders /\ Gone' = Gone /\ \A j \in Jobs : Holders[j] = {}
  BY <1>1, BoundAssumption DEF Holders, Gone
<1> QED
  BY <1>2, <1>3 DEF JL!Recover, JL!Free, Holders, Armed, Gone

\* A crash ends every execution, and claims at most.
LEMMA CrashStops ==
  ASSUME TypeOK, Crash \/ CrashClaiming \/ \E r \in Runs : CrashCompleting(r)
  PROVE  JL!Stop
<1>1. /\ \A r \in Runs : task'[r] = None
      /\ UNCHANGED <<row, on, next>>
  BY DEF Crash, CrashClaiming, CrashCompleting, Down
<1>2. \A j \in Jobs : claim'[j] = None => claim[j] = None
  <2>1. now # None
    BY BoundAssumption DEF TypeOK, Times
  <2>2. CASE CrashClaiming
    <3>1. \E both : claim' = [i \in Jobs |-> IF i \in both THEN now ELSE claim[i]]
      BY <2>2 DEF CrashClaiming
    <3> QED
      BY <2>1, <3>1
  <2>3. CASE Crash \/ \E r \in Runs : CrashCompleting(r)
    BY <2>3 DEF Crash, CrashCompleting
  <2> QED
    BY <2>2, <2>3
<1>3. Armed' \subseteq Armed /\ Gone' = Gone
  BY <1>1, <1>2 DEF Armed, Gone, Claimable
<1>4. Holders' = [j \in Jobs |-> {}]
  BY <1>1, BoundAssumption DEF Holders
<1> QED
  BY <1>3, <1>4 DEF JL!Stop, Holders, Armed, Gone

\* The other steps are none of the lock.
LEMMA OthersStutter ==
  ASSUME Plan \/ Awake \/ NotifyChange \/ Tick \/ UNCHANGED vars
  PROVE  UNCHANGED JL!vars
<1>1. UNCHANGED <<row, on, next, claim, task>>
  BY DEF Plan, Awake, NotifyChange, Tick, vars
<1>2. Holders' = Holders /\ Armed' = Armed /\ Gone' = Gone
  BY <1>1 DEF Holders, Armed, Gone, Claimable
<1> QED
  BY <1>2 DEF JL!vars, Holders, Armed, Gone

----------------------------------------------------------------------------
(* The theorems.                                                           *)

LEMMA StepTypeOK == TypeOK /\ [Next]_vars => TypeOK'
BY SchedulerTypeOK, CompleteTypeOK, CommandsTypeOK, EnvironmentTypeOK DEF Next

LEMMA StepKeeps == TypeOK /\ TaskInv /\ [Next]_vars => TaskInv'
BY BootKeeps, ClaimKeeps, CompleteKeeps, CommandsKeep, CrashKeeps, OthersKeep DEF Next

LEMMA StepInTime == TypeOK /\ TaskInv /\ WakesInTime /\ [Next]_vars => WakesInTime'
BY PlansInTime, CompletesInTime, OthersInTime DEF Next

LEMMA Inductive == Spec => []IInv
<1>1. Init => IInv
  <2> SUFFICES ASSUME Init PROVE IInv
    OBVIOUS
  <2>1. TaskInv
    BY DEF Init, TaskInv, ClaimInv, RecordsDistinct, RunningMeansClaimed,
       TaskIsRecorded, AbsentIsFree, DownIsIdle, OneRunPerJob, OrphansAreFresh
  <2>2. WakesInTime
    BY DEF Init, WakesInTime, Asleep
  <2> QED
    BY <2>1, <2>2, InitTypeOK DEF IInv
<1>2. IInv /\ [Next]_vars => IInv'
  BY StepTypeOK, StepKeeps, StepInTime DEF IInv
<1> QED
  BY <1>1, <1>2, PTL DEF Spec

\* No job is executed twice at the same time: its claim lasts from before its
\* task begins until the task ends, whatever is edited meanwhile.
THEOREM ExecutedOnce == Spec => []OneRunPerJob
BY Inductive, PTL DEF IInv, TaskInv

\* Wherever a crash cuts claim_due_jobs or complete_cron_run, a run recorded as
\* running has a claimed job, and a claim nobody works on is recent enough to be
\* reset by a later start.
THEOREM CrashesLeaveClaimsInOrder == Spec => []ClaimsAgree
<1>1. IInv => ClaimsAgree
  BY DEF IInv, TaskInv, ClaimInv, ClaimsAgree
<1> QED
  BY Inductive, <1>1, PTL

\* The loop never sleeps past a job that was edited or was there when it went to
\* sleep, as long as times are written with one offset.
THEOREM SleepIsRight == Spec => []WakesInTime
BY Inductive, PTL DEF IInv

\* The scheduler implements a lock of each job: one run at a time executes it,
\* once for each time it was armed, whatever is edited, deleted or crashes.
THEOREM SchedulerImplementsLock == Spec => ImplementsJobLock
<1>1. Init => JL!Init
  <2> SUFFICES ASSUME Init PROVE JL!Init
    OBVIOUS
  <2>1. Holders = [j \in Jobs |-> {}] /\ Armed = {} /\ Gone = {}
    BY BoundAssumption DEF Init, Holders, Armed, Gone, Claimable
  <2> QED
    BY <2>1 DEF JL!Init, Holders, Armed, Gone
<1>2. IInv /\ [Next]_vars => [JL!Next]_(JL!vars)
  <2> SUFFICES ASSUME IInv, [Next]_vars PROVE JL!Next \/ UNCHANGED JL!vars
    OBVIOUS
  <2>1. TypeOK /\ TaskInv
    BY DEF IInv
  <2>2. CASE Claim
    <3>1. PICK js \in SUBSET Jobs : js = Due
      BY DEF Due
    <3>2. JL!Start(js)
      BY <2>1, <2>2, <3>1, ClaimStarts
    <3> QED
      BY <3>1, <3>2 DEF JL!Next
  <2>3. ASSUME NEW r \in Runs, Complete(r) PROVE JL!Next
    <3>1. PICK j \in Jobs : task[r] = j
      BY <2>1, <2>3 DEF Complete, TypeOK
    <3>2. JL!Finish(j, r)
      BY <2>1, <2>3, <3>1, CompleteFinishes
    <3> QED
      BY <3>2 DEF JL!Next
  <2>4. CASE Commands
    BY <2>1, <2>4, CommandsEdit DEF JL!Next
  <2>5. CASE Boot
    BY <2>1, <2>5, BootRecovers DEF JL!Next
  <2>6. CASE Crash \/ CrashClaiming \/ \E r \in Runs : CrashCompleting(r)
    BY <2>1, <2>6, CrashStops DEF JL!Next
  <2>7. CASE Plan \/ Awake \/ NotifyChange \/ Tick \/ UNCHANGED vars
    BY <2>7, OthersStutter
  <2> QED
    BY <2>2, <2>3, <2>4, <2>5, <2>6, <2>7 DEF Next
<1> QED
  BY <1>1, <1>2, Inductive, PTL DEF Spec, ImplementsJobLock, JL!Spec

============================================================================
