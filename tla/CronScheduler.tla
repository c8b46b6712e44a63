--------------------------- MODULE CronScheduler ---------------------------
(***************************************************************************)
(* Scheduled jobs of agents: the scheduler's loop that claims due jobs and *)
(* sleeps until the next one, the tasks that execute them, and the user    *)
(* (or an agent's tool) who edits jobs meanwhile; across crashes of the    *)
(* application and its next start.                                         *)
(*                                                                         *)
(* Code: src-tauri/src/services/cron_scheduler.rs,                         *)
(* src-tauri/src/db/cron_operations.rs, commands/cron_commands.rs.  Every  *)
(* database function holds the connection's mutex, so it is one step, but  *)
(* it is no transaction: a crash may cut it between two statements.        *)
(***************************************************************************)
EXTENDS Integers, FiniteSets

CONSTANTS
  Jobs,       \* ids of jobs; a deleted id does not come back
  Runs,       \* ids of runs; an id is reused when its run is over
  Schedules,  \* the schedules the user chooses from: [kind, val, off]
  Stale,      \* age a claim must exceed to be reset at start (30 minutes)
  Default,    \* the sleep when no job can be claimed (60 seconds)
  MaxTime,    \* bound on the clock
  MaxEdits,   \* bound on the commands issued
  MaxCrashes, \* bound on the crashes
  None

ASSUME ScheduleAssumption ==
  /\ Schedules # {}
  /\ Schedules \subseteq [kind : {"at", "every", "cron"}, val : Nat \ {0}, off : Int]
ASSUME BoundAssumption == /\ {Stale, Default, MaxTime, MaxEdits, MaxCrashes} \subseteq Nat
                          /\ None \notin Jobs /\ None \notin Nat

VARIABLES
  \* cron_jobs
  row,      \* "new" (not created yet), "there" or "deleted"
  sch,      \* schedule_type and schedule_value
  on,       \* enabled
  next,     \* next_run_at: [t, off], the instant and the offset it is written in
  claim,    \* claimed_at
  \* cron_runs
  running,  \* the job of a run whose status is running
  \* the process
  phase,    \* where the scheduler's loop is
  wake,     \* when its sleep ends
  permit,   \* the permit of its Notify
  owed,     \* commands that wrote to the database and have yet to notify
  task,     \* the job the task of a run is executing
  \* bounds and history
  now,
  boot,     \* when the process was last started
  done,     \* jobs completed since the sleep was computed
  edits,
  crashes

jobVars  == <<row, sch, on, next, claim>>
loopVars == <<phase, wake, permit>>
vars == <<jobVars, running, loopVars, owed, task, now, boot, done, edits, crashes>>

Times   == 0..MaxTime
Instant == [t : Int, off : Int]

TypeOK ==
  /\ row \in [Jobs -> {"new", "there", "deleted"}]
  /\ sch \in [Jobs -> Schedules]
  /\ on \in [Jobs -> BOOLEAN]
  /\ next \in [Jobs -> Instant \cup {None}]
  /\ claim \in [Jobs -> Times \cup {None}]
  /\ running \in [Runs -> Jobs \cup {None}]
  /\ \A r \in Runs : running[r] # None => row[running[r]] = "there"
  /\ phase \in {"down", "coalesce", "claim", "plan", "sleep"}
  /\ wake \in Nat
  /\ permit \in BOOLEAN
  /\ owed \in 0..edits
  /\ task \in [Runs -> Jobs \cup {None}]
  /\ now \in Times
  /\ boot \in Times
  /\ done \subseteq Jobs
  /\ edits \in 0..MaxEdits
  /\ crashes \in 0..MaxCrashes

Init ==
  /\ row = [j \in Jobs |-> "new"]
  /\ sch = [j \in Jobs |-> CHOOSE s \in Schedules : TRUE]
  /\ on = [j \in Jobs |-> FALSE]
  /\ next = [j \in Jobs |-> None]
  /\ claim = [j \in Jobs |-> None]
  /\ running = [r \in Runs |-> None]
  /\ phase = "down"
  /\ wake = 0
  /\ permit = FALSE
  /\ owed = 0
  /\ task = [r \in Runs |-> None]
  /\ now = 0
  /\ boot = 0
  /\ done = {}
  /\ edits = 0
  /\ crashes = 0

----------------------------------------------------------------------------
(* Schedules.                                                              *)

\* compute_next_run_at: an at schedule keeps the text the user gave, with its
\* offset; every counts from the given time; cron takes the next slot after it.
ComputeNextRunAt(s, from) ==
  CASE s.kind = "at"    -> [t |-> s.val, off |-> s.off]
    [] s.kind = "every" -> [t |-> from + s.val, off |-> 0]
    [] s.kind = "cron"  -> [t |-> (from \div s.val + 1) * s.val, off |-> 0]

\* SQL compares timestamps as text: what it compares is the digits, the instant
\* shifted by the offset it is written in.
Digits(n) == n.t + n.off

Claimable(j) == row[j] = "there" /\ on[j] /\ next[j] # None /\ claim[j] = None

Due == {j \in Jobs : Claimable(j) /\ Digits(next[j]) <= now}

----------------------------------------------------------------------------
(* The scheduler.                                                          *)

\* reset_stale_claims, at start: claims older than Stale are released, and the
\* runs of those jobs that are still running fail.
StaleJobs == {j \in Jobs : row[j] = "there" /\ claim[j] # None /\ claim[j] < now - Stale}

\* Faulty: no claim is reset; or the run of one that is, is left running.
BootKeepsClaims ==
  /\ phase = "down"
  /\ phase' = "coalesce"
  /\ boot' = now
  /\ UNCHANGED <<jobVars, running, wake, permit, owed, task, now, done, edits,
                 crashes>>
BootForgetsRuns ==
  /\ phase = "down"
  /\ phase' = "coalesce"
  /\ boot' = now
  /\ claim' = [j \in Jobs |-> IF j \in StaleJobs THEN None ELSE claim[j]]
  /\ UNCHANGED <<row, sch, on, next, running, wake, permit, owed, task, now,
                 done, edits, crashes>>

Boot ==
  /\ phase = "down"
  /\ phase' = "coalesce"
  /\ boot' = now
  /\ claim' = [j \in Jobs |-> IF j \in StaleJobs THEN None ELSE claim[j]]
  /\ running' = [r \in Runs |->
                   IF running[r] \in StaleJobs THEN None ELSE running[r]]
  /\ UNCHANGED <<row, sch, on, next, wake, permit, owed, task, now, done, edits,
                 crashes>>

FreeRuns == {r \in Runs : running[r] = None /\ task[r] = None}

\* claim_due_jobs: claimed_at first, then a run, for each due job; each pair
\* becomes a task.  The misfires of the start are claimed in the same way.
Claimed(js, run) ==
  /\ claim' = [j \in Jobs |-> IF j \in js THEN now ELSE claim[j]]
  /\ running' = [r \in Runs |->
                   IF \E j \in js : run[j] = r THEN CHOOSE j \in js : run[j] = r
                                               ELSE running[r]]

Distinct(run) == \A i, j \in DOMAIN run : i # j => run[i] # run[j]

\* Faulty: a job that is executing is claimed again.
ClaimAgain ==
  /\ phase \in {"coalesce", "claim"}
  /\ LET js == {j \in Jobs : row[j] = "there" /\ on[j] /\ next[j] # None
                               /\ Digits(next[j]) <= now}
     IN  \E run \in [js -> FreeRuns] :
           /\ Distinct(run)
           /\ Claimed(js, run)
           /\ task' = [r \in Runs |-> IF \E j \in js : run[j] = r
                                      THEN running'[r] ELSE task[r]]
  /\ phase' = IF phase = "coalesce" THEN "claim" ELSE "plan"
  /\ UNCHANGED <<row, sch, on, next, wake, permit, owed, now, boot, done, edits,
                 crashes>>

Claim ==
  /\ phase \in {"coalesce", "claim"}
  /\ \E run \in [Due -> FreeRuns] :
       /\ Distinct(run)
       /\ Claimed(Due, run)
       /\ task' = [r \in Runs |-> IF \E j \in Due : run[j] = r
                                  THEN running'[r] ELSE task[r]]
  /\ phase' = IF phase = "coalesce" THEN "claim" ELSE "plan"
  /\ UNCHANGED <<row, sch, on, next, wake, permit, owed, now, boot, done, edits,
                 crashes>>

\* Faulty: the sleep is for the default whatever is scheduled.
PlanDefault ==
  /\ phase = "plan"
  /\ phase' = "sleep"
  /\ done' = {}
  /\ wake' = now + Default
  /\ UNCHANGED <<jobVars, running, permit, owed, task, now, boot, edits, crashes>>

\* compute_sleep_duration: until the smallest next_run_at (as text) of the jobs
\* that can be claimed; at once if that is past.
Plan ==
  /\ phase = "plan"
  /\ phase' = "sleep"
  /\ done' = {}
  /\ LET js == {j \in Jobs : Claimable(j)}
     IN  IF js = {} THEN wake' = now + Default
         ELSE \E j \in js :
                /\ \A i \in js : Digits(next[j]) <= Digits(next[i])
                /\ wake' = IF next[j].t <= now THEN now ELSE next[j].t
  /\ UNCHANGED <<jobVars, running, permit, owed, task, now, boot, edits, crashes>>

\* The select: either branch, if both are ready.
Awake ==
  /\ phase = "sleep"
  /\ \/ permit /\ permit' = FALSE
     \/ wake <= now /\ UNCHANGED permit
  /\ phase' = "claim"
  /\ UNCHANGED <<jobVars, running, wake, owed, task, now, boot, done, edits,
                 crashes>>

----------------------------------------------------------------------------
(* Execution.                                                              *)

\* complete_cron_run, by finish_run, however the execution went: the run is
\* over; the job, read again now, is rescheduled and released.  The task of a
\* job that was deleted finds nothing.
Reschedule(j) ==
  IF sch[j].kind = "at"
  THEN /\ on' = [on EXCEPT ![j] = FALSE]
       /\ next' = [next EXCEPT ![j] = None]
  ELSE /\ next' = [next EXCEPT ![j] = ComputeNextRunAt(sch[j], now)]
       /\ UNCHANGED on

Complete(r) ==
  /\ task[r] # None
  /\ LET j == task[r] IN
       /\ running' = [running EXCEPT ![r] = None]
       /\ IF row[j] = "there"
          THEN /\ Reschedule(j)
               /\ claim' = [claim EXCEPT ![j] = None]
               /\ done' = done \cup {j}
          ELSE UNCHANGED <<on, next, claim, done>>
  /\ task' = [task EXCEPT ![r] = None]
  /\ UNCHANGED <<row, sch, loopVars, owed, now, boot, edits, crashes>>

----------------------------------------------------------------------------
(* Commands.  Each writes to the database, and then notifies the loop.     *)

Command ==
  /\ phase # "down"
  /\ edits < MaxEdits
  /\ edits' = edits + 1
  /\ owed' = owed + 1
  /\ UNCHANGED <<loopVars, task, now, boot, done, crashes>>

NextRun(s, enabled) == IF enabled THEN ComputeNextRunAt(s, now) ELSE None

CreateCronJob(j, s, enabled) ==
  /\ Command
  /\ row[j] = "new"
  /\ row' = [row EXCEPT ![j] = "there"]
  /\ sch' = [sch EXCEPT ![j] = s]
  /\ on' = [on EXCEPT ![j] = enabled]
  /\ next' = [next EXCEPT ![j] = NextRun(s, enabled)]
  /\ UNCHANGED <<claim, running>>

\* Faulty: an update releases the claim with the old time.
UpdateReleases(j, s, edited, enabled) ==
  /\ Command
  /\ row[j] = "there"
  /\ edited \/ s = sch[j]
  /\ sch' = [sch EXCEPT ![j] = s]
  /\ on' = [on EXCEPT ![j] = enabled]
  /\ next' = [next EXCEPT ![j] = NextRun(s, enabled)]
  /\ claim' = [claim EXCEPT ![j] = None]
  /\ UNCHANGED <<row, running>>

\* update_cron_job: next_run_at is computed anew only if the request names a
\* schedule (edited) or the switch changes.  A claim stays as it is.
UpdateCronJob(j, s, edited, enabled) ==
  /\ Command
  /\ row[j] = "there"
  /\ edited \/ s = sch[j]
  /\ sch' = [sch EXCEPT ![j] = s]
  /\ on' = [on EXCEPT ![j] = enabled]
  /\ next' = [next EXCEPT ![j] = IF edited \/ ~enabled \/ ~on[j]
                                 THEN NextRun(s, enabled) ELSE @]
  /\ UNCHANGED <<row, claim, running>>

ToggleCronJob(j, enabled) ==
  /\ Command
  /\ row[j] = "there"
  /\ on' = [on EXCEPT ![j] = enabled]
  /\ next' = [next EXCEPT ![j] = NextRun(sch[j], enabled)]
  /\ UNCHANGED <<row, sch, claim, running>>

\* Faulty: the runs of the job stay.
DeleteKeepsRuns(j) ==
  /\ Command
  /\ row[j] = "there"
  /\ row' = [row EXCEPT ![j] = "deleted"]
  /\ claim' = [claim EXCEPT ![j] = None]
  /\ UNCHANGED <<sch, on, next, running>>

\* The runs of the job go with it (ON DELETE CASCADE); its task goes on.
DeleteCronJob(j) ==
  /\ Command
  /\ row[j] = "there"
  /\ row' = [row EXCEPT ![j] = "deleted"]
  /\ next' = [next EXCEPT ![j] = None]
  /\ on' = [on EXCEPT ![j] = FALSE]
  /\ claim' = [claim EXCEPT ![j] = None]
  /\ running' = [r \in Runs |-> IF running[r] = j THEN None ELSE running[r]]
  /\ UNCHANGED sch

NotifyChange ==
  /\ owed > 0
  /\ owed' = owed - 1
  /\ permit' = TRUE
  /\ UNCHANGED <<jobVars, running, phase, wake, task, now, boot, done, edits,
                 crashes>>

----------------------------------------------------------------------------
(* Time and crashes.                                                       *)

Tick ==
  /\ now < MaxTime
  /\ now' = now + 1
  /\ UNCHANGED <<jobVars, running, loopVars, owed, task, boot, done, edits,
                 crashes>>

Down ==
  /\ phase # "down"
  /\ crashes < MaxCrashes
  /\ crashes' = crashes + 1
  /\ phase' = "down"
  /\ permit' = FALSE
  /\ owed' = 0
  /\ task' = [r \in Runs |-> None]
  /\ UNCHANGED <<row, sch, on, next, wake, now, boot, done, edits>>

Crash == Down /\ UNCHANGED <<claim, running>>

\* In claim_due_jobs, after some of the due jobs and the claim of one more.
CrashClaiming ==
  /\ phase \in {"coalesce", "claim"}
  /\ Down
  /\ \E js \in SUBSET Due : \E j \in Due \ js : \E run \in [js -> FreeRuns] :
       /\ Distinct(run)
       /\ LET both == js \cup {j} IN
            /\ claim' = [i \in Jobs |-> IF i \in both THEN now ELSE claim[i]]
            /\ running' = [r \in Runs |->
                             IF \E i \in js : run[i] = r
                             THEN CHOOSE i \in js : run[i] = r ELSE running[r]]

\* In complete_cron_run, after the run and before the job.
CrashCompleting(r) ==
  /\ task[r] # None
  /\ Down
  /\ running' = [running EXCEPT ![r] = None]
  /\ UNCHANGED claim

----------------------------------------------------------------------------
Commands ==
  \E j \in Jobs :
    \/ \E s \in Schedules, b \in BOOLEAN : CreateCronJob(j, s, b)
    \/ \E s \in Schedules, e, b \in BOOLEAN : UpdateCronJob(j, s, e, b)
    \/ \E b \in BOOLEAN : ToggleCronJob(j, b)
    \/ DeleteCronJob(j)

Next ==
  \/ Boot \/ Claim \/ Plan \/ Awake
  \/ \E r \in Runs : Complete(r) \/ CrashCompleting(r)
  \/ Commands \/ NotifyChange
  \/ Tick \/ Crash \/ CrashClaiming

Spec == Init /\ [][Next]_vars

----------------------------------------------------------------------------
(* Properties.                                                             *)

\* A job is never executed twice at the same time, whatever is edited while it
\* runs: nothing but its completion, or a restart, releases its claim.
OneRunPerJob ==
  \A r, q \in Runs : task[r] = task[q] /\ task[r] # None => r = q

\* A run recorded as running belongs to a claimed job, in every state a crash
\* can leave behind: otherwise nothing would ever finish it.
RunningMeansClaimed ==
  \A r \in Runs : running[r] # None => claim[running[r]] # None

\* cron.md 7, commands wake the loop: the sleep is never longer than it should
\* be for a job that was edited, or that was there when it was computed.  Times
\* written with different offsets are left out: the least text (Plan) need not
\* be the earliest time.
Asleep == phase = "sleep" /\ ~permit /\ owed = 0
OneOffset == \A i, j \in Jobs : Claimable(i) /\ Claimable(j) => next[i].off = next[j].off

WakesInTime ==
  Asleep /\ OneOffset =>
    \A j \in Jobs \ done : Claimable(j) => wake <= next[j].t \/ wake <= now

\* A claim nobody is working on is recent: its age did not exceed Stale when the
\* process was started.
OrphansAreFresh ==
  phase # "down" =>
    \A j \in Jobs : claim[j] # None /\ (\A r \in Runs : task[r] # j)
                      => claim[j] >= boot - Stale

\* Whatever statement a crash falls between, the claims that are left are those
\* a later start or completion releases, and no job is executed twice.
ClaimsAgree == TypeOK /\ OneRunPerJob /\ RunningMeansClaimed /\ OrphansAreFresh

\* The claims implement a lock: a job is executed by one run at a time, and once
\* for each time it was armed.  An edit, also one while the job is executed or
\* after a crash, does not start it a second time, and a job that was deleted
\* while it was executed is not started again by the end of that execution.
JL == INSTANCE JobLock WITH
        holders <- [j \in Jobs |-> {r \in Runs : task[r] = j}],
        armed   <- {j \in Jobs : Claimable(j)},
        gone    <- {j \in Jobs : row[j] = "deleted"}

ImplementsJobLock == JL!Spec
============================================================================
