------------------------------ MODULE JobLock ------------------------------
(***************************************************************************)
(* What the scheduler promises about the execution of jobs: a job is       *)
(* executed by one run at a time, and once for each time it was armed.     *)
(* A job is armed by an edit while nothing executes it, by the end of its  *)
(* execution, or, for claims a crash has left behind, by a start at which  *)
(* nothing executes; a job that is gone is never armed again.              *)
(***************************************************************************)
CONSTANTS Jobs, Runs

VARIABLES
  holders,  \* the runs that execute each job
  armed,    \* jobs that may be started
  gone      \* jobs that were deleted

vars == <<holders, armed, gone>>

Free(j) == holders[j] = {}

Init == /\ holders = [j \in Jobs |-> {}]
        /\ armed = {}
        /\ gone = {}

\* Start some armed jobs, each with a run of its own that executes no job.
Start(js) ==
  /\ js \subseteq armed
  /\ \A j \in js : Free(j)
  /\ \E run \in [js -> Runs] :
       /\ \A i, j \in js : run[i] = run[j] => i = j
       /\ \A i \in Jobs, j \in js : run[j] \notin holders[i]
       /\ holders' = [j \in Jobs |-> IF j \in js THEN {run[j]} ELSE holders[j]]
  /\ armed' = armed \ js
  /\ UNCHANGED gone

\* The execution ends; the job may be armed for its next time.
Finish(j, r) ==
  /\ holders[j] = {r}
  /\ holders' = [holders EXCEPT ![j] = {}]
  /\ armed' \in {armed, armed \cup ({j} \ gone)}
  /\ UNCHANGED gone

\* An edit of a job that nothing executes may arm it or not.
Edit(j) ==
  /\ j \notin gone
  /\ armed' \in {armed \ {j}, armed \cup {j}}
  /\ j \in armed' => Free(j)
  /\ UNCHANGED <<holders, gone>>

\* An execution under way goes on.
Delete(j) ==
  /\ j \notin gone
  /\ gone' = gone \cup {j}
  /\ armed' = armed \ {j}
  /\ UNCHANGED holders

\* All executions end at once, and what was about to start may be lost.
Stop ==
  /\ holders' = [j \in Jobs |-> {}]
  /\ armed' \subseteq armed
  /\ UNCHANGED gone

Recover ==
  /\ \A j \in Jobs : Free(j)
  /\ armed \subseteq armed'
  /\ armed' \subseteq Jobs \ gone
  /\ UNCHANGED <<holders, gone>>

Next == \/ \E js \in SUBSET Jobs : Start(js)
        \/ \E j \in Jobs : Edit(j) \/ Delete(j) \/ \E r \in Runs : Finish(j, r)
        \/ Stop
        \/ Recover

Spec == Init /\ [][Next]_vars
============================================================================
