------------------------------ MODULE TeamRun ------------------------------
(***************************************************************************)
(* One run of a team: the leader's turn in the window delegates to agents, *)
(* the orchestrator creates a task and spawns a stream for each of them,   *)
(* the window turns the end of a stream into a report, the last report     *)
(* starts the leader's synthesis; the user may abort the run at any time,  *)
(* and the application may stop and be started again.                      *)
(*                                                                         *)
(* Code: src-tauri/src/services/{team_orchestrator, team_tasks,            *)
(* team_synthesis}.rs, db/team_operations.rs, api.rs (RunRegistry), and    *)
(* src/stores/teamChatFlowStore.ts in the window.  A database function     *)
(* holds the connection's mutex and is one step; the commands run on a     *)
(* thread pool and interleave between those steps.                         *)
(***************************************************************************)
EXTENDS Naturals, Sequences

CONSTANTS
  Agents,     \* the agents a run can delegate to, each at most once
  MaxCrashes  \* bound on the stops of the application

ASSUME BoundAssumption == MaxCrashes \in Nat

VARIABLES
  \* the database
  status,    \* team_runs.status
  task,      \* team_tasks.status of each agent's task, "none" without one
  \* the delegation: the leader's turn in the window, then execute_delegation
  pc,
  todo,      \* agents without a task yet
  at,        \* the agent being served
  \* the orchestrator's tasks and the registry of abort handles
  stream,
  registry,  \* agents whose request is in the RunRegistry
  report,    \* the handle_report of an agent's report, up to the synthesis
  \* the window
  map,       \* agentStreamMap: "temp" under the temporary key, "real" under the request id
  synthMap,  \* agentStreamMap has the synthesis
  active,    \* the run is shown as running, so it can be aborted
  events,    \* emitted to the window, in order
  \* abort_team_run
  abort,
  doomed,    \* tasks of its snapshot still to cancel
  known,     \* those that had a request id in it
  calm,      \* history: the delegation was over when the abort began
  crashes

runVars    == <<status, task>>
deleVars   == <<pc, todo, at>>
spawnVars  == <<stream, registry>>
windowVars == <<map, synthMap, active>>
abortVars  == <<abort, doomed, known, calm>>
vars == <<runVars, deleVars, spawnVars, report, windowVars, events, abortVars, crashes>>

Ended    == {"completed", "failed", "cancelled"}
Statuses == Ended \cup {"running", "waiting_reports", "synthesizing"}
Event    == [of : {"stream", "synthesis"}, agent : Agents] \cup [of : {"reports", "cancelled"}]

TypeOK ==
  /\ status \in Statuses
  /\ task \in [Agents -> Ended \cup {"none", "queued", "running"}]
  /\ pc \in {"leader", "create", "launch", "register", "map", "over"}
  /\ todo \subseteq Agents
  /\ pc \in {"launch", "register"} => at \in Agents /\ task[at] # "none"
  /\ stream \in [Agents -> {"none", "running", "failing", "over"}]
  /\ registry \subseteq Agents
  /\ report \in [Agents -> {"none", "sent", "check", "start", "synthesis", "over"}]
  /\ map \in [Agents -> {"none", "temp", "real"}]
  /\ synthMap \in BOOLEAN
  /\ active \in BOOLEAN
  /\ events \in Seq(Event)
  /\ abort \in {"none", "tasks", "over"}
  /\ doomed \subseteq Agents
  /\ known \subseteq Agents
  /\ calm \in BOOLEAN
  /\ crashes \in 0..MaxCrashes

Nobody == [a \in Agents |-> "none"]

\* sendTeamMessageFlow has created the run and streams the leader's turn.
Init ==
  /\ status = "running" /\ task = Nobody
  /\ pc = "leader" /\ todo = {} /\ at \in Agents
  /\ stream = Nobody /\ registry = {} /\ report = Nobody
  /\ map = Nobody /\ synthMap = FALSE /\ active = TRUE /\ events = <<>>
  /\ abort = "none" /\ doomed = {} /\ known = {} /\ calm = FALSE
  /\ crashes = 0

Emit(e) == events' = Append(events, e)

----------------------------------------------------------------------------
(* The leader's turn.                                                      *)

\* The leader answers without delegating; or its team was left while it used
\* tools; or its turn fails or is aborted, which leaves the run as it is.
LeaderEnds ==
  /\ pc = "leader"
  /\ pc' = "over"
  /\ \/ status' = "completed" /\ active' = FALSE
     \/ status' = "cancelled" /\ UNCHANGED active
     \/ UNCHANGED <<status, active>>
  /\ UNCHANGED <<task, todo, at, spawnVars, report, map, synthMap, events, abortVars, crashes>>

\* The leader calls delegate with agents S: the window shows their bubbles under
\* temporary keys and invokes execute_delegation.
Delegate(S) ==
  /\ pc = "leader"
  /\ pc' = "create"
  /\ todo' = S
  /\ map' = [a \in Agents |-> IF a \in S THEN "temp" ELSE map[a]]
  /\ UNCHANGED <<runVars, at, spawnVars, report, synthMap, active, events, abortVars, crashes>>

\* execute_delegation returns an error: the window drops the temporary keys.
GiveUp ==
  /\ pc' = "over"
  /\ map' = [a \in Agents |-> IF map[a] = "temp" THEN "none" ELSE map[a]]

\* spawn_agent_tasks, first part of a turn of the loop: the task is created;
\* when the agent's context cannot be resolved the delegation ends here.
CreateTask(a) ==
  /\ pc = "create"
  /\ a \in todo
  /\ todo' = todo \ {a}
  /\ at' = a
  /\ task' = [task EXCEPT ![a] = "queued"]
  /\ \/ pc' = "launch" /\ UNCHANGED map
     \/ GiveUp
  /\ UNCHANGED <<status, spawnVars, report, synthMap, active, events, abortVars, crashes>>

\* Second part: the task is running, its request id is stored and the stream is
\* spawned; without API settings the delegation ends before that.  A stop of the
\* run between these three is as good as one after them: the registry does not
\* know the stream yet.
Launch ==
  /\ pc = "launch"
  /\ task' = [task EXCEPT ![at] = "running"]
  /\ \/ /\ pc' = "register"
        /\ stream' = [stream EXCEPT ![at] = "running"]
        /\ UNCHANGED map
     \/ GiveUp /\ UNCHANGED stream
  /\ UNCHANGED <<status, todo, at, registry, report, synthMap, active, events, abortVars, crashes>>

\* Third part: the stream that was spawned is registered, even when it has ended.
Register ==
  /\ pc = "register"
  /\ pc' = "create"
  /\ registry' = registry \cup {at}
  /\ UNCHANGED <<runVars, todo, at, stream, report, windowVars, events, abortVars, crashes>>

\* execute_delegation after the loop, whatever the run has become meanwhile.
DelegationReturns ==
  /\ pc = "create"
  /\ todo = {}
  /\ status' = "waiting_reports"
  /\ pc' = "map"
  /\ UNCHANGED <<task, todo, at, spawnVars, report, windowVars, events, abortVars, crashes>>

\* The window learns the task ids and moves the bubbles to the request ids.
MapStreams ==
  /\ pc = "map"
  /\ pc' = "over"
  /\ map' = [a \in Agents |-> IF map[a] = "temp" THEN "real" ELSE map[a]]
  /\ UNCHANGED <<runVars, todo, at, spawnVars, report, synthMap, active, events, abortVars, crashes>>

----------------------------------------------------------------------------
(* The streams of the agents.                                              *)

\* The stream ends: chat-stream-done is emitted on success only.
StreamEnds(a) ==
  /\ stream[a] = "running"
  /\ registry' = registry \ {a}
  /\ \/ /\ stream' = [stream EXCEPT ![a] = "over"]
        /\ Emit([of |-> "stream", agent |-> a])
     \/ /\ stream' = [stream EXCEPT ![a] = "failing"]
        /\ UNCHANGED events
  /\ UNCHANGED <<runVars, deleVars, report, windowVars, abortVars, crashes>>

\* Faulty: The error of a stream fails the whole run, whatever it has become.
StreamFailsRun(a) ==
  /\ stream[a] = "failing"
  /\ stream' = [stream EXCEPT ![a] = "over"]
  /\ task' = [task EXCEPT ![a] = "failed"]
  /\ status' = "failed"
  /\ UNCHANGED <<deleVars, registry, report, windowVars, events, abortVars, crashes>>

\* The error path writes the task; nobody looks whether it was the last one.
StreamFails(a) ==
  /\ stream[a] = "failing"
  /\ stream' = [stream EXCEPT ![a] = "over"]
  /\ task' = [task EXCEPT ![a] = "failed"]
  /\ UNCHANGED <<status, deleVars, registry, report, windowVars, events, abortVars, crashes>>

----------------------------------------------------------------------------
(* Reports and the synthesis.                                              *)

\* Faulty: A report is recorded, but nobody looks whether it was the last one.
ReportAlone(a) ==
  /\ report[a] = "sent"
  /\ task' = [task EXCEPT ![a] = "completed"]
  /\ report' = [report EXCEPT ![a] = "over"]
  /\ UNCHANGED <<status, deleVars, spawnVars, windowVars, events, abortVars, crashes>>

\* handle_report: the task is completed, whatever it was.
Report(a) ==
  /\ report[a] = "sent"
  /\ task' = [task EXCEPT ![a] = "completed"]
  /\ report' = [report EXCEPT ![a] = "check"]
  /\ UNCHANGED <<status, deleVars, spawnVars, windowVars, events, abortVars, crashes>>

AllDone == \A a \in Agents : task[a] \in Ended \cup {"none"}

\* Faulty: One report is enough.
CheckAny(a) ==
  /\ report[a] = "check"
  /\ report' = [report EXCEPT ![a] = IF \E b \in Agents : task[b] \in Ended THEN "start" ELSE "over"]
  /\ UNCHANGED <<runVars, deleVars, spawnVars, windowVars, events, abortVars, crashes>>

\* check_and_synthesize reads the tasks of the run ...
Check(a) ==
  /\ report[a] = "check"
  /\ report' = [report EXCEPT ![a] = IF AllDone THEN "start" ELSE "over"]
  /\ UNCHANGED <<runVars, deleVars, spawnVars, windowVars, events, abortVars, crashes>>

\* ... and starts the synthesis when all are done, whatever the run has become;
\* it fails when the leader's context or the API settings are missing.
StartSynthesis(a) ==
  /\ report[a] = "start"
  /\ status' = "synthesizing"
  /\ \/ /\ report' = [report EXCEPT ![a] = "synthesis"]
        /\ Emit([of |-> "reports"])
     \/ /\ report' = [report EXCEPT ![a] = "over"]
        /\ UNCHANGED events
  /\ UNCHANGED <<task, deleVars, spawnVars, windowVars, abortVars, crashes>>

\* The synthesis' stream ends: the run is completed, or failed, and the window told.
SynthesisEnds(a) ==
  /\ report[a] = "synthesis"
  /\ report' = [report EXCEPT ![a] = "over"]
  /\ status' \in {"completed", "failed"}
  /\ Emit([of |-> "synthesis", agent |-> a])
  /\ UNCHANGED <<task, deleVars, spawnVars, windowVars, abortVars, crashes>>

----------------------------------------------------------------------------
(* The window's listeners.                                                 *)

\* chat-stream-done: only a stream known under its request id is reported.
OnStreamDone(a) ==
  /\ IF map[a] = "real"
     THEN /\ report' = [report EXCEPT ![a] = "sent"]
          /\ map' = [map EXCEPT ![a] = "none"]
     ELSE UNCHANGED <<report, map>>
  /\ UNCHANGED <<status, synthMap, active>>

\* team-all-reports-in: a bubble for the synthesis.
OnAllReports ==
  /\ synthMap' = TRUE
  /\ UNCHANGED <<status, report, map, active>>

\* team-leader-synthesis-done: the run is marked completed, also after an error.
OnSynthesisDone ==
  /\ IF synthMap
     THEN synthMap' = FALSE /\ status' = "completed" /\ active' = FALSE
     ELSE UNCHANGED <<synthMap, status, active>>
  /\ UNCHANGED <<report, map>>

\* team-run-cancelled: every stream of the run is forgotten.
OnCancelled ==
  /\ map' = [a \in Agents |-> "none"]
  /\ synthMap' = FALSE
  /\ active' = FALSE
  /\ UNCHANGED <<status, report>>

OnEvent ==
  /\ events # <<>>
  /\ LET e == Head(events)
     IN CASE e.of = "stream"    -> OnStreamDone(e.agent)
          [] e.of = "reports"   -> OnAllReports
          [] e.of = "synthesis" -> OnSynthesisDone
          [] e.of = "cancelled" -> OnCancelled
  /\ events' = Tail(events)
  /\ UNCHANGED <<task, deleVars, spawnVars, abortVars, crashes>>

----------------------------------------------------------------------------
(* The abort.                                                              *)

\* abort_team_run reads the tasks ...
Abort ==
  /\ active
  /\ abort = "none"
  /\ abort' = "tasks"
  /\ doomed' = {a \in Agents : task[a] \in {"queued", "running"}}
  /\ known' = {a \in Agents : stream[a] # "none"}
  /\ calm' = (pc = "over")
  /\ UNCHANGED <<runVars, deleVars, spawnVars, report, windowVars, events, crashes>>

\* Faulty: An abort that cancels the task without stopping its stream.
AbortQuietly(a) ==
  /\ abort = "tasks"
  /\ a \in doomed
  /\ doomed' = doomed \ {a}
  /\ task' = [task EXCEPT ![a] = "cancelled"]
  /\ UNCHANGED <<status, deleVars, spawnVars, report, windowVars, events, abort, known, calm, crashes>>

\* ... for each that had not ended, aborts the stream it finds registered and
\* cancels the task, whatever it has become ...
AbortTask(a) ==
  /\ abort = "tasks"
  /\ a \in doomed
  /\ doomed' = doomed \ {a}
  /\ IF a \in known \cap registry
     THEN /\ registry' = registry \ {a}
          /\ stream' = [stream EXCEPT ![a] = "over"]
     ELSE UNCHANGED spawnVars
  /\ task' = [task EXCEPT ![a] = "cancelled"]
  /\ UNCHANGED <<status, deleVars, report, windowVars, events, abort, known, calm, crashes>>

\* ... and cancels the run.
AbortEnds ==
  /\ abort = "tasks"
  /\ doomed = {}
  /\ abort' = "over"
  /\ status' = "cancelled"
  /\ Emit([of |-> "cancelled"])
  /\ UNCHANGED <<task, deleVars, spawnVars, report, windowVars, doomed, known, calm, crashes>>

----------------------------------------------------------------------------
(* Stops of the application.                                               *)

\* Faulty: Recovery forgets the tasks that are still queued.
RecoverRunning ==
  IF status = "running"
  THEN /\ status' = "failed"
       /\ task' = [a \in Agents |-> IF task[a] = "running" THEN "failed" ELSE task[a]]
  ELSE UNCHANGED runVars

\* Faulty: Recovery fails every task of the run.
RecoverAll ==
  /\ task' = [a \in Agents |-> IF task[a] = "none" THEN "none" ELSE "failed"]
  /\ status' = IF status = "running" THEN "failed" ELSE status

\* The process stops and is started again.  recover_runs fails the run, and its
\* tasks that had not ended, only when its status is running.
RecoverRuns ==
  IF status = "running"
  THEN /\ status' = "failed"
       /\ task' = [a \in Agents |-> IF task[a] \in {"queued", "running"} THEN "failed" ELSE task[a]]
  ELSE UNCHANGED runVars

Restart ==
  /\ crashes < MaxCrashes
  /\ crashes' = crashes + 1
  /\ RecoverRuns
  /\ pc' = "over" /\ todo' = {}
  /\ stream' = Nobody /\ registry' = {} /\ report' = Nobody
  /\ map' = Nobody /\ synthMap' = FALSE /\ active' = FALSE /\ events' = <<>>
  /\ abort' = "none" /\ doomed' = {} /\ known' = {} /\ calm' = FALSE
  /\ UNCHANGED at

----------------------------------------------------------------------------
Next ==
  \/ LeaderEnds
  \/ \E S \in SUBSET Agents : Delegate(S)
  \/ \E a \in Agents :
       \/ CreateTask(a) \/ StreamEnds(a) \/ StreamFails(a)
       \/ Report(a) \/ Check(a) \/ StartSynthesis(a) \/ SynthesisEnds(a) \/ AbortTask(a)
  \/ Launch \/ Register \/ DelegationReturns \/ MapStreams
  \/ OnEvent
  \/ Abort \/ AbortEnds
  \/ Restart

Spec == Init /\ [][Next]_vars

----------------------------------------------------------------------------
(* Properties.                                                             *)

\* The leader never summarizes before the last task ended: from the moment a
\* report has seen all tasks done until its synthesis is over, the delegation is
\* over and every task has ended.  (check_and_synthesize counts the tasks that
\* exist, while spawn_agent_tasks creates them one by one.)
SynthesisAfterAll ==
  (\E a \in Agents : report[a] \in {"start", "synthesis"}) => pc = "over" /\ AllDone

\* What may still move a run that waits for reports: a stream that has to end,
\* a report on its way to the check or past it, an end that the window has not
\* handled under its request id (or had handled before it knew that id).
Ahead(a) ==
  \/ stream[a] \in {"running", "failing"}
  \/ stream[a] = "over" /\ map[a] = "real"
  \/ report[a] \in {"sent", "check", "start"}

\* The status of a run fits its tasks.  A run that is over, other than by an
\* abort, leaves no task behind as queued or running, also when it was recovered
\* after a stop.  And a run that delegated and waits for reports, neither aborted
\* nor stopped, waits for somebody, or for a task that failed: however reports
\* that are recorded and checked at once interleave, one of them sees them all.
StatusFitsTasks ==
  /\ status \in {"completed", "failed"} => AllDone
  /\ status = "waiting_reports" /\ pc = "over" /\ abort = "none" /\ crashes = 0 =>
       \/ \E a \in Agents : Ahead(a) \/ task[a] = "failed"
       \/ task = Nobody

\* An abort of a run whose delegation is over ends every stream of an agent:
\* each one that runs is in the registry, and in the abort's snapshot.  The run
\* then stays cancelled, unless the check of a report was over too: only a
\* synthesis that is starting, or a delegation, makes an aborted run active again.
AbortStops ==
  abort = "over" /\ calm =>
    /\ \A a \in Agents : stream[a] # "running"
    /\ (\A a \in Agents : report[a] \in {"none", "sent", "check"}) => status = "cancelled"

\* A report that was recorded stays recorded, except that an abort in progress
\* may cancel its task: no late error, delegation or recovery takes it back.
OnlyAbortDiscardsReports ==
  [][\A a \in Agents :
       (task[a] = "completed" /\ task'[a] # "completed") => (abort = "tasks")]_vars
============================================================================
