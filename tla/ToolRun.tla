------------------------------ MODULE ToolRun -------------------------------
(***************************************************************************)
(* The tools of an agent: which of them a run may use, the credentials     *)
(* they are given, and the life of one call from its row in the log to the *)
(* end of the process it started.                                          *)
(*                                                                         *)
(* Code: commands/tool_commands/*.rs, services/credential_service.rs,      *)
(* services/actor_context.rs.  The commands on TOOL_CONFIG.json and on     *)
(* credentials are not async: they run one after another on the main       *)
(* thread.  Calls of tools are async and run beside them and each other,   *)
(* so what a call has read may change before the call uses it; the process *)
(* of run_shell runs on a thread of its own.                               *)
(***************************************************************************)
EXTENDS ShellCommand, TLC

CONSTANTS
  Names,       \* names of tools that occur in a configuration
  Edited,      \* those the user edits
  Creds,       \* ids of credentials
  EnvName,     \* credential_id_to_env_var: the variable of a credential
  Requests,    \* the calls a window or an unattended run may make
  InitialJobs, \* rows of cron_jobs, or None for a row to come
  Agent,       \* the agent of the calls
  IsPosix,
  ToolTimeout, CommandTimeout, BrowserTimeout, \* of a call, by the kind of tool
  MaxTimeout,  \* the most a caller of run_shell may ask for
  MaxCalls, MaxCommands, MaxFailures, \* bounds on calls, on commands of the main
               \* thread and unattended runs, and on failed writes and ends of the process
  Configs,     \* what TOOL_CONFIG.json may hold at first
  None, Torn   \* Torn: TOOL_CONFIG.json while it is written

ASSUME ToolRunAssumption ==
  /\ {ToolTimeout, CommandTimeout, BrowserTimeout, MaxTimeout} \subseteq Nat \ {0}
  /\ MaxTimeout < CommandTimeout
  /\ {MaxCalls, MaxCommands, MaxFailures} \subseteq Nat

\* The tools of native_tool_definitions.
FileTools    == {"read_file", "write_file", "list_directory", "delete_file"}
BrowserTools == {"browser_navigate", "browser_snapshot", "browser_click", "browser_type",
                 "browser_wait", "browser_back", "browser_scroll", "browser_key",
                 "browser_select_option", "browser_hover", "browser_handle_dialog",
                 "browser_tabs", "browser_evaluate", "browser_close"}
SelfTools    == {"self_inspect", "manage_schedule"}
OrchestrationTools == {"delegate", "report"}
AutoTools    == {"read_file", "list_directory", "browser_snapshot", "browser_wait",
                 "browser_scroll", "browser_key", "browser_hover", "self_inspect"}
NativeTools  == FileTools \cup BrowserTools \cup SelfTools \cup OrchestrationTools
                  \cup {"web_search", "run_shell"}

Ks == 1..MaxCalls
Jobs == DOMAIN InitialJobs
Secret == Creds \X (0..MaxCommands)
Entry == [on : BOOLEAN, tier : {"auto", "confirm", "deny"}]
Config == [version : 1..2, tools : [Names -> Entry \cup {None}],
           allowed : {None} \cup SUBSET Creds]
Roles == {"cron", "relay"}
Writing == [op : {"write"}, new : Config]
Changing == [op : {"add", "update", "remove"}, id : Creds]
Row == [status : {"pending", "executed", "error"}, out : SUBSET Secret]
ToolCall ==
  [who : Roles \cup {"window"}, req : Requests, at : {"begun", "allowed", "waiting", "ended"},
   age : Nat, allowed : SUBSET Creds, env : SUBSET Secret, seen : SUBSET Creds,
   place : {"workspace", "persona", "category", None}, status : {"executed", "error", None},
   out : SUBSET Secret, lost : BOOLEAN]
Proc == [state : {"none", "queued", "running", "exited", "killed"}, pid : BOOLEAN,
         printed : SUBSET Secret, stray : BOOLEAN]

\* A recognised start of ssh has the name of its binary in it.
ASSUME RequestAssumption ==
  \A r \in Requests :
    /\ r.tool = "run_shell" =>
         /\ r.cmd.args \in Seq(Token) /\ r.cmd.ssh \in Nat /\ r.asked \in Int
         /\ r.cmd.ssh > 0 => r.cmd.word
    /\ r.tool \in FileTools => r.scope \in {"workspace", "persona", "vault"}

ASSUME ConfigAssumption ==
  /\ Configs \subseteq Config /\ Torn \notin Config
  /\ None \notin Config \cup Entry \cup Roles \cup Writing \cup Changing \cup Row \cup ToolCall
  /\ (\A s \in SUBSET Creds : s # None) /\ None \notin Nat
  /\ None \notin {"executed", "error", "workspace", "persona", "category"}

VARIABLES
  config, view,  \* TOOL_CONFIG.json; what the window last read of it
  meta, mem, disk, \* credentials_meta.json; the store of secrets, and its file
  cmd,           \* the command the main thread is in the middle of
  conv,          \* whether the conversation of the window's calls exists
  run,           \* the role of the unattended run
  calls, log,    \* the calls made, and their rows in tool_call_logs
  proc,          \* the shell process of each call
  jobs,          \* cron_jobs: the agent of a row, and whether it is on
  leftover,      \* credentials a failure or the end of the process left in one file
  commands, failures

cfgVars  == <<config, view>>
credVars == <<meta, mem, disk, leftover>>
callVars == <<calls, log, proc>>
toolVars == <<cfgVars, credVars, cmd, conv, run, callVars, jobs, commands, failures>>

-----------------------------------------------------------------------------
\* TOOL_CONFIG.json.

DefaultEnabled(n) == n \notin OrchestrationTools
DefaultTier(n) == IF n \in AutoTools \cup OrchestrationTools THEN "auto" ELSE "confirm"

IsOn(c, n) == c.tools[n] # None /\ c.tools[n].on

\* Mutants: the old version stays; a tool of the user gets its first tier again.
NormalizeOld(c) ==
  [version |-> c.version, tools |-> c.tools, allowed |-> IF c.allowed = None THEN {} ELSE c.allowed]
NormalizeReset(c) ==
  [version |-> 2,
   tools   |-> [n \in Names |-> IF n \notin NativeTools THEN None
                                ELSE [on |-> DefaultEnabled(n) \/ IsOn(c, n), tier |-> DefaultTier(n)]],
   allowed |-> IF c.allowed = None THEN {} ELSE c.allowed]

\* normalize_tool_config: old files get the tools they miss, delete_file when
\* write_file is on, and lose names nobody knows; a tool that is on by default
\* is switched on again.
Normalize(c) ==
  LET Migrated(n) ==
        IF c.tools[n] # None THEN c.tools[n]
        ELSE IF n = "delete_file" /\ IsOn(c, "write_file") THEN [on |-> TRUE, tier |-> "confirm"]
        ELSE [on |-> DefaultEnabled(n), tier |-> DefaultTier(n)]
  IN [version |-> 2,
      tools   |-> [n \in Names |-> IF n \notin NativeTools THEN None
                                   ELSE [Migrated(n) EXCEPT !.on = @ \/ DefaultEnabled(n)]],
      allowed |-> IF c.allowed = None THEN {} ELSE c.allowed]

\* get_default_tool_config.
DefaultConfig ==
  [version |-> 2,
   tools   |-> [n \in Names |-> IF n \in NativeTools \ OrchestrationTools
                                THEN [on |-> DefaultEnabled(n), tier |-> DefaultTier(n)] ELSE None],
   allowed |-> {}]

\* read_allowed_credentials_from_dir; a file that cannot be parsed allows none.
AllowedCredentials(c) == IF c = Torn \/ c.allowed = None THEN {} ELSE c.allowed

-----------------------------------------------------------------------------
\* A call: a request, where it is, and what it has read so far.
Call(who, r) ==
  [who |-> who, req |-> r, at |-> "begun", age |-> 0, allowed |-> {}, env |-> {},
   seen |-> AllowedCredentials(config), place |-> None, status |-> None, out |-> {},
   lost |-> FALSE]  \* lost: its end did not reach the log
NoProc == [state |-> "none", pid |-> FALSE, printed |-> {}, stray |-> FALSE]

Active(k) == calls[k] # None /\ calls[k].at # "ended"
IsShell(k) == calls[k].req.tool = "run_shell"

ToolTypeOK ==
  /\ config \in Config \cup {Torn} /\ view \in Config \cup {None}
  /\ view # None => view.version = 2
  /\ meta \subseteq Creds /\ leftover \subseteq Creds
  /\ {mem, disk} \subseteq [Creds -> (0..MaxCommands) \cup {None}]
  /\ cmd \in Writing \cup Changing \cup {None} /\ run \in Roles \cup {None}
  /\ calls \in [Ks -> ToolCall \cup {None}] /\ log \in [Ks -> Row \cup {None}]
  /\ proc \in [Ks -> Proc] /\ DOMAIN jobs = Jobs
  /\ commands \in 0..MaxCommands /\ failures \in 0..MaxFailures

ToolInit ==
  /\ config \in Configs /\ view = None
  /\ meta \in SUBSET Creds /\ mem = [c \in Creds |-> IF c \in meta THEN 0 ELSE None]
  /\ disk = mem /\ leftover = {}
  /\ cmd = None /\ conv = TRUE /\ run = None
  /\ calls = [k \in Ks |-> None] /\ log = [k \in Ks |-> None]
  /\ proc = [k \in Ks |-> NoProc]
  /\ jobs = InitialJobs
  /\ commands = 0 /\ failures = 0

-----------------------------------------------------------------------------
\* Commands of the main thread.

Issue == cmd = None /\ commands < MaxCommands /\ commands' = commands + 1
Fails == failures < MaxFailures /\ failures' = failures + 1

\* What the calls under way could have read of the file since they began.
NoteAllowed(c) ==
  calls' = [k \in Ks |-> IF Active(k) THEN [calls[k] EXCEPT !.seen = @ \cup AllowedCredentials(c)]
                         ELSE calls[k]]

\* std::fs::write empties the file first: until it is done others read no
\* configuration.  It may not get that far, or no further.
StartWrite(c) ==
  \/ config' = Torn /\ cmd' = [op |-> "write", new |-> c] /\ UNCHANGED failures
  \/ Fails /\ UNCHANGED <<config, cmd>>
EndWrite ==
  /\ cmd # None /\ cmd.op = "write" /\ cmd' = None
  /\ \/ config' = cmd.new /\ NoteAllowed(cmd.new) /\ UNCHANGED failures
     \/ Fails /\ UNCHANGED <<config, calls>>
  /\ UNCHANGED <<view, credVars, conv, run, log, proc, jobs, commands>>

\* read_tool_config: what normalisation changes is written back, whether or not
\* that works.  For a file that cannot be read the window shows the defaults.
ReadConfig ==
  /\ cmd = None
  /\ view' = IF config = Torn THEN DefaultConfig ELSE Normalize(config)
  /\ IF config \in {Torn, view'} THEN view' # view /\ UNCHANGED <<config, cmd, failures>>
     ELSE StartWrite(view')
  /\ UNCHANGED <<credVars, conv, run, callVars, jobs, commands>>

\* write_tool_config: the whole file as the window has it, edited.
WriteConfig ==
  /\ Issue /\ view # None
  /\ \/ \E n \in Edited, on \in BOOLEAN :
          view' = [view EXCEPT !.tools[n] = [on |-> on, tier |-> "deny"]]
     \/ \E a \in SUBSET Creds : view' = [view EXCEPT !.allowed = a]
  /\ StartWrite(view')
  /\ UNCHANGED <<credVars, conv, run, callVars, jobs>>

\* Mutant: remove_secret leaves the secret.
SetOnly(c, v) ==
  /\ mem' = IF v = None THEN mem ELSE [mem EXCEPT ![c] = v]
  /\ disk' = mem' /\ UNCHANGED failures

\* store_secret, remove_secret: the store in memory changes at once, its file
\* when save works; the plugin saves again by itself later.
SetSecret(c, v) ==
  /\ mem' = [mem EXCEPT ![c] = v]
  /\ \/ disk' = mem' /\ UNCHANGED failures
     \/ Fails /\ UNCHANGED disk
AutoSave ==
  /\ disk # mem /\ disk' = mem
  /\ leftover' = {c \in leftover : (mem[c] # None) # (c \in meta)}
  /\ UNCHANGED <<cfgVars, meta, mem, cmd, conv, run, callVars, jobs, commands, failures>>

\* The first half of add_credential, update_credential and remove_credential:
\* the secret.  When it cannot be saved add and update end there; remove goes on.
ChangeSecret ==
  /\ Issue
  /\ \E c \in Creds :
       \/ /\ c \notin meta /\ SetSecret(c, commands')
          /\ IF disk' = mem' THEN cmd' = [op |-> "add", id |-> c] /\ UNCHANGED leftover
             ELSE UNCHANGED cmd /\ leftover' = leftover \cup {c}
       \/ /\ c \in meta /\ SetSecret(c, commands')
          /\ cmd' = IF disk' = mem' THEN [op |-> "update", id |-> c] ELSE None
          /\ UNCHANGED leftover
       \/ /\ c \in meta /\ SetSecret(c, None)
          /\ cmd' = [op |-> "remove", id |-> c]
          /\ leftover' = IF disk' = mem' THEN leftover ELSE leftover \cup {c}
  /\ UNCHANGED <<cfgVars, meta, conv, run, callVars, jobs>>

\* The second half: the metadata, which may fail to be written.
ChangeMeta ==
  /\ cmd # None /\ cmd.op \in {"add", "update", "remove"}
  /\ LET new == IF cmd.op = "remove" THEN meta \ {cmd.id} ELSE meta \cup {cmd.id}
     IN \/ /\ meta' = new /\ UNCHANGED failures
           /\ leftover' = IF disk = mem THEN leftover \ {cmd.id} ELSE leftover
        \/ /\ Fails /\ UNCHANGED meta
           /\ leftover' = IF new = meta THEN leftover ELSE leftover \cup {cmd.id}
  /\ cmd' = None
  /\ UNCHANGED <<cfgVars, mem, disk, conv, run, callVars, jobs, commands>>

\* The conversation is deleted; its rows of the log go with it.
DeleteConversation ==
  /\ conv /\ conv' = FALSE
  /\ log' = [k \in Ks |-> None]
  /\ UNCHANGED <<cfgVars, credVars, cmd, run, calls, proc, jobs, commands, failures>>

-----------------------------------------------------------------------------
\* Calls of tools.

Free == {k \in Ks : calls[k] = None}
Update(k, c) == calls' = [calls EXCEPT ![k] = c]
Rest == UNCHANGED <<cfgVars, credVars, cmd, conv, run, commands>>
logVars == <<log, failures>>

\* Mutant: only an outcome that is no error reaches the log.
LogSuccess(k, lost, status, out) ==
  /\ ~lost
  /\ log' = IF log[k] = None \/ status = "error" THEN log
            ELSE [log EXCEPT ![k] = [status |-> status, out |-> out]]
  /\ UNCHANGED failures

\* update_tool_call_log_status_impl: the outcome over the pending row, if it still
\* is there; execute_tool does not look whether it worked.
LogEnd(k, lost, status, out) ==
  /\ log' = IF log[k] = None \/ lost THEN log
            ELSE [log EXCEPT ![k] = [status |-> status, out |-> out]]
  /\ IF lost THEN log[k] # None /\ Fails ELSE UNCHANGED failures

\* execute_tool returns to the window what it wrote to the log.
End(k, status, out) ==
  \E lost \in BOOLEAN :
    /\ Update(k, [calls[k] EXCEPT !.at = "ended", !.status = status, !.out = out,
                     !.lost = lost, !.age = 0, !.allowed = {}, !.seen = {}])
    /\ LogEnd(k, lost, status, out)
EndIn(k, status, out, place) ==
  \E lost \in BOOLEAN :
    /\ Update(k, [calls[k] EXCEPT !.at = "ended", !.status = status, !.lost = lost,
                     !.place = place, !.seen = {}])
    /\ LogEnd(k, lost, status, out)

\* execute_tool, up to the dispatch.
WindowCall(r) ==
  /\ conv /\ Free # {}
  /\ LET k == CHOOSE k \in Free : \A j \in Free : k <= j
     IN Update(k, Call("window", r)) /\ log' = [log EXCEPT ![k] = [status |-> "pending", out |-> {}]]
  /\ Rest /\ UNCHANGED <<proc, jobs, failures>>

\* run_job, generate_draft: an unattended run.  It offers the model some tools, but
\* executes any the model names; execute_tool_inner_public writes no log.
StartRun(role) ==
  /\ run = None /\ commands < MaxCommands /\ commands' = commands + 1
  /\ run' = role
  /\ UNCHANGED <<cfgVars, credVars, cmd, conv, callVars, jobs, failures>>
RunCall(r) ==
  /\ run # None /\ Free # {}
  /\ \A k \in Ks : Active(k) => calls[k].who = "window"  \* one call after the other
  /\ LET k == CHOOSE k \in Free : \A j \in Free : k <= j IN Update(k, Call(run, r))
  /\ Rest /\ UNCHANGED <<logVars, proc, jobs>>
EndRun ==
  /\ run # None /\ \A k \in Ks : Active(k) => calls[k].who = "window"
  /\ run' = None
  /\ UNCHANGED <<cfgVars, credVars, cmd, conv, callVars, jobs, commands, failures>>

Begun(k, tools) == Active(k) /\ calls[k].at = "begun" /\ calls[k].req.tool \in tools
HasConversation(k) == calls[k].who # "window" \/ conv

\* Where a file call ends up: a request names a scope and a path, of which the
\* model keeps the last name, whether it is a bare name, and the directory the
\* canonical path lands in.
PersonaFiles == {"IDENTITY.md", "SOUL.md", "USER.md", "AGENTS.md", "BOOT.md"}
RootOf(scope) == IF scope = "vault" THEN "category" ELSE scope
\* Mutant: the canonical path is not compared.
Anywhere(r)   == r.path.lands
LandsIn(r)    == IF r.path.lands = RootOf(r.scope) THEN r.path.lands ELSE None
IsVaultRoot(r) == r.tool = "list_directory" /\ r.scope = "vault" /\ r.path.name = "."
\* dispatcher::execute_tool_inner: bare persona names, then validate_tool_roots.
WindowPlace(r) ==
  IF IsVaultRoot(r) THEN "category"
  ELSE IF r.scope = "persona" /\ r.tool # "list_directory"
            /\ ~(r.path.bare /\ r.path.name \in PersonaFiles) THEN None
  ELSE LandsIn(r)
\* execute_tool_inner_for_agent: no workspace; a persona file is the last name of
\* the path, in the directory of the persona.
RunPlace(r) ==
  CASE r.scope = "workspace"     -> None
    [] IsVaultRoot(r)            -> "category"
    [] r.scope = "persona"       -> IF r.path.name \in PersonaFiles THEN "persona" ELSE None
    [] OTHER                     -> LandsIn(r)
FileCall(k) ==
  /\ Begun(k, FileTools)
  /\ LET place == IF calls[k].who = "window" THEN WindowPlace(calls[k].req)
                  ELSE RunPlace(calls[k].req)
     IN IF HasConversation(k) /\ place # None
        THEN \/ EndIn(k, "executed", {}, place)
             \/ EndIn(k, "error", {}, place)    \* no such file, or no right to it
        ELSE EndIn(k, "error", {}, None)
  /\ Rest /\ UNCHANGED <<proc, jobs>>

\* Mutant: and the rows that can be changed, whoever they belong to.
AnyJobs == {j \in Jobs : jobs[j] # None}
MyJobs  == {j \in Jobs : jobs[j] # None /\ jobs[j].owner = Agent}

\* tool_manage_schedule: every change of a row asks for its agent first.
ScheduleCall(k) ==
  /\ Begun(k, {"manage_schedule"})
  /\ LET r == calls[k].req
     IN \/ /\ HasConversation(k) /\ r.action = "create"
           /\ \E j \in Jobs : jobs[j] = None /\ jobs' = [jobs EXCEPT ![j] = [owner |-> Agent, on |-> TRUE]]
           /\ End(k, "executed", {})
        \/ /\ HasConversation(k) /\ r.action \in {"update", "toggle"} /\ r.job \in MyJobs
           /\ \E on \in BOOLEAN : jobs' = [jobs EXCEPT ![r.job].on = on]
           /\ End(k, "executed", {})
        \/ /\ HasConversation(k) /\ r.action = "delete" /\ r.job \in MyJobs
           /\ jobs' = [jobs EXCEPT ![r.job] = None]
           /\ End(k, "executed", {})
        \/ /\ ~HasConversation(k) \/ (r.action # "create" /\ r.job \notin MyJobs)
           /\ End(k, "error", {}) /\ UNCHANGED jobs
  /\ Rest /\ UNCHANGED proc

\* tool_self_inspect, browser_close and the tools only an orchestrator runs answer
\* at once; a run has no browser and no orchestrator.
Unattendable == BrowserTools \cup OrchestrationTools
PlainCall(k) ==
  /\ \/ /\ Begun(k, {"self_inspect"})
        /\ \E status \in {"executed", "error"} : End(k, status, {})
     \/ /\ Begun(k, {"browser_close"} \cup OrchestrationTools) /\ calls[k].who = "window"
        /\ \E status \in {"executed", "error"} : End(k, status, {})
     \/ /\ Begun(k, Unattendable) /\ calls[k].who # "window"
        /\ End(k, "error", {})
  /\ Rest /\ UNCHANGED <<proc, jobs>>

\* Mutant: a run asks the browser too.
AskAny(k) ==
  /\ Begun(k, {"web_search"}) \/ (Begun(k, {"browser_type"}) /\ calls[k].req.uses = {})
  /\ Update(k, [calls[k] EXCEPT !.at = "waiting"])
  /\ Rest /\ UNCHANGED <<logVars, proc, jobs>>

\* Tools that wait for somebody else: a page of the web, the browser.
AskOutside(k) ==
  /\ \/ Begun(k, {"web_search"})
     \/ /\ Begun(k, BrowserTools \ {"browser_close"}) /\ calls[k].who = "window"
        /\ calls[k].req.tool = "browser_type" => calls[k].req.uses = {}
  /\ Update(k, [calls[k] EXCEPT !.at = "waiting"])
  /\ Rest /\ UNCHANGED <<logVars, proc, jobs>>

\* get_agent_allowed_credentials: the file is read now, the secrets afterwards.
ReadAllowed(k) ==
  /\ \/ Begun(k, {"run_shell"})
     \/ Begun(k, {"browser_type"}) /\ calls[k].who = "window" /\ calls[k].req.uses # {}
  /\ IF IsShell(k) /\ ~HasConversation(k)  \* resolve_workspace_path
     THEN End(k, "error", {})
     ELSE /\ Update(k, [calls[k] EXCEPT !.at = "allowed",
                           !.allowed = IF HasConversation(k) THEN AllowedCredentials(config) ELSE {}])
          /\ UNCHANGED logVars
  /\ Rest /\ UNCHANGED <<proc, jobs>>

SecretsOf(S) == {<<c, mem[c]>> : c \in S}
Missing(S)   == {c \in S : mem[c] = None}
\* Mutant: every secret there is.
AllSecrets(S) == SecretsOf({c \in Creds : mem[c] # None})
\* resolve_credential_env_entries: all of them, or none when one is missing or
\* two have the same variable.
EnvFails(S) == Missing(S) # {} \/ \E c, d \in S : c # d /\ EnvName[c] = EnvName[d]
EnvEntries(S) == IF EnvFails(S) THEN {} ELSE SecretsOf(S)

\* tool_run_shell, up to spawn_blocking.  Without its credentials a command of the
\* window runs, one of a run does not.
StartShell(k) ==
  /\ Active(k) /\ IsShell(k) /\ calls[k].at = "allowed"
  /\ IF \/ IsRefused(calls[k].req.cmd, IsPosix)
        \/ calls[k].who # "window" /\ EnvFails(calls[k].allowed)
     THEN End(k, "error", {}) /\ UNCHANGED proc
     ELSE /\ Update(k, [calls[k] EXCEPT !.at = "waiting", !.allowed = {},
                           !.env = EnvEntries(calls[k].allowed)])
          /\ proc' = [proc EXCEPT ![k].state = "queued"]
          /\ UNCHANGED logVars
  /\ Rest /\ UNCHANGED jobs
\* browser_type: every placeholder must be allowed and have a secret.
TypeSecrets(k) ==
  /\ Active(k) /\ ~IsShell(k) /\ calls[k].at = "allowed"
  /\ LET uses == calls[k].req.uses
     IN IF uses \subseteq calls[k].allowed /\ Missing(uses) = {}
        THEN /\ Update(k, [calls[k] EXCEPT !.at = "waiting", !.allowed = {}, !.env = SecretsOf(uses)])
             /\ UNCHANGED logVars
        ELSE End(k, "error", {})
  /\ Rest /\ UNCHANGED <<proc, jobs>>

\* Mutant: the values are read again when the output is there.
RedactAgain(out, pairs) == out \ SecretsOf({p[1] : p \in pairs})
\* redact_output: every value of the pairs is replaced, as it is and in the
\* encodings a program or a page may give it; a model of the output is the set of
\* secrets that are in it in some such form.
Redact(out, pairs) == out \ pairs
Printable(k) == {{}} \cup {{s} : s \in calls[k].env}

Answer(k) ==
  /\ Active(k) /\ ~IsShell(k) /\ calls[k].at = "waiting"
  /\ \E status \in {"executed", "error"}, seen \in Printable(k) :
       End(k, status, Redact(seen, calls[k].env))
  /\ Rest /\ UNCHANGED <<proc, jobs>>

\* The thread of run_shell: starts the process, if it can, stores its id, reads its
\* output.
Spawn(k) ==
  /\ proc[k].state = "queued"
  /\ \/ \E printed \in Printable(k) :
          proc' = [proc EXCEPT ![k].state = "running", ![k].printed = printed]
     \/ proc' = [proc EXCEPT ![k].state = "exited", ![k].pid = TRUE]
  /\ Rest /\ UNCHANGED <<calls, logVars, jobs>>
StorePid(k) ==
  /\ proc[k].state \in {"running", "exited"} /\ ~proc[k].pid
  /\ proc' = [proc EXCEPT ![k].pid = TRUE]
  /\ Rest /\ UNCHANGED <<calls, logVars, jobs>>
Exit(k) ==
  /\ proc[k].state = "running"
  /\ proc' = [proc EXCEPT ![k].state = "exited"]
  /\ Rest /\ UNCHANGED <<calls, logVars, jobs>>

Done(k) == proc[k].state = "exited" /\ proc[k].pid
\* The result of a hardened command repeats the command as it was given to ssh.
Repeated(k) ==
  LET c == calls[k].req.cmd
  IN IF c.ssh > 0 /\ Injected(c) # {}
     THEN {s \in calls[k].env : s[1] \in c.inline} ELSE {}
Finish(k) ==
  /\ Active(k) /\ IsShell(k) /\ calls[k].at = "waiting" /\ Done(k)
  /\ \/ End(k, "executed", Redact(proc[k].printed, calls[k].env) \cup Repeated(k))
     \/ proc[k].printed = {} /\ End(k, "error", {})
  /\ proc' = [proc EXCEPT ![k].printed = {}]
  /\ Rest /\ UNCHANGED jobs

-----------------------------------------------------------------------------
\* Time.

\* Mutant: no upper bound.
ClampLow(n) == IF n < 1 THEN 1 ELSE n
Clamp(n) == IF n > MaxTimeout THEN MaxTimeout ELSE IF n < 1 THEN 1 ELSE n
ShellExpired(k) == IsShell(k) /\ calls[k].age >= Clamp(calls[k].req.asked)
LimitOf(k) ==
  LET t == calls[k].req.tool
  IN IF t \in BrowserTools THEN BrowserTimeout
     ELSE IF t = "run_shell" THEN CommandTimeout ELSE ToolTimeout
Waits(k) == Active(k) /\ calls[k].at = "waiting"

Tick ==
  /\ \E k \in Ks : Waits(k) /\ calls[k].age <= LimitOf(k)
  /\ calls' = [k \in Ks |-> IF Waits(k) /\ calls[k].age <= LimitOf(k)
                            THEN [calls[k] EXCEPT !.age = @ + 1] ELSE calls[k]]
  /\ Rest /\ UNCHANGED <<logVars, proc, jobs>>

\* The timeout of run_shell kills the group of the process, when its id is known.
ShellTimeOut(k) ==
  /\ Waits(k) /\ ShellExpired(k) /\ ~Done(k)
  /\ End(k, "error", {})
  /\ proc' = [proc EXCEPT ![k].printed = {},
               ![k].state = IF ~proc[k].pid \/ @ = "exited" THEN @ ELSE "killed",
               ![k].stray = ~proc[k].pid]
  /\ Rest /\ UNCHANGED jobs
\* The timeout around every call drops what it waits for; the one of run_shell is
\* polled first, so it comes first when both are due.
TimeOut(k) ==
  /\ Waits(k) /\ calls[k].age >= LimitOf(k)
  /\ ~(IsShell(k) /\ (ShellExpired(k) \/ Done(k)))
  /\ End(k, "error", {})
  /\ Rest /\ UNCHANGED <<proc, jobs>>

\* The application ends.  Files, rows and processes stay.
Crash ==
  /\ Fails
  /\ calls' = [k \in Ks |-> IF Active(k) THEN [calls[k] EXCEPT !.at = "ended", !.age = 0, !.seen = {}]
                            ELSE calls[k]]
  /\ proc' = [k \in Ks |-> CASE proc[k].state = "queued"  -> NoProc
                             [] proc[k].state = "running" -> [proc[k] EXCEPT !.stray = TRUE]
                             [] OTHER                     -> proc[k]]
  /\ mem' = disk
  /\ leftover' = leftover \cup IF cmd # None /\ cmd.op \in {"add", "remove"} THEN {cmd.id} ELSE {}
  /\ cmd' = None /\ run' = None /\ view' = None
  /\ UNCHANGED <<config, meta, disk, conv, log, jobs, commands>>

ToolNext ==
  \/ ReadConfig \/ WriteConfig \/ EndWrite
  \/ AutoSave \/ ChangeSecret \/ ChangeMeta \/ DeleteConversation
  \/ \E r \in Requests : WindowCall(r) \/ RunCall(r)
  \/ \E role \in Roles : StartRun(role)
  \/ EndRun \/ Tick \/ Crash
  \/ \E k \in Ks :
       \/ FileCall(k) \/ ScheduleCall(k) \/ PlainCall(k) \/ AskOutside(k)
       \/ ReadAllowed(k) \/ StartShell(k) \/ TypeSecrets(k) \/ Answer(k)
       \/ Spawn(k) \/ StorePid(k) \/ Exit(k) \/ Finish(k)
       \/ ShellTimeOut(k) \/ TimeOut(k)

ToolSpec == ToolInit /\ [][ToolNext]_toolVars

-----------------------------------------------------------------------------
\* What a call returns, to the window, the log and the model, holds no secret the
\* call was given, even when the secret was changed or removed while the process
\* ran (tool_run_shell, browser_type).  The exception is a hardened ssh command with
\* a placeholder: its result repeats the command with the value in it.
OutputRedacted ==
  \A k \in Ks : calls[k] # None /\ ~(IsShell(k) /\ Repeated(k) # {}) =>
    calls[k].out \cap calls[k].env = {}

\* A process or page is only given secrets that TOOL_CONFIG.json allowed at some
\* moment of the call, although the file, the metadata and the store change
\* meanwhile (get_agent_allowed_credentials, resolve_credential_env_entries).
GivenWasAllowed ==
  \A k \in Ks : Active(k) => {s[1] : s \in calls[k].env} \subseteq calls[k].seen

\* Secrets go where they may, and come back to nobody.
SecretsKept == ToolTypeOK /\ OutputRedacted /\ GivenWasAllowed

\* Once the call has returned its process is over: no time a caller may ask for
\* outlasts the timeout around the call, which would forget the process.  Stray:
\* the id of the process was not known when it was to be killed, or the
\* application ended before it.
NoStray ==
  \A k \in Ks : proc[k].state \in {"queued", "running"} => Waits(k) \/ proc[k].stray

\* A process that runs ssh was analysed: one start, no blocked option, a remote
\* command, and every option that keeps it from asking (sanitize_ssh_command).
IsPositional(args, i) ==
  args[i].kind = "word" \/ \E e \in 1..i - 1 : args[e].kind = "end"
Hardened(c) ==
  LET args == Sanitized(c)
      opts == {args[i].key : i \in {j \in DOMAIN args : args[j].kind = "option"}}
  IN /\ c.ssh = 1
     /\ SecurityOptions \subseteq opts /\ opts \cap BlockedPresenceKeys = {}
     /\ \A i \in DOMAIN args : args[i].kind = "flags" =>
          LET s == args[i].letters
          IN \A n \in DOMAIN s : s[n] \in BlockedShortFlags =>
               s[1] = "o" \/ \E d \in 1..n : s[d] \in Digits
     /\ c.binary = "ssh" =>
          \E i, j \in DOMAIN c.args :
            i < j /\ IsPositional(c.args, i) /\ IsPositional(c.args, j)
SshHardened ==
  \A k \in Ks : proc[k].state # "none" /\ calls[k].req.cmd.ssh > 0 =>
    Hardened(calls[k].req.cmd)

\* The log tells no other story than the window was told: a row is pending while
\* its call runs, and stays so only when the application ended first or the row
\* could not be written (execute_tool).
LogTells ==
  \A k \in Ks : log[k] # None =>
    IF Active(k) \/ calls[k].status = None \/ calls[k].lost THEN log[k].status = "pending"
    ELSE log[k] = [status |-> calls[k].status, out |-> calls[k].out]

\* A credential is listed exactly when it has a secret, outside a command that
\* changes both; leftover: a write failed or the application ended between them
\* (add_credential, update_credential, remove_credential).
StoresAgree ==
  \A c \in Creds : (c \in meta) # (mem[c] # None) =>
    c \in leftover \/ (cmd # None /\ cmd.op \in {"add", "remove"} /\ cmd.id = c)

\* What is recorded is what is: no process without its call, no log row that
\* tells another story, no credential in one store only.
RecordsAgree == NoStray /\ LogTells /\ StoresAgree

\* A file call stays in the directory of its scope, and in the persona scope with
\* the files of the persona, along both dispatchers.
InScope ==
  \A k \in Ks : calls[k] # None /\ calls[k].place # None =>
    LET r == calls[k].req
    IN /\ calls[k].place = RootOf(r.scope)
       /\ r.scope = "persona" /\ r.tool # "list_directory" => r.path.name \in PersonaFiles
       /\ calls[k].who # "window" => r.scope # "workspace"

\* Whatever tool the model names in a run without a user, one that needs a page of
\* the browser or an orchestrator does nothing and is given no secret
\* (execute_tool_inner_for_agent).
Unattended ==
  \A k \in Ks : calls[k] # None /\ calls[k].who # "window" /\ calls[k].req.tool \in Unattendable =>
    calls[k].status # "executed" /\ calls[k].env = {}

\* Whoever makes a call, it does what its caller and its scope allow.
CallsInBounds == SshHardened /\ InScope /\ Unattended

\* A tool changes no job of another agent (tool_manage_schedule).
OwnJobs == \A j \in Jobs : jobs[j] # None /\ jobs'[j] # jobs[j] => jobs[j].owner = Agent

\* Reading a configuration that is whole loses none of its tiers, enabled tools and
\* allowed credentials, what is written back is what was read, and a second reading
\* changes nothing; it may switch on what is on by default.  A file that a write
\* left unreadable is shown as allowing no credential, and reading it does not
\* write that down (read_tool_config, normalize_tool_config).
ReadKeeps ==
  view' # view /\ view' # None /\ commands' = commands =>
    /\ cmd' # None => cmd'.op = "write" /\ cmd'.new = view'
    /\ IF config = Torn
       THEN /\ config' = Torn /\ cmd' = None /\ view'.allowed = {}
            /\ \A n \in Names : IsOn(view', n) => view'.tools[n].tier = DefaultTier(n)
       ELSE /\ config' = config \/ cmd' # None
            /\ Normalize(view') = view' /\ view'.allowed = AllowedCredentials(config)
            /\ \A n \in Names \cap NativeTools : config.tools[n] # None =>
                 /\ view'.tools[n].tier = config.tools[n].tier
                 /\ IsOn(config, n) => IsOn(view', n)

\* Neither tools nor reading a configuration change what belongs to others.
NothingForeignChanged == [][OwnJobs /\ ReadKeeps]_toolVars
=============================================================================
