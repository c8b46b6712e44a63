----------------------------- MODULE Completion -----------------------------
(***************************************************************************)
(* Requests to the model provider: the stored configuration they use, the  *)
(* streams the window opens, follows and aborts, and the answers returned  *)
(* in one piece.                                                           *)
(*                                                                         *)
(* Code: api.rs, commands/api_commands.rs, services/api_service.rs,        *)
(* models/api_types.rs, utils/http.rs; what the window does with the       *)
(* events is services/streamHelpers.ts.                                    *)
(* A stream runs in a task of its own on another thread, so its steps      *)
(* interleave with the command that spawned it, with an abort and with     *)
(* changes of the configuration; the commands on the configuration are not *)
(* async and take one step each.                                           *)
(***************************************************************************)
EXTENDS Integers, Sequences

CONSTANTS
  Requests,    \* request ids
  Keys, NoKey, \* API keys, and the empty one
  Urls,        \* base URLs
  DefaultUrl,  \* DEFAULT_BASE_URL
  NoUrl,       \* the empty URL
  Envs,        \* environments the process may be started in
  Pieces,      \* the lines of an answer: text, or a delta of a tool call
  MaxPieces,   \* bound on the lines of one answer
  MaxConfigs,  \* bound on changes of the configuration and restarts
  None

ASSUME CompletionAssumption ==
  /\ NoKey \notin Keys /\ DefaultUrl \in Urls /\ NoUrl \notin Urls
  /\ MaxPieces \in Nat /\ MaxConfigs \in Nat
  /\ \A p \in Pieces : p.kind \in {"text", "tool"} /\ (p.kind = "tool" => p.index \in Nat)

ASSUME NoneAssumption ==
  /\ None \notin {"no key", "empty", "failed", "aborted", "stream"}
  /\ None \notin Keys \cup Urls
  /\ Envs \subseteq [key : Keys \cup {None}, url : Urls \cup {None}]

VARIABLES
  cfg,      \* ApiConfig in memory
  store,    \* the plugin's cache of api-config.json
  disk,     \* the file itself
  client,   \* whether the HTTP client bypasses the proxy
  env,      \* OPENAI_API_KEY and OPENAI_API_URL as the process found them
  unsaved,  \* settings whose last save failed
  kind,     \* how each request was made
  cmd,      \* where the command of a request is
  task,     \* where its exchange with the provider is
  thinking, \* the body asks for thinking
  sent,     \* the lines the provider has sent
  acc,      \* full_content and tool_calls_acc
  registry, \* RunRegistry: the requests that can be aborted
  abort,    \* where the abort of a request is
  shown,    \* text the window got in chunks before the answer
  dones,    \* chat-stream-done events, or the value a command returned
  configs

cfgVars  == <<cfg, store, disk, client, env, unsaved>>
taskVars == <<task, thinking, sent, acc>>
vars == <<cfgVars, kind, cmd, taskVars, registry, abort, shown, dones, configs>>

Config == [key : Keys \cup {NoKey}, url : Urls, noProxy : BOOLEAN]
Kinds  == {"stream", "plain", "bootstrap"}
Blank  == [text |-> <<>>, tools |-> <<>>]
NoCall == [id |-> None, args |-> <<>>]

TextPieces == {p.text : p \in {q \in Pieces : q.kind = "text"}}
Deltas     == {p \in Pieces : p.kind = "tool"}
ToolCalls  == [id : {p.id : p \in Deltas} \cup {None}, args : Seq({p.args : p \in Deltas})]
Outcomes   == [error : {None, "no key", "empty", "failed", "aborted"},
               text : Seq(TextPieces), tools : Seq(ToolCalls)]

TypeOK ==
  /\ {cfg, store, disk} \subseteq Config
  /\ client \in BOOLEAN
  /\ env \in Envs /\ unsaved \subseteq {"key", "url", "noProxy"}
  /\ kind \in [Requests -> Kinds \cup {None}]
  /\ cmd \in [Requests -> {"idle", "begun", "spawned", "returned"}]
  /\ task \in [Requests -> {"none", "connect", "body", "answered", "gone"}]
  /\ thinking \in [Requests -> BOOLEAN]
  /\ sent \in [Requests -> Seq(Pieces)]
  /\ acc \in [Requests -> [text : Seq(TextPieces), tools : Seq(ToolCalls)]]
  /\ registry \subseteq Requests
  /\ abort \in [Requests -> {"none", "marked", "reported"}]
  /\ shown \in [Requests -> Seq(TextPieces)]
  /\ dones \in [Requests -> Seq(Outcomes)]
  /\ configs \in 0..MaxConfigs

\* ApiState::load: what the environment gives goes before what the file has.
Loaded(c, e) == [key |-> IF e.key = None THEN c.key ELSE e.key,
                 url |-> IF e.url = None THEN c.url ELSE e.url,
                 noProxy |-> c.noProxy]

Fresh ==
  /\ cfg = Loaded(disk, env) /\ client = disk.noProxy
  /\ unsaved = {}
  /\ kind = [r \in Requests |-> None]
  /\ cmd = [r \in Requests |-> "idle"]
  /\ task = [r \in Requests |-> "none"]
  /\ thinking = [r \in Requests |-> FALSE]
  /\ sent = [r \in Requests |-> <<>>]
  /\ acc = [r \in Requests |-> Blank]
  /\ registry = {}
  /\ abort = [r \in Requests |-> "none"]
  /\ shown = [r \in Requests |-> <<>>]
  /\ dones = [r \in Requests |-> <<>>]

\* A first start: api-config.json holds no configuration yet.
Init ==
  /\ env \in Envs
  /\ disk = [key |-> NoKey, url |-> DefaultUrl, noProxy |-> FALSE]
  /\ store = disk
  /\ Fresh
  /\ configs = 0

----------------------------------------------------------------------------
(* Configuration.                                                          *)

\* requires_api_key: only the default provider insists on a key.
RequiresKey(c) == c.key = NoKey /\ c.url = DefaultUrl

\* A save of the settings fs writes everything the cache of the store holds, or
\* fails and leaves the new values in the cache.
Saved(c, fs, ok) ==
  /\ configs < MaxConfigs
  /\ configs' = configs + 1
  /\ store' = c
  /\ disk' = IF ok THEN c ELSE disk
  /\ unsaved' = IF ok THEN unsaved \ fs ELSE unsaved \cup fs

Given(u) == IF u = NoUrl THEN DefaultUrl ELSE u

\* A key or URL left out keeps the one in memory, which may be the environment's.
New(k, u) == [cfg EXCEPT !.key = IF k = None THEN @ ELSE k,
                         !.url = IF u = None THEN @ ELSE Given(u)]

\* Mutant: the memory changes before the save is known to have succeeded.
MemoryFirst(k, u, ok) ==
  /\ cfg' = New(k, u)
  /\ Saved([store EXCEPT !.key = cfg'.key, !.url = cfg'.url], {"key", "url"}, ok)
  /\ UNCHANGED <<client, env, kind, cmd, taskVars, registry, abort, shown, dones>>

\* Mutant: a key left out is saved as none.
ClearsLeftOut(k, u, ok) ==
  /\ Saved([store EXCEPT !.key = IF k = None THEN NoKey ELSE k, !.url = New(k, u).url],
           {"key", "url"}, ok)
  /\ cfg' = IF ok THEN New(k, u) ELSE cfg
  /\ UNCHANGED <<client, env, kind, cmd, taskVars, registry, abort, shown, dones>>

\* The memory changes only when the save has succeeded.
SetConfig(k, u, ok) ==
  /\ Saved([store EXCEPT !.key = New(k, u).key, !.url = New(k, u).url], {"key", "url"}, ok)
  /\ cfg' = IF ok THEN New(k, u) ELSE cfg
  /\ UNCHANGED <<client, env, kind, cmd, taskVars, registry, abort, shown, dones>>

SetNoProxy(ok) ==
  /\ Saved([store EXCEPT !.noProxy = ~cfg.noProxy], {"noProxy"}, ok)
  /\ cfg' = IF ok THEN [cfg EXCEPT !.noProxy = ~@] ELSE cfg
  /\ client' = IF ok THEN ~cfg.noProxy ELSE client
  /\ UNCHANGED <<env, kind, cmd, taskVars, registry, abort, shown, dones>>

\* The process ends and starts again, maybe in another environment.
Restart ==
  /\ configs < MaxConfigs
  /\ configs' = configs + 1
  /\ store' = disk
  /\ UNCHANGED disk
  /\ kind' = [r \in Requests |-> None]
  /\ cmd' = [r \in Requests |-> "idle"]
  /\ task' = [r \in Requests |-> "none"]
  /\ thinking' = [r \in Requests |-> FALSE]
  /\ sent' = [r \in Requests |-> <<>>]
  /\ acc' = [r \in Requests |-> Blank]
  /\ registry' = {}
  /\ abort' = [r \in Requests |-> "none"]
  /\ shown' = [r \in Requests |-> <<>>]
  /\ dones' = [r \in Requests |-> <<>>]
  /\ env' \in Envs
  /\ cfg' = Loaded(disk, env') /\ client' = disk.noProxy
  /\ unsaved' = {}

----------------------------------------------------------------------------
(* Answers.                                                                *)

Answer(a) == [error |-> None, text |-> a.text, tools |-> a.tools]
Failure(e) == [error |-> e, text |-> <<>>, tools |-> <<>>]
Done(r, d) == dones' = [dones EXCEPT ![r] = Append(@, d)]
\* The window listens until the first done event of its request.
Open(r) == dones[r] = <<>>

\* The list of calls grows until it has the delta's index.
Grown(calls, i) ==
  calls \o [j \in 1..(IF i < Len(calls) THEN 0 ELSE i + 1 - Len(calls)) |-> NoCall]

\* Mutant: the arguments of a later delta replace the earlier ones.
ReplaceArgs(calls, p) ==
  [Grown(calls, p.index) EXCEPT ![p.index + 1] =
     [id |-> IF p.id = None THEN @.id ELSE p.id,
      args |-> IF p.args = None THEN @.args ELSE <<p.args>>]]

WithDelta(calls, p) ==
  [Grown(calls, p.index) EXCEPT ![p.index + 1] =
     [id |-> IF p.id = None THEN @.id ELSE p.id,
      args |-> IF p.args = None THEN @.args ELSE Append(@.args, p.args)]]

Accumulate(a, p) ==
  IF p.kind = "text" THEN [a EXCEPT !.text = Append(@, p.text)]
                     ELSE [a EXCEPT !.tools = WithDelta(@, p)]

----------------------------------------------------------------------------
(* The command.                                                            *)

\* The configuration is read; without access the request ends here.
Begin(r, k, think) ==
  /\ cmd[r] = "idle"
  /\ (k = "bootstrap" => ~think)
  /\ kind' = [kind EXCEPT ![r] = k]
  /\ thinking' = [thinking EXCEPT ![r] = think]
  /\ IF RequiresKey(cfg)
     THEN /\ cmd' = [cmd EXCEPT ![r] = "returned"]
          /\ task' = [task EXCEPT ![r] = "gone"]
          /\ Done(r, Failure("no key"))
     ELSE /\ cmd' = [cmd EXCEPT ![r] = "begun"]
          /\ task' = IF k = "stream" THEN task ELSE [task EXCEPT ![r] = "connect"]
          /\ UNCHANGED dones
  /\ UNCHANGED <<cfgVars, sent, acc, registry, abort, shown, configs>>

Spawn(r) ==
  /\ cmd[r] = "begun" /\ kind[r] = "stream"
  /\ cmd' = [cmd EXCEPT ![r] = "spawned"]
  /\ task' = [task EXCEPT ![r] = "connect"]
  /\ UNCHANGED <<cfgVars, kind, thinking, sent, acc, registry, abort, shown, dones, configs>>

\* The task is spawned before its handle is registered: it may be over by now.
Register(r) ==
  /\ cmd[r] = "spawned"
  /\ cmd' = [cmd EXCEPT ![r] = "returned"]
  /\ registry' = registry \cup {r}
  /\ UNCHANGED <<cfgVars, kind, taskVars, abort, shown, dones, configs>>

----------------------------------------------------------------------------
(* The exchange with the provider.                                         *)

\* Mutant: an error inside the body is tried again too.
RetryInBody(r) ==
  /\ task[r] \in {"connect", "body"} /\ thinking[r]
  /\ task' = [task EXCEPT ![r] = "connect"]
  /\ thinking' = [thinking EXCEPT ![r] = FALSE]
  /\ sent' = [sent EXCEPT ![r] = <<>>] /\ acc' = [acc EXCEPT ![r] = Blank]
  /\ UNCHANGED <<cfgVars, kind, cmd, registry, abort, shown, dones, configs>>

\* Mutant: the handle is dropped before the second attempt.
RetryDeregistered(r) ==
  /\ task[r] = "connect" /\ thinking[r]
  /\ thinking' = [thinking EXCEPT ![r] = FALSE]
  /\ registry' = registry \ {r}
  /\ UNCHANGED <<cfgVars, kind, cmd, task, sent, acc, abort, shown, dones, configs>>

\* An error of status 400 or 422 about thinking is tried again without it.
Refused(r) ==
  /\ task[r] = "connect" /\ thinking[r]
  /\ thinking' = [thinking EXCEPT ![r] = FALSE]
  /\ UNCHANGED <<cfgVars, kind, cmd, task, sent, acc, registry, abort, shown, dones, configs>>

Connected(r) ==
  /\ task[r] = "connect"
  /\ task' = [task EXCEPT ![r] = "body"]
  /\ UNCHANGED <<cfgVars, kind, cmd, thinking, sent, acc, registry, abort, shown, dones, configs>>

\* A line of the answer; of a stream the window gets it as a chunk at once.
Receive(r, p) ==
  /\ task[r] = "body" /\ Len(sent[r]) < MaxPieces
  /\ sent' = [sent EXCEPT ![r] = Append(@, p)]
  /\ acc' = [acc EXCEPT ![r] = Accumulate(@, p)]
  /\ shown' = IF kind[r] = "stream" /\ Open(r) /\ p.kind = "text"
              THEN [shown EXCEPT ![r] = Append(@, p.text)] ELSE shown
  /\ UNCHANGED <<cfgVars, kind, cmd, task, thinking, registry, abort, dones, configs>>

\* Mutant: the loop goes on after the answer.
OverGoesOn(r) == task' = IF kind[r] = "stream" THEN task ELSE [task EXCEPT ![r] = "gone"]

Over(r) == task' = [task EXCEPT ![r] = IF kind[r] = "stream" THEN "answered" ELSE "gone"]
Returned(r) == cmd' = IF kind[r] = "stream" THEN cmd ELSE [cmd EXCEPT ![r] = "returned"]

\* Mutant: a body that ends without [DONE] is dropped without an event.
FinishSilently(r) ==
  /\ task[r] = "body" /\ kind[r] = "stream"
  /\ Over(r)
  /\ UNCHANGED <<cfgVars, kind, cmd, thinking, sent, acc, registry, abort, shown, dones, configs>>

\* [DONE], or the end of the body without it: the answer is what has arrived.
Finish(r) ==
  /\ task[r] = "body" /\ kind[r] = "stream"
  /\ Over(r)
  /\ Done(r, Answer(acc[r]))
  /\ UNCHANGED <<cfgVars, kind, cmd, thinking, sent, acc, registry, abort, shown, configs>>

\* do_completion reads the body as a whole and takes one without content for an
\* error; bootstrap_completion passes the message on as it is.
PlainOutcome(a) == IF a = Blank THEN Failure("empty") ELSE Answer(a)
BootstrapOutcome(a) == Answer(a)

Return(r) ==
  /\ task[r] = "body" /\ kind[r] # "stream"
  /\ Over(r) /\ Returned(r)
  /\ Done(r, IF kind[r] = "plain" THEN PlainOutcome(acc[r]) ELSE BootstrapOutcome(acc[r]))
  /\ UNCHANGED <<cfgVars, kind, thinking, sent, acc, registry, abort, shown, configs>>

\* Another HTTP error, no connection, a body cut off, or the client's limit of
\* sixty seconds for the whole exchange.
Fail(r) ==
  /\ task[r] \in {"connect", "body"}
  /\ Over(r) /\ Returned(r)
  /\ Done(r, Failure("failed"))
  /\ UNCHANGED <<cfgVars, kind, thinking, sent, acc, registry, abort, shown, configs>>

Deregister(r) ==
  /\ task[r] = "answered"
  /\ task' = [task EXCEPT ![r] = "gone"]
  /\ registry' = registry \ {r}
  /\ UNCHANGED <<cfgVars, kind, cmd, thinking, sent, acc, abort, shown, dones, configs>>

----------------------------------------------------------------------------
(* Abort.                                                                  *)

\* RunRegistry::abort; a request that is not in the registry is left alone.
Abort(r) ==
  /\ r \in registry
  /\ registry' = registry \ {r}
  /\ abort' = [abort EXCEPT ![r] = "marked"]
  /\ UNCHANGED <<cfgVars, kind, cmd, taskVars, shown, dones, configs>>

\* Mutant: a reported abort is reported again.
ReportAgain(r) ==
  /\ abort[r] = "marked" /\ Len(dones[r]) < 3
  /\ Done(r, Failure("aborted"))
  /\ UNCHANGED <<cfgVars, kind, cmd, taskVars, registry, abort, shown, configs>>

ReportAbort(r) ==
  /\ abort[r] = "marked"
  /\ abort' = [abort EXCEPT ![r] = "reported"]
  /\ Done(r, Failure("aborted"))
  /\ UNCHANGED <<cfgVars, kind, cmd, taskVars, registry, shown, configs>>

\* The task is dropped where it next waits, which may be several steps later.
Cancelled(r) ==
  /\ abort[r] # "none" /\ task[r] \notin {"none", "gone"}
  /\ task' = [task EXCEPT ![r] = "gone"]
  /\ UNCHANGED <<cfgVars, kind, cmd, thinking, sent, acc, registry, abort, shown, dones, configs>>

----------------------------------------------------------------------------

Exchange(r) == Refused(r) \/ Connected(r) \/ Finish(r) \/ Return(r) \/ Fail(r) \/ Deregister(r)
Command(r)  == Spawn(r) \/ Register(r) \/ ReportAbort(r)

Next ==
  \/ \E ok \in BOOLEAN :
       \/ SetNoProxy(ok)
       \/ \E k \in Keys \cup {NoKey, None}, u \in Urls \cup {NoUrl, None} : SetConfig(k, u, ok)
  \/ Restart
  \/ \E r \in Requests :
       \/ \E k \in Kinds, think \in BOOLEAN : Begin(r, k, think)
       \/ Command(r)
       \/ Exchange(r)
       \/ \E p \in Pieces : Receive(r, p)
       \/ Abort(r)
       \/ Cancelled(r)

\* Commands and tasks run on; an exchange ends within the client's time limit.
Fairness == \A r \in Requests : WF_vars(Command(r)) /\ WF_vars(Exchange(r))

Spec == Init /\ [][Next]_vars /\ Fairness

----------------------------------------------------------------------------
(* Properties.                                                             *)

\* The text, the ids and the arguments in the lines s, by position.
TextIn(s)      == [n \in {m \in DOMAIN s : s[m].kind = "text"} |-> s[n].text]
DeltasAt(s, i) == {n \in DOMAIN s : s[n].kind = "tool" /\ s[n].index = i}
IdsIn(s, i)    == [n \in {m \in DeltasAt(s, i) : s[m].id # None} |-> s[n].id]
ArgsIn(s, i)   == [n \in {m \in DeltasAt(s, i) : s[m].args # None} |-> s[n].args]

\* The sequence q lists the values of v in the order of their positions.
InOrder(q, v) ==
  \E at \in [DOMAIN q -> DOMAIN v] :
    /\ \A i, j \in DOMAIN q : i < j => at[i] < at[j]
    /\ \A n \in DOMAIN v : \E i \in DOMAIN q : at[i] = n
    /\ \A i \in DOMAIN q : q[i] = v[at[i]]

\* The value of v at the greatest position, if there is one.
IsLast(x, v) ==
  IF DOMAIN v = {} THEN x = None
  ELSE \E n \in DOMAIN v : v[n] = x /\ \A m \in DOMAIN v : m <= n

\* What d says is what the lines s say.
SaysAll(d, s) ==
  /\ InOrder(d.text, TextIn(s))
  /\ \A j \in DOMAIN d.tools : \E n \in DOMAIN s : s[n].kind = "tool" /\ j <= s[n].index + 1
  /\ \A n \in DOMAIN s : s[n].kind = "tool" => s[n].index + 1 \in DOMAIN d.tools
  /\ \A j \in DOMAIN d.tools :
       IsLast(d.tools[j].id, IdsIn(s, j - 1)) /\ InOrder(d.tools[j].args, ArgsIn(s, j - 1))

\* An answer without error has the text of all lines in their order and, for
\* each index up to the greatest, one tool call with the last id and all the
\* arguments sent for that index, whatever order the deltas of several calls
\* came in (api_service.rs:359-407).
Assembled ==
  \A r \in Requests : \A k \in DOMAIN dones[r] :
    dones[r][k].error = None => SaysAll(dones[r][k], sent[r])

\* The answer the window takes, which is the first, says no other text than the
\* chunks before it: nothing from an attempt that was given up, nothing after it
\* (api_commands.rs:428-490, streamHelpers.ts:185-216).
AnswerIsWhatWasShown ==
  \A r \in Requests : kind[r] = "stream" /\ ~Open(r) =>
    (Head(dones[r]).error = None => Head(dones[r]).text = shown[r])

\* There are at most two outcomes of a request, and of two one is the abort's:
\* a request is answered or fails once (api_commands.rs:428-534).
OneOutcome ==
  \A r \in Requests :
    /\ Len(dones[r]) <= 2
    /\ Len(dones[r]) = 2 =>
         \E i \in 1..2 : dones[r][i].error = "aborted" /\ dones[r][3 - i].error # "aborted"

\* What the window gets for a request is one answer, exactly what was sent and
\* shown, under retries, aborts and deltas in any order.
AnswerIsExact == TypeOK /\ Assembled /\ AnswerIsWhatWasShown /\ OneOutcome

\* A stream that still exchanges data after its command has returned can be
\* aborted, or has been: the retry without thinking keeps the handle
\* (api_commands.rs:427-512, api.rs:180-216).
RunningIsAbortable ==
  \A r \in Requests :
    kind[r] = "stream" /\ cmd[r] = "returned" /\ task[r] \in {"connect", "body"} =>
      r \in registry \/ abort[r] # "none"

\* The environment of this start gave the value of f that is in force.
FromEnv(f) == f # "noProxy" /\ env[f] # None /\ cfg[f] = env[f]

\* A setting comes into force only when the file has it or the environment gave it
\* (api.rs:49-98, 139-166).
InForceIsSaved == \A f \in DOMAIN cfg : cfg'[f] # cfg[f] => disk'[f] = cfg'[f] \/ FromEnv(f)'

\* The next start uses what is in force now, but for what this environment gave and
\* for a setting whose last save failed: its new value stays in the cache of the
\* store and reaches the file with a save of another setting (api.rs:87-98, 139-166).
InForceIsKept == \A f \in DOMAIN cfg : disk[f] = cfg[f] \/ FromEnv(f) \/ f \in unsaved

\* The settings requests are made with are those the user saved, and stay so over
\* failing saves and restarts.
SettingsInForce == [][InForceIsSaved /\ InForceIsKept']_vars

\* Every request gets an outcome, whatever the provider does and however the
\* abort falls, unless the process ends (streamHelpers.ts:216).
Answered == \A r \in Requests : cmd[r] # "idle" ~> (~Open(r) \/ cmd[r] = "idle")

=============================================================================
