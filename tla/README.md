# Formal models of Window Agent

Window Agent is a desktop application (Tauri: a Rust back end, a TypeScript
window) in which a user talks to LLM agents, forms teams of them, schedules
jobs for them and lets them exchange messages with the agents of other users
through a relay server. This directory holds TLA+ models of the parts whose
correctness depends on the order of concurrent steps and on failures, the TLC
configurations that check them on small instances, and proofs checked by TLAPS.

Run from this directory: `tlc -workers 2 -config X.cfg M` for a run of
`PROJECT.json`, `tlapm X_proofs.tla` for the proofs about module `X`.

## 1. The system

| part | code | state | operations | what is hard |
|---|---|---|---|---|
| relay server, routing | `relay-server/src/{ws,state,db}.rs` | connections, seen ids (memory); offline queue (SQLite) | authenticate, drain, envelope, peer_ack, restart | handlers interleave at every await; sockets die unnoticed; the queue is capped |
| relay server, presence | same | connections, presence subscriptions | register, replace, subscribe, snapshot, notify, clean up | three locks taken one after another; old and new session of one peer |
| relay server, hub and directory | `relay-server/src/{api,hub_db,auth,web,db}.rs` | tables, search rate limiter | REST requests, searches | little: one statement each |
| node, relay client and manager | `src-tauri/src/relay/{relay_client,manager/*}.rs`, `commands/relay_commands.rs` | socket, command channel, status, contact index, presence, outbox (SQLite) | connect, start, stop, send, re-send, receive, acknowledge | commands discarded during backoff, events of an old session, acknowledgements in any order |
| node, contacts | `relay/db/contacts.rs`, `relay/manager/{peers,messaging}.rs` | contact rows; the index of their keys | invite, accept, request, approve, reject, remove, introduce, rebuild | row and index change in separate steps, beside each other |
| node, secretary | `relay/secretary.rs` | threads, messages, active threads | store, answer automatically | a message deferred while the lock is released; a crash between answer and outbox |
| scheduler | `services/cron_scheduler.rs`, `db/cron_operations.rs` | jobs and runs (SQLite), sleep, Notify | claim, execute, complete, edit, start | crash between statements, edits during a run, when to wake |
| team runs | `services/team_*.rs`, `stores/teamChatFlowStore.ts` | run and tasks (SQLite), streams, registry, stream map of the window | delegate, report, synthesize, abort, recover | command handlers, streams, abort and window all interleave |
| completions | `api.rs`, `commands/api_commands.rs`, `services/api_service.rs` | configuration in memory, in the store and on disk; streams, abort registry | configure, check, stream, retry, abort | the answer, the abort and the registration race |
| conversations | `commands/chat_commands.rs`, `db/operations/*`, `stores/*` | conversations, messages, images, summary pointer, window | turn, regenerate, delete, select, summarize | flows of the window wait between their commands |
| memory | `memory/`, `services/consolidationService.ts` | digests, consolidated memory, snapshots | consolidate, recover, flush | triggers that overlap, crashes between file and row |
| agents and teams | `commands/{agent,export,team}_commands.rs`, `db/*` | rows, folders on disk, seeds, notes of an import | create, delete, save, seed, adopt, export, import, migrate | files and database are not one transaction |
| tools and credentials | `commands/tool_commands/*`, `services/{credential_service,actor_context}.rs` | TOOL_CONFIG.json, two credential files, log, processes | call, configure, time out, redact | what a call has read changes before it is used |
| vault | `vault/*`, `commands/vault_commands.rs` | notes, registry, links, watcher | create, rename, delete, archive, search, index | file watcher and tools against own writes |
| browser | `browser/*.rs`, `browser-sidecar/server.js` | sidecar process, sessions, settings, approvals | open, use, close, approve, set, idle clean-up, shutdown | check-then-act across awaits, dropped calls |
| the rest | settings, skills, hub client, interface | tables, files | CRUD, I/O | sequential |

How they interact. A window command calls into the Rust back end; the back end
answers and emits events, which the window handles in order. Commands declared
`pub fn` run one after another on the main thread, `async` ones beside them.
The node's relay client and its manager are joined by two channels (commands
down, events up); nodes and relay server by a WebSocket (FIFO each way, while it
lives). The relay server forwards envelopes between sessions through unbounded
channels. The scheduler, the secretary and the team orchestrator share the
database, the tools and the LLM service with the window. Everything in the
node's memory dies with the process; SQLite rows and files survive.

What makes each part correct:

* delivery: an acknowledgement is never ahead of what it confirms, what was
  acknowledged as queued is not lost, every message is acknowledged in the end;
* presence: a registration always has a live handler, an old session never
  ends a new one, no change of presence is missed by a subscriber;
* contacts: nobody is a contact the user did not accept, the index has the keys
  of the contacts and no others, the shown status is that of the session;
* secretary: a request is answered once, an answer is posted, a deferred request
  has a responder;
* scheduler: no job runs twice at once, a crash leaves nothing that a start
  does not repair, the loop wakes in time;
* team runs: the leader summarizes after the last member, an abort stops what
  it should, a report is not lost;
* completions: one outcome per request, the answer is what was streamed, what
  runs can be aborted, the settings in force are the saved ones;
* conversations and memory: no row points to a missing file, a summary covers
  exactly a prefix of its conversation, a consolidated conversation is in the
  memory of its agent;
* agents: rows, folders, members and notes refer to each other whatever fails,
  and no step takes what the user has written;
* tools: a call stays in its scope, its credentials stay out of its output, its
  process ends, its row tells how;
* vault: index and files agree when it is quiet, no operation loses a note;
* browser: the process runs with the settings in force, the session map matches
  it, approvals are kept.

`PROJECT.json` lists every component with its status, and the main hazards with
their lines in the code and the properties aimed at them; section 6 has more.

## 2. The modules

| module | models | uses |
|---|---|---|
| `RelayDelivery` | messages from the window of one node to the database of another, through the relay's queue | - |
| `Mailbox` | what the relay promises about queued messages (abstract) | implemented by `RelayDelivery` |
| `RelayPresence` | sessions, replacement, subscriptions, notices | server presence, the client's `Connected` |
| `Contacts` | contact rows and their index, start and stop of the relay manager | - |
| `Secretary` | threads, messages, responders | extends `Contacts` |
| `JobLock` | what the scheduler promises about executions (abstract) | implemented by `CronScheduler` |
| `CronScheduler` | jobs, runs, the loop, commands, crashes | - |
| `TeamRun` | a run from the leader's turn to the synthesis | orchestrator, registry, the window's listeners |
| `Completion` | configuration, requests to the provider, aborts | - |
| `Conversation` | turns, files, summaries, consolidation | commands and the window's flows |
| `AgentStore` | start, agents, folders, teams, import | - |
| `ShellCommand` | what `run_shell` does to an ssh command | - |
| `ToolRun` | configuration, credentials, calls, processes | extends `ShellCommand` |
| `Vault` | notes, index, watcher, tools that write files | - |
| `Browser` | sidecar, sessions, settings, approvals | - |
| `RelayDelivery_proofs`, `RelayPresence_proofs`, `CronScheduler_proofs`, `Browser_proofs` | theorems about these modules | - |
| `ConversationVault_proofs` | theorems about what a node keeps of the user's work | extends `Conversation` and `Vault` |
| `AgentStoreCompletion_proofs` | theorems about the agents a node keeps and the answers they give | extends `AgentStore` and `Completion` |
| `Secretary_proofs` | theorems about `Contacts` in the company of `Secretary` | extends `Secretary` |
| `AgentRuns_proofs` | theorems about what agents do when set to work | extends `ToolRun` and `TeamRun` |
| `MC*` | constants of the small instances | - |

Operators marked `Faulty` or `Mutant` in a comment are plausible mistakes, defined
before the action they would replace. No specification uses them; they show
that each property notices such a mistake (`mutants` in `PROJECT.json`).

`history` variables (`excused`, `raced`, `late`, `skew`, `taint`, `leftover`, ...)
record that one of the paths named below was taken, on which the code does not
keep what a property says; the property excepts the items recorded and no others.

### RelayDelivery

Server: `conn` is `connections`, `seen` is `seen_messages`, `rows` is
`offline_queue`, and `pc`/`task` say where the handler task of each session is.
A handler is cut at its awaits: `Login` (insert_connection), `Drain` (select
and send, rows stay), then per frame `Duplicate`, `MarkSeen`, `Forward` or
`TargetOffline` and `Enqueue`, `Acknowledge`, `HandlePeerAck`; `Close` is the
clean-up. Wires: `up` holds the frames of a session that the server has not
read, `inbox` the frames and client events of a node; a lost socket loses what
has not left it (`held`). Node: `Compose`, `PostLater`, `Post`, `MarkSending`
are the steps of `relay_send_message`; `OnEnvelope`, `OnServerAck`, `OnPeerAck`,
`OnConnected`, `OnDisconnected` the event loop; `Resend` the outbox's turn at
`Connected`; `Redial` and `Start` the connection loop and the launch of the
application. Faults, at most `MaxFaults` of the kinds in `FaultKinds`: a lost
socket, a crash of a node, a restart of the server, a failing database on the
server, an expired row, a forgotten id. Contents, encryption and names are
abstracted: a message is an id with a sender and a receiver; `Refused` are those the
receiver may drop without an acknowledgement (not decryptable, unknown peer).

`Mailbox` is the abstract promise: a message in the queue leaves it when its
receiver has handled it, or is on record as discarded (cap, age), and the
sender is shown "delivered" only for a handled message. `ImplementsMailbox`
maps it: keeping = ids in `rows`, received = stored or acknowledged although
the store failed, discarded = `gone`, confirmed = outbox rows at "delivered".

### RelayPresence

`conn`, `subs` are the server's two maps, `pc`, `news`, `pend`, `snap` the
state of a handler: `Register`, `Collect` and `Notify` (subscribers_of, then a
lookup and a push for each), `Subscribe`, `Read`, `Snapshot`, `Close`,
`Unsubscribe`. On the client `known`, `greeted`, `open`, `up`, and `view`, what
the window shows. What the server pushes to an open socket is applied to `view`
at once. `asked`, `told` and `swept` are history.

### CronScheduler

`row`, `sch`, `on`, `next`, `claim` are the columns of `cron_jobs`, `running`
the `cron_runs` whose status is running, `phase`, `wake` and `permit` the loop
with its sleep and its `Notify`, `owed` the commands that wrote but have yet to
notify, `task` the spawned executions. An execution (LLM calls, tools) is
abstracted to its end: `Complete`, however it went. A `next_run_at` is an
instant with the offset it is written in, since SQL compares its digits
(`Digits`), while `compute_sleep_duration` parses it. A database function is
one step, as it holds the connection's mutex, but no transaction:
`CrashClaiming` and `CrashCompleting` stop between its statements.

`JobLock` is the abstract promise: one run at a time executes a job, and once for each time
the job was armed. An edit arms it only while nothing executes it, the end of an execution may
arm it again unless the job is gone, and a start may, when nothing executes yet.
`ImplementsJobLock` maps it: holders = the runs whose `task` is the job, armed = the jobs
that can be claimed (`Claimable`), gone = the deleted ones.

### TeamRun

`status` and `task` are the rows; `pc`, `todo`, `at` the delegation, first the
leader's turn in the window, then the loop of `spawn_agent_tasks` (`CreateTask`,
`Launch`, `Register`), `DelegationReturns`, `MapStreams`; `stream`, `registry`
the spawned streams and the abort handles; `report` the steps of
`handle_report` (`Report`, `Check`, `StartSynthesis`) and the synthesis it
started; `map`, `synthMap`, `active`, `events` the window. The window's listeners
are `OnStreamDone`, `OnAllReports`, `OnSynthesisDone`, `OnCancelled`. An abort
is `Abort` (snapshot), `AbortTask` for each task, `AbortEnds`; one per life of
the process. `Restart` is a stop and `recover_runs`. The abort button is
modelled while the run is shown as running (`active`); the window also shows it
while a bubble is pending. An agent is delegated to at most once.


### Contacts and Secretary

`contacts` is the table, `peer_keys` and `index` the two maps of `RelayManager`
in `peers.rs`. A relay id is a prefix of the key and stands for it; cards of
old versions have ids of their own (`LegacyIds`) and may name a key that is also
known under its relay id (`Twins`). The async commands `approve_contact`,
`accept_contact_invite` and `send_friend_request` are records in `cmd` that
remember what they have read and name the statement that is next
(`UpdateApproved`, `StoreInvited`, `RegisterContact`, `StoreFriend`, ...); the
commands that are `pub fn` take their steps on the main thread (`ForgetKey`,
`DeleteContact`). An event loop works on one envelope at a time (`hand`):
`HearIntroduce` to `RegisterIntroduced`, `ReadKnown`, `AnswerKnown`.
`register_peer_key` takes its two locks one after the other and is one step here.
Lifecycle: `StartBegin` (status), `ListContacts` and the installation of the
rebuilt index, `StartClient`, `StartFails`, `StopBegin` (handle), `StopEnd`,
`Restart`; the client task of each session emits events
(`ClientConnects`, `ClientLoses`, `ClientEnds`) which its event loop takes
later, also after it was replaced. Start and stop come one at a time.

`Secretary` adds what an event loop does with a message: `FindThread`,
`StoreMessage` (UNIQUE message id), `AutoRespond`, which takes the thread
(`ACTIVE_THREADS`) or leaves the message to the responder there; a responder
repeats `LookForUnanswered`, `GenerateResponse` (minutes, in which everything
else may happen), `SaveResponse`, `PostResponse`, and ends with `ReleaseThread`.
Deleting a contact or thread takes what the foreign keys cascade to (`Cascade`).
The id of a new thread is the smallest of `ThreadIds` that nobody remembers (`FreshTids`;
the proofs use only that nobody remembers it). `Kept` is the part of a sequence that is in a
set, what DELETE and WHERE leave of a table. The window's
own message (`FindOwnThread`, `CreateOwnThread`, `StoreOwnMessage`) may create a
thread at the same time. An incoming MessageResponse starts no responder, but a
responder at work in its thread takes it for a request without an answer
(secretary.rs:172) and answers it. `cleared` remembers what was cleared from a thread while it was
answered there, and responses of a peer that were cleared while their answers stayed.

### AgentStore

`agent`, `team`, `conv`, `note`, `dirs`, `files` are the rows, the vault's notes
and the folders; a text is a default of the bundle, an old default, another
locale's, the user's, or absent. The commands are not async: each is one step,
with a disjunct for every place where a failed write or a crash cuts it short.
A start goes through `DatabaseNew` (reset of a database without a version),
`CreateSchema`, the migrations, `SetSchemaVersion`, `SeedManagerAgent`,
`RefreshDefaultManager`, `SyncAgentsFromFs`; then come the commands:
`CreateAgent`, `UpdateAgent`, `DeleteAgent`, `WriteAgentFile` (from an editor that
may have been opened for an agent deleted since), teams and members,
conversations, notes, `ExportAgent`, `ImportAgent` with its roll-back
(`ImportFails`) and its crash (`ImportCut`).

### Completion

`cfg`, `store`, `disk` are the configuration in memory, in the cache of the
store plugin and in its file: `SetConfig` and `SetNoProxy` fill in what is left
out, save, and only then change `cfg`; a save that fails leaves its values in the cache
and so with the next save in the file. `Begin` is a call of one of the
three kinds of completion, `Command` the rest of the command (`Spawn`, `Register`),
`Exchange` the task: `Refused` with thinking and asked again, or `Connected`;
`Receive` a line; `Finish`, `Fail` and `Deregister`. A line is text or a delta of a tool call; `acc` is what
`api_service.rs` makes of them. `Abort` takes the entry of the registry,
`Cancelled` is its end.

### Conversation

One agent's conversations: rows with the summary pointer, messages, images on
disk; `run` is a turn (`Send`, `SaveUser`, `Reply` or `TurnFails`),
`Regenerate` deletes from a message on, `DeleteBegin`, `DeleteRow`,
`DeleteFiles` are the deletion, `Select` and `Load` what the window shows (`cur`,
`shown`, `win`), `Summarise`, `SummaryAnswer`, `SummarySave` the summary;
`JobNext` the consolidation of an ended conversation (digest, mark, snapshot,
merge, mark), `FlushNext` the one before a turn that nears the context limit,
`Recover` what a start finds pending, `Crash` the end of the process at any of
these points. A flow of the window keeps between two commands what it read. The
commands on the database are not async and the runtime hands them over in order,
which is why no command of another flow falls between two that a flow issues without
waiting; `loading = None` in a guard stands for that. `taint` marks a
conversation whose summary met one of four events: the messages it covers were
regenerated away while it was made, the answer was appended to the window of another
conversation, it was built on the summary of another conversation, which the window
had taken over without comparing its selection (`win.of`, history, says whose
it is), or the excluded prefix shrank so that messages were summarized twice.

### ShellCommand and ToolRun

`ShellCommand` has the analysis and hardening of ssh, scp and sftp commands as
operators on tokens: what the regular expressions recognise, the options that are
blocked in each of their spellings, the position of the remote command, the
options that are inserted. `ToolRun` has `config` (TOOL_CONFIG.json, which
`std::fs::write` empties before it writes: `WriteConfig`, `EndWrite`), what
the window read of it, the credentials in metadata, memory and file
(`ChangeMeta`, `ChangeSecret`, whose second half may fail), and calls: a row in
the log, then one action per kind of tool. A shell call reads the list of
allowed credentials (`ReadAllowed`), then their secrets, and starts a thread
(`StartShell`, `Spawn`, `StorePid`, `Exit`); `ShellTimeOut` kills the
process by the stored id, `TimeOut` drops the call. An unattended run (cron job,
answer to a peer, member of a team) is offered tools by its role when it starts
and is taken to call only those.

### Vault

`disk` maps paths to files (a note, one without valid frontmatter, or none),
`reg` is `NoteRegistry`, `links` the `LinkIndex` with its reverse. An operation
of the manager holds its lock and is one step: `CreateNote`, `UpdateNote` with
rename (a failed removal leaves two files), `DeleteNote`, `ArchiveNote`,
`Search`, `RebuildIndex`. A tool writes without the lock in steps of its own
(`ToolWriteRead`, `ToolWrite`, `ToolIndex`, `ToolUnindex`, `ToolUnlink`,
`RawWrite`), the user's editor changes files at any time (`EditMove`, `EditCopy`,
`EditBreak`, `EditRemove`), and the watcher hears of changes (`chan`,
`received`: `Receive`, `ProcessEvents` after a quiet period) and rebuilds. `skew` says
what happened to files behind the index since it was built: `edited` from
outside, `overwritten` by an archived file, `copied` by a rename cut short,
`raced` by a tool, `stripped` of frontmatter. `Layers` are the rounds of the
breadth-first search of a graph.

### Browser

Actors are calls; each is cut at its awaits (the `pc` in the header of the
module): a browser tool looks its session up, gets or starts the sidecar under the mutex,
creates a session, takes pending approvals, enters the map, posts its command,
records the answer. Closers (`CloseTool`, `DeleteConversation`, `IdleSweep`,
`Shutdown`) take sessions out of the map and close them one by one; `SetKnob` saves
a setting and restarts the sidecar; `Approve` finds a session or parks the
domain. `proc` has for each process what it was started with and which sessions
are open in it; `Crash` ends one by itself, `TimeOut` drops a call at any
await while its request stays at work (`loose`). Saves of settings succeed. A
process starts with the settings read one mutex after another (any order here).

## 3. The runs

| run | bounds | shows |
|---|---|---|
| `RelayDelivery_safety` | 1 message, 3 sessions, 1 fault of any of 7 kinds, cap 1, the receiver may refuse | acknowledgements are never ahead of what they confirm, the queue keeps what it took, `Mailbox` is implemented |
| `RelayDelivery_live` | 1 message, 3 sessions, 1 lost socket, fair | every message is acknowledged, an acknowledgement means the server took it, a login delivers the backlog |
| `RelayPresence_safety` | 2 peers, 3 sessions, 1 fault, contacts added at any time | registrations are served, newer sessions kept, no change missed |
| `CronScheduler_safety` | 2 jobs, 3 schedules, one of them with an offset, time to 3, 3 commands, 1 crash | `JobLock` is implemented (no double run), claims and runs agree whatever a crash leaves, edits wake the loop |
| `TeamRun_safety` | 3 agents, 1 restart | synthesis after all tasks, ended runs have ended tasks, a waiting run waits for somebody or for a task that failed, aborts stop streams and stay in force until a synthesis starts, reports stay recorded |
| `AgentStore_safety` | 3 agents, 2 names with 1 suffix, 2 files, 2 notes, 1 conversation, 1 team, 4 commands, 1 crash; new, unversioned and older databases | rows, folders, notes and references stay in step (`StoreSound`), nothing of the user's is taken (`NothingTaken`) |
| `Completion_safety` | 1 request of any kind, 1 key, 2 URLs, answers of 3 lines, 2 changes of configuration or restarts, fair | one exact answer, running streams can be aborted, settings in force are saved ones, every request is answered |
| `Conversation_safety` | 2 conversations, 4 message ids, an image on the first, 2 visits and 2 summaries (3 together), 1 deletion, 2 flows at once | no dangling file, a summary covers a prefix exactly, consolidation loses nothing it counts as done |
| `ToolRun_safety` | 1 call of every kind by window, cron, peer or member, 2 commands, 1 failure, an old and an edited configuration, 1 credential | secrets are kept, calls stay in bounds, records tell what happened, nothing foreign is changed |
| `Vault_safety` | 2 agents, 2 titles with 1 suffix, 3 notes, 3 commands, 1 edit from outside, 1 crash | the index agrees with itself and the files, equals a rebuild when quiet, notes are kept |
| `Secretary_safety` | 1 peer and an old id of it, 3 requests, 1 response, 2 async commands, 2 sessions, 6 budgets | contacts and index, status, one posted answer per request, requests have a responder |
| `Browser_safety` | 2 conversations, up to 4 calls in 6 mixes, 2 settings of 2 values, 3 session ids, 2 processes | the process follows the settings, the map follows the process, approvals are kept |

Why the bounds are enough to be of interest.

* Relay: one message meets every handler in every order, and its re-sent copies
  compete with it; three sessions let an old and a new session of one peer live at
  the same time as the other peer's. The cap of one row is reached by a second
  copy.
* Scheduler: two jobs are needed for a sleep that belongs to another job; time 3
  with `Stale` = 1 lets a claim of time 1 be stale at a start at time 3; `Runs`
  may be as few as the jobs, since a job has one task.
* Team runs: three agents give a first, a middle and a last report.
* `AgentStore`: three ids are the manager, one agent and one import or orphan; four
  commands are enough to create, refer to, delete or export, and import again.
* `Completion`: requests share only the configuration and a registry keyed by
  request id, so one request meets all that could disturb it; three lines give two
  tool calls with a delta between them.
* `Conversation`: two flows at once is every pair of flows; four ids are a turn,
  its regeneration and a second turn; of two visits and two summaries three happen in one
  behaviour (`MaxMoves`), so two summaries may race a visit and one two. `MinMessages` is 2 here and 3 in the code.
* `ToolRun`: calls share only the jobs and the log rows keyed by call, so one call at a time
  meets all it reads being changed.
* `Vault`: three notes give a name shared by two notes of different agents and a third that
  links to them; `MaxSuffix` = 1 gives the second file of a name.
* `Secretary`: each behaviour draws one of six budgets (`MCSecretary`): contacts
  and indexes, the life of the manager, messages and deletions, messages of this node and
  deletions, messages and removed contacts, a restart. `Recent` is 3 here and 50 in the code, so that the
  oldest message falls out.
* `Browser`: each behaviour draws one of six mixes (`MCBrowser`): two
  creations with an approval and a timeout, a setter beside two creations, an approval
  and a setter, two setters with a crash, closers, a shutdown.

Symmetry is used where ids are interchangeable (`AgentStore`, `Browser`, `TeamRun`,
`CronScheduler`, `Conversation`, the commands of `Secretary`), as these runs check
safety only. `CHECK_DEADLOCK FALSE` everywhere: all these systems may
come to rest, when the user does nothing and the bounds are used up.

Bounds of the models, not of the code: every constant named `Max...`, `Budgets`, the
number of `Sessions`, `Runs`, `Actors` and `Commands`. `MaxSuffix` is 100 in the
code's import and unbounded in its vault. `QueueCap` and `Stale` are the code's
limits with small values.

Fairness. `RelayDelivery` (`FairSpec`): weak fairness of each handler on the
server, of each node's event loop and pending command, of `Redial`, and of the
end of a session whose other end is gone: these are tokio tasks that are
ready and hold no lock for ever, and the connection loop retries without
limit. Weak fairness of `Start` says that an application that was closed is
opened again; without that nothing can be promised to a sender who left. Faults
and the user have no fairness. The liveness run has no crash and no restart: after
a restart of the server an acknowledgement is not owed until the outbox is
re-sent, which `Connected` does, so the run's one lost socket covers the path.
`Completion`: weak fairness of commands and of exchanges, which end in any case,
as the HTTP client has a time limit of 60 seconds (`utils/http.rs`); neither the user
nor the provider's next line is fair. The other modules claim safety only and state
no fairness.

## 4. The proofs

`RelayDelivery_proofs` proves, for any peers, messages and sessions, any cap,
any number of faults of all kinds:

| theorem | statement |
|---|---|
| `TypeCorrect` | `Spec => []TypeOK` |
| `PeerAckIsSound` | `Spec => []PeerAckMeansHandled` |
| `QueuedIsSound` | `Spec => []QueuedMeansKept` |
| `DeliveredIsStored` | if the store never fails, `Spec => []DeliveredMeansStored` |
| `QueueReleasesHandled` | `Spec => OnlyReleasedWhenHandled` |
| `RelayImplementsMailbox` | `Spec => ImplementsMailbox` |

Assumptions: those named in `RelayDelivery` (`PeerAssumption`,
`MessageAssumption`, `SessionAssumption`, `BoundAssumption`), which TLC
evaluates in every run. `DeliveredIsStored` adds `StoreMayFail = FALSE`.

The argument. `PeerAckMeansHandled` and `QueuedMeansKept` quantify over every
place an acknowledgement can be, so with `TypeOK` they are inductive:
`AckInv == TypeOK /\ PeerAckMeansHandled /\ QueuedMeansKept`. `TypeOK` is
needed because the step lemmas speak of heads and tails of well-typed
sequences. Rather than to prove each conjunct for each of 25 actions,
`SoundStep` says what a step may do: ids that are kept, handled or gone stay
so, and every new peer_ack or queued mark is about such an id.
`SoundStepPreserves` shows that any such step preserves the two invariants, and
`NodeSound`, `ClientSound`, `HandlerSound`, `ServerSound` show, one action at a
time, that every step is one. The refinement uses the same invariant: the only
step that releases a row, `HandlePeerAck`, follows a peer_ack, so its message was
handled; `Enqueue` maps to `Keep`, what ages to `Discard`, `OnEnvelope` to
`Receive`, `OnPeerAck` to `Confirm`, everything else to a stutter or
`Unconfirm`. `QueueReleasesHandled` follows from the same lemmas.

`AgentRuns_proofs` proves about `TeamRun`, for any set of agents and any number of restarts:

| theorem | statement |
|---|---|
| `TypeCorrect` | `Spec => []TypeOK` |
| `LeaderSummarizesLast` | `Spec => []SynthesisAfterAll` |
| `StatusStaysTrue` | `Spec => []StatusFitsTasks` |
| `AbortReachesAll` | `Spec => []AbortStops` |
| `ReportsSurvive` | `Spec => OnlyAbortDiscardsReports` |

The only assumption is `BoundAssumption`. None of the properties is inductive:
that a synthesis follows all tasks rests on when reports can arise at all. The
inductive invariant has four parts. `RunInv` adds to the properties that reports,
and streams known to the window by their request id, follow the delegation
(`ReportsFollow`: `execute_delegation` must have returned before the window can
map a stream), that the run ends after it (`EndFollows`), and that an event
about a synthesis is told only when all tasks have ended (`SynthesisTold`; the
events on their way are `Told`). `StreamInv` says that agents not yet served have
neither task nor stream (`Untouched`), that only a stream that ended well is
reported (`StreamsReported`), that a running stream is in the registry unless it
is the one being registered, with its task running unless an abort began
(`StreamsFound`), and that an abort which began after the delegation has every
running stream still ahead of it (`AbortReaches`). `WindowInv` says what the window knows: an
abort it is told of is over, a synthesis it is told of was started by a report, a stream is
reported once, and while the delegation lasts its bubbles have temporary keys
(`BubblesTemp`). `WaitInv` follows a run that waits, for `StatusFitsTasks`: a task that runs has a stream
whose end the window will report (`TasksStarted`, `RunningKnown`), and when all tasks have ended the
last report is still being looked at or a stream has failed (`LastSees`: `handle_report` records
before it checks, so of any reports handled at once the last to be recorded has its
check ahead). `StaysCancelled` is what `AbortStops` says of the status. Each action has a lemma;
TLC checked the invariant before it was proved.

It proves about `ToolRun`, for any configurations, credentials, requests and roles' tools,
and any number of calls, commands and failures:

| theorem | statement |
|---|---|
| `SecretsStay` | `ToolSpec => []SecretsKept` |
| `RecordsStayTrue` | `ToolSpec => []RecordsAgree` |
| `CallsStayInBounds` | `ToolSpec => []CallsInBounds` |
| `ForeignStays` | `ToolSpec => NothingForeignChanged` |

The argument. `CallsOK` says of each call with its row and its process: while it lives it has
no result, what the file allows now it may have seen, and what it has read and was given it has seen
(`Live`, although `TOOL_CONFIG.json` and the store change between the two readings); a
process is there only for `run_shell` after the analysis of its command, and not longer than
the call waits unless nobody could kill it (`Runs`; the timeout around a call never comes
first, since a caller may ask for `MaxTimeout` at most). `StoresOK` says how far a command on a
credential has come, and that the list, the store in memory and its file differ only there or by a
failure. What is not refused is hardened (`NotRefused`) for every sequence of words: that two
positional words were counted only if two are there is an induction over the words, proved
from the least number outside a set of numbers (`FromZeroOn`). Proving it corrected the
model: `SshHardened` was stated in a form that only the commands of the run had (a key
of a plain word counted as an option, letters after a digit or a leading `o` as flags), and
two definitions had `CASE` arms that overlap, where TLA+ does not say which is taken.

`RelayDelivery_proofs` also has

| theorem | statement |
|---|---|
| `AcknowledgedIsTaken` | `Spec => []AckMeansTaken` |

which excepts, as the property does, a failed enqueue and a restart of the server.

`CronScheduler_proofs` proves, for any jobs, runs, schedules and times, any number of
commands and crashes:

| theorem | statement |
|---|---|
| `ExecutedOnce` | `Spec => []OneRunPerJob` |
| `CrashesLeaveClaimsInOrder` | `Spec => []ClaimsAgree` |
| `SleepIsRight` | `Spec => []WakesInTime` |
| `SchedulerImplementsLock` | `Spec => ImplementsJobLock` |

The argument. A task's job is claimed or deleted, and its run is running or went with
the job; no two tasks share a job, because a claim takes only unclaimed jobs and only
completion or a start releases them. A claim without a task is one that the last start left, so
it is no older than `Stale` was then. For the sleep: while the loop sleeps without a permit
and nobody owes it a notice, each job that was claimable when the sleep was planned was in
the minimum it was planned from, and each written since has a notice or is on record in
`done`. For the lock each action has a lemma that names the step of `JobLock` it is: a claim
starts the due jobs (`ClaimStarts`), which nothing executes (`ArmedIsFree`); an edit arms a
job only when nothing executes it (`CommandsEdit`), since it leaves the claim; a completion
finishes (`CompleteFinishes`), a start recovers, a crash stops; the rest stutters.

`RelayPresence_proofs` proves, for any peers, sessions and faults:

| theorem | statement |
|---|---|
| `RegistrationsAreServed` | `Spec => []RegisteredIsServed` |
| `ReplacedSessionsLeaveTheNewer` | `Spec => NewerConnectionKept` |
| `PresenceIsUpToDate` | `Spec => []NoChangeMissed` |

The argument. A session is registered only between its registration and its clean-up, and
of a registered session the handler has announced it or is about to. `NoChangeMissed`
speaks of quiet states; the invariant says of every state why a session that asked for `q`
has been told of `q`'s last change or will be: it has been told, or its own subscription is still
to be read from the wire, or the snapshot that it works on still has `q` to look up,
or the handler of the change still has this subscriber to notify or to collect.
The attempt to prove this found a path the model had and the property did not except: a
`SubscribePresence` of an older session of the same peer, handled late, replaces the newer
session's subscription (section 5).

`AgentStoreCompletion_proofs` proves about `AgentStore`, for any agents, folders, files,
notes, teams and conversations, and any number of commands and crashes:

| theorem | statement |
|---|---|
| `StoreStaysWhole` | `StoreSpec => []StoreSound` |
| `UserKeepsWhatIsTheirs` | `StoreSpec => NothingTaken` |

The argument. `StoreInv` strengthens `StoreSound` in two places: it says which parts of the
schema each phase of a start has made (`SchemaSoFar`: a start that was cut off begins
again, and only `SetSchemaVersion` leads to the phases that serve), and that two default rows are
one row (`OneDefault`, which needs no finite set of agents, unlike the count). Most steps keep
each row where it is (`RowsStay`) and give no row the default flag (`NoNewDefault`): such a
step keeps references, folders and the manager (`KeptWhen`), and what remains for it is
what it writes. The others have lemmas of their own: the cascade of a deleted row
(`CascadeKept`), the seed, which inserts the default row only when there is none
(`SeedNewKept`), the adoption of folders (`SyncIs`: a row of its own for each folder without
one), and the reset. An import writes only to a folder that no row has (`ImportFolder`) and to
notes the vault did not have (`ImportedNotes`); so its failure, which removes that folder,
takes nothing (`FailedImport`), and a text of the user's in a folder with a row is only reached by the
refresh of the manager, which replaces known defaults (`RefreshIs`).

The same module proves about `Completion`, for any requests, answers, settings and aborts:

| theorem | statement |
|---|---|
| `AnswersAreExact` | `Spec => []AnswerIsExact` |
| `StreamsStayAbortable` | `Spec => []RunningIsAbortable` |
| `SettingsAreTheSaved` | `Spec => SettingsInForce` |

The argument, for each request. `Flow`: how command, task and abort can stand to each other
and to the registry. `Ends`: before the exchange is over only an abort has given an outcome.
`Says`: what is accumulated says all that was sent, text in order and each tool call with its
pieces in order. `Shows`: while the window listens it was shown the accumulated text. A
delta either extends a tool call or begins one, and the order list grows with a position
(`OrderGrows`, `WithDeltaIs`), so a new line keeps `Says`. What was sent is described by positions of
lines, not by a recursive function over them: so the statement needs no induction over data.

`Browser_proofs` proves, for any conversations, calls, settings and processes:

| theorem | statement |
|---|---|
| `SidecarRunsWithTheSettings` | `Spec => []SidecarFollowsSettings` |
| `SessionsAreOpen` | `Spec => []MapMatchesSidecar` |
| `ApprovalsAreKept` | `Spec => []ApprovalKept` |

The argument. The mutex: while a call holds it to start a process there is no
sidecar, and the only live processes with a port in use are the sidecar, the one being
started and those given up. A setting that a starting or serving process lacks has a setter waiting
to end that process. The id of a session is in one place only: with the creation
that makes it, in the map, or with the call that closes it; so neither the clean-up after a
restart nor a closer can take another's session. A granted domain is in a session, pending, carried by
a creation, or was overtaken. The excused sets cover exactly the processes given up,
contexts left open and sessions cut off that `MapMatchesSidecar` names.

`Secretary_proofs` proves about contacts, beside everything the secretary does, and about
the secretary, beside every change of contacts, for any peers and old ids, commands, sessions,
agents, messages, size of the window, bounds and restarts:

| theorem | statement |
|---|---|
| `ContactsAreAgreedAndIndexed` | `SecretarySpec => []ContactsSound` |
| `StatusTellsOfTheSession` | `SecretarySpec => []StatusIsOfSession` |
| `OneAnswerOnItsWay` | `SecretarySpec => []RepliesSound` |
| `NobodyWaitsAlone` | `SecretarySpec => []WaitsForResponder` |

The argument for contacts. Ids of rows are not used again while anybody remembers them, so the event loop,
which accepts the row it has read, accepts that row or none. `IndexAgrees` speaks of ids at
rest; for every id that is not raced the invariant says how a flow may leave table and indexes
apart: a removal runs beside no other change, has found its row and has taken the key
away (`RemovalOK`); who registers a key has its row, who is befriended is registered before he is a
contact (`RowsOK`); a row without its key has a flow that registers it or removes it, a key
without its row one that inserts it (`KeysOK`); what a rebuild has read is still
true (`RebuildOK`). `Quiet` says when nothing happens to an id; each step is quiet for all
ids but one (`OneId`). For the status: the session in use runs and has not been told to
end, a farewell is queued only by a session that was, and a start or a stop under way has
no handle.

The argument for messages. `KeptIs`: what is kept of a table embeds in it in its order. An
answer stands behind the message it answers, in the same thread, is the only one, and what a
responder is preparing to answer is in its thread and has no answer yet (`AnswersOK`). That must hold
although a responder sees only the `Recent` last messages: it takes a message among
them (`TakenUp`), and every answer to it would stand behind it and so among them too. Deletions keep
this (`Gone`) when they take an answered message with its answer or record it in
`cleared`. For waiting: whatever ends a responder excuses all that its thread leaves
unanswered, and every other step leaves each message its responder or its event loop
(`StillServed`, `ServedWithMore`). The attempt to prove `AnsweredOnce` found a behaviour beyond the run's
bounds that broke it: a response of the peer is answered, the user clears the chat, which takes
the response and leaves the answer, and the peer's node delivers the response again, where
the answer is out of sight; TLC confirmed it with four deliveries, and `cleared` now records it.

`ConversationVault_proofs` proves, for any conversations and images, any number of messages,
visits, summaries, deletions and crashes:

| theorem | statement |
|---|---|
| `ConsolidationLosesNothing` | `Spec => []ConsolidationSound` |
| `FilesAreThere` | `Spec => []NoDanglingFile` |
| `SummariesAreExact` | `Spec => []SummaryExact` |

The argument. `Merges`: while a consolidation or a flush has the lock, the memory it has read is
the memory on disk, so the one it writes contains all that counts as consolidated. `Numbers`:
a message's number belongs to one conversation and is not used again, and the paths a deletion
has collected are its own conversation's, so that no later message can name them. `Exact`: every
summary that may still be saved, the one the window holds and those in the rows, covers the
messages of its conversation up to its pointer or is tainted; a summary that is saved after
a regeneration fails the comparison of pointers or carries the taint. The
attempt to prove `SummaryExact` found a behaviour beyond the run's bounds that broke it: the
window takes over a summary of another conversation, whose pointer is a message
that the window also shows, and the next summary continues from it. TLC confirmed it
with three summaries and eight messages; the fourth case of `taint` is its record.

`ConversationVault_proofs` proves further, for any agents, names, texts and paths, any number
of notes, commands, edits and crashes:

| theorem | statement |
|---|---|
| `IndexStaysExact` | `VaultSpec => []IndexExact` |
| `RestIsInSync` | `VaultSpec => []InSyncWhenQuiet` |
| `NotesAreKept` | `VaultSpec => NoteKept` |

The argument. The invariant `VInv` has six parts. `VIndex`: the registry is well typed, gives names
to its notes and no others, and links and backlinks are each other's reverse; each operation of
`LinkIndex` keeps this (`UpdateLinksOK`, `TryResolveOK`, `InvalidateNameOK`, `RemoveLinksOK`), of
the registry too (`RegisterOK`, `UnregisterOK`, `MovePathOK`), and so does a rebuild
(`RegistryOfKnows`, `LinksOfIs`). `VExact`: as long as `skew` is empty, every entry is
where its file is and every file has its entry, but for the one a tool works on; a command that
writes a note writes it where there was none or over itself (`WrittenExact`), because the stem
it takes is free. `VTool`: a tool writes under the id it has read. `VPlaced`: without edits from
outside a note is in the folder of its agent or in the shared one, which is what makes the list
(by owner) and the search (by folder) agree. `VSync`: when no event is left, the index is the
one a rebuild gives. Every write leaves an event, so the only step that changes the index
at rest is `ToolIndex`, when a rebuild came between a tool's write and its indexing: indexing a
note anew that the index knows exactly changes nothing (`IndexAgain`). It changes nothing
because a link to a note of the index is never broken (`ResolveFinds`), so that nothing is left
to mend, and because of `NoCopies`: with
two files of one note the registry has two names for it, and a single indexing keeps one.
`GraphIsNeighbourhood` needs that the rounds of the search satisfy the equation that
defines them (`LayersAre`), by induction on their number (`LayersExist`), and that the notes
linked to a set are those a link joins to it in either direction (`LinkedIs`).

Assumptions. Each theorem rests on the assumptions its module names, which TLC evaluates in
every run of that module: sets that are finite in the program are finite (`BoundAssumption`,
`ContactsAssumption`, `AgentStoreAssumption`), agents' and peers' functions have their domains
(`SecretaryAssumption`), timeouts are ordered and requests and files well typed
(`ToolRunAssumption`, `RequestAssumption`, `ConfigAssumption`), a vault has the two notes it begins
with (`VaultAssumption`), and `None` is not a member of
the sets it is used beside (`NoneAssumption`, `NoMailAssumption`, `NilAssumption`, `FileAssumption`),
which the code has from its types.

Proved without a run of their own: `OnlyReleasedWhenHandled`, `OneRunPerJob` (a conjunct of
`ClaimsAgree`), the two theorems `TypeCorrect` and the inductive invariants (`Inductive`), which the listed theorems rest on.

Only model-checked.
* Liveness: `EventuallyAcknowledged`, `LoginDeliversBacklog` and `Answered` (temporal
  reasoning under fairness is out of the prover's reach).

## 5. Where the code differs from what the repository says

Found while modelling. The models have each of these paths; the properties say in
their comments when they leave one out.

Relay.
* A message whose enqueue failed is in `seen_messages` and answered Delivered when it
  is sent again, though nobody has it (ws.rs:322).
* A row enqueued just after its target drained stays until the target's next login
  (ws.rs:350).
* The late clean-up of an old session removes the subscription of the newer one
  (ws.rs:107), and a SubscribePresence of the old one, handled late, replaces it (ws.rs:409);
  a replaced session lives on as long as its socket (ws.rs:70).

Scheduler.
* The loop sleeps past a job that was executing when the sleep was computed, until
  the next wake-up (cron_scheduler.rs:356, 88).
* An `at` time written behind UTC is claimed early, as texts are compared
  (cron_operations.rs:335), and hides an earlier job from the sleep.

Team runs.
* A cancelled run is made active again by a delegation still in its loop
  (team_orchestrator.rs:35), by a synthesis (team_synthesis.rs:65, 209) or by the window
  (teamChatFlowStore.ts:772), against docs/spec/team.md:145 and 164.

Contacts and secretary.
* A friend request stores its message with an empty thread id; the foreign key refuses
  it and the error is dropped, so no outbox row exists and it is never sent
  again; the comment at messaging.rs:211 says otherwise.
* A response of a peer is answered when a responder is at work in its thread
  (secretary.rs:172), against the comments there and at secretary.rs:144.
* Registering a key races with the removal of its contact and leaves a peer in the index
  that is no contact; an Introduce heard between the removal of the key and of the row
  is lost; one of two contacts of the same key takes the other's index entry along.
* An Introduce of a peer that is known is not compared with the known key; the
  failure to send one after an approval is only logged.
* A request deferred to a responder that has looked for the last time waits for the
  next message; a failed answer ends the responder with other requests waiting; a
  crash between the answer and its outbox row leaves the request counted as answered; a
  request cleared while it is answered may be answered again in another thread; a
  response that was answered and cleared with the chat may be answered again when it is delivered
  again (threads.rs, `clear_my_chat_messages`); a request for a deleted agent is acknowledged and lost.
* A late farewell of an old event loop changes the status of the new session
  (lifecycle.rs:62); a failed rebuild leaves the status at starting (lifecycle.rs:28).

Conversations.
* A summary under way when its messages are regenerated away is saved with a pointer to
  a message that is gone; one that arrives after the user went elsewhere is shown in
  the window of the other conversation until that is selected anew, and the
  next summary of that conversation may be built on it.
* Recovery starts all pending consolidations and only the first gets the lock.

Tools.
* The result of a hardened ssh command repeats the command as it was run, inline
  values included; docs/spec/agent.md:293 says that values are redacted.
* One allowed credential without a secret, or two with one variable, and none is given.
* A removed secret whose file could not be saved is back after a restart.
* A process whose id was not stored in time, or whose application ended, runs on.
* Enabled-by-default tools that were switched off are switched on at the next read.

Vault.
* Archiving a note over a file of the same name replaces the archived note
  (manager.rs:741).
* A search with wide characters before the match uses a byte position as a character
  position, panics, and leaves the manager's lock poisoned (search.rs:187).

Browser.
* A session created while the sidecar is restarted, or whose sidecar died, stays in
  the map: its calls fail with "Session not found" until it is closed or idle, although
  set_proxy_server clears the map for that reason (session.rs).
* The idle clean-up closes from a list without looking at `last_active` again; a
  creation whose first snapshot fails leaves its context open; a failed health check
  leaves the child running (sidecar.rs:161); two setters of one knob may leave the
  older value in the file; an approval overtaken by a creation waits for the next
  session.

Completion.
* Values refused by a failed save reach the file with the next save of another
  setting (api.rs:133).

## 6. Not modelled, and further hazards

Not modelled at all (`not_modelled` in `PROJECT.json`): the relay's authentication
(one challenge per socket, a sequential check), envelope formats and cryptography
(an envelope is intact or refused), the relay's directory, search limiter, hub REST
interface and admin pages (single database statements), the hub client with
marketplace and skills (HTTP and file I/O), settings that nothing else reads, and the
rendering of the interface.

Left out of modelled components:

* `RelayDelivery`: heartbeats; the shutdown of the client is in `Contacts`.
* `CronScheduler`, `TeamRun`: the content of LLM turns; errors of the database in
  `TeamRun`; in `CronScheduler` an error of the completion is a crash at the same place.
* `Contacts`: names and descriptions, the agent bound to a contact, clearing of all own
  chats; an invitation is an id and a key. Start and stop are issued one at a time.
* `Secretary`: the agent's tools while it answers (`ToolRun` has the relay role);
  relay failures below the outbox (`RelayDelivery` has them).
* `Completion`: HTTP, framing of SSE, characters cut between chunks, logs, the list of
  models.
* `Conversation`: titles, learning mode, skills; the text of a memory; which messages a
  digest was made from.
* `AgentStore`: avatars and prompts.
* `ToolRun`: what a page, file or search returns; the approval dialogs of the
  window; errors of updates of the log are ignored as in the code.
* `Vault`: tags, confidence and its decay, validation of paths, events to the window.
* `Browser`: contents of pages, references of elements, artifacts and screenshots.

Further hazards, beside those listed in `PROJECT.json`. Covered by a property of the
run:

* relay: the receiver's store fails while its acknowledgement is sent
  (event_loop.rs:294); a lost socket must be unregistered (ws.rs:84);
* scheduler: a crash between the end of a run and the release of its claim
  (cron_operations.rs:402), a young claim that survives a restart
  (cron_scheduler.rs:50);
* agents: a crash between the database and the files of an import
  (export_commands.rs:478), a folder that cannot be removed (agent_commands.rs:54), an
  editor left open (agent_commands.rs:128), an archive imported twice
  (export_commands.rs:385), a team inserted without a transaction
  (team_operations.rs:107);
* completions: deltas that come interleaved (api_service.rs:389), the second attempt under
  the same id (api_commands.rs:436), a check made with other values than the save
  (api_commands.rs:207);
* tools: the credential list read before the secrets (credential_service.rs:339), two
  files written one after the other (credential_service.rs:92), a call whose row
  stays pending (message_ops.rs:74);
* vault: a rename cut between its two files (manager.rs:529, 531), a rebuild between a
  tool's two steps (dispatcher.rs:100), long sequences of incremental updates
  (links.rs:327), links broken by a rename (links.rs:368), a graph over files that are gone
  (manager.rs:770);
* contacts and secretary: rows read before a removal and written after it
  (event_loop.rs:250), an insert that comes second (messaging.rs:111), an index
  built from rows read earlier (peers.rs:89), an answer under way while its thread goes
  (secretary.rs:418), messages beyond the last fifty (messages.rs:67).

Without a property, because no document says what should happen:

* an envelope pushed to a dead socket is acknowledged as Delivered (ws.rs:335);
  SubscribePresence replaces the whole set (ws.rs:409); the search limit counts twice
  around the edge of its window (state.rs:180, not modelled);
* an `at` job moved to a later time while it runs is disabled by the completion of the old
  time (cron_operations.rs:415);
* a stream that ends before the window knows it is never reported
  (teamChatFlowStore.ts:652); two last reports start two syntheses
  (team_synthesis.rs:64);
* the folder of a default manager is removed before the deletion of its row is refused
  (agent_commands.rs:68); an import mixes with the folder of a deleted agent
  (export_commands.rs:232); a reset of the database seeds over the manager's edited
  files (agent_commands.rs:317);
* a conversation that goes on after its consolidation is not consolidated again
  (consolidationService.ts:39);
* a note is taken out of the index before its deletion is refused
  (dispatcher.rs:99); files that change all the time postpone the rebuild
  (watcher.rs:64);
* two flows that share a run id share one approval dialog (toolRunStore.ts:143), and the
  buttons look at the default run only (ChatMessage.tsx:29): not modelled.

## 7. Plan

Done: all components of section 2, model-checked; every safety property that a run checks
is proved (section 4), and two refinements, `Mailbox` and `JobLock`.

To state next: an abstract lock of a thread that `Secretary` implements; the documented
state machine of a team run, as far as it holds without aborts.
