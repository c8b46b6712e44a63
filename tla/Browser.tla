------------------------------- MODULE Browser -------------------------------
(* The browser tools of the node: BrowserManager (src/src-tauri/src/browser)   *)
(* drives one Node.js process, the sidecar, which holds one browser context    *)
(* per session.  A conversation is given a session by the first browser call   *)
(* that needs one.  The manager is shared: tool calls of several runs (two     *)
(* cron jobs of an agent even share a conversation id), the clean-up of idle   *)
(* sessions, the deletion of a conversation, the settings page and the user's  *)
(* approvals all work on it at once, each lock being held for a few lines      *)
(* only.                                                                       *)
(*                                                                             *)
(* An actor is one such call: their number bounds the calls of a behaviour.    *)
(* Its pc names the await it stands at:                                        *)
(*   find      the session map is looked up              (get_or_create)       *)
(*   ensure    the sidecar mutex is wanted                                     *)
(*   reading   it is held, the settings are read                               *)
(*   health    it is held, the new process is asked for its health             *)
(*   post      the port is known, the request not sent yet                     *)
(*   wait      the request is on the wire or at work in the sidecar            *)
(*   pend      the session is created, the pending approvals not taken         *)
(*   insert    they are taken, the session map is wanted                       *)
(*   check     navigate's address is checked                                   *)
(*   update    the answer is back, the session map is wanted                   *)
(*   closing   a closer is between two sessions of its list                    *)
(*   ending    shutdown holds the sidecar mutex and waits for the sidecar       *)
(*   kill, clear   a setter wants the sidecar mutex / holds it                 *)
(*   park      an approval found no session and wants the pending map          *)
EXTENDS Naturals, FiniteSets

CONSTANTS
  Conversations, Actors, Domains,
  Knobs,         \* the settings a sidecar is started with: proxy, headless, ...
  Values,        \* what a knob may be set to
  Empty,         \* the value of a knob the settings file says nothing of
  Detected,      \* the knobs that the system has a value for: proxy, no_proxy
  Starts,        \* what the settings file may say when the node starts
  MaxIds,        \* bound: session ids drawn (fresh uuids, numbered)
  MaxProcs,      \* bound: sidecar processes spawned
  Budgets,       \* how often a behaviour does each of Kinds: one is chosen in Init
  None

Kinds == {"command", "tool", "delete", "idle", "shutdown", "set", "patch", "approve", "crash",
          "timeout"}
Ids == 1..MaxIds
Procs == 1..MaxProcs

ASSUME StartAssumption ==
  Empty \in Values /\ Detected \subseteq Knobs /\ Starts \subseteq [Knobs -> Values]
ASSUME BoundAssumption == MaxIds \in Nat /\ MaxProcs \in Nat
(* None is a value of its own. *)
ASSUME NoneAssumption ==
  /\ None \notin Conversations \union Actors \union Domains \union Values \union Ids \union Procs
  /\ None \notin Kinds \union {"create", "do", "close"}
  /\ None \notin [id : Ids, approved : SUBSET Domains, fresh : BOOLEAN]

VARIABLES
  setting,       \* the value in force of each knob
  saved,         \* its value in the settings file
  proc,          \* each process: its state, what it was started with, its sessions
  sidecar,       \* BrowserManager.sidecar
  lock,          \* who holds that mutex across an await
  sessions,      \* BrowserManager.sessions
  pending,       \* BrowserManager.pending_approvals
  act,           \* the calls
  loose,         \* requests at work in a sidecar whose caller has gone
  idleOn,        \* the idle task has not been aborted
  drawn,         \* the number of ids drawn
  budget,        \* what is left of the behaviour's calls and faults
  granted,       \* history: approvals the user was told are recorded, per conversation
  excused        \* history: what the code gives up on (see Excuses)

core == <<setting, saved, proc, sidecar, lock, sessions, pending>>
rest == <<loose, idleOn, drawn, budget, granted>>
calls == <<loose, idleOn, drawn, granted>>
vars == <<core, rest, act, excused>>

-----------------------------------------------------------------------------
Resting == [kind |-> None, pc |-> "rest", conv |-> None, id |-> None, method |-> None,
            port |-> None, todo |-> {}, cfg |-> [k \in Knobs |-> None],
            dom |-> None, took |-> {}]

Session(id, approved) == [id |-> id, approved |-> approved, fresh |-> TRUE]

(* Excuses: stray are the processes the manager lost sight of, leaked the ids  *)
(* whose owner was dropped or overwritten, cutoff the ids whose process ended   *)
(* by itself, was ended by shutdown, or ended between their creation and their  *)
(* entry into the map, raced the knobs that two calls were setting at once,     *)
(* apart those whose file was never brought in line with the manager: since the *)
(* start, by set_app_settings, or by a setter whose save failed.                *)
Excuses == [stray : SUBSET Procs, leaked : SUBSET Ids, cutoff : SUBSET Ids,
            raced : SUBSET Knobs, apart : SUBSET Knobs]

Alive(p) == p # None /\ proc[p].state = "up"
Unborn == {p \in Procs : proc[p].state = "none"}
Die(ps) == [p \in Procs |-> IF p \in ps /\ proc[p].state = "up"
                            THEN [proc[p] EXCEPT !.state = "dead", !.open = {}] ELSE proc[p]]
Cached == {c \in Conversations : sessions[c] # None}
Spend(kind) == budget[kind] > 0 /\ budget' = [budget EXCEPT ![kind] = @ - 1]
At(a, pc) == act[a].pc = pc
Go(a, pc) == act' = [act EXCEPT ![a].pc = pc]
Done == [Resting EXCEPT !.pc = "done"]
Rest(a) == act' = [act EXCEPT ![a] = Done]
(* The calls that carry an open session which the map does not hold yet. *)
Creators == {a \in Actors : act[a].pc \in {"pend", "insert"}}
Excuse(field, S) == excused' = [excused EXCEPT ![field] = @ \union S]

(* BrowserManager::new: the system's value stands in for an empty one. *)
Init ==
  /\ saved \in Starts
  /\ setting \in {s \in [Knobs -> Values] :
                   \A k \in Knobs : s[k] = saved[k] \/ (k \in Detected /\ saved[k] = Empty)}
  /\ proc = [p \in Procs |-> [state |-> "none", cfg |-> [k \in Knobs |-> None], open |-> {}]]
  /\ sidecar = None /\ lock = None
  /\ sessions = [c \in Conversations |-> None]
  /\ pending = [c \in Conversations |-> {}]
  /\ act = [a \in Actors |-> Resting]
  /\ loose = {} /\ idleOn = TRUE /\ drawn = 0
  /\ budget \in Budgets
  /\ granted = [c \in Conversations |-> {}]
  /\ excused = [stray |-> {}, leaked |-> {}, cutoff |-> {}, raced |-> {},
                apart |-> {k \in Knobs : setting[k] # saved[k]}]

-----------------------------------------------------------------------------
(* send_command: a call that needs the sidecar.  The mutex is asked for here   *)
(* and released before the request is posted.                                  *)

SendCommand(a, method, id) ==
  act' = [act EXCEPT ![a].pc = "ensure", ![a].method = method, ![a].id = id]

(* What a call does when its request has failed: a command returns the error,  *)
(* a closer ignores it and turns to the next session of its list.              *)
BackToList(a) ==
  act' = [act EXCEPT ![a] = [Resting EXCEPT !.kind = act[a].kind, !.pc = "closing",
                                            !.todo = act[a].todo]]

Failed(a) == IF act[a].kind = "command" THEN Rest(a) ELSE BackToList(a)

(* ensure_sidecar with a process that answers the health check. *)
FindSidecar(a) ==
  /\ At(a, "ensure") /\ lock = None /\ Alive(sidecar)
  /\ act' = [act EXCEPT ![a].pc = "post", ![a].port = sidecar]
  /\ UNCHANGED <<core, rest, excused>>

(* No process, or one that died: it is forgotten (its sessions are not). *)
StartSidecar(a) ==
  /\ At(a, "ensure") /\ lock = None /\ ~Alive(sidecar) /\ Unborn # {}
  /\ lock' = a /\ sidecar' = None
  /\ Go(a, "reading")
  /\ UNCHANGED <<setting, saved, proc, sessions, pending, rest, excused>>

(* Each knob has a mutex of its own; they are read one after the other. *)
ReadKnob(a, k) ==
  /\ At(a, "reading") /\ act[a].cfg[k] = None
  /\ act' = [act EXCEPT ![a].cfg[k] = setting[k]]
  /\ UNCHANGED <<core, rest, excused>>

Spawn(a) ==
  /\ At(a, "reading") /\ \A k \in Knobs : act[a].cfg[k] # None
  /\ LET p == MaxProcs - Cardinality(Unborn) + 1 IN
       /\ proc' = [proc EXCEPT ![p].state = "up", ![p].cfg = act[a].cfg]
       /\ act' = [act EXCEPT ![a].pc = "health", ![a].port = p,
                             ![a].cfg = Resting.cfg]
  /\ UNCHANGED <<setting, saved, sidecar, lock, sessions, pending, rest, excused>>

(* No script, no node, no port reported: nothing runs and the call fails. *)
SpawnFails(a) ==
  /\ At(a, "reading")
  /\ lock' = None
  /\ Failed(a)
  /\ UNCHANGED <<setting, saved, proc, sidecar, sessions, pending, rest, excused>>

Healthy(a) ==
  /\ At(a, "health") /\ Alive(act[a].port)
  /\ sidecar' = act[a].port /\ lock' = None
  /\ Go(a, "post")
  /\ UNCHANGED <<setting, saved, proc, sessions, pending, rest, excused>>

(* Ten failed checks: the child is dropped, which does not end it. *)
NeverHealthy(a) ==
  /\ At(a, "health")
  /\ lock' = None
  /\ Failed(a)
  /\ Excuse("stray", {act[a].port})
  /\ UNCHANGED <<setting, saved, proc, sidecar, sessions, pending, rest>>

(* The calls in S end where they stand: the mutex is free, a request on the     *)
(* wire stays there, and what a creation had taken is gone with it.  A child    *)
(* not yet stored is dropped, which does not end the process.                   *)
Dropped(S) ==
  LET sent   == {a \in S : At(a, "wait")}
      holds  == {a \in S : lock = a}
      losing == {a \in S : At(a, "insert")}
  IN /\ loose' = loose \union
                   {[method |-> act[a].method, port |-> act[a].port, id |-> act[a].id] : a \in sent}
     /\ lock' = IF holds = {} THEN lock ELSE None
     /\ granted' = [c \in Conversations |->
                      granted[c] \ UNION {act[a].took : a \in {b \in losing : act[b].conv = c}}]
     /\ excused' = [excused EXCEPT
          !.stray  = @ \union {act[a].port : a \in {b \in holds : At(b, "health")}},
          !.leaked = @ \union {act[a].id : a \in {b \in S : act[b].method \in {"create", "close"}}}]

(* The request reaches the process whose port was read, or nobody. *)
Post(a) ==
  /\ At(a, "post")
  /\ IF Alive(act[a].port) THEN Go(a, "wait") ELSE Failed(a)
  /\ UNCHANGED <<core, rest, excused>>

(* Whoever waits for a process that ends gets a connection error. *)
Broken(a) ==
  /\ At(a, "wait") /\ ~Alive(act[a].port)
  /\ Failed(a)
  /\ UNCHANGED <<core, rest, excused>>

(* The handlers of the sidecar.  A handler that fails changes nothing here:     *)
(* no Chromium, no such session, an element that is not there.                  *)
Handled(method, p, id) ==
  proc' = [proc EXCEPT ![p].open = CASE method = "create" -> @ \union {id}
                                     [] method = "close"  -> @ \ {id}
                                     [] OTHER             -> @]

Serve(a) ==
  /\ At(a, "wait") /\ Alive(act[a].port)
  /\ act[a].method # "create" => act[a].id \in proc[act[a].port].open
  /\ Handled(act[a].method, act[a].port, act[a].id)
  /\ CASE act[a].method = "create" -> Go(a, "pend")
       [] act[a].method = "close"  -> BackToList(a)
       [] OTHER                    -> Go(a, "update")
  /\ UNCHANGED <<setting, saved, sidecar, lock, sessions, pending, rest, excused>>

ServeFails(a) ==
  /\ At(a, "wait") /\ Alive(act[a].port)
  /\ act[a].method = "close" => act[a].id \notin proc[act[a].port].open
  /\ Failed(a)
  /\ UNCHANGED <<core, rest, excused>>

(* create_session opens the context before it takes the first snapshot, which  *)
(* may fail: the context stays open and nobody knows its id.                   *)
CreateHalfDone(a) ==
  /\ At(a, "wait") /\ Alive(act[a].port) /\ act[a].method = "create"
  /\ Handled("create", act[a].port, act[a].id)
  /\ Failed(a)
  /\ Excuse("leaked", {act[a].id})
  /\ UNCHANGED <<setting, saved, sidecar, lock, sessions, pending, rest>>

(* The handler of a caller that is gone runs to its end all the same. *)
ServeLoose(r) ==
  /\ loose' = loose \ {r}
  /\ IF Alive(r.port) THEN Handled(r.method, r.port, r.id) ELSE UNCHANGED proc
  /\ UNCHANGED <<setting, saved, sidecar, lock, sessions, pending, act, idleOn,
                 drawn, budget, granted, excused>>

-----------------------------------------------------------------------------
(* A browser tool of conversation c; d is the private address that a           *)
(* navigation asks for, None any other tool or address.                        *)
Command(a, c, d) ==
  /\ At(a, "rest") /\ Spend("command")
  /\ act' = [act EXCEPT ![a].kind = "command", ![a].pc = "find", ![a].conv = c, ![a].dom = d]
  /\ UNCHANGED <<core, calls, excused>>

AfterFind(a) == IF act[a].dom = None THEN "ensure" ELSE "check"

(* get_or_create_session: the fast path of a cached session ... *)
FindSession(a) ==
  /\ At(a, "find") /\ act[a].conv \in Cached
  /\ sessions' = [sessions EXCEPT ![act[a].conv].fresh = TRUE]
  /\ act' = [act EXCEPT ![a].pc = AfterFind(a), ![a].method = "do",
                        ![a].id = sessions[act[a].conv].id]
  /\ UNCHANGED <<setting, saved, proc, sidecar, lock, pending, rest, excused>>

(* ... and the creation, which holds no lock while the sidecar works on it. *)
NewSession(a) ==
  /\ At(a, "find") /\ act[a].conv \notin Cached
  /\ drawn < MaxIds
  /\ drawn' = drawn + 1
  /\ SendCommand(a, "create", drawn + 1)
  /\ UNCHANGED <<core, loose, idleOn, budget, granted, excused>>

TakePending(a) ==
  /\ At(a, "pend")
  /\ pending' = [pending EXCEPT ![act[a].conv] = {}]
  /\ act' = [act EXCEPT ![a].pc = "insert", ![a].took = pending[act[a].conv]]
  /\ UNCHANGED <<setting, saved, proc, sidecar, lock, sessions, rest, excused>>

(* Faulty: the new session gets the default policy. *)
InsertDefault(a) ==
  LET c == act[a].conv IN
  /\ At(a, "insert")
  /\ sessions' = [sessions EXCEPT ![c] = Session(act[a].id, {})]
  /\ act' = [act EXCEPT ![a].pc = AfterFind(a), ![a].method = "do", ![a].took = {}]
  /\ IF c \in Cached THEN Excuse("leaked", {sessions[c].id}) ELSE UNCHANGED excused
  /\ UNCHANGED <<setting, saved, proc, sidecar, lock, pending, rest>>

(* A session that another call made meanwhile is overwritten: its browser      *)
(* context stays open and its approvals are gone.                              *)
InsertSession(a) ==
  LET c == act[a].conv IN
  /\ At(a, "insert")
  /\ sessions' = [sessions EXCEPT ![c] = Session(act[a].id, act[a].took)]
  /\ act' = [act EXCEPT ![a].pc = AfterFind(a), ![a].method = "do", ![a].took = {}]
  /\ granted' = IF c \in Cached
                THEN [granted EXCEPT ![c] = @ \ sessions[c].approved] ELSE granted
  /\ IF c \in Cached THEN Excuse("leaked", {sessions[c].id}) ELSE UNCHANGED excused
  /\ UNCHANGED <<setting, saved, proc, sidecar, lock, pending, loose, idleOn, drawn, budget>>

(* validate_url with the policy of whatever session is cached by now. *)
Admits(c, d) == c \in Cached => d = None \/ d \in sessions[c].approved

CheckAddress(a) ==
  /\ At(a, "check")
  /\ IF Admits(act[a].conv, act[a].dom) THEN Go(a, "ensure") ELSE Rest(a)
  /\ UNCHANGED <<core, rest, excused>>

(* update_session_from_response: the page may have landed anywhere. *)
UpdateSession(a) ==
  LET c == act[a].conv IN
  /\ At(a, "update")
  /\ \/ /\ c \in Cached
        /\ sessions' = [sessions EXCEPT ![c].fresh = TRUE]
     \/ /\ c \notin Cached \/ \E d \in Domains : ~Admits(c, d)
        /\ UNCHANGED sessions
  /\ Rest(a)
  /\ UNCHANGED <<setting, saved, proc, sidecar, lock, pending, rest, excused>>

-----------------------------------------------------------------------------
(* The closers: browser_close, delete_conversation, the idle task, shutdown.   *)
(* Each works through a list of conversations it made beforehand.              *)
StartClosing(a, kind, cs) ==
  /\ At(a, "rest") /\ Spend(kind)
  /\ act' = [act EXCEPT ![a].kind = kind, ![a].pc = "closing", ![a].todo = cs]

CloseTool(a, c) ==
  /\ StartClosing(a, "tool", {c})
  /\ UNCHANGED <<core, calls, excused>>

DeleteConversation(a, c) ==
  /\ StartClosing(a, "delete", {c})
  /\ UNCHANGED <<core, calls, excused>>

IdleSweep(a) ==
  LET idle == {c \in Cached : ~sessions[c].fresh} IN
  /\ idleOn /\ idle # {} /\ \A b \in Actors : act[b].kind # "idle"
  /\ StartClosing(a, "idle", idle)
  /\ UNCHANGED <<core, calls, excused>>

(* Window destroyed: the idle task is aborted wherever it stands, then every   *)
(* session cached at that moment is closed.                                    *)
Shutdown(a) ==
  /\ idleOn
  /\ idleOn' = FALSE
  /\ At(a, "rest") /\ Spend("shutdown")
  /\ LET idle == {b \in Actors : act[b].kind = "idle"}
         gone == [b \in Actors |-> IF b \in idle THEN Done ELSE act[b]]
     IN /\ act' = [gone EXCEPT ![a].kind = "shutdown", ![a].pc = "closing", ![a].todo = Cached]
        /\ Dropped(idle)
  /\ UNCHANGED <<setting, saved, proc, sidecar, sessions, pending, drawn>>

(* Faulty: the session is taken out of the map and the sidecar not told. *)
CloseQuietly(a) ==
  /\ At(a, "closing")
  /\ \E c \in act[a].todo :
       /\ sessions' = [sessions EXCEPT ![c] = None]
       /\ granted' = [granted EXCEPT ![c] = IF c \in Cached THEN @ \ sessions[c].approved ELSE @]
       /\ act' = [act EXCEPT ![a].todo = @ \ {c}]
  /\ UNCHANGED <<setting, saved, proc, sidecar, lock, pending, loose, idleOn, drawn, budget, excused>>

(* close_session: out of the map first, then the request; an actor that dies   *)
(* in between leaves the browser context open.                                 *)
CloseNext(a) ==
  /\ At(a, "closing")
  /\ \E c \in act[a].todo :
       IF c \in Cached
       THEN /\ sessions' = [sessions EXCEPT ![c] = None]
            /\ granted' = [granted EXCEPT ![c] = @ \ sessions[c].approved]
            /\ act' = [act EXCEPT ![a].pc = "ensure", ![a].method = "close", ![a].conv = c,
                                  ![a].id = sessions[c].id, ![a].todo = @ \ {c}]
       ELSE /\ act' = [act EXCEPT ![a].todo = @ \ {c}]
            /\ UNCHANGED <<sessions, granted>>
  /\ UNCHANGED <<setting, saved, proc, sidecar, lock, pending, loose, idleOn, drawn, budget, excused>>

ListDone(a) ==
  /\ At(a, "closing") /\ act[a].todo = {} /\ act[a].kind # "shutdown"
  /\ Rest(a)
  /\ UNCHANGED <<core, rest, excused>>

(* The last steps of shutdown, under the mutex: the sidecar is asked to close    *)
(* and given five seconds, in which it closes one context after the other and   *)
(* goes on serving whoever has its port, then it is killed.  That it is taken   *)
(* out of its place first is seen by nobody before the mutex is free.           *)
AskToClose(a) ==
  /\ At(a, "closing") /\ act[a].todo = {} /\ act[a].kind = "shutdown" /\ lock = None
  /\ lock' = a
  /\ Go(a, "ending")
  /\ UNCHANGED <<setting, saved, proc, sidecar, sessions, pending, rest, excused>>

CloseContext(a) ==
  /\ At(a, "ending") /\ Alive(sidecar)
  /\ \E id \in proc[sidecar].open :
       proc' = [proc EXCEPT ![sidecar].open = @ \ {id}] /\ Excuse("cutoff", {id})
  /\ UNCHANGED <<setting, saved, sidecar, lock, sessions, pending, rest, act>>

EndSidecar(a) ==
  /\ At(a, "ending")
  /\ sidecar' = None /\ proc' = Die({sidecar}) /\ lock' = None
  /\ Excuse("cutoff", IF Alive(sidecar) THEN proc[sidecar].open ELSE {})
  /\ Rest(a)
  /\ UNCHANGED <<setting, saved, sessions, pending, rest>>

-----------------------------------------------------------------------------
(* set_headless, set_proxy_server, set_no_proxy: the value first, then the     *)
(* restart; the file last, still under the sidecar mutex, a failing save being  *)
(* ignored.                                                                     *)
SetKnob(a, k, v) ==
  /\ At(a, "rest") /\ Spend("set")
  /\ setting' = [setting EXCEPT ![k] = v]
  /\ act' = [act EXCEPT ![a].kind = "set", ![a].pc = "kill", ![a].cfg[k] = v]
  /\ IF \E b \in Actors : act[b].kind = "set" /\ act[b].cfg[k] # None
     THEN Excuse("raced", {k}) ELSE UNCHANGED excused
  /\ UNCHANGED <<saved, proc, sidecar, lock, sessions, pending, calls>>

(* Faulty: the setter does not wait for the mutex. *)
KillUnlocked(a) ==
  /\ At(a, "kill")
  /\ lock' = a /\ sidecar' = None /\ proc' = Die({sidecar})
  /\ Go(a, "clear")
  /\ Excuse("cutoff", {act[b].id : b \in Creators})
  /\ UNCHANGED <<setting, saved, sessions, pending, rest>>

(* A session whose creation the old process has answered is not in the map yet *)
(* and will enter it although its process is gone.                             *)
KillSidecar(a) ==
  /\ At(a, "kill") /\ lock = None
  /\ lock' = a /\ sidecar' = None /\ proc' = Die({sidecar})
  /\ Go(a, "clear")
  /\ Excuse("cutoff", {act[b].id : b \in Creators})
  /\ UNCHANGED <<setting, saved, sessions, pending, rest>>

(* Faulty: the file is given what it had. *)
PersistOld(a, ok) ==
  /\ saved' = saved
  /\ excused' = [excused EXCEPT !.apart =
        IF ok THEN @ \ {k \in Knobs : act[a].cfg[k] # None} ELSE @]

(* The file gets the value of the setter; it is in line again unless another    *)
(* setter of the knob was at work.                                              *)
Persist(a, ok) ==
  LET mine == {k \in Knobs : act[a].cfg[k] # None} IN
  /\ saved' = [k \in Knobs |-> IF ok /\ k \in mine THEN act[a].cfg[k] ELSE saved[k]]
  /\ excused' = [excused EXCEPT !.apart = IF ok THEN @ \ mine ELSE @ \union mine]

(* Faulty: the sessions of the killed process stay in the map. *)
ClearNothing(a, ok) ==
  /\ At(a, "clear")
  /\ Persist(a, ok)
  /\ lock' = None
  /\ Rest(a)
  /\ UNCHANGED <<setting, proc, sidecar, sessions, pending, rest>>

ClearSessions(a, ok) ==
  /\ At(a, "clear")
  /\ sessions' = [c \in Conversations |-> None]
  /\ granted' = [c \in Conversations |->
                   granted[c] \ (IF c \in Cached THEN sessions[c].approved ELSE {})]
  /\ Persist(a, ok)
  /\ lock' = None
  /\ Rest(a)
  /\ UNCHANGED <<setting, proc, sidecar, pending, loose, idleOn, drawn, budget>>

(* set_app_settings with a browser setting: the file changes, the manager is    *)
(* not told.                                                                    *)
Patch(k, v) ==
  /\ Spend("patch")
  /\ saved' = [saved EXCEPT ![k] = v]
  /\ Excuse("apart", {k})
  /\ UNCHANGED <<setting, proc, sidecar, lock, sessions, pending, calls, act>>

-----------------------------------------------------------------------------
(* approve_domain: into the session's policy, or, the session map released     *)
(* again, into the pending map, which only the next creation looks at.         *)
Approve(a, c, d) ==
  /\ At(a, "rest") /\ Spend("approve")
  /\ IF c \in Cached
     THEN /\ sessions' = [sessions EXCEPT ![c].approved = @ \union {d}]
          /\ granted' = [granted EXCEPT ![c] = @ \union {d}]
          /\ Rest(a)
     ELSE /\ act' = [act EXCEPT ![a].kind = "approve", ![a].pc = "park",
                                ![a].conv = c, ![a].dom = d]
          /\ UNCHANGED <<sessions, granted>>
  /\ UNCHANGED <<setting, saved, proc, sidecar, lock, pending, loose, idleOn, drawn, excused>>

(* An approval that a creation has overtaken counts as not granted. *)
Overtaken(c) == c \in Cached \/ \E b \in Creators : At(b, "insert") /\ act[b].conv = c

Park(a) ==
  LET c == act[a].conv IN
  /\ At(a, "park")
  /\ pending' = [pending EXCEPT ![c] = @ \union {act[a].dom}]
  /\ granted' = IF Overtaken(c) THEN granted ELSE [granted EXCEPT ![c] = @ \union {act[a].dom}]
  /\ Rest(a)
  /\ UNCHANGED <<setting, saved, proc, sidecar, lock, sessions, loose, idleOn, drawn, budget, excused>>

-----------------------------------------------------------------------------
(* execute_tool drops a browser tool that takes longer than 360 s, at whatever *)
(* await it stands; other callers give up their request after as long.         *)
TimeOut(a) ==
  /\ Spend("timeout")
  /\ \/ /\ act[a].kind \in {"command", "tool"} /\ act[a].pc \notin {"closing", "find"}
        /\ Rest(a)
        /\ Dropped({a})
     \/ /\ act[a].kind \in {"delete", "idle", "shutdown"} /\ At(a, "wait")
        /\ BackToList(a)
        /\ Dropped({a})
  /\ UNCHANGED <<setting, saved, proc, sidecar, sessions, pending, idleOn, drawn>>

(* The sidecar, or the browser under it, ends by itself. *)
Crash(p) ==
  /\ Alive(p) /\ Spend("crash")
  /\ proc' = Die({p})
  /\ Excuse("cutoff", proc[p].open)
  /\ UNCHANGED <<setting, saved, sidecar, lock, sessions, pending, calls, act>>

(* Ten minutes without a call of the conversation (a call takes at most six). *)
Age(c) ==
  /\ c \in Cached /\ sessions[c].fresh
  /\ \A a \in Actors : act[a].conv # c
  /\ sessions' = [sessions EXCEPT ![c].fresh = FALSE]
  /\ UNCHANGED <<setting, saved, proc, sidecar, lock, pending, rest, act, excused>>

Next ==
  \/ \E a \in Actors :
       \/ FindSidecar(a) \/ StartSidecar(a) \/ Spawn(a) \/ SpawnFails(a) \/ Healthy(a)
       \/ NeverHealthy(a) \/ Post(a) \/ Broken(a) \/ Serve(a) \/ ServeFails(a)
       \/ CreateHalfDone(a)
       \/ FindSession(a) \/ NewSession(a) \/ TakePending(a) \/ InsertSession(a)
       \/ CheckAddress(a) \/ UpdateSession(a)
       \/ IdleSweep(a) \/ Shutdown(a) \/ CloseNext(a) \/ ListDone(a)
       \/ AskToClose(a) \/ CloseContext(a) \/ EndSidecar(a)
       \/ KillSidecar(a) \/ Park(a) \/ TimeOut(a)
       \/ \E ok \in BOOLEAN : ClearSessions(a, ok)
       \/ \E k \in Knobs : ReadKnob(a, k) \/ \E v \in Values : SetKnob(a, k, v)
       \/ \E c \in Conversations :
            \/ CloseTool(a, c) \/ DeleteConversation(a, c)
            \/ \E d \in Domains : Approve(a, c, d)
            \/ \E d \in Domains \union {None} : Command(a, c, d)
  \/ \E r \in loose : ServeLoose(r)
  \/ \E p \in Procs : Crash(p)
  \/ \E k \in Knobs, v \in Values : Patch(k, v)
  \/ \E c \in Conversations : Age(c)

Spec == Init /\ [][Next]_vars

-----------------------------------------------------------------------------
TypeOK ==
  /\ setting \in [Knobs -> Values] /\ saved \in [Knobs -> Values]
  /\ proc \in [Procs -> [state : {"none", "up", "dead"}, cfg : [Knobs -> Values \union {None}],
                         open : SUBSET Ids]]
  /\ sidecar \in Procs \union {None} /\ lock \in Actors \union {None}
  /\ sessions \in [Conversations -> [id : Ids, approved : SUBSET Domains, fresh : BOOLEAN]
                                       \union {None}]
  /\ pending \in [Conversations -> SUBSET Domains]
  /\ loose \subseteq [method : {"create", "do", "close"}, port : Procs, id : Ids]
  /\ granted \in [Conversations -> SUBSET Domains]
  /\ excused \in Excuses

(* The process that serves the tools runs with the settings in force, unless   *)
(* the call that changed them still waits to restart it; once a setter has     *)
(* saved a knob that no other was setting at the time, the file has the value  *)
(* in force, until set_app_settings or a failing save sets them apart, as the  *)
(* system's proxy may from the start; and no other process lives than that one,*)
(* the one being started and the ones whose start was given up (new,           *)
(* ensure_sidecar, set_headless, set_proxy_server, set_no_proxy, shutdown).    *)
SidecarFollowsSettings ==
  /\ TypeOK
  /\ \A k \in Knobs :
       /\ Alive(sidecar) /\ proc[sidecar].cfg[k] # setting[k] =>
            \E a \in Actors : At(a, "kill") /\ act[a].cfg[k] # None
       /\ k \notin excused.raced \union excused.apart /\ saved[k] # setting[k] =>
            \E a \in Actors : act[a].kind = "set" /\ act[a].cfg[k] # None
  /\ \A p \in Procs : Alive(p) =>
       \/ p = sidecar \/ p \in excused.stray
       \/ lock # None /\ At(lock, "health") /\ act[lock].port = p

(* A session in the map is open in the process that serves the tools, and a    *)
(* session open there is in the map or in the hands of the call that opens or  *)
(* closes it.  The exceptions are the ones the code has: a process that ended  *)
(* by itself or by shutdown, or was restarted between the answer of            *)
(* create_session and the entry, a call dropped by its timeout, two creations  *)
(* of one conversation at once (get_or_create_session, close_session,          *)
(* set_proxy_server's clean-up).                                               *)
MapMatchesSidecar ==
  /\ \A c \in Cached :
       \/ sessions[c].id \in excused.cutoff
       \/ Alive(sidecar) /\ sessions[c].id \in proc[sidecar].open
       \/ \E a \in Actors : At(a, "clear")
  /\ Alive(sidecar) =>
       \A id \in proc[sidecar].open :
         \/ \E c \in Cached : sessions[c].id = id
         \/ \E a \in Actors : act[a].id = id /\ (a \in Creators \/ act[a].method = "close")
         \/ id \in excused.leaked
  /\ \A c, d \in Cached : sessions[c].id = sessions[d].id => c = d

(* An approval the user gave is not lost before its session ends: it is in the *)
(* session's policy, or waits in the pending map while there is no session, or *)
(* is carried by the creation that took it.  An approval that a creation has   *)
(* overtaken is not covered (approve_domain, get_or_create_session).           *)
ApprovalKept ==
  \A c \in Conversations : \A d \in granted[c] :
    \/ c \in Cached /\ d \in sessions[c].approved
    \/ c \notin Cached /\ d \in pending[c]
    \/ \E a \in Creators : act[a].conv = c /\ d \in act[a].took
=============================================================================
