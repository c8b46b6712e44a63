--------------------------- MODULE RelayDelivery ---------------------------
(***************************************************************************)
(* End-to-end delivery of a chat message between two desktop nodes through *)
(* the relay server: the sender's outbox, the WebSocket sessions, the      *)
(* server's routing, de-duplication and offline queue, and the receiver's  *)
(* store-then-acknowledge.                                                 *)
(*                                                                         *)
(* Server code: relay-server/src/{ws,state,db}.rs.  Node code:             *)
(* src-tauri/src/relay/{relay_client.rs, manager/*}, and the commands      *)
(* relay_send_message and relay_start.  A handler is cut at its await      *)
(* points, wherever another task can change what it is about to read, and  *)
(* between two statements of which the second may fail on its own.         *)
(***************************************************************************)
EXTENDS Integers, Sequences, FiniteSets, Functions

CONSTANTS
  Peers,        \* relay peer ids
  Messages,     \* message ids (envelope.message_id)
  From, To,     \* the sender and the receiver of each message
  Sessions,     \* WebSocket sessions; an id is reused once both ends let go
  Refused,      \* messages the receiver may refuse, without acknowledging
  QueueCap,     \* rows kept per target in offline_queue (1000 in the code)
  MaxFaults,    \* bound on the number of faults
  FaultKinds,   \* the faults that may happen
  None

ASSUME PeerAssumption == Peers # {} /\ None \notin Peers
ASSUME MessageAssumption == /\ From \in [Messages -> Peers]
                            /\ To \in [Messages -> Peers]
                            /\ Refused \subseteq Messages
                            /\ None \notin Messages
                            /\ IsFiniteSet(Messages)
ASSUME SessionAssumption == None \notin Sessions
ASSUME BoundAssumption == QueueCap \in Nat \ {0} /\ MaxFaults \in Nat

VARIABLES
  \* server, in memory
  conn,    \* connections: the session registered for a peer
  owner,   \* the peer a session authenticates as
  pc,      \* where a session's handler is
  task,    \* the message a handler is routing
  seen,    \* seen_messages
  \* server, persisted
  rows,    \* offline_queue; the target of a row is To[m]
  \* wires
  up,      \* client to server, per session
  inbox,   \* server to client and client-side events, per peer
  held,    \* how many events of inbox already left the socket
  \* node
  cur,     \* the session the client's run_session is on
  status,  \* NetworkStatus
  call,    \* progress of the relay_send_message call of a message
  replay,  \* progress of relay_start with the outbox row of a message
  outbox,  \* outbox.status
  later,   \* messages whose outbox.next_retry_at lies ahead
  state,   \* peer_messages.delivery_state, what the user is shown
  stored,  \* messages in the receiver's database
  \* bounds and history
  failed,  \* messages whose store failed although acknowledged
  gone,    \* messages whose row the cap or the time-to-live deleted
  cut,     \* messages whose routing a failed insert or a restart ended
  surplus, \* targets whose last cut down to the cap failed, or was lost
  routed,  \* messages forwarded to some connection of their target
  faults   \* faults so far

serverVars == <<conn, owner, pc, task, seen, rows, gone, routed, cut, surplus>>
wireVars   == <<up, inbox, held>>
nodeVars   == <<cur, status, call, replay, outbox, later, state, stored,
                failed>>
vars == <<serverVars, wireVars, nodeVars, faults>>

----------------------------------------------------------------------------
ClientMsg == [kind : {"envelope", "peer_ack"}, m : Messages]

Envelope(m)     == [kind |-> "envelope", m |-> m]
PeerAck(m)      == [kind |-> "peer_ack", m |-> m]
ServerAck(m, a) == [kind |-> a, m |-> m]
Connected       == [kind |-> "connected", m |-> None]
Disconnected    == [kind |-> "disconnected", m |-> None]

AckStatus == {"sent", "queued"}   \* what Delivered and Queued are stored as
MsgEvent  == [kind : {"envelope", "peer_ack"} \cup AckStatus, m : Messages]
Event     == MsgEvent \cup {Connected, Disconnected}

\* Faulty: a row whose frame was handed over is taken for done.
RetryableUnsent == {"pending", "queued"}
Retryable == {"pending", "sending", "queued"}
Handled   == stored \cup failed
HeldIds   == {r.m : r \in rows}

\* Where a handler works on one message.
Busy == {"route", "store", "trim", "ackSent", "ackQueued", "confirm"}

TypeOK ==
  /\ conn \in [Peers -> Sessions \cup {None}]
  /\ owner \in [Sessions -> Peers]
  /\ pc \in [Sessions -> {"free", "auth", "drain", "loop"} \cup Busy]
  /\ task \in [Sessions -> Messages \cup {None}]
  /\ \A s \in Sessions : pc[s] \in Busy => task[s] # None
  /\ seen \subseteq Messages
  /\ rows \subseteq [id : Nat, m : Messages]
  /\ up \in [Sessions -> Seq(ClientMsg)]
  /\ inbox \in [Peers -> Seq(Event)]
  /\ held \in [Peers -> Nat]
  /\ cur \in [Peers -> Sessions \cup {None}]
  /\ status \in [Peers -> {"dormant", "active", "reconnecting"}]
  /\ call \in [Messages -> {"none", "stored", "check", "posted", "done"}]
  /\ replay \in [Messages -> {"no", "due", "sent"}]
  /\ later \subseteq Messages
  /\ outbox \in [Messages -> {"none", "pending", "sending", "queued", "sent",
                              "delivered"}]
  /\ state \in [Messages -> {"none", "sending", "queued", "sent", "delivered"}]
  /\ stored \subseteq Messages
  /\ failed \subseteq Messages
  /\ gone \subseteq Messages
  /\ routed \subseteq Messages
  /\ cut \subseteq Messages
  /\ surplus \subseteq Peers
  /\ faults \in 0..MaxFaults

\* The owner of a session that is not in use: any peer.
Nobody == CHOOSE p \in Peers : TRUE

Init ==
  /\ conn = [p \in Peers |-> None]
  /\ owner = [s \in Sessions |-> Nobody]
  /\ pc = [s \in Sessions |-> "free"]
  /\ task = [s \in Sessions |-> None]
  /\ seen = {}
  /\ rows = {}
  /\ up = [s \in Sessions |-> <<>>]
  /\ inbox = [p \in Peers |-> <<>>]
  /\ held = [p \in Peers |-> 0]
  /\ cur = [p \in Peers |-> None]
  /\ status = [p \in Peers |-> "dormant"]
  /\ call = [m \in Messages |-> "none"]
  /\ replay = [m \in Messages |-> "no"]
  /\ later = {}
  /\ outbox = [m \in Messages |-> "none"]
  /\ state = [m \in Messages |-> "none"]
  /\ stored = {}
  /\ failed = {}
  /\ gone = {}
  /\ routed = {}
  /\ cut = {}
  /\ surplus = {}
  /\ faults = 0

----------------------------------------------------------------------------
(* Wires.                                                                  *)

\* Send on a session's channel: the frames reach the client only while its
\* socket is the one of this session (send errors are ignored by send_msg).
Push(s, es) ==
  inbox' = IF cur[owner[s]] = s
           THEN [inbox EXCEPT ![owner[s]] = @ \o es]
           ELSE inbox

\* Commands of the node go to the current session, or nowhere: during backoff
\* connection_loop discards them, and a dead socket swallows them.
Send(p, cs) ==
  up' = IF cur[p] # None /\ pc[cur[p]] # "free"
        THEN [up EXCEPT ![cur[p]] = @ \o cs]
        ELSE up

\* Any order of a set of messages: get_pending_outbox orders by created_at, a
\* wall-clock time that concurrent commands take in no particular order.
Orders(S) == Bijection(1..Cardinality(S), S)

\* Faults: a socket or a process fails, a database refuses a statement, the
\* client refuses an envelope, a time to live runs out.
Fault(kind) == /\ kind \in FaultKinds
               /\ faults < MaxFaults
               /\ faults' = faults + 1

Free == {s \in Sessions : pc[s] = "free" /\ \A p \in Peers : cur[p] # s}

\* A new session for p, which the server's wait_for_auth is about to serve.
Dial(p) ==
  /\ Free # {}
  /\ LET s == CHOOSE s \in Free : TRUE
     IN  /\ cur' = [cur EXCEPT ![p] = s]
         /\ owner' = [owner EXCEPT ![s] = p]
         /\ pc' = [pc EXCEPT ![s] = "auth"]
         /\ up' = [up EXCEPT ![s] = <<>>]

----------------------------------------------------------------------------
(* The node.                                                               *)

\* relay_send_message, step 4: persist the message ...
Compose(m) ==
  /\ call[m] = "none"
  /\ call' = [call EXCEPT ![m] = "stored"]
  /\ state' = [state EXCEPT ![m] = "sending"]
  /\ UNCHANGED <<serverVars, wireVars, cur, status, replay, outbox, later,
                 stored, failed, faults>>

\* ... step 5, its outbox row ...
PersistOutbox(m) ==
  /\ call[m] = "stored"
  /\ call' = [call EXCEPT ![m] = "check"]
  /\ outbox' = [outbox EXCEPT ![m] = "pending"]
  /\ UNCHANGED <<serverVars, wireVars, cur, status, replay, later, state,
                 stored, failed, faults>>

\* ... which may fail: the message stays without a row, and is never sent.
OutboxFails(m) ==
  /\ call[m] = "stored"
  /\ Fault("outbox")
  /\ call' = [call EXCEPT ![m] = "done"]
  /\ UNCHANGED <<serverVars, wireVars, cur, status, replay, outbox, later,
                 state, stored, failed>>

\* Step 6: the relay is not active, leave the message queued.
PostLater(m) ==
  /\ call[m] = "check"
  /\ status[From[m]] # "active"
  /\ call' = [call EXCEPT ![m] = "done"]
  /\ state' = [state EXCEPT ![m] = "queued"]
  /\ UNCHANGED <<serverVars, wireVars, cur, status, replay, outbox, later,
                 stored, failed, faults>>

\* Step 7: hand the encrypted envelope to the relay client ...
Post(m) ==
  /\ call[m] = "check"
  /\ status[From[m]] = "active"
  /\ Send(From[m], <<Envelope(m)>>)
  /\ call' = [call EXCEPT ![m] = "posted"]
  /\ UNCHANGED <<serverVars, inbox, held, cur, status, replay, outbox, later,
                 state, stored, failed, faults>>

\* ... and only then mark the outbox row: the event loop may have been faster.
\* update_outbox_status sets next_retry_at to the present.
MarkSending(m) ==
  /\ call[m] = "posted"
  /\ call' = [call EXCEPT ![m] = "done"]
  /\ outbox' = [outbox EXCEPT ![m] = "sending"]
  /\ later' = later \ {m}
  /\ UNCHANGED <<serverVars, wireVars, cur, status, replay, state, stored,
                 failed, faults>>

\* What a refused envelope leaves (the handle was taken by relay_stop, the key
\* of the contact is gone): queued, and not to be tried again for a while.
Backoff(m) ==
  /\ outbox' = [outbox EXCEPT ![m] = "pending"]
  /\ state' = [state EXCEPT ![m] = "queued"]
  /\ later' = later \cup {m}

PostFails(m) ==
  /\ call[m] = "check"
  /\ status[From[m]] = "active"
  /\ Fault("send")
  /\ call' = [call EXCEPT ![m] = "done"]
  /\ Backoff(m)
  /\ UNCHANGED <<serverVars, wireVars, cur, status, replay, stored, failed>>

\* The time of a retry comes; nothing but the next connection looks at it.
RetryDue(m) ==
  /\ m \in later
  /\ later' = later \ {m}
  /\ UNCHANGED <<serverVars, wireVars, cur, status, call, replay, outbox,
                 state, stored, failed, faults>>

\* process_pending_outbox_internal, in the event loop: re-send every unfinished
\* row of p whose retry time has come; one that is refused backs off.
Unfinished(p) ==
  {m \in Messages : From[m] = p /\ outbox[m] \in Retryable /\ m \notin later}

Envelopes(ms) == [i \in DOMAIN ms |-> Envelope(ms[i])]

Resend(p) ==
  \E bad \in SUBSET Unfinished(p) :
    LET good == Unfinished(p) \ bad
    IN  /\ IF bad = {} THEN UNCHANGED faults ELSE Fault("send")
        /\ \E ms \in Orders(good) : Send(p, Envelopes(ms))
        /\ outbox' = [m \in Messages |-> IF m \in good THEN "sending"
                                         ELSE IF m \in bad THEN "pending"
                                         ELSE outbox[m]]
        /\ state' = [m \in Messages |-> IF m \in good THEN "sending"
                                        ELSE IF m \in bad THEN "queued"
                                        ELSE state[m]]
        /\ later' = later \cup bad

\* relay_start: RelayManager::start makes the status Active before the socket
\* is open, relay_client::start dials, and the command's process_pending_outbox
\* reads the rows: nothing up to here is awaited.
Start(p) ==
  /\ status[p] = "dormant"
  /\ status' = [status EXCEPT ![p] = "active"]
  /\ replay' = [m \in Messages |->
                  IF m \in Unfinished(p) THEN "due" ELSE replay[m]]
  /\ Dial(p)
  /\ UNCHANGED <<conn, task, seen, rows, gone, routed, cut, surplus, inbox,
                 held, call, outbox, later, state, stored, failed, faults>>

\* Then the command goes through these rows, beside the event loop: for each in
\* turn it looks at the status, sends, and marks the row.
Turn(m) == /\ replay[m] = "due"
           /\ \A k \in Messages : From[k] = From[m] => replay[k] # "sent"

ReplaySkips(m) ==
  /\ Turn(m)
  /\ status[From[m]] # "active"
  /\ replay' = [replay EXCEPT ![m] = "no"]
  /\ UNCHANGED <<serverVars, wireVars, cur, status, call, outbox, later, state,
                 stored, failed, faults>>

ReplaySends(m) ==
  /\ Turn(m)
  /\ status[From[m]] = "active"
  /\ Send(From[m], <<Envelope(m)>>)
  /\ replay' = [replay EXCEPT ![m] = "sent"]
  /\ UNCHANGED <<serverVars, inbox, held, cur, status, call, outbox,
                 later, state, stored, failed, faults>>

ReplayMarks(m) ==
  /\ replay[m] = "sent"
  /\ replay' = [replay EXCEPT ![m] = "no"]
  /\ outbox' = [outbox EXCEPT ![m] = "sending"]
  /\ state' = [state EXCEPT ![m] = "sending"]
  /\ later' = later \ {m}
  /\ UNCHANGED <<serverVars, wireVars, cur, status, call, stored, failed,
                 faults>>

ReplayFails(m) ==
  /\ Turn(m)
  /\ status[From[m]] = "active"
  /\ Fault("send")
  /\ replay' = [replay EXCEPT ![m] = "no"]
  /\ Backoff(m)
  /\ UNCHANGED <<serverVars, wireVars, cur, status, call, stored, failed>>

\* connection_loop after its backoff: dial a fresh session.
Redial(p) ==
  /\ status[p] # "dormant"
  /\ cur[p] = None
  /\ Dial(p)
  /\ UNCHANGED <<conn, task, seen, rows, gone, routed, cut, surplus, inbox,
                 held, status, call, replay, outbox, later, state, stored,
                 failed, faults>>

\* The socket of p fails, or the client notices that the server's end did: only
\* the first spends a fault.  Events already read stay in the event channel, a
\* suffix of the frames in flight is lost; what went up may still be read.
Drop(p) ==
  /\ cur[p] # None
  /\ IF pc[cur[p]] = "free" THEN UNCHANGED faults ELSE Fault("drop")
  /\ \E k \in held[p]..Len(inbox[p]) :
       /\ inbox' = [inbox EXCEPT
                      ![p] = Append(SubSeq(@, 1, k), Disconnected)]
       /\ held' = [held EXCEPT ![p] = k + 1]
  /\ cur' = [cur EXCEPT ![p] = None]
  /\ UNCHANGED <<serverVars, up, status, call, replay, outbox, later, state,
                 stored, failed>>

\* The node's process ends: memory is lost, the database stays.
Crash(p) ==
  /\ status[p] # "dormant"
  /\ Fault("crash")
  /\ status' = [status EXCEPT ![p] = "dormant"]
  /\ cur' = [cur EXCEPT ![p] = None]
  /\ inbox' = [inbox EXCEPT ![p] = <<>>]
  /\ held' = [held EXCEPT ![p] = 0]
  /\ call' = [m \in Messages |->
                IF From[m] = p /\ call[m] # "none" THEN "done" ELSE call[m]]
  /\ replay' = [m \in Messages |-> IF From[m] = p THEN "no" ELSE replay[m]]
  /\ UNCHANGED <<serverVars, up, outbox, later, state, stored, failed>>

----------------------------------------------------------------------------
(* The event loop of a node: one event, whole.                             *)

Take(p) == /\ inbox[p] # <<>>
           /\ inbox' = [inbox EXCEPT ![p] = Tail(@)]
           /\ held' = [held EXCEPT ![p] = IF @ > 0 THEN @ - 1 ELSE 0]

\* Faulty: acknowledges on arrival, and then fails to store.
OnEnvelopeAckFirst(p) ==
  /\ Take(p)
  /\ Head(inbox[p]).kind = "envelope"
  /\ Send(p, <<PeerAck(Head(inbox[p]).m)>>)
  /\ UNCHANGED <<serverVars, cur, status, call, replay, outbox, later, state,
                 stored, failed, faults>>

\* handle_incoming_envelope: early returns send no acknowledgement; an error of
\* the secretary is only logged, the acknowledgement follows all the same.
OnEnvelope(p) ==
  /\ Take(p)
  /\ LET e == Head(inbox[p]) IN
       /\ e.kind = "envelope"
       /\ \/ /\ e.m \in Refused
             /\ UNCHANGED <<up, stored, failed, faults>>
          \/ /\ stored' = stored \cup {e.m}
             /\ Send(p, <<PeerAck(e.m)>>)
             /\ UNCHANGED <<failed, faults>>
          \/ /\ e.m \notin stored
             /\ Fault("store")
             /\ failed' = failed \cup {e.m}
             /\ Send(p, <<PeerAck(e.m)>>)
             /\ UNCHANGED stored
  /\ UNCHANGED <<serverVars, cur, status, call, replay, outbox, later,
                 state>>

\* Faulty: AckStatus::Delivered is taken at its word.
OnServerAckDelivered(p) ==
  /\ Take(p)
  /\ Head(inbox[p]).kind = "sent"
  /\ outbox' = [outbox EXCEPT ![Head(inbox[p]).m] = "delivered"]
  /\ state' = [state EXCEPT ![Head(inbox[p]).m] = "delivered"]
  /\ UNCHANGED <<serverVars, up, cur, status, call, replay, later, stored,
                 failed, faults>>

\* ServerAck: both columns take the acknowledged status, whatever they held.
OnServerAck(p) ==
  /\ Take(p)
  /\ LET e == Head(inbox[p]) IN
       /\ e.kind \in AckStatus
       /\ outbox' = [outbox EXCEPT ![e.m] = e.kind]
       /\ state' = [state EXCEPT ![e.m] = e.kind]
       /\ later' = later \ {e.m}
  /\ UNCHANGED <<serverVars, up, cur, status, call, replay, stored, failed,
                 faults>>

OnPeerAck(p) ==
  /\ Take(p)
  /\ LET e == Head(inbox[p]) IN
       /\ e.kind = "peer_ack"
       /\ outbox' = [outbox EXCEPT ![e.m] = "delivered"]
       /\ state' = [state EXCEPT ![e.m] = "delivered"]
       /\ later' = later \ {e.m}
  /\ UNCHANGED <<serverVars, up, cur, status, call, replay, stored, failed,
                 faults>>

OnConnected(p) ==
  /\ Take(p)
  /\ Head(inbox[p]) = Connected
  /\ status' = [status EXCEPT ![p] = "active"]
  /\ Resend(p)
  /\ UNCHANGED <<serverVars, cur, call, replay, stored, failed>>

OnDisconnected(p) ==
  /\ Take(p)
  /\ Head(inbox[p]) = Disconnected
  /\ status' = [status EXCEPT ![p] = "reconnecting"]
  /\ UNCHANGED <<serverVars, up, cur, call, replay, outbox, later, state,
                 stored, failed, faults>>

----------------------------------------------------------------------------
(* The server: one handler per session.                                    *)

\* handle_socket up to step 3: AuthOk, then insert_connection.  The frame with
\* the client's answer may outlive the client's socket.
Login(s) ==
  /\ pc[s] = "auth"
  /\ pc' = [pc EXCEPT ![s] = "drain"]
  /\ conn' = [conn EXCEPT ![owner[s]] = s]
  /\ Push(s, <<Connected>>)
  /\ UNCHANGED <<owner, task, seen, rows, gone, routed, cut, surplus, up,
                 held, nodeVars, faults>>

\* drain_offline_queue: prune what is older than seven days, of every target
\* (the rows up to some id), then send the backlog, oldest first, and keep it.
Backlogs(R) ==
  {b \in Orders(R) : \A i, j \in DOMAIN b : i < j => b[i].id < b[j].id}

\* Faulty: rows that were sent are deleted; or nothing is sent.
DrainDeletes(s) ==
  /\ pc[s] = "drain"
  /\ pc' = [pc EXCEPT ![s] = "loop"]
  /\ rows' = {r \in rows : To[r.m] # owner[s]}
  /\ \E b \in Backlogs(rows \ rows') :
       Push(s, [i \in DOMAIN b |-> Envelope(b[i].m)])
  /\ UNCHANGED <<conn, owner, task, seen, gone, routed, cut, surplus, up,
                 held, nodeVars, faults>>
DrainMute(s) ==
  /\ pc[s] = "drain"
  /\ pc' = [pc EXCEPT ![s] = "loop"]
  /\ UNCHANGED <<conn, owner, task, seen, rows, gone, routed, cut, surplus,
                 wireVars, nodeVars, faults>>

Drain(s) ==
  /\ pc[s] = "drain"
  /\ pc' = [pc EXCEPT ![s] = "loop"]
  /\ \E n \in {0} \cup {r.id : r \in rows} :
       /\ rows' = {r \in rows : r.id > n}
       /\ gone' = gone \cup {r.m : r \in rows \ rows'}
       /\ IF n = 0 THEN UNCHANGED faults ELSE Fault("expire")
  /\ \E b \in Backlogs({r \in rows' : To[r.m] = owner[s]}) :
       Push(s, [i \in DOMAIN b |-> Envelope(b[i].m)])
  /\ UNCHANGED <<conn, owner, task, seen, routed, cut, surplus, up, held,
                 nodeVars>>

\* A handler is through with its message and reads the next one.
Finish(s) == /\ pc' = [pc EXCEPT ![s] = "loop"]
             /\ task' = [task EXCEPT ![s] = None]

Reading(s, kind) ==
  /\ pc[s] = "loop"
  /\ up[s] # <<>>
  /\ Head(up[s]).kind = kind
  /\ up' = [up EXCEPT ![s] = Tail(@)]

\* handle_envelope, the duplicate: acknowledged as Delivered, nothing routed.
Duplicate(s) ==
  /\ Reading(s, "envelope")
  /\ Head(up[s]).m \in seen
  /\ Push(s, <<ServerAck(Head(up[s]).m, "sent")>>)
  /\ UNCHANGED <<serverVars, held, nodeVars, faults>>

\* handle_envelope, a new id: check_and_mark_seen comes before any routing.
MarkSeen(s) ==
  /\ Reading(s, "envelope")
  /\ Head(up[s]).m \notin seen
  /\ seen' = seen \cup {Head(up[s]).m}
  /\ task' = [task EXCEPT ![s] = Head(up[s]).m]
  /\ pc' = [pc EXCEPT ![s] = "route"]
  /\ UNCHANGED <<conn, owner, rows, gone, routed, cut, surplus, inbox,
                 held, nodeVars, faults>>

\* get_sender found a connection: forward on it, dead or alive.
Forward(s) ==
  /\ pc[s] = "route"
  /\ conn[To[task[s]]] # None
  /\ Push(conn[To[task[s]]], <<Envelope(task[s])>>)
  /\ routed' = routed \cup {task[s]}
  /\ pc' = [pc EXCEPT ![s] = "ackSent"]
  /\ UNCHANGED <<conn, owner, task, seen, rows, gone, cut, surplus, up, held,
                 nodeVars, faults>>

TargetOffline(s) ==
  /\ pc[s] = "route"
  /\ conn[To[task[s]]] = None
  /\ pc' = [pc EXCEPT ![s] = "store"]
  /\ UNCHANGED <<conn, owner, task, seen, rows, gone, routed, cut, surplus,
                 wireVars, nodeVars, faults>>

\* db::enqueue, first statement: insert with a fresh id.
Insert(s) ==
  /\ pc[s] = "store"
  /\ \E n \in {1} \cup {r.id + 1 : r \in rows} :
       /\ \A r \in rows : r.id < n
       /\ rows' = rows \cup {[id |-> n, m |-> task[s]]}
  /\ pc' = [pc EXCEPT ![s] = "trim"]
  /\ UNCHANGED <<conn, owner, task, seen, gone, routed, cut, surplus,
                 wireVars, nodeVars, faults>>

\* Second statement: delete all but the newest QueueCap rows of the target
\* (rows of one second come in the order of their ids, as idx_oq_target has it).
RowsOf(t) == {r \in rows : To[r.m] = t}

\* Faulty: keeps one row more.
OverflowLate(t) ==
  {r \in RowsOf(t) : Cardinality({q \in RowsOf(t) : q.id > r.id}) > QueueCap}

Overflow(t) ==
  {r \in RowsOf(t) : Cardinality({q \in RowsOf(t) : q.id > r.id}) >= QueueCap}

Trim(s) ==
  /\ pc[s] = "trim"
  /\ rows' = rows \ Overflow(To[task[s]])
  /\ gone' = gone \cup {r.m : r \in Overflow(To[task[s]])}
  /\ surplus' = surplus \ {To[task[s]]}
  /\ pc' = [pc EXCEPT ![s] = "ackQueued"]
  /\ UNCHANGED <<conn, owner, task, seen, routed, cut, wireVars, nodeVars,
                 faults>>

\* Either statement failed: an Error frame without message id, nothing else; of
\* the two, only the insert leaves no row.
EnqueueFails(s) ==
  /\ pc[s] \in {"store", "trim"}
  /\ Fault("enqueue")
  /\ Finish(s)
  /\ IF pc[s] = "store"
     THEN cut' = cut \cup {task[s]} /\ UNCHANGED surplus
     ELSE surplus' = surplus \cup {To[task[s]]} /\ UNCHANGED cut
  /\ UNCHANGED <<conn, owner, seen, rows, gone, routed, wireVars,
                 nodeVars>>

\* db::drain failed: nothing is sent, and the handler goes on.
DrainFails(s) ==
  /\ pc[s] = "drain"
  /\ Fault("drain")
  /\ pc' = [pc EXCEPT ![s] = "loop"]
  /\ UNCHANGED <<conn, owner, task, seen, rows, gone, routed, cut, surplus,
                 wireVars, nodeVars>>

Acknowledge(s) ==
  /\ pc[s] \in {"ackSent", "ackQueued"}
  /\ Push(s, <<ServerAck(task[s],
                         IF pc[s] = "ackSent" THEN "sent" ELSE "queued")>>)
  /\ Finish(s)
  /\ UNCHANGED <<conn, owner, seen, rows, gone, routed, cut, surplus, up,
                 held, nodeVars, faults>>

\* handle_peer_ack: delete every row of the message, an error is ignored ...
HandlePeerAck(s) ==
  /\ Reading(s, "peer_ack")
  /\ task' = [task EXCEPT ![s] = Head(up[s]).m]
  /\ pc' = [pc EXCEPT ![s] = "confirm"]
  /\ \/ /\ rows' = {r \in rows : r.m # Head(up[s]).m}
        /\ UNCHANGED faults
     \/ /\ Fault("delete")
        /\ UNCHANGED rows
  /\ UNCHANGED <<conn, owner, seen, gone, routed, cut, surplus, inbox, held,
                 nodeVars>>

\* ... then forward the acknowledgement if the message's sender is connected;
\* otherwise it is dropped.
Confirm(s) ==
  /\ pc[s] = "confirm"
  /\ LET r == conn[From[task[s]]]
     IN  IF r # None THEN Push(r, <<PeerAck(task[s])>>) ELSE UNCHANGED inbox
  /\ Finish(s)
  /\ UNCHANGED <<conn, owner, seen, rows, gone, routed, cut, surplus, up,
                 held, nodeVars, faults>>

\* Faulty: losing the socket also ends a handler that is routing a message.
CloseAborts(s) ==
  /\ pc[s] \in {"auth", "loop", "route", "store"}
  /\ cur[owner[s]] # s
  /\ conn' = [conn EXCEPT ![owner[s]] = IF @ = s THEN None ELSE @]
  /\ pc' = [pc EXCEPT ![s] = "free"]
  /\ owner' = [owner EXCEPT ![s] = Nobody]
  /\ task' = [task EXCEPT ![s] = None]
  /\ up' = [up EXCEPT ![s] = <<>>]
  /\ UNCHANGED <<seen, rows, gone, routed, cut, surplus, inbox,
                 held, nodeVars, faults>>

\* The read side ends: remove_connection_if_session, then the handler is gone.
Close(s) ==
  /\ pc[s] \in {"auth", "loop"}
  /\ cur[owner[s]] # s
  /\ conn' = [conn EXCEPT ![owner[s]] = IF @ = s THEN None ELSE @]
  /\ pc' = [pc EXCEPT ![s] = "free"]
  /\ owner' = [owner EXCEPT ![s] = Nobody]
  /\ up' = [up EXCEPT ![s] = <<>>]
  /\ UNCHANGED <<task, seen, rows, gone, routed, cut, surplus, inbox,
                 held, nodeVars, faults>>

\* The server process restarts: memory and sockets are gone, the queue stays.
ServerRestart ==
  /\ Fault("restart")
  /\ conn' = [p \in Peers |-> None]
  /\ pc' = [s \in Sessions |-> "free"]
  /\ owner' = [s \in Sessions |-> Nobody]
  /\ task' = [s \in Sessions |-> None]
  /\ seen' = {}
  /\ up' = [s \in Sessions |-> <<>>]
  /\ cut' = cut \cup {task[s] : s \in {x \in Sessions :
                                         pc[x] \in {"route", "store"}}}
  /\ surplus' = surplus \cup {To[task[s]] : s \in {x \in Sessions :
                                                     pc[x] = "trim"}}
  /\ UNCHANGED <<rows, gone, routed, inbox, held, nodeVars>>

\* check_and_mark_seen forgets ids older than one hour.
Forget(m) ==
  /\ m \in seen
  /\ Fault("forget")
  /\ seen' = seen \ {m}
  /\ UNCHANGED <<conn, owner, pc, task, rows, gone, routed, cut, surplus,
                 wireVars, nodeVars>>

----------------------------------------------------------------------------
Node(p) == OnEnvelope(p) \/ OnServerAck(p) \/ OnPeerAck(p) \/ OnConnected(p)
             \/ OnDisconnected(p)
Sending(m) == PersistOutbox(m) \/ PostLater(m) \/ Post(m) \/ MarkSending(m)
Replay(m) == ReplaySkips(m) \/ ReplaySends(m) \/ ReplayMarks(m)
Handler(s) == Drain(s) \/ Duplicate(s) \/ MarkSeen(s) \/ Forward(s)
                \/ TargetOffline(s) \/ Insert(s) \/ Trim(s) \/ Acknowledge(s)
                \/ HandlePeerAck(s) \/ Confirm(s)

Environment ==
  \/ \E p \in Peers : Drop(p) \/ Crash(p)
  \/ \E s \in Sessions : EnqueueFails(s) \/ DrainFails(s)
  \/ ServerRestart
  \/ \E m \in Messages : OutboxFails(m) \/ PostFails(m) \/ ReplayFails(m)
                           \/ Forget(m)

Next ==
  \/ \E m \in Messages : Compose(m) \/ Sending(m) \/ Replay(m) \/ RetryDue(m)
  \/ \E p \in Peers : Start(p) \/ Redial(p) \/ Node(p)
  \/ \E s \in Sessions : Login(s) \/ Handler(s) \/ Close(s)
  \/ Environment

Spec == Init /\ [][Next]_vars

\* What the runtimes schedule: the commands, event loops, clients and handlers
\* do not all stand still while one can go on (a client that lost its socket
\* notices it, and dials again).  That much is enough, since none of them can go
\* round for ever.  Faults, the user who composes and time (RetryDue) are under
\* no obligation.
LosesDead(p) == cur[p] # None /\ pc[cur[p]] = "free" /\ Drop(p)

System ==
  \/ \E m \in Messages : Sending(m) \/ Replay(m)
  \/ \E p \in Peers : Start(p) \/ Redial(p) \/ Node(p)
                        \/ LosesDead(p)
  \/ \E s \in Sessions : Login(s) \/ Handler(s) \/ Close(s)

Fairness == WF_vars(System)

FairSpec == Spec /\ Fairness

----------------------------------------------------------------------------
(* Safety.                                                                 *)

Events(p) == Range(inbox[p])
Frames(s) == Range(up[s])

\* A PeerAck exists only for a message its receiver has handled: in a frame to
\* the server, in its handler, in an event to the sender, in the sender's two
\* columns.  Handled is: passed to the secretary, whose error the loop only
\* logs; the acknowledgement says no more (store, a fault).  The
\* server forwards acknowledgements by id from any session, across restarts of
\* everything; nothing else ever writes "delivered".
PeerAckMeansHandled ==
  /\ \A s \in Sessions : \A c \in Frames(s) :
       c.kind = "peer_ack" => c.m \in Handled
  /\ \A s \in Sessions : pc[s] = "confirm" => task[s] \in Handled
  /\ \A p \in Peers : \A e \in Events(p) :
       e.kind = "peer_ack" => e.m \in Handled
  /\ \A m \in Messages :
       outbox[m] = "delivered" \/ state[m] = "delivered" => m \in Handled

Trimming(t) == {s \in Sessions : pc[s] = "trim" /\ To[task[s]] = t}

\* The cap holds through concurrent senders, whose inserts and deletions commit
\* one by one: a target has at most one row more for each enqueue that stands
\* between its two statements.  A deletion that failed, or that a restart cut
\* off, leaves its row over until the next enqueue for that target (surplus).
CapHolds ==
  \A t \in Peers \ surplus :
    Cardinality(RowsOf(t)) <= QueueCap + Cardinality(Trimming(t))

\* A sender whose outbox says queued (set by ServerAck Queued alone, possibly
\* long after the fact) can rely on the server: the row is there, or was taken
\* by the receiver, or was discarded by the cap or by age.
QueuedMeansKept ==
  /\ \A s \in Sessions : pc[s] = "ackQueued" =>
       task[s] \in HeldIds \cup Handled \cup gone
  /\ \A p \in Peers : \A e \in Events(p) :
       e.kind = "queued" => e.m \in HeldIds \cup Handled \cup gone
  /\ \A m \in Messages : outbox[m] = "queued" =>
       m \in HeldIds \cup Handled \cup gone

\* ServerAck means the server took responsibility: a message acknowledged in the
\* sender's tables, or by an event on its way there, was forwarded to a
\* connection, or stands in the queue, or had been handled or discarded, or is
\* just being routed (an acknowledgement for a duplicate is sent while the first
\* copy is on its way, whose handler may outlive its socket).  A message that is
\* seen, and whose insert failed or whose handler a restart ended, is
\* acknowledged as a duplicate all the same: those (cut) are left out.
Routing(m) == \E s \in Sessions : pc[s] \in {"route", "store"} /\ task[s] = m
Taken(m)   == m \in routed \cup HeldIds \cup Handled \cup gone \/ Routing(m)

AckMeansTaken ==
  \A m \in Messages \ cut :
    (\/ outbox[m] \in AckStatus
     \/ state[m] = "sent"
     \/ \E p \in Peers : \E e \in Events(p) : e.m = m /\ e.kind \in AckStatus)
    => Taken(m)

\* The queue only lets go of a message the receiver handled, or at the cap, or
\* by age: never because it was sent to a socket.
OnlyReleasedWhenHandled ==
  [][\A m \in Messages : m \in HeldIds /\ m \notin HeldIds' =>
       m \in Handled \/ m \in gone']_vars

\* The queue implements the mailbox.
MB == INSTANCE Mailbox WITH
        keeping <- HeldIds, received <- Handled, discarded <- gone,
        confirmed <- {m \in Messages : outbox[m] = "delivered"}
ImplementsMailbox == MB!Spec

----------------------------------------------------------------------------
(* Liveness.                                                               *)

\* A message the user sent is acknowledged by the server sooner or later,
\* through lost frames, discarded commands and restarts of either side.
EventuallyAcknowledged ==
  \A m \in Messages :
    (call[m] = "check") ~> (outbox[m] \in {"queued", "sent", "delivered"})

\* A login drains: whatever is queued for the peer when its handler reaches the
\* drain is handled, unless the socket is lost first.
LoginDeliversBacklog ==
  \A m \in Messages \ Refused :
    (/\ m \in HeldIds
     /\ cur[To[m]] # None
     /\ pc[cur[To[m]]] = "drain")
      ~> (m \in Handled \/ m \notin HeldIds \/ cur[To[m]] = None)
============================================================================
