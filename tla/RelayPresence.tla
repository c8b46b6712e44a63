--------------------------- MODULE RelayPresence ---------------------------
(***************************************************************************)
(* Sessions and presence on the relay server: registration under the       *)
(* single-session policy, presence subscriptions, the snapshot that        *)
(* answers a subscription, the notices sent when a peer comes or goes, and *)
(* the clean-up of a session that ended.                                   *)
(*                                                                         *)
(* Each WebSocket has a handler task on the server.  connections and       *)
(* presence_subscriptions sit behind separate locks, and a handler holds   *)
(* neither across an await: it is cut wherever it takes one of them.  What *)
(* the server pushes to an open socket is applied to the client's view at  *)
(* once; both channels in between are FIFO.                                *)
(***************************************************************************)
EXTENDS Integers, Sequences, FiniteSets

CONSTANTS
  Peers,       \* relay peer ids
  Sessions,    \* WebSocket sessions; an id is reused once both ends let go
  Contacts,    \* the contacts each peer starts with
  Invited,     \* pairs <<p, q>>: p may add q as a contact later
  MaxFaults,   \* bound on the number of lost sockets and server restarts
  None

ASSUME PeerAssumption == None \notin Sessions /\ Peers # {}
ASSUME ContactAssumption == /\ Contacts \in [Peers -> SUBSET Peers]
                            /\ Invited \subseteq Peers \X Peers
ASSUME BoundAssumption == MaxFaults \in Nat

VARIABLES
  \* server
  conn,   \* connections: the session registered for a peer
  subs,   \* presence_subscriptions: whom a peer watches
  owner,  \* the peer a session authenticates as
  pc,     \* where a session's handler is
  news,   \* the status its handler announces, "online" or "offline"
  pend,   \* peers it has still to notify, or to look up
  snap,   \* peers the snapshot being built lists as online
  \* client
  open,   \* sessions whose socket is open
  greeted,\* sessions whose Connected event was handled
  up,     \* SubscribePresence frames on their way to the server
  known,  \* the contacts in relay_id_index
  view,   \* peer_presence: the peers a session's client shows as online
  \* bounds and history
  asked,  \* the set of the last SubscribePresence processed on a session
  told,   \* the peers whose present status was pushed to a session
  swept,  \* sessions whose subscription another session of the peer removed or replaced
  faults

handlerVars == <<owner, pc, news, pend, snap>>
clientVars  == <<open, greeted, up, known>>
vars == <<conn, subs, handlerVars, clientVars, view, asked, told, swept, faults>>

TypeOK ==
  /\ conn \in [Peers -> Sessions \cup {None}]
  /\ subs \in [Peers -> SUBSET Peers]
  /\ owner \in [Sessions -> Peers]
  /\ pc \in [Sessions -> {"free", "auth", "collect", "notify", "loop", "read",
                          "snapshot", "unsubscribe"}]
  /\ news \in [Sessions -> {"online", "offline"}]
  /\ pend \in [Sessions -> SUBSET Peers]
  /\ snap \in [Sessions -> SUBSET Peers]
  /\ \A s \in Sessions : pend[s] # {} => pc[s] \in {"notify", "read"}
  /\ open \subseteq Sessions
  /\ greeted \subseteq Sessions
  /\ up \in [Sessions -> Seq(SUBSET Peers)]
  /\ known \in [Peers -> SUBSET Peers]
  /\ view \in [Sessions -> SUBSET Peers]
  /\ asked \in [Sessions -> SUBSET Peers]
  /\ told \in [Sessions -> SUBSET Peers]
  /\ swept \subseteq Sessions
  /\ faults \in 0..MaxFaults

Init ==
  /\ conn = [p \in Peers |-> None]
  /\ subs = [p \in Peers |-> {}]
  /\ owner = [s \in Sessions |-> CHOOSE p \in Peers : TRUE]
  /\ pc = [s \in Sessions |-> "free"]
  /\ news = [s \in Sessions |-> "online"]
  /\ pend = [s \in Sessions |-> {}]
  /\ snap = [s \in Sessions |-> {}]
  /\ open = {}
  /\ greeted = {}
  /\ up = [s \in Sessions |-> <<>>]
  /\ known = Contacts
  /\ view = [s \in Sessions |-> {}]
  /\ asked = [s \in Sessions |-> {}]
  /\ told = [s \in Sessions |-> {}]
  /\ swept = {}
  /\ faults = 0

----------------------------------------------------------------------------
(* The client.                                                             *)

Online(p) == conn[p] # None

Sockets(p) == {s \in open : owner[s] = p}

\* subscribe_presence is called only for a non-empty list of peers.
Ask(qs) == IF qs = {} THEN <<>> ELSE <<qs>>

\* A new socket, possibly beside an older one: the client gave that up before
\* the server noticed, or runs on a second machine.  The client of a node that
\* was just started has its first subscription waiting.
Dial(p) ==
  /\ \E s \in Sessions \ open :
       /\ pc[s] = "free"
       /\ owner' = [owner EXCEPT ![s] = p]
       /\ pc' = [pc EXCEPT ![s] = "auth"]
       /\ open' = open \cup {s}
       /\ greeted' = greeted \ {s}
       /\ \E first \in {<<>>, Ask(known[p])} : up' = [up EXCEPT ![s] = first]
       /\ view' = [view EXCEPT ![s] = {}]
       /\ asked' = [asked EXCEPT ![s] = {}]
       /\ told' = [told EXCEPT ![s] = {}]
       /\ swept' = swept \ {s}
  /\ UNCHANGED <<conn, subs, news, pend, snap, known, faults>>

\* The Connected event: subscribe to every known peer.
OnConnected(s) ==
  /\ s \in open \ greeted
  /\ pc[s] \notin {"free", "auth"}
  /\ greeted' = greeted \cup {s}
  /\ up' = [up EXCEPT ![s] = @ \o Ask(known[owner[s]])]
  /\ UNCHANGED <<conn, subs, handlerVars, open, known, view, asked, told,
                 swept, faults>>

\* A contact is approved, or an invitation accepted: only the new peer is in
\* the subscription that follows.
AddContact(p, q) ==
  /\ <<p, q>> \in Invited
  /\ q \notin known[p]
  /\ known' = [known EXCEPT ![p] = @ \cup {q}]
  /\ up' = [s \in Sessions |->
              IF s \in Sockets(p) THEN Append(up[s], {q}) ELSE up[s]]
  /\ UNCHANGED <<conn, subs, handlerVars, open, greeted, view, asked, told,
                 swept, faults>>

\* The socket ends; frames it already carries may still be read.  Every shown
\* presence is cleared.  A client whose handler is gone just notices.
Drop(s) ==
  /\ s \in open
  /\ IF pc[s] = "free" THEN UNCHANGED faults
     ELSE faults < MaxFaults /\ faults' = faults + 1
  /\ open' = open \ {s}
  /\ view' = [view EXCEPT ![s] = {}]
  /\ UNCHANGED <<conn, subs, handlerVars, greeted, up, known, asked, told, swept>>

----------------------------------------------------------------------------
(* The server: one handler per session.                                    *)

\* told follows the registrations: a status that changes is news to everybody.
Changed(p) == told' = [s \in Sessions |-> told[s] \ {p}]

\* handle_socket, step 3: insert_connection.  The session it replaces is told
\* (an Error frame its client logs) and nothing else happens to it: its handler
\* holds a sender of its own.
Register(s) ==
  /\ pc[s] = "auth"
  /\ conn' = [conn EXCEPT ![owner[s]] = s]
  /\ IF Online(owner[s]) THEN UNCHANGED told ELSE Changed(owner[s])
  /\ news' = [news EXCEPT ![s] = "online"]
  /\ pc' = [pc EXCEPT ![s] = "collect"]
  /\ UNCHANGED <<subs, owner, pend, snap, clientVars, view, asked, swept, faults>>

\* notify_presence: first subscribers_of ...
SubscribersOf(p) == {q \in Peers : p \in subs[q]}

AfterNotify(s) == IF news[s] = "online" THEN "loop" ELSE "free"

Collect(s) ==
  /\ pc[s] = "collect"
  /\ LET qs == SubscribersOf(owner[s])
     IN  /\ pend' = [pend EXCEPT ![s] = qs]
         /\ pc' = [pc EXCEPT ![s] = IF qs = {} THEN AfterNotify(s)
                                    ELSE "notify"]
  /\ UNCHANGED <<conn, subs, owner, news, snap, clientVars, view, asked, told,
                 swept, faults>>

\* Faulty: stops at the first subscriber that is not connected.
NotifyGivesUp(s) ==
  /\ pc[s] = "notify"
  /\ \E q \in pend[s] : conn[q] = None
  /\ pc' = [pc EXCEPT ![s] = AfterNotify(s)]
  /\ UNCHANGED <<conn, subs, owner, news, pend, snap, clientVars, view, asked,
                 told, swept, faults>>

\* ... then, one by one, the connection each subscriber has by now.
Notify(s) ==
  /\ pc[s] = "notify"
  /\ \E q \in pend[s] :
       LET p == owner[s]
           r == conn[q]
       IN  /\ pend' = [pend EXCEPT ![s] = @ \ {q}]
           /\ pc' = [pc EXCEPT ![s] = IF pend[s] = {q} THEN AfterNotify(s)
                                      ELSE @]
           /\ IF r \in open
              THEN /\ view' = [view EXCEPT ![r] = IF news[s] = "online"
                                                  THEN @ \cup {p} ELSE @ \ {p}]
                   /\ told' = [told EXCEPT ![r] = IF Online(p) = (news[s] = "online")
                                                  THEN @ \cup {p} ELSE @]
              ELSE UNCHANGED <<view, told>>
  /\ UNCHANGED <<conn, subs, owner, news, snap, clientVars, asked, swept, faults>>

\* handle_subscribe_presence: the new set replaces the old one ...
Subscribe(s) ==
  /\ pc[s] = "loop"
  /\ up[s] # <<>>
  /\ up' = [up EXCEPT ![s] = Tail(@)]
  /\ subs' = [subs EXCEPT ![owner[s]] = Head(up[s])]
  /\ swept' = (swept \cup {r \in Sessions : owner[r] = owner[s]}) \ {s}
  /\ asked' = [asked EXCEPT ![s] = Head(up[s])]
  /\ pend' = [pend EXCEPT ![s] = Head(up[s])]
  /\ snap' = [snap EXCEPT ![s] = {}]
  /\ pc' = [pc EXCEPT ![s] = "read"]
  /\ UNCHANGED <<conn, owner, news, open, greeted, known, view, told, faults>>

\* ... each peer is looked up ...
Read(s) ==
  /\ pc[s] = "read"
  /\ \E q \in pend[s] :
       /\ pend' = [pend EXCEPT ![s] = @ \ {q}]
       /\ snap' = [snap EXCEPT ![s] = IF Online(q) THEN @ \cup {q} ELSE @]
       /\ pc' = [pc EXCEPT ![s] = IF pend[s] = {q} THEN "snapshot" ELSE @]
  /\ UNCHANGED <<conn, subs, owner, news, clientVars, view, asked, told,
                 swept, faults>>

\* ... and the snapshot goes to the session that asked.
Snapshot(s) ==
  /\ pc[s] = "snapshot"
  /\ pc' = [pc EXCEPT ![s] = "loop"]
  /\ snap' = [snap EXCEPT ![s] = {}]
  /\ IF s \in open
     THEN /\ view' = [view EXCEPT ![s] = (@ \ asked[s]) \cup snap[s]]
          /\ told' = [told EXCEPT ![s] = @ \cup
                        {q \in asked[s] : Online(q) = (q \in snap[s])}]
     ELSE UNCHANGED <<view, told>>
  /\ UNCHANGED <<conn, subs, owner, news, pend, clientVars, asked, swept, faults>>

\* Faulty: the handler just ends.
CloseForgets(s) ==
  /\ pc[s] \in {"auth", "loop"}
  /\ s \notin open
  /\ up' = [up EXCEPT ![s] = <<>>]
  /\ pc' = [pc EXCEPT ![s] = "free"]
  /\ UNCHANGED <<conn, subs, owner, news, pend, snap, open, greeted, known, view,
                 asked, told, swept, faults>>

\* Faulty: whoever holds the registration loses it; or nobody is told.
Remove(s, next) ==
  /\ pc[s] \in {"auth", "loop"}
  /\ s \notin open
  /\ up' = [up EXCEPT ![s] = <<>>]
  /\ conn' = [conn EXCEPT ![owner[s]] = None]
  /\ Changed(owner[s])
  /\ news' = [news EXCEPT ![s] = "offline"]
  /\ pc' = [pc EXCEPT ![s] = next]
  /\ UNCHANGED <<subs, owner, pend, snap, open, greeted, known, view, asked,
                 swept, faults>>
CloseAny(s) == Remove(s, "unsubscribe")
CloseSilently(s) == /\ conn[owner[s]] = s
                    /\ Remove(s, "free")

\* The read side ends: remove_connection_if_session ...
Close(s) ==
  /\ pc[s] \in {"auth", "loop"}
  /\ s \notin open
  /\ up' = [up EXCEPT ![s] = <<>>]
  /\ IF conn[owner[s]] = s
     THEN /\ conn' = [conn EXCEPT ![owner[s]] = None]
          /\ Changed(owner[s])
          /\ news' = [news EXCEPT ![s] = "offline"]
          /\ pc' = [pc EXCEPT ![s] = "unsubscribe"]
     ELSE /\ pc' = [pc EXCEPT ![s] = "free"]
          /\ UNCHANGED <<conn, told, news>>
  /\ UNCHANGED <<subs, owner, pend, snap, open, greeted, known, view, asked,
                 swept, faults>>

\* ... and, if that removed it, remove_presence_subscriptions; the notices of
\* notify_presence follow.
Unsubscribe(s) ==
  /\ pc[s] = "unsubscribe"
  /\ subs' = [subs EXCEPT ![owner[s]] = {}]
  /\ swept' = swept \cup {r \in Sessions : owner[r] = owner[s]}
  /\ pc' = [pc EXCEPT ![s] = "collect"]
  /\ UNCHANGED <<conn, owner, news, pend, snap, clientVars, view, asked, told,
                 faults>>

\* The server process restarts: all of this lives in its memory.
ServerRestart ==
  /\ faults < MaxFaults
  /\ faults' = faults + 1
  /\ conn' = [p \in Peers |-> None]
  /\ subs' = [p \in Peers |-> {}]
  /\ pc' = [s \in Sessions |-> "free"]
  /\ pend' = [s \in Sessions |-> {}]
  /\ snap' = [s \in Sessions |-> {}]
  /\ up' = [s \in Sessions |-> <<>>]
  /\ told' = [s \in Sessions |-> {}]
  /\ UNCHANGED <<owner, news, open, greeted, known, view, asked, swept>>

----------------------------------------------------------------------------
Handler(s) == Register(s) \/ Collect(s) \/ Notify(s) \/ Subscribe(s) \/ Read(s)
                \/ Snapshot(s) \/ Close(s) \/ Unsubscribe(s)

Next ==
  \/ \E p \in Peers : Dial(p)
  \/ \E p, q \in Peers : AddContact(p, q)
  \/ \E s \in Sessions : OnConnected(s) \/ Drop(s) \/ Handler(s)
  \/ ServerRestart

Spec == Init /\ [][Next]_vars

----------------------------------------------------------------------------
(* Properties.                                                             *)

\* A registered connection is always a session of that peer whose handler is
\* still there and has not begun to clean up: without it the entry would stay
\* for ever, the peer would be online for ever and its messages would be sent
\* to nobody.
RegisteredIsServed ==
  TypeOK /\ \A p \in Peers : Online(p) =>
    /\ owner[conn[p]] = p
    /\ pc[conn[p]] \notin {"free", "auth", "unsubscribe"}
    /\ news[conn[p]] = "online"

\* ws.rs:106, "A replaced session must NOT remove the newer connection": while
\* a socket is open its registration ends only by a newer one or a restart.
NewerConnectionKept ==
  [][\A p \in Peers :
       Online(p) /\ conn[p] \in open /\ conn'[p] = None
         => \A q \in Peers : conn'[q] = None /\ subs'[q] = {}]_vars

\* Nothing is under way: no handler has a step to take before its next frame.
Quiet == /\ \A s \in Sessions : pc[s] \in {"free", "loop"} /\ up[s] = <<>>
         /\ \A s \in Sessions : pc[s] = "loop" => s \in open
         /\ \A s \in open : s \in greeted /\ pc[s] = "loop"

\* The sessions subscriptions are meant for.
Current(s) == s \in open /\ pc[s] = "loop" /\ conn[owner[s]] = s

\* No change is missed: when all is quiet, a session that asked for q and is
\* subscribed to it was sent q's present status after q last changed, by the
\* snapshot or by a notice.  Subscribing before looking up, and registering
\* before announcing, are what this needs.  Subscriptions are kept by peer: a
\* session whose subscription another session of its peer removed, by its
\* clean-up, or replaced by its own, is left out.
NoChangeMissed ==
  Quiet => \A s \in Sessions \ swept : Current(s) =>
             asked[s] \cap subs[owner[s]] \subseteq told[s]
============================================================================
