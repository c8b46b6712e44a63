------------------------------ MODULE Contacts ------------------------------
(***************************************************************************)
(* The contacts of one node (relay/db/contacts.rs), the indexes the relay  *)
(* manager keeps of them in memory (relay/manager/peers.rs), the commands  *)
(* of the window that change them (commands/relay_commands.rs), the        *)
(* Introduce envelopes of other nodes (relay/manager/event_loop.rs) and    *)
(* the start and stop of the manager (relay/manager/lifecycle.rs).         *)
(*                                                                         *)
(* Commands declared `pub fn` run one after another on the main thread;    *)
(* `async` commands and the event loops run beside them.  One step is one  *)
(* database statement or one change of the indexes; a command keeps in its *)
(* record what it has read.                                                *)
(***************************************************************************)
EXTENDS Naturals, Sequences, FiniteSets

CONSTANTS
  Peers,      \* keys of other nodes; a relay id is a prefix of the key and stands for it
  LegacyIds,  \* peer ids of cards of version 0 or 1, which are not derived from the key
  LegacyKey,  \* the key in such a card
  Commands,   \* async commands that can be in flight at once
  Sessions,   \* relay clients the manager starts, in order
  Budgets,    \* bounds a behaviour starts with, see Limits
  None

VARIABLES
  contacts,  \* table contacts: peer id -> row, UNIQUE(peer_id)
  peer_keys, \* peer ids whose key is registered
  index,     \* relay_id_index: relay id -> peer id
  cmd,       \* async commands in flight
  main,      \* the contact the main thread is removing
  hand,      \* per event loop, the envelope it is working on
  status, handle,
  client,    \* per session, the task that holds the socket
  told,      \* sessions whose handle was shut down or dropped
  queue,     \* per session, connection events the loop has not taken
  loops,     \* sessions whose event loop runs
  starting, stopping,
  built,     \* history: the indexes were built since the program started
  raced,     \* history: ids changed by a removal or a rebuild beside another flow
  late,      \* history: a loop of an old session changed the status of a new one
  left       \* what the bounds still allow

Ids == Peers \cup LegacyIds

(* What the bounds limit: commands, removals, Introduces, losses of the    *)
(* connection, failures, restarts, starts and stops of the manager, and in *)
(* module Secretary deliveries of messages and deletions of rows.          *)
Limits == {"commands", "removals", "introduces", "drops", "faults", "restarts",
           "deliveries", "deletions", "starts", "stops"}

Statuses == {"pending_approval", "pending_outgoing", "accepted"}
Row == [uid : Nat \ {0}, status : Statuses, agreed : BOOLEAN]
Command == [op : {"approve", "message", "accept", "friend"}, id : Ids, uid : Nat,
            pc : {"update", "register", "insert", "thread", "create", "store"}, tid : Nat]
Removal == [id : Ids, uid : Nat \ {0}]
Introduce == [pc : {"unknown", "known", "register", "answer"}, id : Ids, uid : Nat,
              was : Statuses \cup {None}]
Start == [pc : {"list", "install", "connect"}, seen : SUBSET Ids]
Events == {"connected", "lost", "bye"}

ASSUME ContactsAssumption ==
  /\ LegacyIds \cap Peers = {}
  /\ LegacyKey \in [LegacyIds -> Peers]
  /\ Sessions \subseteq Nat
  /\ IsFiniteSet(Peers) /\ IsFiniteSet(LegacyIds)
  /\ IsFiniteSet(Commands) /\ IsFiniteSet(Sessions)
  /\ Budgets \subseteq [Limits -> Nat]

ASSUME NoneAssumption ==
  /\ None \notin Ids /\ None \notin Sessions
  /\ None \notin Row /\ None \notin Command /\ None \notin Removal
  /\ None \notin Introduce /\ None \notin Start

rowVars == <<contacts, main>>
indexVars == <<peer_keys, index>>
lifeVars == <<status, handle, client, told, queue, loops, starting, stopping, late>>
vars == <<contacts, peer_keys, index, cmd, main, hand, status, handle, client,
          told, queue, loops, starting, stopping, built, raced, late, left>>

KeyOf(i) == IF i \in LegacyIds THEN LegacyKey[i] ELSE i
Twins(i) == {j \in Ids : KeyOf(j) = KeyOf(i)}

Spend(what) == left[what] > 0 /\ left' = [left EXCEPT ![what] = @ - 1]

Flows == {cmd[c] : c \in Commands} \cup {hand[s] : s \in Sessions} \cup {main}
Busy(i) == \E f \in Flows \ {None} : f.id = i

(* A row id nobody holds: uuid::new_v4.                                    *)
UsedUids == {contacts[i].uid : i \in {j \in Ids : contacts[j] # None}}
              \cup {f.uid : f \in Flows \ {None}}
FreshUid == CHOOSE n \in 1..(Cardinality(UsedUids) + 1) : n \notin UsedUids

HasRow(i, u) == contacts[i] # None /\ contacts[i].uid = u
Insert(i, st, agreed) ==
  contacts' = [contacts EXCEPT ![i] = [uid |-> FreshUid, status |-> st, agreed |-> agreed]]
AcceptRowByPeer(i, u, agreed) ==
  contacts' = IF contacts[i] # None
              THEN [contacts EXCEPT ![i].status = "accepted",
                                    ![i].agreed = @ \/ (agreed /\ HasRow(i, u))]
              ELSE contacts
(* UPDATE contacts ... WHERE id = u changes nothing when the row is gone.  *)
AcceptRow(i, u, agreed) ==
  contacts' = IF HasRow(i, u)
              THEN [contacts EXCEPT ![i] = [uid |-> u, status |-> "accepted",
                                            agreed |-> @.agreed \/ agreed]]
              ELSE contacts

register_peer_key(i) ==
  /\ peer_keys' = peer_keys \cup {i}
  /\ index' = [index EXCEPT ![KeyOf(i)] = i]
remove_known_peer(i) ==
  /\ peer_keys' = peer_keys \ {i}
  /\ index' = IF i \in peer_keys THEN [index EXCEPT ![KeyOf(i)] = None] ELSE index

Rebuilding == starting # None /\ starting.pc = "install"
(* A flow on id i begins: history only.                                    *)
Begin(i) ==
  raced' = IF Rebuilding \/ (main # None /\ main.id = i) THEN raced \cup {i} ELSE raced

Init ==
  /\ contacts = [i \in Ids |-> None] /\ peer_keys = {} /\ index = [p \in Peers |-> None]
  /\ cmd = [c \in Commands |-> None] /\ main = None /\ hand = [s \in Sessions |-> None]
  /\ status = "dormant" /\ handle = None /\ client = [s \in Sessions |-> "none"]
  /\ told = {} /\ queue = [s \in Sessions |-> <<>>] /\ loops = {}
  /\ starting = None /\ stopping = FALSE
  /\ built = FALSE /\ raced = {} /\ late = FALSE /\ left \in Budgets

-----------------------------------------------------------------------------
(* Async commands of the window.                                           *)

Issue(c, op, i, u, pc) ==
  /\ cmd[c] = None /\ Spend("commands") /\ Begin(i)
  /\ cmd' = [cmd EXCEPT ![c] = [op |-> op, id |-> i, uid |-> u, pc |-> pc, tid |-> 0]]
  /\ UNCHANGED <<rowVars, indexVars, hand, lifeVars, built>>
Goto(c, pc) == cmd' = [cmd EXCEPT ![c].pc = pc]
Finish(c) == cmd' = [cmd EXCEPT ![c] = None]
At(c, op, pc) == cmd[c] # None /\ cmd[c].op = op /\ cmd[c].pc = pc

relay_approve_contact(c, i) ==
  /\ contacts[i] # None /\ contacts[i].status = "pending_approval"
  /\ Issue(c, "approve", i, contacts[i].uid, "update")

relay_send_message(c, i) ==
  /\ contacts[i] # None
  /\ Issue(c, "message", i, contacts[i].uid,
           IF contacts[i].status = "pending_approval" THEN "update" ELSE "thread")

(* The code has passed parse_invite; a card of version 2 names the id its  *)
(* key derives, an older one any id.                                       *)
relay_accept_invite(c, i) ==
  Issue(c, "accept", i, IF contacts[i] = None THEN 0 ELSE contacts[i].uid, "update")

(* A directory entry names the id its key derives.  An existing contact is *)
(* returned as it is.                                                      *)
send_friend_request(c, i) ==
  contacts[i] = None /\ i \in Peers /\ Issue(c, "friend", i, 0, "register")

(* A failing update ends the approval; a message goes on all the same.     *)
UpdateApproved(c) ==
  /\ At(c, "approve", "update")
  /\ \/ AcceptRow(cmd[c].id, cmd[c].uid, TRUE) /\ Goto(c, "register") /\ UNCHANGED left
     \/ Finish(c) /\ Spend("faults") /\ UNCHANGED contacts
  /\ UNCHANGED <<indexVars, main, hand, lifeVars, built, raced>>
UpdateWrittenTo(c) ==
  /\ At(c, "message", "update") /\ Goto(c, "register")
  /\ \/ AcceptRow(cmd[c].id, cmd[c].uid, TRUE) /\ UNCHANGED left
     \/ Spend("faults") /\ UNCHANGED contacts
  /\ UNCHANGED <<indexVars, main, hand, lifeVars, built, raced>>

(* The row read before is updated and read again; without one a new row is *)
(* inserted.  A row that is gone, or one that came first, is an error.     *)
StoreInvited(c) ==
  /\ At(c, "accept", "update")
  /\ LET i == cmd[c].id IN
     \/ /\ cmd[c].uid # 0 /\ HasRow(i, cmd[c].uid)
        /\ AcceptRow(i, cmd[c].uid, TRUE) /\ Goto(c, "register")
     \/ /\ cmd[c].uid = 0 /\ contacts[i] = None
        /\ Insert(i, "accepted", TRUE) /\ Goto(c, "register")
     \/ /\ IF cmd[c].uid # 0 THEN ~HasRow(i, cmd[c].uid) ELSE contacts[i] # None
        /\ Finish(c) /\ UNCHANGED contacts
  /\ UNCHANGED <<indexVars, main, hand, lifeVars, built, raced, left>>

(* The Introduce that approve and accept send next has no row: whether it  *)
(* leaves the node or not, nothing here remembers it.                      *)
RegisterContact(c) ==
  /\ \E op \in {"approve", "accept", "message", "friend"} : At(c, op, "register")
  /\ register_peer_key(cmd[c].id)
  /\ CASE cmd[c].op = "message" -> Goto(c, "thread")
       [] cmd[c].op = "friend"  -> Goto(c, "insert")
       [] OTHER                 -> Finish(c)
  /\ UNCHANGED <<rowVars, hand, lifeVars, built, raced, left>>

StoreFriendOrUnregister(c) ==
  /\ At(c, "friend", "insert")
  /\ IF contacts[cmd[c].id] = None
     THEN Insert(cmd[c].id, "pending_outgoing", TRUE) /\ UNCHANGED indexVars
     ELSE remove_known_peer(cmd[c].id) /\ UNCHANGED contacts
  /\ Finish(c)
  /\ UNCHANGED <<main, hand, lifeVars, built, raced, left>>
(* insert_contact fails when another flow was first; the key stays.        *)
StoreFriend(c) ==
  /\ At(c, "friend", "insert")
  /\ IF contacts[cmd[c].id] = None
     THEN Insert(cmd[c].id, "pending_outgoing", TRUE)
     ELSE UNCHANGED contacts
  /\ Finish(c)
  /\ UNCHANGED <<indexVars, main, hand, lifeVars, built, raced, left>>

-----------------------------------------------------------------------------
(* Commands of the main thread: relay_remove_contact, relay_reject_contact.*)

ForgetKey(i) ==
  /\ main = None /\ contacts[i] # None /\ Spend("removals")
  /\ remove_known_peer(i)
  /\ main' = [id |-> i, uid |-> contacts[i].uid]
  /\ raced' = raced \cup (Twins(i) \ {i}) \cup (IF Busy(i) \/ Rebuilding THEN {i} ELSE {})
  /\ UNCHANGED <<contacts, cmd, hand, lifeVars, built>>

DeleteContact ==
  /\ main # None
  /\ contacts' = IF HasRow(main.id, main.uid) THEN [contacts EXCEPT ![main.id] = None]
                 ELSE contacts
  /\ main' = None
  /\ UNCHANGED <<indexVars, cmd, hand, lifeVars, built, raced, left>>

-----------------------------------------------------------------------------
(* An Introduce from peer p, in the event loop of session s.               *)

Take(s, rec) == hand' = [hand EXCEPT ![s] = rec]
Drop(s) == Take(s, None)
Working(s, pc) == hand[s] # None /\ hand[s].pc = pc

HearIntroduce(s, p) ==
  /\ s \in loops /\ hand[s] = None /\ Spend("introduces")
  /\ LET i == IF index[p] = None THEN p ELSE index[p] IN
     /\ Take(s, [pc |-> IF index[p] = None THEN "unknown" ELSE "known",
                 id |-> i, uid |-> 0, was |-> None])
     /\ Begin(i)
  /\ UNCHANGED <<rowVars, indexVars, cmd, lifeVars, built>>

handle_introduce(s) ==
  /\ Working(s, "unknown")
  /\ IF contacts[hand[s].id] = None
     THEN /\ Insert(hand[s].id, "pending_approval", FALSE)
          /\ Take(s, [hand[s] EXCEPT !.pc = "register"])
     ELSE Drop(s) /\ UNCHANGED contacts
  /\ UNCHANGED <<indexVars, cmd, main, lifeVars, built, raced, left>>

RegisterIntroduced(s) ==
  /\ Working(s, "register") /\ register_peer_key(hand[s].id) /\ Drop(s)
  /\ UNCHANGED <<rowVars, cmd, lifeVars, built, raced, left>>

(* Introduce of a peer the index knows: the row is read, then updated.     *)
ReadKnown(s) ==
  /\ Working(s, "known")
  /\ LET row == contacts[hand[s].id] IN
     IF row = None THEN Drop(s)
     ELSE Take(s, [hand[s] EXCEPT !.pc = "answer", !.uid = row.uid, !.was = row.status])
  /\ UNCHANGED <<rowVars, indexVars, cmd, lifeVars, built, raced, left>>

AnswerKnown(s) ==
  /\ Working(s, "answer") /\ Drop(s)
  /\ IF hand[s].was = "pending_outgoing" THEN AcceptRow(hand[s].id, hand[s].uid, FALSE)
     ELSE UNCHANGED contacts
  /\ UNCHANGED <<indexVars, cmd, main, lifeVars, built, raced, left>>

-----------------------------------------------------------------------------
(* Start and stop of the manager, and the client tasks they leave behind.  *)

dataVars == <<rowVars, indexVars, cmd, hand, built, raced>>

StartBegin ==
  /\ status = "dormant" /\ starting = None /\ Spend("starts")
  /\ \E s \in Sessions : client[s] = "none"
  /\ status' = "starting" /\ starting' = [pc |-> "list", seen |-> {}]
  /\ UNCHANGED <<dataVars, handle, client, told, queue, loops, stopping, late>>

(* rebuild_peer_index: the rows are read, then both indexes are replaced.  *)
ListContacts ==
  /\ starting # None /\ starting.pc = "list"
  /\ starting' = [pc |-> "install", seen |-> {i \in Ids : contacts[i] # None}]
  /\ raced' = {i \in Ids : Busy(i)}
  /\ UNCHANGED <<rowVars, indexVars, cmd, hand, built, status, handle, client, told,
                 queue, loops, stopping, late, left>>

(* An error of list_contacts, or of relay_client::start once the indexes   *)
(* are installed, leaves start with the status it has set.                 *)
StartFails ==
  /\ starting # None /\ starting.pc \in {"list", "connect"} /\ Spend("faults")
  /\ starting' = None
  /\ UNCHANGED <<dataVars, status, handle, client, told, queue, loops, stopping, late>>

rebuild_peer_index ==
  /\ Rebuilding
  /\ peer_keys' = starting.seen
  /\ index' \in {f \in [Peers -> Ids \cup {None}] : \A p \in Peers :
       LET of == {i \in starting.seen : KeyOf(i) = p} IN
       IF of = {} THEN f[p] = None ELSE f[p] \in of}
  /\ built' = TRUE /\ starting' = [starting EXCEPT !.pc = "connect"]
  /\ UNCHANGED <<rowVars, cmd, hand, raced, status, handle, client, told, queue, loops,
                 stopping, late, left>>

(* A handle that is replaced is dropped: its client ends like one told to. *)
StartClient ==
  /\ starting # None /\ starting.pc = "connect"
  /\ \E s \in Sessions :
       /\ client[s] = "none" /\ \A k \in Sessions : client[k] = "none" => s <= k
       /\ handle' = s /\ client' = [client EXCEPT ![s] = "trying"]
       /\ loops' = loops \cup {s}
  /\ told' = IF handle = None THEN told ELSE told \cup {handle}
  /\ status' = "active" /\ starting' = None
  /\ UNCHANGED <<dataVars, queue, stopping, late, left>>

StopBeginKeepsHandle ==
  /\ status \in {"active", "reconnecting"} /\ ~stopping /\ Spend("stops")
  /\ status' = "stopping" /\ stopping' = TRUE
  /\ told' = IF handle = None THEN told ELSE told \cup {handle}
  /\ UNCHANGED <<dataVars, handle, client, queue, loops, starting, late>>
StopBegin ==
  /\ status \in {"active", "reconnecting"} /\ ~stopping /\ Spend("stops")
  /\ status' = "stopping" /\ stopping' = TRUE
  /\ told' = IF handle = None THEN told ELSE told \cup {handle}
  /\ handle' = None
  /\ UNCHANGED <<dataVars, client, queue, loops, starting, late>>

StopEnd ==
  /\ stopping /\ status' = "dormant" /\ stopping' = FALSE
  /\ UNCHANGED <<dataVars, handle, client, told, queue, loops, starting, late, left>>

Emits(s, e) == queue' = [queue EXCEPT ![s] = Append(@, e)]
ClientConnects(s) ==
  /\ client[s] = "trying" /\ client' = [client EXCEPT ![s] = "up"] /\ Emits(s, "connected")
  /\ UNCHANGED <<dataVars, status, handle, told, loops, starting, stopping, late, left>>
ClientLoses(s) ==
  /\ client[s] = "up" /\ Spend("drops")
  /\ client' = [client EXCEPT ![s] = "trying"] /\ Emits(s, "lost")
  /\ UNCHANGED <<dataVars, status, handle, told, loops, starting, stopping, late>>
ClientEnds(s) ==
  /\ s \in told /\ client[s] \in {"trying", "up"}
  /\ client' = [client EXCEPT ![s] = "closed"] /\ Emits(s, "bye")
  /\ UNCHANGED <<dataVars, status, handle, told, loops, starting, stopping, late, left>>

(* run_event_loop on Connected and Disconnected: the status is one for all *)
(* sessions, and the loop does not ask whose it is.                        *)
run_event_loop(s) ==
  /\ s \in loops /\ hand[s] = None /\ queue[s] # <<>>
  /\ status' = CASE Head(queue[s]) = "connected" -> "active"
                 [] Head(queue[s]) = "lost"      -> "reconnecting"
                 [] Head(queue[s]) = "bye"       -> "dormant"
  /\ loops' = IF Head(queue[s]) = "bye" THEN loops \ {s} ELSE loops
  /\ queue' = [queue EXCEPT ![s] = Tail(@)]
  /\ late' = (late \/ (handle # s /\ (handle # None \/ starting # None \/ stopping)))
  /\ UNCHANGED <<dataVars, handle, client, told, starting, stopping, left>>

(* The program ends and comes back with its database only.                 *)
Restart ==
  /\ Spend("restarts")
  /\ peer_keys' = {} /\ index' = [p \in Peers |-> None]
  /\ cmd' = [c \in Commands |-> None] /\ main' = None /\ hand' = [s \in Sessions |-> None]
  /\ status' = "dormant" /\ handle' = None /\ loops' = {} /\ told' = {}
  /\ client' = [s \in Sessions |-> "none"] /\ queue' = [s \in Sessions |-> <<>>]
  /\ starting' = None /\ stopping' = FALSE
  /\ built' = FALSE /\ raced' = {} /\ late' = FALSE /\ UNCHANGED contacts

CommandStep(c) ==
  \/ UpdateApproved(c) \/ UpdateWrittenTo(c) \/ StoreInvited(c)
  \/ RegisterContact(c) \/ StoreFriend(c)
  \/ \E i \in Ids : \/ relay_approve_contact(c, i) \/ relay_send_message(c, i)
                    \/ relay_accept_invite(c, i) \/ send_friend_request(c, i)
LoopStep(s) ==
  \/ \E p \in Peers : HearIntroduce(s, p)
  \/ handle_introduce(s) \/ RegisterIntroduced(s) \/ ReadKnown(s) \/ AnswerKnown(s)
  \/ run_event_loop(s)
ClientStep(s) == ClientConnects(s) \/ ClientLoses(s) \/ ClientEnds(s)
LifeStep ==
  \/ StartBegin \/ ListContacts \/ StartFails \/ rebuild_peer_index \/ StartClient
  \/ StopBegin \/ StopEnd
ContactStep ==
  \/ \E c \in Commands : CommandStep(c)
  \/ \E i \in Ids : ForgetKey(i)
  \/ DeleteContact
  \/ \E s \in Sessions : LoopStep(s) \/ ClientStep(s)
  \/ LifeStep

-----------------------------------------------------------------------------
(* Every variable has values of its type; the manager's lists name each    *)
(* other's members.                                                        *)
ContactsTypeOK ==
  /\ contacts \in [Ids -> Row \cup {None}]
  /\ peer_keys \subseteq Ids /\ index \in [Peers -> Ids \cup {None}]
  /\ \A p \in Peers : index[p] # None => KeyOf(index[p]) = p
  /\ \A i, j \in Ids : i # j /\ contacts[i] # None /\ contacts[j] # None =>
       contacts[i].uid # contacts[j].uid
  /\ cmd \in [Commands -> Command \cup {None}] /\ main \in Removal \cup {None}
  /\ status \in {"dormant", "starting", "active", "reconnecting", "stopping"}
  /\ handle \in Sessions \cup {None} /\ loops \subseteq Sessions /\ told \subseteq Sessions
  /\ client \in [Sessions -> {"none", "trying", "up", "closed"}]
  /\ queue \in [Sessions -> Seq(Events)]
  /\ starting \in Start \cup {None} /\ {stopping, built, late} \subseteq BOOLEAN
  /\ raced \subseteq Ids
  /\ left \in [Limits -> Nat]

(* A contact is accepted only when the user agreed to this very row:       *)
(* approved it, accepted its invitation, wrote to it, or asked for it and  *)
(* was introduced.  The event loop reads a row and updates it later, when  *)
(* the row may have been removed and another may stand for the same peer.  *)
AcceptedByUser ==
  \A i \in Ids : contacts[i] # None =>
    (contacts[i].status # "pending_approval" => contacts[i].agreed)

(* When nothing is under way on a peer, and no removal or rebuild ran      *)
(* beside another change of it, the indexes in memory say what the table   *)
(* says: a contact is found by its relay id, a removed one is not.         *)
IndexAgrees ==
  ~Rebuilding => \A i \in Ids \ raced : ~Busy(i) =>
    /\ i \in peer_keys => contacts[i] # None
    /\ index[KeyOf(i)] = i => i \in peer_keys
    /\ contacts[i] # None /\ built => i \in peer_keys
    /\ i \in peer_keys =>
         index[KeyOf(i)] # None /\ index[KeyOf(i)] \in peer_keys \cup raced

(* Who is a contact, and who is known as one, is what the user agreed to.  *)
ContactsSound == AcceptedByUser /\ IndexAgrees

(* When start and stop are done and old loops have taken their leave, the  *)
(* status the window sees is that of the session in use: running exactly   *)
(* when there is a handle to send with.  Excepted are a farewell of an old *)
(* session that came after the next start, and a failed start.             *)
StatusIsOfSession ==
  (starting = None /\ ~stopping /\ loops \subseteq {handle} /\ ~late) =>
    IF handle = None THEN status \in {"dormant", "starting"}
    ELSE status \in {"active", "reconnecting"} /\ handle \in loops \ told
=============================================================================
