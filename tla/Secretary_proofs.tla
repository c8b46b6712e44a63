--------------------------- MODULE Secretary_proofs ---------------------------
(* Proofs about Contacts in the company of Secretary, for any peers, commands,  *)
(* sessions, agents and messages, any bounds and any number of restarts.        *)
EXTENDS Secretary, FiniteSetTheorems, SequenceTheorems, WellFoundedInduction, TLAPS

-----------------------------------------------------------------------------
(* The inductive invariant.                                                    *)

Letters == Introduce \union Routed \union Storing

TypesOK == ContactsTypeOK /\ hand \in [Sessions -> Letters \union {None}]

(* The event loop accepts the row it has read, and a row inserted in its place *)
(* has another id.                                                             *)
AcceptOK ==
  /\ AcceptedByUser
  /\ \A s \in Sessions :
       (Working(s, "answer") /\ hand[s].was = "pending_outgoing"
          /\ HasRow(hand[s].id, hand[s].uid)) => contacts[hand[s].id].agreed

(* The flows that still change the row or the key of an id.                    *)
CmdOn(c, i) == cmd[c] # None /\ cmd[c].id = i /\ cmd[c].pc \in {"update", "register", "insert"}
HandOn(s, i) == hand[s] # None /\ hand[s].id = i /\ hand[s].pc \in {"unknown", "register"}
Changing(i) == (\E c \in Commands : CmdOn(c, i)) \/ (\E s \in Sessions : HandOn(s, i))
Removing(i) == main # None /\ main.id = i

Approving(i) == \E c \in Commands : CmdOn(c, i) /\ cmd[c].pc = "update" /\ cmd[c].op # "accept"
Registering(i) ==
  \/ \E c \in Commands : CmdOn(c, i) /\ cmd[c].pc = "register" /\ cmd[c].op # "friend"
  \/ \E s \in Sessions : HandOn(s, i) /\ hand[s].pc = "register"
Befriending(i) == \E c \in Commands : CmdOn(c, i) /\ cmd[c].pc = "insert"

(* A removal runs beside no other change of its id, or the id is raced. *)
RemovalOK(i) ==
  Removing(i) => ~Changing(i) /\ ~Rebuilding /\ HasRow(i, main.uid) /\ i \notin peer_keys

(* Who registers a key has its row; who befriends has registered before. *)
RowsOK(i) ==
  /\ Approving(i) \/ Registering(i) => contacts[i] # None
  /\ Befriending(i) => i \in peer_keys

(* Table and indexes differ only by what a flow is still to do. *)
KeysOK(i) ==
  ~Rebuilding =>
    /\ i \in peer_keys => contacts[i] # None \/ Befriending(i)
    /\ built /\ contacts[i] # None => i \in peer_keys \/ Registering(i) \/ Removing(i)
    /\ i \in peer_keys => index[KeyOf(i)] # None

(* What a rebuild has read is still true. *)
RebuildOK(i) == Rebuilding => ~Changing(i) /\ (i \in starting.seen <=> contacts[i] # None)

IdOK(i) == RemovalOK(i) /\ RowsOK(i) /\ KeysOK(i) /\ RebuildOK(i)

IndexOK ==
  /\ \A p \in Peers : index[p] # None => index[p] \in peer_keys
  /\ \A i \in Ids \ raced : IdOK(i)

(* The session in use runs and has not been told to end; a session not started *)
(* has left nothing.                                                           *)
ClientsOK ==
  /\ handle # None => handle \in loops \ told
  /\ \A s \in Sessions :
       /\ client[s] = "none" => s \notin loops /\ s \notin told /\ queue[s] = <<>>
       /\ (\E n \in DOMAIN queue[s] : queue[s][n] = "bye") => s \in told

StatusOK ==
  ~late =>
    /\ starting # None => handle = None /\ status = "starting" /\ ~stopping
    /\ stopping => handle = None /\ status = "stopping"
    /\ starting = None /\ ~stopping /\ handle # None => status \in {"active", "reconnecting"}
    /\ starting = None /\ ~stopping /\ handle = None /\ loops = {} =>
         status \in {"dormant", "starting"}

IInv == TypesOK /\ AcceptOK /\ IndexOK /\ ClientsOK /\ StatusOK

-----------------------------------------------------------------------------
(* Row ids.                                                                    *)

LEMMA FiniteValues ==
  ASSUME NEW S, IsFiniteSet(S), NEW f, DOMAIN f = S
  PROVE  IsFiniteSet({f[x] : x \in S})
<1> DEFINE T == {f[x] : x \in S}
           g == [x \in S |-> f[x]]
<1>1. g \in Surjection(S, T)
  BY DEF Surjection
<1> QED
  BY <1>1, FS_Surjection

LEMMA FreshUidIs ==
  ASSUME TypesOK
  PROVE  FreshUid \in Nat \ {0} /\ FreshUid \notin UsedUids
<1>1. IsFiniteSet(Ids)
  BY ContactsAssumption, FS_Union DEF Ids
<1>2. IsFiniteSet({contacts[i].uid : i \in {j \in Ids : contacts[j] # None}})
  <2> DEFINE S == {j \in Ids : contacts[j] # None}
             f == [i \in S |-> contacts[i].uid]
  <2>1. IsFiniteSet(S)
    BY <1>1, FS_Subset
  <2>2. IsFiniteSet({f[i] : i \in S})
    <3> HIDE DEF S
    <3> QED
      BY <2>1, FiniteValues
  <2>3. {f[i] : i \in S} = {contacts[i].uid : i \in S}
    OBVIOUS
  <2> QED
    BY <2>2, <2>3
<1>3. IsFiniteSet(Flows)
  <2>1. DOMAIN cmd = Commands /\ DOMAIN hand = Sessions
    BY DEF TypesOK, ContactsTypeOK
  <2>2. IsFiniteSet({cmd[c] : c \in Commands}) /\ IsFiniteSet({hand[s] : s \in Sessions})
    BY <2>1, ContactsAssumption, FiniteValues
  <2> QED
    BY <2>2, FS_Union, FS_Singleton DEF Flows
<1>4. IsFiniteSet({f.uid : f \in Flows \ {None}})
  <2> DEFINE S == Flows \ {None}
             g == [f \in S |-> f.uid]
  <2>1. IsFiniteSet(S)
    BY <1>3, FS_Subset
  <2>2. IsFiniteSet({g[f] : f \in S})
    <3> HIDE DEF S
    <3> QED
      BY <2>1, FiniteValues
  <2>3. {g[f] : f \in S} = {f.uid : f \in S}
    OBVIOUS
  <2> QED
    BY <2>2, <2>3
<1> DEFINE n == Cardinality(UsedUids)
<1>5. IsFiniteSet(UsedUids) /\ n \in Nat
  BY <1>2, <1>4, FS_Union, FS_CardinalityType DEF UsedUids
<1>6. \E k \in 1..(n + 1) : k \notin UsedUids
  <2> SUFFICES ASSUME 1..(n + 1) \subseteq UsedUids PROVE FALSE
    OBVIOUS
  <2>1. Cardinality(1..(n + 1)) <= n
    BY <1>5, FS_Subset
  <2>2. Cardinality(1..(n + 1)) = n + 1
    BY <1>5, FS_Interval
  <2> QED
    BY <1>5, <2>1, <2>2
<1>7. FreshUid \in 1..(n + 1) /\ FreshUid \notin UsedUids
  BY <1>6 DEF FreshUid
<1> QED
  BY <1>5, <1>7

LEMMA UidsInUse ==
  /\ \A i \in Ids : contacts[i] # None => contacts[i].uid \in UsedUids
  /\ \A s \in Sessions : hand[s] # None => hand[s].uid \in UsedUids
  BY DEF UsedUids, Flows

-----------------------------------------------------------------------------
(* What is done to rows and keys.                                              *)

RowsTyped ==
  /\ contacts \in [Ids -> Row \union {None}]
  /\ \A i, j \in Ids : i # j /\ contacts[i] # None /\ contacts[j] # None =>
       contacts[i].uid # contacts[j].uid

KeysTyped ==
  /\ peer_keys \subseteq Ids /\ index \in [Peers -> Ids \union {None}]
  /\ \A p \in Peers : index[p] # None => KeyOf(index[p]) = p

(* No row is there that was not, or it is a new one. *)
RowsKept ==
  \A i \in Ids : contacts'[i] # None =>
    \/ /\ contacts[i] # None /\ contacts'[i].uid = contacts[i].uid
       /\ contacts[i].agreed => contacts'[i].agreed
    \/ contacts'[i].uid \notin UsedUids

LEMMA InsertIs ==
  ASSUME TypesOK, NEW i \in Ids, NEW st \in Statuses, NEW ag \in BOOLEAN, Insert(i, st, ag)
  PROVE  /\ RowsTyped' /\ RowsKept
         /\ contacts'[i] # None /\ contacts'[i].status = st /\ contacts'[i].agreed = ag
         /\ \A j \in Ids \ {i} : contacts'[j] = contacts[j]
<1> DEFINE r == [uid |-> FreshUid, status |-> st, agreed |-> ag]
<1>1. r \in Row /\ r.uid \notin UsedUids /\ r.status = st /\ r.agreed = ag
  BY FreshUidIs DEF Row
<1>2. contacts \in [Ids -> Row \union {None}] /\ contacts' = [contacts EXCEPT ![i] = r]
  BY DEF TypesOK, ContactsTypeOK, Insert
<1> HIDE DEF r
<1>3. /\ contacts' \in [Ids -> Row \union {None}] /\ contacts'[i] = r /\ r # None
      /\ \A j \in Ids \ {i} : contacts'[j] = contacts[j]
  BY <1>1, <1>2, NoneAssumption
<1>4. RowsKept
  BY <1>1, <1>3 DEF RowsKept
<1>5. RowsTyped'
  BY <1>1, <1>3, UidsInUse DEF RowsTyped, TypesOK, ContactsTypeOK
<1> QED
  BY <1>1, <1>3, <1>4, <1>5

LEMMA AcceptIs ==
  ASSUME TypesOK, NEW i \in Ids, NEW u, NEW ag \in BOOLEAN, AcceptRow(i, u, ag)
  PROVE  /\ RowsTyped' /\ RowsKept
         /\ \A j \in Ids : contacts'[j] = None <=> contacts[j] = None
         /\ \A j \in Ids : contacts[j] # None => contacts'[j].uid = contacts[j].uid
         /\ \A j \in Ids : contacts'[j] # contacts[j] =>
              j = i /\ HasRow(i, u) /\ (ag \/ contacts[i].agreed => contacts'[i].agreed)
<1> DEFINE r == [uid |-> u, status |-> "accepted", agreed |-> contacts[i].agreed \/ ag]
<1>1. contacts \in [Ids -> Row \union {None}]
  BY DEF TypesOK, ContactsTypeOK
<1>2. CASE ~HasRow(i, u)
  <2>1. contacts' = contacts
    BY <1>2 DEF AcceptRow
  <2> QED
    BY <2>1 DEF RowsTyped, RowsKept, TypesOK, ContactsTypeOK
<1>3. CASE HasRow(i, u)
  <2>1. contacts[i] \in Row
    BY <1>1, <1>3 DEF HasRow
  <2>2. r \in Row /\ r.uid = contacts[i].uid /\ (ag \/ contacts[i].agreed => r.agreed)
    BY <1>3, <2>1 DEF HasRow, Row, Statuses
  <2>3. contacts' = [contacts EXCEPT ![i] = r]
    BY <1>3 DEF AcceptRow
  <2> HIDE DEF r
  <2>4. /\ contacts' \in [Ids -> Row \union {None}] /\ contacts'[i] = r /\ r # None
        /\ contacts[i] # None /\ \A j \in Ids \ {i} : contacts'[j] = contacts[j]
    BY <1>1, <1>3, <2>2, <2>3, NoneAssumption DEF HasRow
  <2>5. RowsTyped' /\ RowsKept
    <3>1. \A j \in Ids : contacts'[j] # None =>
            /\ contacts[j] # None /\ contacts'[j].uid = contacts[j].uid
            /\ contacts[j].agreed => contacts'[j].agreed
      BY <2>2, <2>4
    <3>2. RowsKept
      BY <3>1 DEF RowsKept
    <3>3. \A j, k \in Ids : j # k /\ contacts[j] # None /\ contacts[k] # None =>
            contacts[j].uid # contacts[k].uid
      BY DEF TypesOK, ContactsTypeOK
    <3> QED
      BY <2>4, <3>1, <3>2, <3>3 DEF RowsTyped
  <2>6. \A j \in Ids : /\ contacts'[j] = None <=> contacts[j] = None
                       /\ contacts[j] # None => contacts'[j].uid = contacts[j].uid
    BY <2>2, <2>4
  <2> QED
    BY <1>3, <2>2, <2>4, <2>5, <2>6
<1> QED
  BY <1>2, <1>3

LEMMA KeyOfIs ==
  ASSUME NEW i \in Ids
  PROVE  KeyOf(i) \in Peers
  BY ContactsAssumption DEF Ids, KeyOf

LEMMA RegisterIs ==
  ASSUME TypesOK, NEW i \in Ids, register_peer_key(i),
         \A p \in Peers : index[p] # None => index[p] \in peer_keys
  PROVE  /\ KeysTyped' /\ \A p \in Peers : index'[p] # None => index'[p] \in peer_keys'
         /\ peer_keys' = peer_keys \union {i} /\ index'[KeyOf(i)] = i /\ i # None
         /\ \A j \in Ids : index[KeyOf(j)] # None => index'[KeyOf(j)] # None
<1>1. /\ peer_keys' = peer_keys \union {i} /\ index' = [index EXCEPT ![KeyOf(i)] = i]
      /\ KeyOf(i) \in Peers /\ i # None
      /\ peer_keys \subseteq Ids /\ index \in [Peers -> Ids \union {None}]
      /\ \A p \in Peers : index[p] # None => KeyOf(index[p]) = p
  BY KeyOfIs, NoneAssumption DEF register_peer_key, TypesOK, ContactsTypeOK
<1>2. index'[KeyOf(i)] = i /\ \A p \in Peers : p # KeyOf(i) => index'[p] = index[p]
  BY <1>1
<1>3. KeysTyped'
  BY <1>1, <1>2 DEF KeysTyped
<1>4. \A j \in Ids : index[KeyOf(j)] # None => index'[KeyOf(j)] # None
  BY <1>1, <1>2, KeyOfIs
<1> QED
  BY <1>1, <1>2, <1>3, <1>4

LEMMA RemoveIs ==
  ASSUME TypesOK, NEW i \in Ids, remove_known_peer(i),
         \A p \in Peers : index[p] # None => index[p] \in peer_keys
  PROVE  /\ KeysTyped' /\ \A p \in Peers : index'[p] # None => index'[p] \in peer_keys'
         /\ peer_keys' = peer_keys \ {i}
         /\ \A j \in Ids \ Twins(i) : index'[KeyOf(j)] = index[KeyOf(j)]
<1>1. /\ peer_keys' = peer_keys \ {i}
      /\ index' = IF i \in peer_keys THEN [index EXCEPT ![KeyOf(i)] = None] ELSE index
      /\ KeyOf(i) \in Peers /\ i # None
      /\ peer_keys \subseteq Ids /\ index \in [Peers -> Ids \union {None}]
      /\ \A p \in Peers : index[p] # None => KeyOf(index[p]) = p
  BY KeyOfIs, NoneAssumption DEF remove_known_peer, TypesOK, ContactsTypeOK
<1>2. /\ \A p \in Peers : p # KeyOf(i) => index'[p] = index[p]
      /\ index'[KeyOf(i)] = IF i \in peer_keys THEN None ELSE index[KeyOf(i)]
      /\ index' \in [Peers -> Ids \union {None}]
  BY <1>1
<1>3. KeysTyped'
  BY <1>1, <1>2 DEF KeysTyped
<1>4. \A p \in Peers : index'[p] # None => index'[p] \in peer_keys'
  BY <1>1, <1>2
<1>5. \A j \in Ids \ Twins(i) : index'[KeyOf(j)] = index[KeyOf(j)]
  BY <1>2, KeyOfIs DEF Twins
<1> QED
  BY <1>1, <1>3, <1>4, <1>5

LEMMA SpendIs ==
  ASSUME TypesOK, NEW what \in Limits, Spend(what)
  PROVE  left' \in [Limits -> Nat]
<1>1. left \in [Limits -> Nat] /\ left[what] > 0
  BY DEF TypesOK, ContactsTypeOK, Spend
<1>2. left[what] - 1 \in Nat
  BY <1>1
<1> QED
  BY <1>1, <1>2 DEF Spend

(* Acceptances stay right while rows are kept and no answer is begun.          *)
LEMMA AcceptFrame ==
  ASSUME TypesOK, TypesOK', AcceptOK, RowsKept, AcceptedByUser',
         \A s \in Sessions : hand'[s] # hand[s] => ~Working(s, "answer")'
  PROVE  AcceptOK'
<1> SUFFICES ASSUME NEW s \in Sessions, Working(s, "answer")',
                    (hand[s].was)' = "pending_outgoing",
                    HasRow(hand[s].id, hand[s].uid)'
             PROVE  (contacts[hand[s].id].agreed)'
  BY DEF AcceptOK
<1>1. hand'[s] = hand[s] /\ hand[s] # None /\ hand[s].pc = "answer"
  BY DEF Working
<1>2. hand[s].id \in Ids
  BY <1>1 DEF TypesOK, Letters, Introduce, Routed, Storing
<1> DEFINE i == hand[s].id
<1>3. contacts'[i] # None /\ contacts'[i].uid = hand[s].uid
  BY <1>1 DEF HasRow
<1>4. hand[s].uid \in UsedUids
  BY <1>1, UidsInUse
<1>5. contacts[i] # None /\ contacts'[i].uid = contacts[i].uid
      /\ (contacts[i].agreed => contacts'[i].agreed)
  BY <1>2, <1>3, <1>4 DEF RowsKept
<1>6. contacts[i].agreed
  BY <1>1, <1>3, <1>5 DEF AcceptOK, Working, HasRow
<1>7. contacts'[i].agreed
  BY <1>5, <1>6
<1> QED
  BY <1>1, <1>7

-----------------------------------------------------------------------------
(* Flows that stay as they are, and ids nothing happens to.                    *)

FlowsSame(j) ==
  /\ \A c \in Commands : cmd'[c] = cmd[c] \/ (~CmdOn(c, j) /\ ~CmdOn(c, j)')
  /\ \A s \in Sessions : hand'[s] = hand[s] \/ (~HandOn(s, j) /\ ~HandOn(s, j)')

LEMMA FlowsSameMeans ==
  ASSUME NEW j, FlowsSame(j)
  PROVE  /\ Changing(j)' <=> Changing(j)
         /\ Approving(j)' <=> Approving(j)
         /\ Registering(j)' <=> Registering(j)
         /\ Befriending(j)' <=> Befriending(j)
<1>1. ASSUME NEW c \in Commands
      PROVE  /\ CmdOn(c, j)' <=> CmdOn(c, j)
             /\ CmdOn(c, j) => cmd'[c] = cmd[c]
  BY DEF FlowsSame, CmdOn
<1>2. ASSUME NEW s \in Sessions
      PROVE  /\ HandOn(s, j)' <=> HandOn(s, j)
             /\ HandOn(s, j) => hand'[s] = hand[s]
  BY DEF FlowsSame, HandOn
<1>3. Changing(j)' <=> Changing(j)
  BY <1>1, <1>2 DEF Changing
<1>4. Approving(j)' <=> Approving(j)
  BY <1>1 DEF Approving
<1>5. Registering(j)' <=> Registering(j)
  BY <1>1, <1>2 DEF Registering
<1>6. Befriending(j)' <=> Befriending(j)
  BY <1>1 DEF Befriending
<1> QED
  BY <1>3, <1>4, <1>5, <1>6

(* Nothing happens to the id j, but that its relay id may get a new owner.     *)
Quiet(j) ==
  /\ FlowsSame(j)
  /\ contacts'[j] = None <=> contacts[j] = None
  /\ contacts[j] # None => contacts'[j].uid = contacts[j].uid
  /\ j \in peer_keys' <=> j \in peer_keys
  /\ index[KeyOf(j)] # None => index'[KeyOf(j)] # None
  /\ Removing(j)' <=> Removing(j)
  /\ Removing(j) => main' = main
  /\ built' = built

LEMMA QuietIds ==
  ASSUME NEW j \in Ids, IdOK(j), Quiet(j), Rebuilding' <=> Rebuilding,
         Rebuilding => starting' = starting
  PROVE  IdOK(j)'
<1>1. /\ Changing(j)' <=> Changing(j)
      /\ Approving(j)' <=> Approving(j)
      /\ Registering(j)' <=> Registering(j)
      /\ Befriending(j)' <=> Befriending(j)
  BY FlowsSameMeans DEF Quiet
<1>2. RemovalOK(j)'
  BY <1>1 DEF IdOK, RemovalOK, Quiet, HasRow
<1>3. RowsOK(j)'
  BY <1>1 DEF IdOK, RowsOK, Quiet
<1>4. KeysOK(j)'
  BY <1>1 DEF IdOK, KeysOK, Quiet
<1>5. RebuildOK(j)'
  BY <1>1 DEF IdOK, RebuildOK, Quiet
<1> QED
  BY <1>2, <1>3, <1>4, <1>5 DEF IdOK

(* Only id i has something happen to it, and there is no rebuild or removal    *)
(* beside it.                                                                  *)
LEMMA OneId ==
  ASSUME IndexOK, raced \subseteq raced', NEW i \in Ids,
         \A p \in Peers : index'[p] # None => index'[p] \in peer_keys',
         i \notin raced' => IdOK(i)',
         \A j \in Ids \ {i} : j \notin raced' => Quiet(j),
         starting' = starting
  PROVE  IndexOK'
<1>1. ASSUME NEW j \in Ids, j \notin raced' PROVE IdOK(j)'
  <2>1. CASE j = i
    BY <1>1, <2>1
  <2>2. CASE j # i
    <3>1. IdOK(j) /\ Quiet(j)
      BY <1>1, <2>2 DEF IndexOK
    <3> QED
      BY <3>1, QuietIds DEF Rebuilding
  <2> QED
    BY <2>1, <2>2
<1> QED
  BY <1>1 DEF IndexOK

LEMMA NoId ==
  ASSUME IndexOK, UNCHANGED <<contacts, peer_keys, index, main, built>>, raced \subseteq raced',
         \A j \in Ids : FlowsSame(j),
         Rebuilding' <=> Rebuilding, Rebuilding => starting' = starting
  PROVE  IndexOK'
<1>1. ASSUME NEW j \in Ids, j \notin raced' PROVE IdOK(j)'
  <2>1. IdOK(j) /\ Quiet(j)
    BY <1>1 DEF IndexOK, Quiet, Removing
  <2> QED
    BY <2>1, QuietIds
<1> QED
  BY <1>1 DEF IndexOK

(* A change without a rebuild or a removal beside it. *)
LEMMA Alone ==
  ASSUME NEW i, ~Removing(i)', ~Rebuilding', RowsOK(i)', KeysOK(i)'
  PROVE  IdOK(i)'
  BY DEF IdOK, RemovalOK, RebuildOK

LEMMA AloneWhileChanging ==
  ASSUME IndexOK, NEW i \in Ids, i \notin raced, Changing(i)
  PROVE  ~Removing(i) /\ ~Rebuilding /\ RowsOK(i) /\ KeysOK(i)
  BY DEF IndexOK, IdOK, RemovalOK, RebuildOK

(* A command and an event loop at work on one id. *)
CommandTurns(c, i) ==
  /\ \A d \in Commands \ {c} : cmd'[d] = cmd[d]
  /\ cmd[c] # None => cmd[c].id = i
  /\ cmd'[c] # None => cmd'[c].id = i
  /\ hand' = hand /\ main' = main /\ starting' = starting /\ built' = built

HandTurns(s, i) ==
  /\ \A z \in Sessions \ {s} : hand'[z] = hand[z]
  /\ hand[s] # None => hand[s].id = i
  /\ hand'[s] # None => hand'[s].id = i
  /\ cmd' = cmd /\ main' = main /\ starting' = starting /\ built' = built

LEMMA TurnsLeaveOthers ==
  ASSUME NEW i \in Ids, NEW j \in Ids, i # j,
         \/ \E c \in Commands : CommandTurns(c, i)
         \/ \E s \in Sessions : HandTurns(s, i)
  PROVE  FlowsSame(j)
  BY DEF CommandTurns, HandTurns, FlowsSame, CmdOn, HandOn

LEMMA GotoIs ==
  ASSUME TypesOK, NEW c \in Commands, cmd[c] # None, NEW q, Goto(c, q),
         q \in {"update", "register", "insert", "thread", "create", "store"}
  PROVE  /\ cmd' \in [Commands -> Command \union {None}]
         /\ \A d \in Commands \ {c} : cmd'[d] = cmd[d]
         /\ cmd'[c] # None /\ cmd'[c].pc = q
         /\ cmd'[c].op = cmd[c].op /\ cmd'[c].id = cmd[c].id
         /\ cmd[c] \in Command
<1> DEFINE r == [cmd[c] EXCEPT !.pc = q]
<1>1. cmd \in [Commands -> Command \union {None}] /\ cmd[c] \in Command
  BY DEF TypesOK, ContactsTypeOK
<1>2. r \in Command /\ r.pc = q /\ r.op = cmd[c].op /\ r.id = cmd[c].id
  BY <1>1 DEF Command
<1>3. cmd' = [cmd EXCEPT ![c] = r]
  BY DEF Goto
<1> HIDE DEF r
<1> QED
  BY <1>1, <1>2, <1>3, NoneAssumption

LEMMA FinishIs ==
  ASSUME TypesOK, NEW c \in Commands, Finish(c)
  PROVE  /\ cmd' \in [Commands -> Command \union {None}]
         /\ \A d \in Commands \ {c} : cmd'[d] = cmd[d]
         /\ cmd'[c] = None
  BY DEF Finish, TypesOK, ContactsTypeOK

LEMMA TakeIs ==
  ASSUME TypesOK, NEW s \in Sessions, NEW r \in Letters \union {None}, Take(s, r)
  PROVE  /\ hand' \in [Sessions -> Letters \union {None}]
         /\ \A z \in Sessions \ {s} : hand'[z] = hand[z]
         /\ hand'[s] = r
  BY DEF Take, TypesOK

LEMMA LettersAre ==
  /\ None \notin Letters
  /\ \A r \in Letters : r.id \in Ids
  /\ \A r \in Letters : r.pc \in {"unknown", "known", "register", "answer"} => r \in Introduce
  /\ \A r \in Introduce : r.pc \in {"unknown", "known", "register", "answer"}
  /\ \A r \in Routed : r.pc = "route"
  /\ \A r \in Storing : r.pc \in {"store", "decide"}
  BY NoneAssumption, NoMailAssumption DEF Letters, Introduce, Routed, Storing

LEMMA LifeFrame ==
  ASSUME ClientsOK, StatusOK, UNCHANGED lifeVars
  PROVE  ClientsOK' /\ StatusOK'
<1>1. /\ status' = status /\ handle' = handle /\ client' = client /\ told' = told
      /\ queue' = queue /\ loops' = loops /\ starting' = starting /\ stopping' = stopping
      /\ late' = late
  BY DEF lifeVars
<1>2. ClientsOK'
  BY <1>1 DEF ClientsOK
<1>3. StatusOK'
  BY <1>1 DEF StatusOK
<1> QED
  BY <1>2, <1>3

LEMMA TypesFrame ==
  ASSUME TypesOK, RowsTyped', KeysTyped', cmd' \in [Commands -> Command \union {None}],
         main' \in Removal \union {None}, hand' \in [Sessions -> Letters \union {None}],
         UNCHANGED lifeVars, built' = built, raced' \subseteq Ids, left' \in [Limits -> Nat]
  PROVE  TypesOK'
  BY DEF TypesOK, ContactsTypeOK, RowsTyped, KeysTyped, lifeVars

LEMMA TypesHere ==
  ASSUME TypesOK
  PROVE  /\ RowsTyped /\ KeysTyped /\ cmd \in [Commands -> Command \union {None}]
         /\ main \in Removal \union {None} /\ hand \in [Sessions -> Letters \union {None}]
         /\ raced \subseteq Ids /\ left \in [Limits -> Nat]
         /\ contacts' = contacts => RowsTyped' /\ RowsKept
         /\ peer_keys' = peer_keys /\ index' = index => KeysTyped'
  BY DEF TypesOK, ContactsTypeOK, RowsTyped, KeysTyped, RowsKept

-----------------------------------------------------------------------------
(* The commands of the window.                                                 *)

LEMMA SameRowsAccept ==
  ASSUME TypesOK, TypesOK', AcceptOK, contacts' = contacts,
         \A s \in Sessions : hand'[s] # hand[s] => ~Working(s, "answer")'
  PROVE  AcceptOK'
<1>1. RowsKept /\ AcceptedByUser'
  BY TypesHere DEF AcceptOK, AcceptedByUser
<1> QED
  BY <1>1, AcceptFrame

LEMMA BeginIs ==
  ASSUME NEW i \in Ids, Begin(i), raced \subseteq Ids
  PROVE  /\ raced \subseteq raced' /\ raced' \subseteq Ids
         /\ i \notin raced' => ~Rebuilding /\ ~Removing(i)
  BY DEF Begin, Removing

LEMMA IssueOK ==
  ASSUME IInv, NEW c \in Commands, NEW op \in {"approve", "message", "accept", "friend"},
         NEW i \in Ids, NEW u \in Nat, NEW q \in {"update", "thread", "register"},
         Issue(c, op, i, u, q), q = "register" => op = "friend",
         q = "update" /\ op # "accept" => contacts[i] # None
  PROVE  IInv'
<1> DEFINE r == [op |-> op, id |-> i, uid |-> u, pc |-> q, tid |-> 0]
<1>1. r \in Command /\ r.id = i /\ r.pc = q /\ r.op = op /\ r # None
  BY NoneAssumption DEF Command
<1>2. /\ cmd[c] = None /\ Spend("commands") /\ Begin(i) /\ cmd' = [cmd EXCEPT ![c] = r]
      /\ UNCHANGED <<rowVars, indexVars, hand, lifeVars, built>>
  BY DEF Issue
<1> HIDE DEF r
<1>3. /\ TypesOK /\ AcceptOK /\ IndexOK /\ ClientsOK /\ StatusOK
      /\ cmd \in [Commands -> Command \union {None}] /\ raced \subseteq Ids
  BY TypesHere DEF IInv
<1>4. cmd' \in [Commands -> Command \union {None}] /\ cmd'[c] = r
      /\ \A d \in Commands \ {c} : cmd'[d] = cmd[d]
  BY <1>1, <1>2, <1>3
<1>5. /\ raced \subseteq raced' /\ raced' \subseteq Ids
      /\ i \notin raced' => ~Rebuilding /\ ~Removing(i)
  BY <1>2, <1>3, BeginIs
<1>6. /\ contacts' = contacts /\ main' = main /\ peer_keys' = peer_keys /\ index' = index
      /\ hand' = hand /\ built' = built /\ starting' = starting /\ UNCHANGED lifeVars
  BY <1>2 DEF rowVars, indexVars, lifeVars
<1>7. TypesOK'
  <2>1. left' \in [Limits -> Nat]
    BY <1>2, <1>3, SpendIs DEF Limits
  <2> QED
    BY <1>3, <1>4, <1>5, <1>6, <2>1, TypesHere, TypesFrame
<1>8. AcceptOK'
  BY <1>3, <1>6, <1>7, SameRowsAccept
<1>9. ASSUME i \notin raced' PROVE IdOK(i)'
  <2>1. /\ ~Removing(i)' /\ ~Rebuilding' /\ ~Removing(i) /\ ~Rebuilding
        /\ RowsOK(i) /\ KeysOK(i)
    BY <1>3, <1>5, <1>6, <1>9 DEF IndexOK, IdOK, Removing, Rebuilding
  <2>2. \A d \in Commands \ {c} : CmdOn(d, i)' <=> CmdOn(d, i)
    BY <1>4 DEF CmdOn
  <2>3. \A s \in Sessions : HandOn(s, i)' <=> HandOn(s, i)
    BY <1>6 DEF HandOn
  <2>4. /\ Approving(i)' => Approving(i) \/ contacts[i] # None
        /\ Registering(i)' <=> Registering(i)
        /\ Befriending(i)' <=> Befriending(i)
    BY <1>1, <1>2, <1>4, <1>6, <2>2, <2>3 DEF Approving, Registering, Befriending, CmdOn
  <2>5. RowsOK(i)'
    BY <1>6, <2>1, <2>4 DEF RowsOK
  <2>6. KeysOK(i)'
    BY <1>6, <2>1, <2>4 DEF KeysOK
  <2> QED
    BY <2>1, <2>5, <2>6, Alone
<1>10. \A j \in Ids \ {i} : Quiet(j)
  <2>1. CommandTurns(c, i)
    BY <1>1, <1>2, <1>4, <1>6 DEF CommandTurns
  <2> QED
    BY <1>6, <2>1, TurnsLeaveOthers DEF Quiet, Removing
<1>11. IndexOK'
  BY <1>3, <1>5, <1>6, <1>9, <1>10, OneId DEF IndexOK
<1> QED
  BY <1>3, <1>6, <1>7, <1>8, <1>11, LifeFrame DEF IInv

LEMMA IssuesOK ==
  ASSUME IInv, NEW c \in Commands, NEW i \in Ids,
         \/ relay_approve_contact(c, i) \/ relay_send_message(c, i)
         \/ relay_accept_invite(c, i) \/ send_friend_request(c, i)
  PROVE  IInv'
<1>1. contacts[i] # None => contacts[i].uid \in Nat
  BY DEF IInv, TypesOK, ContactsTypeOK, Row
<1>2. CASE relay_approve_contact(c, i)
  BY <1>1, <1>2, IssueOK DEF relay_approve_contact
<1>3. CASE relay_send_message(c, i)
  <2> DEFINE q == IF contacts[i].status = "pending_approval" THEN "update" ELSE "thread"
  <2>1. contacts[i] # None /\ Issue(c, "message", i, contacts[i].uid, q)
    BY <1>3 DEF relay_send_message
  <2>2. q \in {"update", "thread", "register"} /\ q # "register"
    OBVIOUS
  <2> HIDE DEF q
  <2> QED
    BY <1>1, <2>1, <2>2, IssueOK
<1>4. CASE relay_accept_invite(c, i)
  <2> DEFINE u == IF contacts[i] = None THEN 0 ELSE contacts[i].uid
  <2>1. Issue(c, "accept", i, u, "update") /\ u \in Nat
    BY <1>1, <1>4 DEF relay_accept_invite
  <2> HIDE DEF u
  <2> QED
    BY <2>1, IssueOK
<1>5. CASE send_friend_request(c, i)
  BY <1>5, IssueOK DEF send_friend_request
<1> QED
  BY <1>2, <1>3, <1>4, <1>5

(* What the steps of a command in flight have in common. *)
commandKept == <<main, hand, lifeVars, built, raced>>

LEMMA CommandStepOK ==
  ASSUME IInv, NEW c \in Commands, NEW i \in Ids, cmd[c] # None, cmd[c].id = i,
         cmd' \in [Commands -> Command \union {None}],
         \A d \in Commands \ {c} : cmd'[d] = cmd[d],
         cmd'[c] # None => cmd'[c].id = i, left' \in [Limits -> Nat],
         UNCHANGED commandKept, RowsTyped', KeysTyped', RowsKept, AcceptedByUser',
         \A p \in Peers : index'[p] # None => index'[p] \in peer_keys',
         \A j \in Ids \ {i} :
           /\ contacts'[j] = contacts[j] /\ (j \in peer_keys' <=> j \in peer_keys)
           /\ index[KeyOf(j)] # None => index'[KeyOf(j)] # None,
         CmdOn(c, i),
         i \notin raced /\ ~Removing(i) /\ ~Rebuilding /\ RowsOK(i) /\ KeysOK(i) =>
           RowsOK(i)' /\ KeysOK(i)'
  PROVE  IInv'
<1>1. /\ TypesOK /\ AcceptOK /\ IndexOK /\ ClientsOK /\ StatusOK
      /\ main \in Removal \union {None} /\ hand \in [Sessions -> Letters \union {None}]
      /\ raced \subseteq Ids /\ left \in [Limits -> Nat]
  BY TypesHere DEF IInv
<1>2. /\ main' = main /\ hand' = hand /\ built' = built /\ raced' = raced
      /\ starting' = starting /\ UNCHANGED lifeVars
  BY DEF commandKept, lifeVars
<1>3. TypesOK'
  BY <1>1, <1>2, TypesFrame
<1>4. AcceptOK'
  BY <1>1, <1>2, <1>3, AcceptFrame
<1>5. ASSUME i \notin raced' PROVE IdOK(i)'
  <2>1. Changing(i)
    BY DEF Changing
  <2>2. ~Removing(i) /\ ~Rebuilding /\ RowsOK(i) /\ KeysOK(i)
    BY <1>1, <1>2, <1>5, <2>1, AloneWhileChanging
  <2>3. ~Removing(i)' /\ ~Rebuilding'
    BY <1>2, <2>2 DEF Removing, Rebuilding
  <2> QED
    BY <1>2, <1>5, <2>2, <2>3, Alone
<1>6. \A j \in Ids \ {i} : Quiet(j)
  <2>1. CommandTurns(c, i)
    BY <1>2 DEF CommandTurns
  <2> QED
    BY <1>2, <2>1, TurnsLeaveOthers DEF Quiet, Removing
<1>7. IndexOK'
  BY <1>1, <1>2, <1>5, <1>6, OneId
<1> QED
  BY <1>1, <1>2, <1>3, <1>4, <1>7, LifeFrame DEF IInv

(* Only command c turns, in its work on id i. *)
LEMMA OtherFlows ==
  ASSUME NEW c \in Commands, NEW i, hand' = hand, \A d \in Commands \ {c} : cmd'[d] = cmd[d]
  PROVE  /\ \A d \in Commands \ {c} : CmdOn(d, i)' <=> CmdOn(d, i)
         /\ \A s \in Sessions : HandOn(s, i)' <=> HandOn(s, i)
  BY DEF CmdOn, HandOn

(* The row is accepted, or the update failed and the command goes on.          *)
LEMMA GoesOnOK ==
  ASSUME IInv, NEW c \in Commands, cmd[c] # None, cmd[c].op # "accept", cmd[c].op # "friend",
         cmd[c].pc = "update", Goto(c, "register"), left' \in [Limits -> Nat],
         AcceptRow(cmd[c].id, cmd[c].uid, TRUE) \/ contacts' = contacts,
         UNCHANGED <<indexVars, commandKept>>
  PROVE  IInv'
<1>1. /\ cmd[c] # None /\ cmd[c].op # "accept" /\ cmd[c].op # "friend" /\ cmd[c].pc = "update"
      /\ Goto(c, "register") /\ UNCHANGED <<indexVars, commandKept>>
  OBVIOUS
<1>2. TypesOK /\ cmd[c] \in Command
  BY <1>1 DEF IInv, TypesOK, ContactsTypeOK
<1>3. PICK i \in Ids : cmd[c].id = i
  BY <1>2 DEF Command
<1>4. /\ cmd' \in [Commands -> Command \union {None}]
      /\ \A d \in Commands \ {c} : cmd'[d] = cmd[d]
      /\ cmd'[c] # None /\ cmd'[c].pc = "register" /\ cmd'[c].id = i
      /\ cmd'[c].op = cmd[c].op
  BY <1>1, <1>2, <1>3, GotoIs
<1>5. /\ RowsTyped' /\ RowsKept
      /\ \A j \in Ids : contacts'[j] = None <=> contacts[j] = None
      /\ \A j \in Ids : contacts'[j] # contacts[j] => j = i /\ contacts'[i].agreed
  <2>1. CASE AcceptRow(cmd[c].id, cmd[c].uid, TRUE)
    BY <1>2, <1>3, <2>1, AcceptIs
  <2>2. CASE contacts' = contacts
    BY <1>2, <2>2, TypesHere
  <2> QED
    BY <2>1, <2>2
<1>6. AcceptedByUser'
  BY <1>5 DEF IInv, AcceptOK, AcceptedByUser
<1>7. peer_keys' = peer_keys /\ index' = index /\ KeysTyped' /\ hand' = hand /\ built' = built
      /\ main' = main /\ starting' = starting
  BY <1>1, <1>2, TypesHere DEF indexVars, commandKept, lifeVars
<1>8. CmdOn(c, i) /\ Approving(i)
  BY <1>1, <1>3 DEF CmdOn, Approving
<1>9. ASSUME ~Removing(i), ~Rebuilding, RowsOK(i), KeysOK(i)
      PROVE  RowsOK(i)' /\ KeysOK(i)'
  <2>1. contacts[i] # None /\ contacts'[i] # None
    BY <1>5, <1>8, <1>9 DEF RowsOK
  <2>2. Befriending(i)' <=> Befriending(i)
    BY <1>1, <1>4, <1>7, OtherFlows DEF Befriending, CmdOn
  <2>3. Registering(i)'
    BY <1>1, <1>4 DEF Registering, CmdOn
  <2>4. RowsOK(i)'
    BY <1>7, <1>9, <2>1, <2>2 DEF RowsOK
  <2>5. KeysOK(i)'
    BY <1>7, <1>9, <2>1, <2>3 DEF KeysOK
  <2> QED
    BY <2>4, <2>5
<1>10. \A p \in Peers : index'[p] # None => index'[p] \in peer_keys'
  BY <1>7 DEF IInv, IndexOK
<1> QED
  BY <1>1, <1>3, <1>4, <1>5, <1>6, <1>7, <1>8, <1>9, <1>10, CommandStepOK

(* A command that ends at its update leaves the table as it was.               *)
LEMMA EndsAtUpdateOK ==
  ASSUME IInv, NEW c \in Commands, cmd[c] # None, cmd[c].pc = "update", Finish(c),
         left' \in [Limits -> Nat], contacts' = contacts, UNCHANGED <<indexVars, commandKept>>
  PROVE  IInv'
<1>1. /\ cmd[c] # None /\ cmd[c].pc = "update" /\ UNCHANGED <<indexVars, commandKept>>
  OBVIOUS
<1>2. TypesOK /\ cmd[c] \in Command
  BY <1>1 DEF IInv, TypesOK, ContactsTypeOK
<1>3. PICK i \in Ids : cmd[c].id = i
  BY <1>2 DEF Command
<1>4. peer_keys' = peer_keys /\ index' = index /\ KeysTyped' /\ hand' = hand /\ built' = built
      /\ main' = main /\ starting' = starting
  BY <1>1, <1>2, TypesHere DEF indexVars, commandKept, lifeVars
<1>5. CmdOn(c, i)
  BY <1>1, <1>3 DEF CmdOn
<1>6. \A p \in Peers : index'[p] # None => index'[p] \in peer_keys'
  BY <1>4 DEF IInv, IndexOK
<1>7. /\ cmd' \in [Commands -> Command \union {None}]
      /\ \A d \in Commands \ {c} : cmd'[d] = cmd[d]
      /\ cmd'[c] = None
  BY <1>2, FinishIs
<1>8. RowsTyped' /\ RowsKept /\ AcceptedByUser'
  BY <1>2, TypesHere DEF IInv, AcceptOK, AcceptedByUser
<1>9. ASSUME ~Removing(i), RowsOK(i), KeysOK(i) PROVE RowsOK(i)' /\ KeysOK(i)'
  <2>1. /\ Approving(i)' => Approving(i)
        /\ Befriending(i)' <=> Befriending(i)
        /\ Registering(i)' <=> Registering(i)
    BY <1>1, <1>4, <1>7, OtherFlows DEF Approving, Befriending, Registering, CmdOn
  <2>2. RowsOK(i)'
    BY <1>4, <1>9, <2>1 DEF RowsOK
  <2>3. KeysOK(i)'
    BY <1>4, <1>9, <2>1 DEF KeysOK, Rebuilding, Removing
  <2> QED
    BY <2>2, <2>3
<1> QED
  BY <1>1, <1>3, <1>4, <1>5, <1>6, <1>7, <1>8, <1>9, CommandStepOK

LEMMA ApprovedOK ==
  ASSUME IInv, NEW c \in Commands, UpdateApproved(c) \/ UpdateWrittenTo(c)
  PROVE  IInv'
<1>1. /\ cmd[c] # None /\ cmd[c].op \in {"approve", "message"} /\ cmd[c].pc = "update"
      /\ UNCHANGED <<indexVars, commandKept>>
  BY DEF UpdateApproved, UpdateWrittenTo, At, commandKept
<1>2. left' \in [Limits -> Nat]
  <2>1. TypesOK /\ left \in [Limits -> Nat] /\ "faults" \in Limits
    BY TypesHere DEF IInv, Limits
  <2>2. left' = left \/ Spend("faults")
    BY DEF UpdateApproved, UpdateWrittenTo
  <2> QED
    BY <2>1, <2>2, SpendIs
<1>3. \/ Finish(c) /\ contacts' = contacts
      \/ /\ Goto(c, "register")
         /\ AcceptRow(cmd[c].id, cmd[c].uid, TRUE) \/ contacts' = contacts
  BY DEF UpdateApproved, UpdateWrittenTo
<1>4. CASE Finish(c) /\ contacts' = contacts
  BY <1>1, <1>2, <1>4, EndsAtUpdateOK
<1>5. CASE /\ Goto(c, "register")
           /\ AcceptRow(cmd[c].id, cmd[c].uid, TRUE) \/ contacts' = contacts
  BY <1>1, <1>2, <1>5, GoesOnOK
<1> QED
  BY <1>3, <1>4, <1>5

LEMMA InvitedOK ==
  ASSUME IInv, NEW c \in Commands, StoreInvited(c)
  PROVE  IInv'
<1>1. /\ cmd[c] # None /\ cmd[c].op = "accept" /\ cmd[c].pc = "update"
      /\ UNCHANGED <<indexVars, commandKept>> /\ left' = left
  BY DEF StoreInvited, At, commandKept
<1>2. TypesOK /\ cmd[c] \in Command /\ left' \in [Limits -> Nat]
  BY <1>1 DEF IInv, TypesOK, ContactsTypeOK
<1>3. PICK i \in Ids : cmd[c].id = i
  BY <1>2 DEF Command
<1>4. peer_keys' = peer_keys /\ index' = index /\ KeysTyped' /\ hand' = hand /\ built' = built
      /\ main' = main /\ starting' = starting
  BY <1>1, <1>2, TypesHere DEF indexVars, commandKept, lifeVars
<1>5. CmdOn(c, i)
  BY <1>1, <1>3 DEF CmdOn
<1>6. \A p \in Peers : index'[p] # None => index'[p] \in peer_keys'
  BY <1>4 DEF IInv, IndexOK
<1>7. \/ /\ Goto(c, "register")
         /\ \/ HasRow(i, cmd[c].uid) /\ AcceptRow(i, cmd[c].uid, TRUE)
            \/ contacts[i] = None /\ Insert(i, "accepted", TRUE)
      \/ Finish(c) /\ contacts' = contacts
  BY <1>3 DEF StoreInvited
<1>8. ASSUME Goto(c, "register"),
             \/ HasRow(i, cmd[c].uid) /\ AcceptRow(i, cmd[c].uid, TRUE)
             \/ contacts[i] = None /\ Insert(i, "accepted", TRUE)
      PROVE  IInv'
  <2>1. /\ cmd' \in [Commands -> Command \union {None}]
        /\ \A d \in Commands \ {c} : cmd'[d] = cmd[d]
        /\ cmd'[c] # None /\ cmd'[c].pc = "register" /\ cmd'[c].id = i
        /\ cmd'[c].op = cmd[c].op
    BY <1>1, <1>2, <1>3, <1>8, GotoIs
  <2>2. /\ RowsTyped' /\ RowsKept /\ contacts'[i] # None /\ contacts'[i].agreed
        /\ \A j \in Ids \ {i} : contacts'[j] = contacts[j]
    <3>1. CASE HasRow(i, cmd[c].uid) /\ AcceptRow(i, cmd[c].uid, TRUE)
      <4>1. /\ RowsTyped' /\ RowsKept
            /\ \A j \in Ids : contacts'[j] = None <=> contacts[j] = None
            /\ \A j \in Ids : contacts'[j] # contacts[j] => j = i
        BY <1>2, <3>1, AcceptIs
      <4>2. contacts' = [contacts EXCEPT ![i] = [uid |-> cmd[c].uid, status |-> "accepted",
                                                 agreed |-> contacts[i].agreed \/ TRUE]]
        BY <3>1 DEF AcceptRow
      <4>3. contacts'[i].agreed
        BY <1>2, <4>2 DEF TypesOK, ContactsTypeOK
      <4>4. contacts'[i] # None
        BY <3>1, <4>1 DEF HasRow
      <4> QED
        BY <4>1, <4>3, <4>4
    <3>2. CASE contacts[i] = None /\ Insert(i, "accepted", TRUE)
      BY <1>2, <3>2, InsertIs DEF Statuses
    <3> QED
      BY <1>8, <3>1, <3>2
  <2>3. AcceptedByUser'
    BY <2>2 DEF IInv, AcceptOK, AcceptedByUser
  <2>4. ASSUME RowsOK(i), KeysOK(i) PROVE RowsOK(i)' /\ KeysOK(i)'
    <3>1. Befriending(i)' <=> Befriending(i)
      BY <1>1, <1>4, <2>1, OtherFlows DEF Befriending, CmdOn
    <3>2. Registering(i)'
      BY <1>1, <2>1 DEF Registering, CmdOn
    <3>3. RowsOK(i)'
      BY <1>4, <2>2, <2>4, <3>1 DEF RowsOK
    <3>4. KeysOK(i)'
      BY <1>4, <2>2, <2>4, <3>2 DEF KeysOK, Rebuilding
    <3> QED
      BY <3>3, <3>4
  <2> QED
    BY <1>1, <1>2, <1>3, <1>4, <1>5, <1>6, <2>1, <2>2, <2>3, <2>4, CommandStepOK
<1>9. CASE Finish(c) /\ contacts' = contacts
  <2>1. /\ cmd' \in [Commands -> Command \union {None}]
        /\ \A d \in Commands \ {c} : cmd'[d] = cmd[d]
        /\ cmd'[c] = None
    BY <1>2, <1>9, FinishIs
  <2>2. RowsTyped' /\ RowsKept /\ AcceptedByUser'
    BY <1>2, <1>9, TypesHere DEF IInv, AcceptOK, AcceptedByUser
  <2>3. ASSUME ~Removing(i), RowsOK(i), KeysOK(i) PROVE RowsOK(i)' /\ KeysOK(i)'
    <3>1. /\ Approving(i)' <=> Approving(i)
          /\ Befriending(i)' <=> Befriending(i)
          /\ Registering(i)' <=> Registering(i)
      BY <1>1, <1>4, <2>1, OtherFlows DEF Approving, Befriending, Registering, CmdOn
    <3>2. RowsOK(i)'
      BY <1>4, <1>9, <2>3, <3>1 DEF RowsOK
    <3>3. KeysOK(i)'
      BY <1>4, <1>9, <2>3, <3>1 DEF KeysOK, Rebuilding, Removing
    <3> QED
      BY <3>2, <3>3
  <2> QED
    BY <1>1, <1>2, <1>3, <1>4, <1>5, <1>6, <1>9, <2>1, <2>2, <2>3, CommandStepOK
<1> QED
  BY <1>7, <1>8, <1>9

LEMMA RegisteredOK ==
  ASSUME IInv, NEW c \in Commands, RegisterContact(c)
  PROVE  IInv'
<1>1. /\ cmd[c] # None /\ cmd[c].pc = "register" /\ register_peer_key(cmd[c].id)
      /\ UNCHANGED <<contacts, commandKept>>
      /\ CASE cmd[c].op = "message" -> Goto(c, "thread")
           [] cmd[c].op = "friend"  -> Goto(c, "insert")
           [] OTHER                 -> Finish(c)
      /\ left' = left
  BY DEF RegisterContact, At, commandKept, rowVars
<1>2. TypesOK /\ cmd[c] \in Command /\ left' \in [Limits -> Nat]
  BY <1>1 DEF IInv, TypesOK, ContactsTypeOK
<1>3. PICK i \in Ids : cmd[c].id = i
  BY <1>2 DEF Command
<1>4. /\ contacts' = contacts /\ hand' = hand /\ built' = built /\ main' = main
      /\ starting' = starting /\ RowsTyped' /\ RowsKept
  BY <1>1, <1>2, TypesHere DEF commandKept, lifeVars
<1>5. AcceptedByUser'
  BY <1>4 DEF IInv, AcceptOK, AcceptedByUser
<1>6. CmdOn(c, i)
  BY <1>1, <1>3 DEF CmdOn
<1>7. /\ KeysTyped' /\ \A p \in Peers : index'[p] # None => index'[p] \in peer_keys'
      /\ peer_keys' = peer_keys \union {i} /\ index'[KeyOf(i)] # None
      /\ \A j \in Ids : index[KeyOf(j)] # None => index'[KeyOf(j)] # None
  <2>1. \A p \in Peers : index[p] # None => index[p] \in peer_keys
    BY DEF IInv, IndexOK
  <2>2. register_peer_key(i)
    BY <1>1, <1>3
  <2> QED
    BY <1>2, <2>1, <2>2, RegisterIs
<1>8. /\ cmd' \in [Commands -> Command \union {None}]
      /\ \A d \in Commands \ {c} : cmd'[d] = cmd[d]
      /\ cmd'[c] # None => cmd'[c].id = i /\ cmd'[c].pc \in {"thread", "insert"}
      /\ cmd[c].op = "friend" => cmd'[c] # None /\ cmd'[c].pc = "insert"
  <2>1. CASE cmd[c].op = "message"
    <3>1. Goto(c, "thread")
      BY <1>1, <2>1
    <3> QED
      BY <1>1, <1>2, <1>3, <2>1, <3>1, GotoIs
  <2>2. CASE cmd[c].op = "friend"
    <3>1. Goto(c, "insert")
      BY <1>1, <2>2
    <3> QED
      BY <1>1, <1>2, <1>3, <2>2, <3>1, GotoIs
  <2>3. CASE cmd[c].op # "message" /\ cmd[c].op # "friend"
    <3>1. Finish(c)
      BY <1>1, <2>3
    <3> QED
      BY <1>2, <2>3, <3>1, FinishIs
  <2> QED
    BY <2>1, <2>2, <2>3
<1>9. ASSUME ~Rebuilding, RowsOK(i), KeysOK(i) PROVE RowsOK(i)' /\ KeysOK(i)'
  <2>1. Approving(i)' => Approving(i)
    BY <1>4, <1>8, OtherFlows DEF Approving, CmdOn
  <2>2. Registering(i)' => Registering(i)
    BY <1>4, <1>8, OtherFlows DEF Registering, CmdOn
  <2>3. Befriending(i)' \/ Registering(i)
    BY <1>1, <1>3, <1>8 DEF Registering, Befriending, CmdOn
  <2>4. RowsOK(i)'
    BY <1>4, <1>7, <1>9, <2>1, <2>2 DEF RowsOK
  <2>5. KeysOK(i)'
    BY <1>4, <1>7, <1>9, <2>3 DEF KeysOK, RowsOK
  <2> QED
    BY <2>4, <2>5
<1> QED
  BY <1>1, <1>2, <1>3, <1>4, <1>5, <1>6, <1>7, <1>8, <1>9, CommandStepOK

LEMMA FriendStoredOK ==
  ASSUME IInv, NEW c \in Commands, StoreFriend(c)
  PROVE  IInv'
<1>1. /\ cmd[c] # None /\ cmd[c].pc = "insert" /\ Finish(c)
      /\ IF contacts[cmd[c].id] = None
         THEN Insert(cmd[c].id, "pending_outgoing", TRUE) ELSE contacts' = contacts
      /\ UNCHANGED <<indexVars, commandKept>> /\ left' = left
  BY DEF StoreFriend, At, commandKept
<1>2. TypesOK /\ cmd[c] \in Command /\ left' \in [Limits -> Nat]
  BY <1>1 DEF IInv, TypesOK, ContactsTypeOK
<1>3. PICK i \in Ids : cmd[c].id = i
  BY <1>2 DEF Command
<1>4. peer_keys' = peer_keys /\ index' = index /\ KeysTyped' /\ hand' = hand /\ built' = built
      /\ main' = main /\ starting' = starting
  BY <1>1, <1>2, TypesHere DEF indexVars, commandKept, lifeVars
<1>5. CmdOn(c, i) /\ Befriending(i)
  BY <1>1, <1>3 DEF CmdOn, Befriending
<1>6. \A p \in Peers : index'[p] # None => index'[p] \in peer_keys'
  BY <1>4 DEF IInv, IndexOK
<1>7. /\ cmd' \in [Commands -> Command \union {None}]
      /\ \A d \in Commands \ {c} : cmd'[d] = cmd[d]
      /\ cmd'[c] = None
  BY <1>1, <1>2, FinishIs
<1>8. /\ RowsTyped' /\ RowsKept /\ contacts'[i] # None
      /\ contacts'[i] # contacts[i] => contacts'[i].agreed
      /\ \A j \in Ids \ {i} : contacts'[j] = contacts[j]
  <2>1. CASE contacts[i] = None
    <3>1. Insert(i, "pending_outgoing", TRUE)
      BY <1>1, <1>3, <2>1
    <3> QED
      BY <1>2, <3>1, InsertIs DEF Statuses
  <2>2. CASE contacts[i] # None
    BY <1>1, <1>2, <1>3, <2>2, TypesHere
  <2> QED
    BY <2>1, <2>2
<1>9. AcceptedByUser'
  BY <1>8 DEF IInv, AcceptOK, AcceptedByUser
<1>10. ASSUME RowsOK(i), KeysOK(i) PROVE RowsOK(i)' /\ KeysOK(i)'
  <2>1. Befriending(i)' => Befriending(i)
    BY <1>4, <1>7, OtherFlows DEF Befriending, CmdOn
  <2>2. RowsOK(i)'
    BY <1>4, <1>8, <1>10, <2>1 DEF RowsOK
  <2>3. KeysOK(i)'
    BY <1>4, <1>5, <1>8, <1>10 DEF KeysOK, RowsOK, Rebuilding
  <2> QED
    BY <2>2, <2>3
<1> QED
  BY <1>1, <1>2, <1>3, <1>4, <1>5, <1>6, <1>7, <1>8, <1>9, <1>10, CommandStepOK

-----------------------------------------------------------------------------
(* The event loops.                                                            *)

loopKept == <<cmd, main, lifeVars, built>>

LEMMA LoopStepOK ==
  ASSUME IInv, NEW s \in Sessions, NEW i \in Ids,
         hand' \in [Sessions -> Letters \union {None}],
         \A z \in Sessions \ {s} : hand'[z] = hand[z],
         hand[s] # None => hand[s].id = i,
         hand'[s] # None => hand'[s].id = i,
         UNCHANGED loopKept, raced \subseteq raced', raced' \subseteq Ids,
         left' \in [Limits -> Nat], RowsTyped', KeysTyped', TypesOK' => AcceptOK',
         \A p \in Peers : index'[p] # None => index'[p] \in peer_keys',
         \A j \in Ids \ {i} :
           /\ contacts'[j] = contacts[j] /\ (j \in peer_keys' <=> j \in peer_keys)
           /\ index[KeyOf(j)] # None => index'[KeyOf(j)] # None,
         i \notin raced' => IdOK(i)'
  PROVE  IInv'
<1>1. /\ TypesOK /\ IndexOK /\ ClientsOK /\ StatusOK
      /\ cmd \in [Commands -> Command \union {None}] /\ main \in Removal \union {None}
  BY TypesHere DEF IInv
<1>2. /\ main' = main /\ cmd' = cmd /\ built' = built
      /\ starting' = starting /\ UNCHANGED lifeVars
  BY DEF loopKept, lifeVars
<1>3. TypesOK' /\ AcceptOK'
  BY <1>1, <1>2, TypesFrame
<1>4. \A j \in Ids \ {i} : Quiet(j)
  <2>1. HandTurns(s, i)
    BY <1>2 DEF HandTurns
  <2> QED
    BY <1>2, <2>1, TurnsLeaveOthers DEF Quiet, Removing
<1>5. IndexOK'
  BY <1>1, <1>2, <1>4, OneId
<1> QED
  BY <1>1, <1>2, <1>3, <1>5, LifeFrame DEF IInv

LEMMA OtherHands ==
  ASSUME NEW s \in Sessions, NEW i, cmd' = cmd, \A z \in Sessions \ {s} : hand'[z] = hand[z]
  PROVE  /\ \A c \in Commands : CmdOn(c, i)' <=> CmdOn(c, i)
         /\ \A z \in Sessions \ {s} : HandOn(z, i)' <=> HandOn(z, i)
         /\ Approving(i)' <=> Approving(i)
         /\ Befriending(i)' <=> Befriending(i)
  BY DEF CmdOn, HandOn, Approving, Befriending

LEMMA HeardOK ==
  ASSUME IInv, NEW s \in Sessions, NEW p \in Peers, HearIntroduce(s, p)
  PROVE  IInv'
<1>1. TypesOK /\ raced \subseteq Ids
  BY TypesHere DEF IInv
<1>2. PICK i \in Ids, q \in {"unknown", "known"} :
        /\ Take(s, [pc |-> q, id |-> i, uid |-> 0, was |-> None]) /\ Begin(i)
        /\ hand[s] = None /\ Spend("introduces")
        /\ UNCHANGED <<rowVars, indexVars, loopKept>>
  <2> DEFINE i == IF index[p] = None THEN p ELSE index[p]
             q == IF index[p] = None THEN "unknown" ELSE "known"
  <2>1. i \in Ids /\ q \in {"unknown", "known"}
    BY <1>1 DEF TypesOK, ContactsTypeOK, Ids
  <2>2. /\ Take(s, [pc |-> q, id |-> i, uid |-> 0, was |-> None]) /\ Begin(i)
        /\ hand[s] = None /\ Spend("introduces")
        /\ UNCHANGED <<rowVars, indexVars, loopKept>>
    BY DEF HearIntroduce, loopKept, rowVars
  <2> HIDE DEF i, q
  <2> QED
    BY <2>1, <2>2
<1> DEFINE r == [pc |-> q, id |-> i, uid |-> 0, was |-> None]
<1>3. Take(s, r) /\ Begin(i)
  BY <1>2
<1>4. r \in Letters /\ r.id = i /\ r.pc \notin {"answer", "register"} /\ r # None
  BY <1>2, NoneAssumption DEF Letters, Introduce
<1> HIDE DEF r
<1>5. /\ hand' \in [Sessions -> Letters \union {None}]
      /\ \A z \in Sessions \ {s} : hand'[z] = hand[z]
      /\ hand'[s] = r
  BY <1>3, <1>1, <1>4, TakeIs
<1>6. /\ raced \subseteq raced' /\ raced' \subseteq Ids
      /\ i \notin raced' => ~Rebuilding /\ ~Removing(i)
  BY <1>1, <1>2, <1>3, BeginIs
<1>7. left' \in [Limits -> Nat]
  BY <1>1, <1>2, SpendIs DEF Limits
<1>8. /\ contacts' = contacts /\ peer_keys' = peer_keys /\ index' = index /\ cmd' = cmd
      /\ main' = main /\ built' = built /\ starting' = starting
      /\ RowsTyped' /\ KeysTyped'
  BY <1>1, <1>2, TypesHere DEF rowVars, indexVars, loopKept, lifeVars
<1>9. ASSUME TypesOK' PROVE AcceptOK'
  <2>1. \A z \in Sessions : hand'[z] # hand[z] => ~Working(z, "answer")'
    BY <1>4, <1>5 DEF Working
  <2> QED
    BY <1>1, <1>8, <1>9, <2>1, SameRowsAccept DEF IInv
<1>10. ASSUME i \notin raced' PROVE IdOK(i)'
  <2>1. ~Rebuilding /\ ~Removing(i) /\ RowsOK(i) /\ KeysOK(i)
    BY <1>2, <1>6, <1>10 DEF IInv, IndexOK, IdOK
  <2>2. /\ Approving(i)' <=> Approving(i)
        /\ Befriending(i)' <=> Befriending(i)
        /\ Registering(i)' <=> Registering(i)
    BY <1>2, <1>4, <1>5, <1>8, OtherHands DEF Registering, HandOn
  <2>3. RowsOK(i)' /\ KeysOK(i)'
    BY <1>8, <2>1, <2>2 DEF RowsOK, KeysOK, Rebuilding, Removing
  <2> QED
    BY <1>8, <2>1, <2>3, Alone DEF Rebuilding, Removing
<1>11. \A k \in Peers : index'[k] # None => index'[k] \in peer_keys'
  BY <1>8 DEF IInv, IndexOK
<1> QED
  BY <1>2, <1>4, <1>5, <1>6, <1>7, <1>8, <1>9, <1>10, <1>11, LoopStepOK

LEMMA IntroducedOK ==
  ASSUME IInv, NEW s \in Sessions, handle_introduce(s)
  PROVE  IInv'
<1>1. /\ hand[s] # None /\ hand[s].pc = "unknown"
      /\ UNCHANGED <<indexVars, loopKept, raced, left>>
      /\ \/ /\ contacts[hand[s].id] = None /\ Insert(hand[s].id, "pending_approval", FALSE)
            /\ Take(s, [hand[s] EXCEPT !.pc = "register"])
         \/ Take(s, None) /\ contacts' = contacts
  BY DEF handle_introduce, Working, Drop, loopKept
<1>2. /\ TypesOK /\ raced \subseteq Ids /\ left \in [Limits -> Nat]
      /\ hand[s] \in Introduce
  BY <1>1, TypesHere, LettersAre DEF IInv
<1>3. PICK i \in Ids : hand[s].id = i
  BY <1>2 DEF Introduce
<1>4. /\ peer_keys' = peer_keys /\ index' = index /\ cmd' = cmd /\ main' = main
      /\ built' = built /\ starting' = starting /\ raced' = raced /\ left' = left /\ KeysTyped'
  BY <1>1, <1>2, TypesHere DEF indexVars, loopKept, lifeVars
<1>5. Changing(i)
  BY <1>1, <1>3 DEF Changing, HandOn
<1>6. \A q \in Peers : index'[q] # None => index'[q] \in peer_keys'
  BY <1>4 DEF IInv, IndexOK
<1>7. /\ hand' \in [Sessions -> Letters \union {None}]
      /\ \A z \in Sessions \ {s} : hand'[z] = hand[z]
      /\ hand'[s] # None => /\ hand'[s].id = i /\ hand'[s].pc = "register"
                            /\ contacts'[i] # None
      /\ RowsTyped' /\ RowsKept /\ AcceptedByUser'
      /\ contacts'[i] # contacts[i] => hand'[s] # None
      /\ \A j \in Ids \ {i} : contacts'[j] = contacts[j]
  <2>1. ASSUME contacts[hand[s].id] = None, Insert(hand[s].id, "pending_approval", FALSE),
               Take(s, [hand[s] EXCEPT !.pc = "register"])
        PROVE  <1>7
    <3> DEFINE r == [hand[s] EXCEPT !.pc = "register"]
    <3>1. r \in Letters /\ r.id = i /\ r.pc = "register" /\ r # None
      BY <1>2, <1>3, LettersAre DEF Introduce, Letters
    <3> HIDE DEF r
    <3>2. /\ hand' \in [Sessions -> Letters \union {None}]
          /\ \A z \in Sessions \ {s} : hand'[z] = hand[z]
          /\ hand'[s] = r
      BY <1>2, <2>1, <3>1, TakeIs DEF r
    <3>3. /\ RowsTyped' /\ RowsKept
          /\ contacts'[i] # None /\ contacts'[i].status = "pending_approval"
          /\ \A j \in Ids \ {i} : contacts'[j] = contacts[j]
      BY <1>2, <1>3, <2>1, InsertIs DEF Statuses
    <3>4. AcceptedByUser'
      BY <3>3 DEF IInv, AcceptOK, AcceptedByUser
    <3> QED
      BY <3>1, <3>2, <3>3, <3>4
  <2>2. ASSUME Take(s, None), contacts' = contacts
        PROVE  <1>7
    <3>1. /\ hand' \in [Sessions -> Letters \union {None}]
          /\ \A z \in Sessions \ {s} : hand'[z] = hand[z]
          /\ hand'[s] = None
      BY <1>2, <2>2, TakeIs
    <3>2. RowsTyped' /\ RowsKept /\ AcceptedByUser'
      BY <1>2, <2>2, TypesHere DEF IInv, AcceptOK, AcceptedByUser
    <3> QED
      BY <2>2, <3>1, <3>2
  <2> QED
    BY <1>1, <2>1, <2>2
<1>8. ASSUME TypesOK' PROVE AcceptOK'
  <2>1. \A z \in Sessions : hand'[z] # hand[z] => ~Working(z, "answer")'
    BY <1>7 DEF Working
  <2> QED
    BY <1>2, <1>7, <1>8, <2>1, AcceptFrame DEF IInv
<1>9. ASSUME i \notin raced' PROVE IdOK(i)'
  <2>1. ~Rebuilding /\ ~Removing(i) /\ RowsOK(i) /\ KeysOK(i)
    BY <1>4, <1>5, <1>9, AloneWhileChanging DEF IInv
  <2>2. /\ Approving(i)' <=> Approving(i)
        /\ Befriending(i)' <=> Befriending(i)
        /\ Registering(i) => Registering(i)'
        /\ Registering(i)' => Registering(i) \/ hand'[s] # None
        /\ hand'[s] # None => Registering(i)'
    BY <1>1, <1>4, <1>7, OtherHands DEF Registering, HandOn
  <2>3. RowsOK(i)'
    BY <1>4, <1>7, <2>1, <2>2 DEF RowsOK
  <2>4. KeysOK(i)'
    BY <1>4, <1>7, <2>1, <2>2 DEF KeysOK, Rebuilding, Removing
  <2> QED
    BY <1>4, <2>1, <2>3, <2>4, Alone DEF Rebuilding, Removing
<1> QED
  BY <1>1, <1>2, <1>3, <1>4, <1>6, <1>7, <1>8, <1>9, LoopStepOK

LEMMA IntroducedKeyOK ==
  ASSUME IInv, NEW s \in Sessions, RegisterIntroduced(s)
  PROVE  IInv'
<1>1. /\ hand[s] # None /\ hand[s].pc = "register" /\ register_peer_key(hand[s].id)
      /\ Take(s, None) /\ UNCHANGED <<contacts, loopKept, raced, left>>
  BY DEF RegisterIntroduced, Working, Drop, loopKept, rowVars
<1>2. /\ TypesOK /\ raced \subseteq Ids /\ left \in [Limits -> Nat]
      /\ hand[s] \in Introduce
  BY <1>1, TypesHere, LettersAre DEF IInv, TypesOK
<1>3. PICK i \in Ids : hand[s].id = i
  BY <1>2 DEF Introduce
<1>4. /\ contacts' = contacts /\ cmd' = cmd /\ main' = main
      /\ built' = built /\ starting' = starting /\ raced' = raced /\ left' = left
      /\ RowsTyped' /\ RowsKept
  BY <1>1, <1>2, TypesHere DEF loopKept, lifeVars
<1>5. Changing(i) /\ Registering(i)
  BY <1>1, <1>3 DEF Changing, Registering, HandOn
<1>6. /\ hand' \in [Sessions -> Letters \union {None}]
      /\ \A z \in Sessions \ {s} : hand'[z] = hand[z]
      /\ hand'[s] = None
  BY <1>1, <1>2, TakeIs
<1>7. /\ KeysTyped' /\ \A p \in Peers : index'[p] # None => index'[p] \in peer_keys'
      /\ peer_keys' = peer_keys \union {i} /\ index'[KeyOf(i)] # None
      /\ \A j \in Ids : index[KeyOf(j)] # None => index'[KeyOf(j)] # None
  <2>1. \A p \in Peers : index[p] # None => index[p] \in peer_keys
    BY DEF IInv, IndexOK
  <2>2. register_peer_key(i)
    BY <1>1, <1>3
  <2> QED
    BY <1>2, <2>1, <2>2, RegisterIs
<1>8. ASSUME TypesOK' PROVE AcceptOK'
  <2>1. \A z \in Sessions : hand'[z] # hand[z] => ~Working(z, "answer")'
    BY <1>6 DEF Working
  <2> QED
    BY <1>2, <1>4, <1>8, <2>1, SameRowsAccept DEF IInv
<1>9. ASSUME i \notin raced' PROVE IdOK(i)'
  <2>1. ~Rebuilding /\ ~Removing(i) /\ RowsOK(i) /\ KeysOK(i)
    BY <1>4, <1>5, <1>9, AloneWhileChanging DEF IInv
  <2>2. /\ Approving(i)' <=> Approving(i)
        /\ Befriending(i)' <=> Befriending(i)
        /\ Registering(i)' => Registering(i)
    BY <1>4, <1>6, OtherHands DEF Registering, HandOn
  <2>3. RowsOK(i)'
    BY <1>4, <1>7, <2>1, <2>2 DEF RowsOK
  <2>4. KeysOK(i)'
    BY <1>4, <1>5, <1>7, <2>1 DEF KeysOK, RowsOK
  <2> QED
    BY <1>4, <2>1, <2>3, <2>4, Alone DEF Rebuilding, Removing
<1> QED
  BY <1>1, <1>2, <1>3, <1>4, <1>6, <1>7, <1>8, <1>9, LoopStepOK

(* An event loop turns to or from what changes neither row nor key.            *)
LEMMA QuietLoopOK ==
  ASSUME IInv, NEW s \in Sessions, NEW r \in Letters \union {None}, Take(s, r),
         r # None => r.pc \notin {"unknown", "register"},
         hand[s] # None => hand[s].pc \notin {"unknown", "register"},
         UNCHANGED <<indexVars, main, cmd, lifeVars, built, raced>>,
         left' \in [Limits -> Nat], RowsTyped', TypesOK' => AcceptOK',
         \A j \in Ids : /\ contacts'[j] = None <=> contacts[j] = None
                        /\ contacts[j] # None => contacts'[j].uid = contacts[j].uid
  PROVE  IInv'
<1>1. /\ TypesOK /\ IndexOK /\ ClientsOK /\ StatusOK /\ raced \subseteq Ids
      /\ cmd \in [Commands -> Command \union {None}] /\ main \in Removal \union {None}
  BY TypesHere DEF IInv
<1>2. /\ main' = main /\ cmd' = cmd /\ built' = built /\ raced' = raced
      /\ peer_keys' = peer_keys /\ index' = index /\ KeysTyped'
      /\ starting' = starting /\ UNCHANGED lifeVars
  BY <1>1, TypesHere DEF indexVars, lifeVars
<1>3. /\ hand' \in [Sessions -> Letters \union {None}]
      /\ \A z \in Sessions \ {s} : hand'[z] = hand[z]
      /\ hand'[s] = r
  BY <1>1, TakeIs
<1>4. TypesOK' /\ AcceptOK'
  BY <1>1, <1>2, <1>3, TypesFrame
<1>5. \A j \in Ids : Quiet(j)
  <2>1. \A j \in Ids : FlowsSame(j)
    BY <1>2, <1>3 DEF FlowsSame, HandOn
  <2> QED
    BY <1>2, <2>1 DEF Quiet, Removing
<1>6. IndexOK'
  <2>1. \A j \in Ids \ raced' : IdOK(j)'
    BY <1>1, <1>2, <1>5, QuietIds DEF IndexOK, Rebuilding
  <2> QED
    BY <1>1, <1>2, <2>1 DEF IndexOK
<1> QED
  BY <1>1, <1>2, <1>4, <1>6, LifeFrame DEF IInv

LEMMA KnownReadOK ==
  ASSUME IInv, NEW s \in Sessions, ReadKnown(s)
  PROVE  IInv'
<1>1. /\ hand[s] # None /\ hand[s].pc = "known"
      /\ UNCHANGED <<contacts, indexVars, main, cmd, lifeVars, built, raced, left>>
      /\ \/ Take(s, None)
         \/ /\ contacts[hand[s].id] # None
            /\ Take(s, [hand[s] EXCEPT !.pc = "answer", !.uid = contacts[hand[s].id].uid,
                                       !.was = contacts[hand[s].id].status])
  BY DEF ReadKnown, Working, Drop, rowVars
<1>2. /\ TypesOK /\ left' \in [Limits -> Nat] /\ RowsTyped' /\ RowsKept
      /\ hand[s] \in Introduce /\ contacts \in [Ids -> Row \union {None}]
  BY <1>1, TypesHere, LettersAre DEF IInv, TypesOK, ContactsTypeOK
<1>3. CASE Take(s, None)
  <2>1. hand'[s] = None /\ \A z \in Sessions \ {s} : hand'[z] = hand[z]
    BY <1>2, <1>3, TakeIs
  <2>2. ASSUME TypesOK' PROVE AcceptOK'
    <3>1. \A z \in Sessions : hand'[z] # hand[z] => ~Working(z, "answer")'
      BY <2>1 DEF Working
    <3> QED
      BY <1>1, <1>2, <2>2, <3>1, SameRowsAccept DEF IInv
  <2> QED
    BY <1>1, <1>2, <1>3, <2>2, QuietLoopOK
<1>4. ASSUME contacts[hand[s].id] # None,
             Take(s, [hand[s] EXCEPT !.pc = "answer", !.uid = contacts[hand[s].id].uid,
                                     !.was = contacts[hand[s].id].status])
      PROVE  IInv'
  <2> DEFINE row == contacts[hand[s].id]
             r == [hand[s] EXCEPT !.pc = "answer", !.uid = row.uid, !.was = row.status]
  <2>1. row \in Row /\ hand[s].id \in Ids
    BY <1>2, <1>4 DEF Introduce
  <2>2. /\ r \in Letters /\ r # None /\ r.id = hand[s].id /\ r.pc = "answer"
        /\ r.uid = row.uid /\ r.was = row.status
    BY <1>2, <2>1, LettersAre DEF Introduce, Letters, Row
  <2>3. Take(s, r)
    BY <1>4
  <2> HIDE DEF r
  <2>4. hand'[s] = r /\ \A z \in Sessions \ {s} : hand'[z] = hand[z]
    BY <1>2, <2>2, <2>3, TakeIs
  <2>5. AcceptOK'
    <3>1. AcceptedByUser'
      BY <1>1 DEF IInv, AcceptOK, AcceptedByUser
    <3>2. ASSUME NEW z \in Sessions, Working(z, "answer")', hand'[z].was = "pending_outgoing",
                 HasRow(hand[z].id, hand[z].uid)'
          PROVE  (contacts[hand[z].id].agreed)'
      <4>1. CASE z = s
        BY <1>1, <1>4, <2>1, <2>2, <2>4, <3>2, <4>1 DEF IInv, AcceptOK, AcceptedByUser
      <4>2. CASE z # s
        BY <1>1, <2>4, <3>2, <4>2 DEF IInv, AcceptOK, Working, HasRow
      <4> QED
        BY <4>1, <4>2
    <3> QED
      BY <3>1, <3>2 DEF AcceptOK
  <2> QED
    BY <1>1, <1>2, <2>2, <2>3, <2>5, QuietLoopOK
<1> QED
  BY <1>1, <1>3, <1>4

LEMMA KnownAnsweredOK ==
  ASSUME IInv, NEW s \in Sessions, AnswerKnown(s)
  PROVE  IInv'
<1>1. /\ hand[s] # None /\ hand[s].pc = "answer" /\ Take(s, None)
      /\ UNCHANGED <<indexVars, main, cmd, lifeVars, built, raced, left>>
      /\ IF hand[s].was = "pending_outgoing" THEN AcceptRow(hand[s].id, hand[s].uid, FALSE)
         ELSE UNCHANGED contacts
  BY DEF AnswerKnown, Working, Drop
<1>2. /\ TypesOK /\ left' \in [Limits -> Nat] /\ hand[s] \in Introduce
  BY <1>1, TypesHere, LettersAre DEF IInv, TypesOK
<1>3. PICK i \in Ids : hand[s].id = i
  BY <1>2 DEF Introduce
<1>4. /\ RowsTyped' /\ RowsKept /\ AcceptedByUser'
      /\ \A j \in Ids : /\ contacts'[j] = None <=> contacts[j] = None
                        /\ contacts[j] # None => contacts'[j].uid = contacts[j].uid
  <2>1. CASE hand[s].was = "pending_outgoing"
    <3>1. AcceptRow(i, hand[s].uid, FALSE)
      BY <1>1, <1>3, <2>1
    <3>2. HasRow(i, hand[s].uid) => contacts[i].agreed
      BY <1>1, <1>3, <2>1 DEF IInv, AcceptOK, Working
    <3>3. /\ RowsTyped' /\ RowsKept
          /\ \A j \in Ids : contacts'[j] = None <=> contacts[j] = None
          /\ \A j \in Ids : contacts[j] # None => contacts'[j].uid = contacts[j].uid
          /\ \A j \in Ids : contacts'[j] # contacts[j] =>
               j = i /\ HasRow(i, hand[s].uid) /\ (contacts[i].agreed => contacts'[i].agreed)
      BY <1>2, <3>1, AcceptIs
    <3>4. AcceptedByUser'
      BY <3>2, <3>3 DEF IInv, AcceptOK, AcceptedByUser
    <3> QED
      BY <3>3, <3>4
  <2>2. CASE hand[s].was # "pending_outgoing"
    BY <1>1, <1>2, <2>2, TypesHere DEF IInv, AcceptOK, AcceptedByUser
  <2> QED
    BY <2>1, <2>2
<1>5. ASSUME TypesOK' PROVE AcceptOK'
  <2>1. \A z \in Sessions : hand'[z] # hand[z] => ~Working(z, "answer")'
    BY <1>1, <1>2, TakeIs DEF Working
  <2> QED
    BY <1>2, <1>4, <1>5, <2>1, AcceptFrame DEF IInv
<1> QED
  BY <1>1, <1>2, <1>4, <1>5, QuietLoopOK

-----------------------------------------------------------------------------
(* Messages and threads.                                                       *)

LEMMA MailOK ==
  ASSUME IInv, NEW s \in Sessions, NEW r \in Letters \union {None}, Take(s, r),
         r # None => r.pc \in {"route", "store", "decide"},
         hand[s] # None => hand[s].pc \in {"route", "store", "decide"},
         UNCHANGED keptByMail, left' \in [Limits -> Nat]
  PROVE  IInv'
<1>1. /\ TypesOK /\ contacts' = contacts /\ main' = main
      /\ UNCHANGED <<indexVars, main, cmd, lifeVars, built, raced>>
      /\ RowsTyped' /\ RowsKept
  BY TypesHere DEF IInv, keptByMail, rowVars
<1>2. ASSUME TypesOK' PROVE AcceptOK'
  <2>1. \A z \in Sessions : hand'[z] # hand[z] => ~Working(z, "answer")'
    BY <1>1, TakeIs DEF Working
  <2> QED
    BY <1>1, <1>2, <2>1, SameRowsAccept DEF IInv
<1> QED
  BY <1>1, <1>2, QuietLoopOK

LEMMA EnvelopeOK ==
  ASSUME IInv, NEW s \in Sessions, NEW m \in Incoming, handle_incoming_envelope(s, m)
  PROVE  IInv'
<1> DEFINE r == [pc |-> "route", id |-> index[Sender[m]], uid |-> 0, msg |-> m]
<1>1. /\ hand[s] = None /\ Take(s, r) /\ Spend("deliveries") /\ UNCHANGED keptByMail
      /\ index[Sender[m]] # None
  BY DEF handle_incoming_envelope
<1>2. Sender[m] \in Peers
  BY SecretaryAssumption DEF Incoming
<1>3. r \in Letters /\ r.pc = "route"
  BY <1>1, <1>2 DEF IInv, TypesOK, ContactsTypeOK, Letters, Routed
<1>4. left' \in [Limits -> Nat]
  BY <1>1, SpendIs DEF IInv, Limits
<1> QED
  BY <1>1, <1>3, <1>4, MailOK

LEMMA ThreadFoundOK ==
  ASSUME IInv, NEW s \in Sessions, FindThread(s)
  PROVE  IInv'
<1>1. hand[s] # None /\ hand[s].pc = "route" /\ UNCHANGED <<keptByMail, left>>
  BY DEF FindThread, Working
<1>2. hand[s] \in Routed /\ left \in [Limits -> Nat]
  BY <1>1, LettersAre, TypesHere DEF IInv, TypesOK, Letters
<1>3. hand[s].id \in Ids /\ hand[s].msg \in Incoming
  BY <1>2 DEF Routed
<1> DEFINE row == contacts[hand[s].id]
<1>4. \/ Take(s, None)
      \/ /\ row # None
         /\ \E t \in ThreadIds :
              Take(s, [pc |-> "store", id |-> hand[s].id, uid |-> row.uid,
                       msg |-> hand[s].msg, tid |-> t,
                       respond |-> row.status # "pending_outgoing"])
  BY DEF FindThread, Drop
<1>5. ASSUME row # None, NEW t \in ThreadIds,
             Take(s, [pc |-> "store", id |-> hand[s].id, uid |-> row.uid,
                      msg |-> hand[s].msg, tid |-> t,
                      respond |-> row.status # "pending_outgoing"])
      PROVE  IInv'
  <2> DEFINE r == [pc |-> "store", id |-> hand[s].id, uid |-> row.uid,
                   msg |-> hand[s].msg, tid |-> t,
                   respond |-> row.status # "pending_outgoing"]
  <2>1. row.uid \in Nat \ {0}
    BY <1>3, <1>5 DEF IInv, TypesOK, ContactsTypeOK, Row
  <2>2. r \in Letters /\ r.pc = "store"
    BY <1>3, <2>1 DEF Letters, Storing
  <2>3. Take(s, r)
    BY <1>5
  <2> HIDE DEF r
  <2> QED
    BY <1>1, <1>2, <2>2, <2>3, MailOK
<1>6. CASE Take(s, None)
  BY <1>1, <1>2, <1>6, MailOK
<1> QED
  BY <1>4, <1>5, <1>6

LEMMA MessageStoredOK ==
  ASSUME IInv, NEW s \in Sessions, StoreMessage(s)
  PROVE  IInv'
<1>1. /\ hand[s] # None /\ hand[s].pc = "store" /\ UNCHANGED <<keptByMail, left>>
      /\ Take(s, None) \/ Take(s, [hand[s] EXCEPT !.pc = "decide"])
  BY DEF StoreMessage, Working, Drop
<1>2. hand[s] \in Storing /\ left \in [Limits -> Nat]
  BY <1>1, LettersAre, TypesHere DEF IInv, TypesOK, Letters
<1> DEFINE r == [hand[s] EXCEPT !.pc = "decide"]
<1>3. r \in Letters /\ r.pc = "decide"
  BY <1>2 DEF Letters, Storing
<1>4. Take(s, None) \/ Take(s, r)
  BY <1>1
<1> HIDE DEF r
<1> QED
  BY <1>1, <1>2, <1>3, <1>4, MailOK

LEMMA RespondedOK ==
  ASSUME IInv, NEW s \in Sessions, AutoRespond(s)
  PROVE  IInv'
<1>1. /\ hand[s] # None /\ hand[s].pc = "decide" /\ UNCHANGED <<keptByMail, left>>
      /\ Take(s, None)
  BY DEF AutoRespond, Working, Drop
<1> QED
  BY <1>1, MailOK, TypesHere DEF IInv

(* A command turns to or from what changes neither row nor key.                *)
LEMMA QuietCommandOK ==
  ASSUME IInv, NEW c \in Commands, cmd[c] # None,
         cmd[c].pc \in {"thread", "create", "store"},
         cmd' \in [Commands -> Command \union {None}],
         \A d \in Commands \ {c} : cmd'[d] = cmd[d],
         cmd'[c] # None => cmd'[c].pc \in {"thread", "create", "store"},
         UNCHANGED keptBySend
  PROVE  IInv'
<1>1. /\ TypesOK /\ AcceptOK /\ IndexOK /\ ClientsOK /\ StatusOK /\ raced \subseteq Ids
      /\ main \in Removal \union {None} /\ hand \in [Sessions -> Letters \union {None}]
      /\ left \in [Limits -> Nat]
  BY TypesHere DEF IInv
<1>2. /\ contacts' = contacts /\ main' = main /\ peer_keys' = peer_keys /\ index' = index
      /\ hand' = hand /\ UNCHANGED lifeVars /\ starting' = starting /\ built' = built
      /\ raced' = raced /\ left' = left /\ RowsTyped' /\ KeysTyped'
  BY <1>1, TypesHere DEF keptBySend, rowVars, indexVars, lifeVars
<1>3. TypesOK'
  BY <1>1, <1>2, TypesFrame
<1>4. AcceptOK'
  BY <1>1, <1>2, <1>3, SameRowsAccept
<1>5. \A j \in Ids : FlowsSame(j)
  BY <1>2 DEF FlowsSame, CmdOn
<1>6. IndexOK'
  BY <1>1, <1>2, <1>5, NoId DEF Rebuilding
<1> QED
  BY <1>1, <1>2, <1>3, <1>4, <1>6, LifeFrame DEF IInv

LEMMA ToStoreIs ==
  ASSUME TypesOK, NEW c \in Commands, cmd[c] # None, NEW t \in ThreadIds,
         cmd' = [cmd EXCEPT ![c].pc = "store", ![c].tid = t]
  PROVE  /\ cmd' \in [Commands -> Command \union {None}]
         /\ \A d \in Commands \ {c} : cmd'[d] = cmd[d]
         /\ cmd'[c] # None /\ cmd'[c].pc = "store"
<1> DEFINE r == [cmd[c] EXCEPT !.pc = "store", !.tid = t]
<1>1. cmd \in [Commands -> Command \union {None}] /\ cmd[c] \in Command
  BY DEF TypesOK, ContactsTypeOK
<1>2. r \in Command /\ r.pc = "store"
  BY <1>1, SecretaryAssumption DEF Command
<1>3. cmd' = [cmd EXCEPT ![c] = r]
  BY <1>1 DEF Command
<1> HIDE DEF r
<1> QED
  BY <1>1, <1>2, <1>3, NoneAssumption

LEMMA OwnMessageOK ==
  ASSUME IInv, NEW c \in Commands,
         FindOwnThread(c) \/ CreateOwnThread(c) \/ StoreOwnMessage(c)
  PROVE  IInv'
<1>1. TypesOK
  BY DEF IInv
<1>2. CASE FindOwnThread(c)
  <2>1. cmd[c] # None /\ cmd[c].pc = "thread" /\ UNCHANGED keptBySend
    BY <1>2 DEF FindOwnThread, At
  <2>2. \/ \E t \in ThreadIds : cmd' = [cmd EXCEPT ![c].pc = "store", ![c].tid = t]
        \/ Goto(c, "create")
    BY <1>2 DEF FindOwnThread
  <2>3. CASE Goto(c, "create")
    BY <1>1, <2>1, <2>3, GotoIs, QuietCommandOK
  <2> QED
    BY <1>1, <2>1, <2>2, <2>3, ToStoreIs, QuietCommandOK
<1>3. CASE CreateOwnThread(c)
  <2>1. cmd[c] # None /\ cmd[c].pc = "create" /\ UNCHANGED keptBySend
    BY <1>3 DEF CreateOwnThread, At
  <2>2. \/ \E t \in ThreadIds : cmd' = [cmd EXCEPT ![c].pc = "store", ![c].tid = t]
        \/ Finish(c)
    BY <1>3 DEF CreateOwnThread, FreshTids
  <2>3. CASE Finish(c)
    BY <1>1, <2>1, <2>3, FinishIs, QuietCommandOK
  <2> QED
    BY <1>1, <2>1, <2>2, <2>3, ToStoreIs, QuietCommandOK
<1>4. CASE StoreOwnMessage(c)
  <2>1. cmd[c] # None /\ cmd[c].pc = "store" /\ UNCHANGED keptBySend /\ Finish(c)
    BY <1>4 DEF StoreOwnMessage, At
  <2> QED
    BY <1>1, <2>1, FinishIs, QuietCommandOK
<1> QED
  BY <1>2, <1>3, <1>4

-----------------------------------------------------------------------------
(* The removal of a contact.                                                   *)

LEMMA ChangingIs ==
  ASSUME NEW i
  PROVE  /\ Approving(i) \/ Registering(i) \/ Befriending(i) => Changing(i)
         /\ Approving(i)' \/ Registering(i)' \/ Befriending(i)' => Changing(i)'
  BY DEF Approving, Registering, Befriending, Changing

LEMMA BusyIs ==
  ASSUME TypesOK, NEW i \in Ids
  PROVE  Changing(i) => Busy(i)
<1>1. ASSUME NEW c \in Commands, CmdOn(c, i) PROVE Busy(i)
  BY <1>1 DEF CmdOn, Busy, Flows
<1>2. ASSUME NEW s \in Sessions, HandOn(s, i) PROVE Busy(i)
  BY <1>2 DEF HandOn, Busy, Flows
<1> QED
  BY <1>1, <1>2 DEF Changing

LEMMA KeyForgottenOK ==
  ASSUME IInv, NEW i \in Ids, ForgetKey(i)
  PROVE  IInv'
<1>1. /\ TypesOK /\ AcceptOK /\ IndexOK /\ ClientsOK /\ StatusOK /\ raced \subseteq Ids
      /\ cmd \in [Commands -> Command \union {None}]
      /\ hand \in [Sessions -> Letters \union {None}]
  BY TypesHere DEF IInv
<1>2. /\ main = None /\ contacts[i] # None /\ Spend("removals") /\ remove_known_peer(i)
      /\ main' = [id |-> i, uid |-> contacts[i].uid]
      /\ raced' = raced \union (Twins(i) \ {i})
                    \union (IF Busy(i) \/ Rebuilding THEN {i} ELSE {})
      /\ UNCHANGED <<contacts, cmd, hand, lifeVars, built>>
  BY DEF ForgetKey
<1>3. /\ starting' = starting /\ UNCHANGED lifeVars /\ RowsTyped' /\ RowsKept
      /\ left' \in [Limits -> Nat]
  BY <1>1, <1>2, TypesHere, SpendIs DEF lifeVars, Limits
<1>4. contacts[i].uid \in Nat \ {0}
  BY <1>1, <1>2 DEF TypesOK, ContactsTypeOK, Row
<1>5. main' \in Removal /\ main' # None /\ main'.id = i /\ main'.uid = contacts[i].uid
  BY <1>2, <1>4, NoneAssumption DEF Removal
<1>6. raced \subseteq raced' /\ raced' \subseteq Ids /\ i \in Twins(i)
  BY <1>1, <1>2 DEF Twins
<1>7. /\ KeysTyped' /\ \A p \in Peers : index'[p] # None => index'[p] \in peer_keys'
      /\ peer_keys' = peer_keys \ {i}
      /\ \A j \in Ids \ Twins(i) : index'[KeyOf(j)] = index[KeyOf(j)]
  BY <1>1, <1>2, RemoveIs DEF IndexOK
<1>8. TypesOK'
  BY <1>1, <1>2, <1>3, <1>5, <1>6, <1>7, TypesFrame
<1>9. AcceptOK'
  BY <1>1, <1>2, <1>8, SameRowsAccept
<1>10. ASSUME i \notin raced' PROVE IdOK(i)'
  <2>1. ~Busy(i) /\ ~Rebuilding
    BY <1>2, <1>10
  <2>2. ~Rebuilding' /\ ~Changing(i)'
    BY <1>1, <1>2, <1>3, <2>1, BusyIs DEF Rebuilding, Changing, CmdOn, HandOn
  <2>3. ~Approving(i)' /\ ~Registering(i)' /\ ~Befriending(i)'
    BY <2>2, ChangingIs
  <2>4. Removing(i)'
    BY <1>5 DEF Removing
  <2>5. RemovalOK(i)'
    BY <1>2, <1>5, <1>7, <2>2 DEF RemovalOK, HasRow
  <2>6. RowsOK(i)' /\ KeysOK(i)' /\ RebuildOK(i)'
    BY <1>7, <2>2, <2>3, <2>4 DEF RowsOK, KeysOK, RebuildOK
  <2> QED
    BY <2>5, <2>6 DEF IdOK
<1>11. \A j \in Ids \ {i} : j \notin raced' => Quiet(j)
  BY <1>2, <1>5, <1>7 DEF Quiet, FlowsSame, Removing
<1>12. IndexOK'
  BY <1>1, <1>3, <1>6, <1>7, <1>10, <1>11, OneId
<1> QED
  BY <1>1, <1>3, <1>8, <1>9, <1>12, LifeFrame DEF IInv

LEMMA ContactDeletedOK ==
  ASSUME IInv, DeleteContact
  PROVE  IInv'
<1>1. /\ TypesOK /\ AcceptOK /\ IndexOK /\ ClientsOK /\ StatusOK /\ raced \subseteq Ids
      /\ cmd \in [Commands -> Command \union {None}]
      /\ hand \in [Sessions -> Letters \union {None}] /\ left \in [Limits -> Nat]
      /\ contacts \in [Ids -> Row \union {None}]
  BY TypesHere DEF IInv, TypesOK, ContactsTypeOK
<1>2. /\ main # None /\ main' = None
      /\ contacts' = IF HasRow(main.id, main.uid) THEN [contacts EXCEPT ![main.id] = None]
                     ELSE contacts
      /\ UNCHANGED <<indexVars, cmd, hand, lifeVars, built, raced, left>>
  BY DEF DeleteContact
<1>3. PICK i \in Ids : main.id = i
  BY <1>1, <1>2 DEF TypesOK, ContactsTypeOK, Removal
<1>4. /\ peer_keys' = peer_keys /\ index' = index /\ KeysTyped' /\ hand' = hand
      /\ built' = built /\ starting' = starting /\ raced' = raced /\ left' = left
      /\ cmd' = cmd /\ UNCHANGED lifeVars
  BY <1>1, <1>2, TypesHere DEF indexVars, lifeVars
<1>5. /\ contacts' \in [Ids -> Row \union {None}]
      /\ HasRow(i, main.uid) => contacts'[i] = None
      /\ \A j \in Ids : contacts'[j] = None \/ contacts'[j] = contacts[j]
      /\ \A j \in Ids \ {i} : contacts'[j] = contacts[j]
  BY <1>1, <1>2, <1>3
<1>6. RowsTyped' /\ RowsKept /\ AcceptedByUser'
  <2>1. RowsTyped'
    BY <1>1, <1>5 DEF RowsTyped, TypesOK, ContactsTypeOK
  <2>2. RowsKept
    BY <1>5 DEF RowsKept
  <2>3. AcceptedByUser'
    BY <1>1, <1>5 DEF AcceptOK, AcceptedByUser
  <2> QED
    BY <2>1, <2>2, <2>3
<1>7. TypesOK'
  BY <1>1, <1>2, <1>4, <1>6, TypesFrame
<1>8. AcceptOK'
  BY <1>1, <1>4, <1>6, <1>7, AcceptFrame
<1>9. ASSUME i \notin raced' PROVE IdOK(i)'
  <2>1. RemovalOK(i) /\ Removing(i)
    BY <1>1, <1>2, <1>3, <1>4, <1>9 DEF IndexOK, IdOK, Removing
  <2>2. ~Changing(i) /\ ~Rebuilding /\ contacts'[i] = None /\ i \notin peer_keys
    BY <1>5, <2>1 DEF RemovalOK
  <2>3. ~Changing(i)' /\ ~Rebuilding' /\ ~Removing(i)'
    BY <1>2, <1>4, <2>2 DEF Changing, CmdOn, HandOn, Rebuilding, Removing
  <2>4. ~Approving(i)' /\ ~Registering(i)' /\ ~Befriending(i)'
    BY <2>3, ChangingIs
  <2>5. RowsOK(i)' /\ KeysOK(i)'
    BY <1>4, <2>2, <2>4 DEF RowsOK, KeysOK
  <2> QED
    BY <2>3, <2>5, Alone
<1>10. \A j \in Ids \ {i} : Quiet(j)
  BY <1>2, <1>3, <1>4, <1>5 DEF Quiet, FlowsSame, Removing
<1>11. IndexOK'
  <2>1. \A p \in Peers : index'[p] # None => index'[p] \in peer_keys'
    BY <1>1, <1>4 DEF IndexOK
  <2> QED
    BY <1>1, <1>4, <1>9, <1>10, <2>1, OneId
<1> QED
  BY <1>1, <1>4, <1>7, <1>8, <1>11, LifeFrame DEF IInv

-----------------------------------------------------------------------------
(* The start and the stop of the manager, its clients and their events.        *)

LifeTyped ==
  /\ status \in {"dormant", "starting", "active", "reconnecting", "stopping"}
  /\ handle \in Sessions \union {None} /\ loops \subseteq Sessions /\ told \subseteq Sessions
  /\ client \in [Sessions -> {"none", "trying", "up", "closed"}]
  /\ queue \in [Sessions -> Seq(Events)]
  /\ starting \in Start \union {None} /\ stopping \in BOOLEAN /\ late \in BOOLEAN

LEMMA LifeTypes ==
  /\ TypesOK => LifeTyped /\ built \in BOOLEAN
  /\ LifeTyped' /\ RowsTyped' /\ KeysTyped' /\ cmd' \in [Commands -> Command \union {None}]
       /\ main' \in Removal \union {None} /\ hand' \in [Sessions -> Letters \union {None}]
       /\ built' \in BOOLEAN /\ raced' \subseteq Ids /\ left' \in [Limits -> Nat] => TypesOK'
<1>1. TypesOK => LifeTyped /\ built \in BOOLEAN
  BY DEF TypesOK, ContactsTypeOK, LifeTyped
<1>2. LifeTyped' /\ RowsTyped' /\ KeysTyped' /\ cmd' \in [Commands -> Command \union {None}]
        /\ main' \in Removal \union {None} /\ hand' \in [Sessions -> Letters \union {None}]
        /\ built' \in BOOLEAN /\ raced' \subseteq Ids /\ left' \in [Limits -> Nat] => TypesOK'
  BY DEF TypesOK, ContactsTypeOK, LifeTyped, RowsTyped, KeysTyped
<1> QED
  BY <1>1, <1>2

LEMMA LifeStepOK ==
  ASSUME IInv, UNCHANGED dataVars, left' \in [Limits -> Nat], LifeTyped',
         Rebuilding' <=> Rebuilding, Rebuilding => starting' = starting, ClientsOK', StatusOK'
  PROVE  IInv'
<1>1. /\ TypesOK /\ AcceptOK /\ IndexOK /\ built \in BOOLEAN
      /\ cmd \in [Commands -> Command \union {None}] /\ main \in Removal \union {None}
      /\ hand \in [Sessions -> Letters \union {None}] /\ raced \subseteq Ids
  BY TypesHere, LifeTypes DEF IInv
<1>2. /\ contacts' = contacts /\ main' = main /\ peer_keys' = peer_keys /\ index' = index
      /\ cmd' = cmd /\ hand' = hand /\ built' = built /\ raced' = raced
      /\ RowsTyped' /\ KeysTyped'
  BY <1>1, TypesHere DEF dataVars, rowVars, indexVars
<1>3. TypesOK'
  BY <1>1, <1>2, LifeTypes
<1>4. AcceptOK'
  BY <1>1, <1>2, <1>3, SameRowsAccept
<1>5. IndexOK'
  <2>1. \A j \in Ids : FlowsSame(j)
    BY <1>2 DEF FlowsSame
  <2> QED
    BY <1>1, <1>2, <2>1, NoId
<1> QED
  BY <1>3, <1>4, <1>5 DEF IInv

LEMMA StartBegunOK ==
  ASSUME IInv, StartBegin
  PROVE  IInv'
<1>1. /\ LifeTyped /\ ClientsOK /\ StatusOK /\ TypesOK
  BY LifeTypes DEF IInv
<1>2. /\ status = "dormant" /\ starting = None /\ Spend("starts")
      /\ status' = "starting" /\ starting' = [pc |-> "list", seen |-> {}]
      /\ UNCHANGED <<dataVars, handle, client, told, queue, loops, stopping, late>>
  BY DEF StartBegin
<1>3. starting' \in Start /\ starting' # None /\ starting'.pc = "list"
  BY <1>2, NoneAssumption DEF Start
<1>4. LifeTyped' /\ left' \in [Limits -> Nat]
  BY <1>1, <1>2, <1>3, SpendIs DEF LifeTyped, Limits
<1>5. ~Rebuilding /\ ~Rebuilding'
  BY <1>2, <1>3 DEF Rebuilding
<1>6. ClientsOK'
  BY <1>1, <1>2 DEF ClientsOK
<1>7. StatusOK'
  BY <1>1, <1>2 DEF StatusOK
<1> QED
  BY <1>2, <1>4, <1>5, <1>6, <1>7, LifeStepOK

LEMMA ListedOK ==
  ASSUME IInv, ListContacts
  PROVE  IInv'
<1>1. /\ TypesOK /\ AcceptOK /\ IndexOK /\ ClientsOK /\ StatusOK /\ LifeTyped /\ built \in BOOLEAN
      /\ cmd \in [Commands -> Command \union {None}] /\ main \in Removal \union {None}
      /\ hand \in [Sessions -> Letters \union {None}] /\ left \in [Limits -> Nat]
  BY TypesHere, LifeTypes DEF IInv
<1>2. /\ starting # None /\ starting.pc = "list"
      /\ starting' = [pc |-> "install", seen |-> {i \in Ids : contacts[i] # None}]
      /\ raced' = {i \in Ids : Busy(i)}
      /\ UNCHANGED <<rowVars, indexVars, cmd, hand, built, status, handle, client, told,
                     queue, loops, stopping, late, left>>
  BY DEF ListContacts
<1>3. /\ starting' \in Start /\ starting' # None /\ starting'.pc = "install"
      /\ starting'.seen = {i \in Ids : contacts[i] # None}
  BY <1>2, NoneAssumption DEF Start
<1>4. /\ contacts' = contacts /\ main' = main /\ peer_keys' = peer_keys /\ index' = index
      /\ cmd' = cmd /\ hand' = hand /\ built' = built /\ left' = left
      /\ RowsTyped' /\ KeysTyped'
  BY <1>1, <1>2, TypesHere DEF rowVars, indexVars
<1>5. LifeTyped'
  BY <1>1, <1>2, <1>3 DEF LifeTyped
<1>6. TypesOK'
  <2>1. raced' \subseteq Ids
    BY <1>2
  <2> QED
    BY <1>1, <1>4, <1>5, <2>1, LifeTypes
<1>7. AcceptOK'
  BY <1>1, <1>4, <1>6, SameRowsAccept
<1>8. IndexOK'
  <2>1. ASSUME NEW j \in Ids \ raced' PROVE IdOK(j)'
    <3>1. ~Busy(j)
      BY <1>2, <2>1
    <3>2. ~Changing(j) /\ ~Removing(j)
      BY <1>1, <3>1, BusyIs DEF Busy, Flows, Removing
    <3>3. ~Changing(j)' /\ ~Removing(j)' /\ Rebuilding'
      BY <1>3, <1>4, <3>2 DEF Changing, CmdOn, HandOn, Removing, Rebuilding
    <3>4. ~Approving(j)' /\ ~Registering(j)' /\ ~Befriending(j)'
      BY <3>3, ChangingIs
    <3>5. RemovalOK(j)' /\ RowsOK(j)' /\ KeysOK(j)'
      BY <3>3, <3>4 DEF RemovalOK, RowsOK, KeysOK
    <3>6. RebuildOK(j)'
      BY <1>3, <1>4, <3>3 DEF RebuildOK
    <3> QED
      BY <3>5, <3>6 DEF IdOK
  <2>2. \A p \in Peers : index'[p] # None => index'[p] \in peer_keys'
    BY <1>1, <1>4 DEF IndexOK
  <2> QED
    BY <2>1, <2>2 DEF IndexOK
<1>9. ClientsOK'
  BY <1>1, <1>2 DEF ClientsOK
<1>10. StatusOK'
  BY <1>1, <1>2 DEF StatusOK
<1> QED
  BY <1>6, <1>7, <1>8, <1>9, <1>10 DEF IInv

LEMMA StartFailedOK ==
  ASSUME IInv, StartFails
  PROVE  IInv'
<1>1. /\ LifeTyped /\ ClientsOK /\ StatusOK /\ TypesOK
  BY LifeTypes DEF IInv
<1>2. /\ starting # None /\ starting.pc \in {"list", "connect"} /\ Spend("faults")
      /\ starting' = None
      /\ UNCHANGED <<dataVars, status, handle, client, told, queue, loops, stopping, late>>
  BY DEF StartFails
<1>3. LifeTyped' /\ left' \in [Limits -> Nat]
  BY <1>1, <1>2, SpendIs DEF LifeTyped, Limits
<1>4. ~Rebuilding /\ ~Rebuilding'
  BY <1>2 DEF Rebuilding
<1>5. ClientsOK'
  BY <1>1, <1>2 DEF ClientsOK
<1>6. StatusOK'
  BY <1>1, <1>2 DEF StatusOK
<1> QED
  BY <1>2, <1>3, <1>4, <1>5, <1>6, LifeStepOK

LEMMA RebuiltOK ==
  ASSUME IInv, rebuild_peer_index
  PROVE  IInv'
<1>1. /\ TypesOK /\ AcceptOK /\ IndexOK /\ ClientsOK /\ StatusOK /\ LifeTyped
      /\ cmd \in [Commands -> Command \union {None}] /\ main \in Removal \union {None}
      /\ hand \in [Sessions -> Letters \union {None}] /\ left \in [Limits -> Nat]
      /\ raced \subseteq Ids
  BY TypesHere, LifeTypes DEF IInv
<1> DEFINE of(p) == {i \in starting.seen : KeyOf(i) = p}
<1>2. /\ Rebuilding /\ peer_keys' = starting.seen
      /\ index' \in [Peers -> Ids \union {None}]
      /\ \A p \in Peers : IF of(p) = {} THEN index'[p] = None ELSE index'[p] \in of(p)
      /\ built' = TRUE /\ starting' = [starting EXCEPT !.pc = "connect"]
      /\ UNCHANGED <<rowVars, cmd, hand, raced, status, handle, client, told, queue, loops,
                     stopping, late, left>>
  BY DEF rebuild_peer_index
<1>3. /\ starting \in Start /\ starting.seen \subseteq Ids
      /\ starting' \in Start /\ starting' # None /\ starting'.pc = "connect" /\ ~Rebuilding'
      /\ starting # None
  BY <1>1, <1>2, NoneAssumption DEF LifeTyped, Start, Rebuilding
<1>4. /\ contacts' = contacts /\ main' = main /\ cmd' = cmd /\ hand' = hand /\ left' = left
      /\ raced' = raced /\ RowsTyped'
  BY <1>1, <1>2, TypesHere DEF rowVars
<1>5. LifeTyped'
  BY <1>1, <1>2, <1>3 DEF LifeTyped
<1>6. \A p \in Peers : index'[p] # None => index'[p] \in peer_keys' /\ KeyOf(index'[p]) = p
  BY <1>2
<1>7. KeysTyped'
  BY <1>2, <1>3, <1>6 DEF KeysTyped
<1>8. TypesOK'
  BY <1>1, <1>2, <1>4, <1>5, <1>7, LifeTypes
<1>9. AcceptOK'
  BY <1>1, <1>4, <1>8, SameRowsAccept
<1>10. ASSUME NEW j \in Ids \ raced' PROVE IdOK(j)'
  <2>1. IdOK(j)
    BY <1>1, <1>4, <1>10 DEF IndexOK
  <2>2. ~Changing(j) /\ ~Removing(j) /\ (j \in starting.seen <=> contacts[j] # None)
    BY <1>2, <2>1 DEF IdOK, RemovalOK, RebuildOK
  <2>3. ~Changing(j)' /\ ~Removing(j)'
    BY <1>4, <2>2 DEF Changing, CmdOn, HandOn, Removing
  <2>4. ~Approving(j)' /\ ~Registering(j)' /\ ~Befriending(j)'
    BY <2>3, ChangingIs
  <2>5. j \in peer_keys' => index'[KeyOf(j)] # None
    <3> SUFFICES ASSUME j \in starting.seen PROVE index'[KeyOf(j)] # None
      BY <1>2
    <3>1. KeyOf(j) \in Peers /\ of(KeyOf(j)) # {}
      BY KeyOfIs
    <3>2. index'[KeyOf(j)] \in starting.seen
      BY <1>2, <3>1
    <3> QED
      BY <1>3, <3>2, NoneAssumption
  <2>6. RowsOK(j)' /\ KeysOK(j)'
    BY <1>2, <1>4, <2>2, <2>4, <2>5 DEF RowsOK, KeysOK
  <2> QED
    BY <1>3, <2>3, <2>6, Alone
<1>11. IndexOK'
  BY <1>6, <1>10 DEF IndexOK
<1>12. ClientsOK'
  BY <1>1, <1>2 DEF ClientsOK
<1>13. StatusOK'
  BY <1>1, <1>2, <1>3 DEF StatusOK
<1> QED
  BY <1>8, <1>9, <1>11, <1>12, <1>13 DEF IInv

LEMMA StartedOK ==
  ASSUME IInv, StartClient
  PROVE  IInv'
<1>1. /\ LifeTyped /\ ClientsOK /\ StatusOK /\ TypesOK /\ left \in [Limits -> Nat]
  BY LifeTypes, TypesHere DEF IInv
<1>2. PICK s \in Sessions :
        /\ client[s] = "none" /\ handle' = s /\ client' = [client EXCEPT ![s] = "trying"]
        /\ loops' = loops \union {s}
  BY DEF StartClient
<1>3. /\ starting # None /\ starting.pc = "connect" /\ status' = "active" /\ starting' = None
      /\ told' = IF handle = None THEN told ELSE told \union {handle}
      /\ UNCHANGED <<dataVars, queue, stopping, late, left>>
  BY DEF StartClient
<1>4. LifeTyped' /\ left' \in [Limits -> Nat]
  BY <1>1, <1>2, <1>3 DEF LifeTyped
<1>5. ~Rebuilding /\ ~Rebuilding'
  BY <1>3 DEF Rebuilding
<1>6. s \notin loops /\ s \notin told /\ queue[s] = <<>> /\ s # None
  BY <1>1, <1>2, NoneAssumption DEF ClientsOK
<1>7. ClientsOK'
  <2>1. handle' \in loops' \ told'
    BY <1>1, <1>2, <1>3, <1>6 DEF ClientsOK
  <2>2. ASSUME NEW k \in Sessions, client'[k] = "none"
        PROVE  k \notin loops' /\ k \notin told' /\ queue'[k] = <<>>
    <3>1. k # s /\ client[k] = "none"
      BY <1>1, <1>2, <2>2 DEF LifeTyped
    <3> QED
      BY <1>1, <1>2, <1>3, <2>2, <3>1 DEF ClientsOK
  <2>3. ASSUME NEW k \in Sessions, \E n \in DOMAIN queue'[k] : queue'[k][n] = "bye"
        PROVE  k \in told'
    BY <1>1, <1>3, <2>3 DEF ClientsOK
  <2> QED
    BY <2>1, <2>2, <2>3 DEF ClientsOK
<1>8. StatusOK'
  BY <1>1, <1>2, <1>3, <1>6 DEF StatusOK
<1> QED
  BY <1>3, <1>4, <1>5, <1>7, <1>8, LifeStepOK

LEMMA StopBegunOK ==
  ASSUME IInv, StopBegin
  PROVE  IInv'
<1>1. /\ LifeTyped /\ ClientsOK /\ StatusOK /\ TypesOK
  BY LifeTypes DEF IInv
<1>2. /\ status \in {"active", "reconnecting"} /\ ~stopping /\ Spend("stops")
      /\ status' = "stopping" /\ stopping' = TRUE
      /\ told' = IF handle = None THEN told ELSE told \union {handle}
      /\ handle' = None
      /\ UNCHANGED <<dataVars, client, queue, loops, starting, late>>
  BY DEF StopBegin
<1>3. LifeTyped' /\ left' \in [Limits -> Nat]
  BY <1>1, <1>2, SpendIs DEF LifeTyped, Limits
<1>4. starting' = starting /\ (Rebuilding' <=> Rebuilding)
  BY <1>2 DEF Rebuilding
<1>5. ClientsOK'
  <2>1. \A k \in Sessions : client'[k] = "none" =>
          k \notin loops' /\ k \notin told' /\ queue'[k] = <<>>
    BY <1>1, <1>2 DEF ClientsOK
  <2>2. \A k \in Sessions : (\E n \in DOMAIN queue'[k] : queue'[k][n] = "bye") => k \in told'
    BY <1>1, <1>2 DEF ClientsOK
  <2> QED
    BY <1>2, <2>1, <2>2 DEF ClientsOK
<1>6. StatusOK'
  BY <1>1, <1>2 DEF StatusOK
<1> QED
  BY <1>2, <1>3, <1>4, <1>5, <1>6, LifeStepOK

LEMMA StoppedOK ==
  ASSUME IInv, StopEnd
  PROVE  IInv'
<1>1. /\ LifeTyped /\ ClientsOK /\ StatusOK /\ TypesOK /\ left \in [Limits -> Nat]
  BY LifeTypes, TypesHere DEF IInv
<1>2. /\ stopping /\ status' = "dormant" /\ stopping' = FALSE
      /\ UNCHANGED <<dataVars, handle, client, told, queue, loops, starting, late, left>>
  BY DEF StopEnd
<1>3. LifeTyped' /\ left' \in [Limits -> Nat]
  BY <1>1, <1>2 DEF LifeTyped
<1>4. starting' = starting /\ (Rebuilding' <=> Rebuilding)
  BY <1>2 DEF Rebuilding
<1>5. ClientsOK'
  BY <1>1, <1>2 DEF ClientsOK
<1>6. StatusOK'
  BY <1>1, <1>2 DEF StatusOK
<1> QED
  BY <1>2, <1>3, <1>4, <1>5, <1>6, LifeStepOK

LEMMA ClientsStepOK ==
  ASSUME IInv, NEW s \in Sessions, ClientStep(s)
  PROVE  IInv'
<1>1. /\ LifeTyped /\ ClientsOK /\ StatusOK /\ TypesOK /\ left \in [Limits -> Nat]
  BY LifeTypes, TypesHere DEF IInv
<1>2. PICK e \in Events, st \in {"trying", "up", "closed"} :
        /\ client[s] # "none" /\ (e = "bye" => s \in told)
        /\ client' = [client EXCEPT ![s] = st] /\ queue' = [queue EXCEPT ![s] = Append(@, e)]
  BY DEF ClientStep, ClientConnects, ClientLoses, ClientEnds, Emits, Events
<1>3. /\ UNCHANGED <<dataVars, status, handle, told, loops, starting, stopping, late>>
      /\ left' = left \/ Spend("drops")
  BY DEF ClientStep, ClientConnects, ClientLoses, ClientEnds
<1>4. /\ queue[s] \in Seq(Events) /\ queue' \in [Sessions -> Seq(Events)]
      /\ queue'[s] = Append(queue[s], e)
      /\ \A k \in Sessions \ {s} : queue'[k] = queue[k]
  BY <1>1, <1>2 DEF LifeTyped
<1>5. /\ client' \in [Sessions -> {"none", "trying", "up", "closed"}]
      /\ \A k \in Sessions : client'[k] = "none" => k # s /\ client[k] = "none"
  BY <1>1, <1>2 DEF LifeTyped
<1>6. LifeTyped' /\ left' \in [Limits -> Nat]
  BY <1>1, <1>3, <1>4, <1>5, SpendIs DEF LifeTyped, Limits
<1>7. starting' = starting /\ (Rebuilding' <=> Rebuilding)
  BY <1>3 DEF Rebuilding
<1>8. ClientsOK'
  <2>1. \A k \in Sessions : client'[k] = "none" =>
          k \notin loops' /\ k \notin told' /\ queue'[k] = <<>>
    BY <1>1, <1>3, <1>4, <1>5 DEF ClientsOK
  <2>2. ASSUME NEW k \in Sessions, NEW n \in DOMAIN queue'[k], queue'[k][n] = "bye"
        PROVE  k \in told'
    <3>1. CASE k # s
      BY <1>1, <1>3, <1>4, <2>2, <3>1 DEF ClientsOK
    <3>2. CASE k = s
      <4>1. n \in 1..(Len(queue[s]) + 1) /\ Len(queue[s]) \in Nat
        BY <1>4, <2>2, <3>2
      <4>2. CASE n = Len(queue[s]) + 1
        <5>1. queue'[s][n] = e
          BY <1>4, <4>2
        <5> QED
          BY <1>2, <1>3, <2>2, <3>2, <5>1
      <4>3. CASE n # Len(queue[s]) + 1
        <5>1. n \in 1..Len(queue[s])
          BY <4>1, <4>3
        <5>2. n \in DOMAIN queue[s] /\ Append(queue[s], e)[n] = queue[s][n]
          BY <1>4, <5>1
        <5>3. queue[s][n] = "bye"
          BY <1>4, <2>2, <3>2, <5>2
        <5> QED
          BY <1>1, <1>3, <3>2, <5>2, <5>3 DEF ClientsOK
      <4> QED
        BY <4>2, <4>3
    <3> QED
      BY <3>1, <3>2
  <2>3. handle' # None => handle' \in loops' \ told'
    BY <1>1, <1>3 DEF ClientsOK
  <2> QED
    BY <2>1, <2>2, <2>3 DEF ClientsOK
<1>9. StatusOK'
  BY <1>1, <1>3 DEF StatusOK
<1> QED
  BY <1>3, <1>6, <1>7, <1>8, <1>9, LifeStepOK

LEMMA EventOK ==
  ASSUME IInv, NEW s \in Sessions, run_event_loop(s)
  PROVE  IInv'
<1>1. /\ LifeTyped /\ ClientsOK /\ StatusOK /\ TypesOK /\ left \in [Limits -> Nat]
  BY LifeTypes, TypesHere DEF IInv
<1> DEFINE e == Head(queue[s])
<1>2. /\ s \in loops /\ queue[s] # <<>>
      /\ status' = CASE e = "connected" -> "active"
                     [] e = "lost"      -> "reconnecting"
                     [] e = "bye"       -> "dormant"
      /\ loops' = IF e = "bye" THEN loops \ {s} ELSE loops
      /\ queue' = [queue EXCEPT ![s] = Tail(@)]
      /\ late' = (late \/ (handle # s /\ (handle # None \/ starting # None \/ stopping)))
      /\ UNCHANGED <<dataVars, handle, client, told, starting, stopping, left>>
  BY DEF run_event_loop
<1>3. /\ queue[s] \in Seq(Events) /\ Len(queue[s]) \in Nat \ {0}
      /\ e = queue[s][1] /\ e \in Events /\ Tail(queue[s]) \in Seq(Events)
      /\ \A n \in DOMAIN Tail(queue[s]) :
           n + 1 \in DOMAIN queue[s] /\ Tail(queue[s])[n] = queue[s][n + 1]
  <2>1. queue[s] \in Seq(Events) /\ queue[s] # <<>>
    BY <1>1, <1>2 DEF LifeTyped
  <2> QED
    BY <2>1
<1>4. /\ queue' \in [Sessions -> Seq(Events)] /\ queue'[s] = Tail(queue[s])
      /\ \A k \in Sessions \ {s} : queue'[k] = queue[k]
  BY <1>1, <1>2, <1>3 DEF LifeTyped
<1>5. e = "bye" => s \in told
  BY <1>1, <1>3 DEF ClientsOK
<1>6. status' \in {"active", "reconnecting", "dormant"} /\ (status' = "dormant" <=> e = "bye")
  BY <1>2, <1>3 DEF Events
<1> HIDE DEF e
<1>7. LifeTyped'
  BY <1>1, <1>2, <1>4, <1>6 DEF LifeTyped
<1>8. starting' = starting /\ (Rebuilding' <=> Rebuilding)
  BY <1>2 DEF Rebuilding
<1>9. ClientsOK'
  <2>1. \A k \in Sessions : client'[k] = "none" =>
          k \notin loops' /\ k \notin told' /\ queue'[k] = <<>>
    BY <1>1, <1>2, <1>4 DEF ClientsOK
  <2>2. ASSUME NEW k \in Sessions, NEW n \in DOMAIN queue'[k], queue'[k][n] = "bye"
        PROVE  k \in told'
    BY <1>1, <1>2, <1>3, <1>4, <2>2 DEF ClientsOK
  <2>3. handle' # None => handle' \in loops' \ told'
    BY <1>1, <1>2, <1>5 DEF ClientsOK
  <2> QED
    BY <2>1, <2>2, <2>3 DEF ClientsOK
<1>10. StatusOK'
  <2> SUFFICES ASSUME ~late' PROVE StatusOK'
    BY DEF StatusOK
  <2>1. ~late /\ (handle = s \/ (handle = None /\ starting = None /\ ~stopping))
    BY <1>1, <1>2 DEF LifeTyped
  <2>2. CASE handle = s
    <3>1. s # None /\ s \notin told /\ starting = None /\ ~stopping
      BY <1>1, <2>1, <2>2, NoneAssumption DEF ClientsOK, StatusOK
    <3> QED
      BY <1>2, <1>5, <1>6, <2>2, <3>1 DEF StatusOK
  <2>3. CASE handle = None /\ starting = None /\ ~stopping
    BY <1>2, <1>6, <2>3 DEF StatusOK
  <2> QED
    BY <2>1, <2>2, <2>3
<1> QED
  BY <1>1, <1>2, <1>7, <1>8, <1>9, <1>10, LifeStepOK

-----------------------------------------------------------------------------
(* Responders, deletions and the end of the program.                           *)

LEMMA ContactsKept ==
  ASSUME IInv, UNCHANGED <<rowVars, indexVars, cmd, hand, lifeVars, built, raced>>,
         left' \in [Limits -> Nat]
  PROVE  IInv'
<1>1. UNCHANGED dataVars /\ starting' = starting /\ UNCHANGED lifeVars
  BY DEF dataVars, lifeVars
<1>2. LifeTyped'
  BY <1>1, LifeTypes DEF IInv, LifeTyped, lifeVars
<1>3. ClientsOK' /\ StatusOK'
  BY <1>1, LifeFrame DEF IInv
<1> QED
  BY <1>1, <1>2, <1>3, LifeStepOK DEF Rebuilding

LEMMA ContactVarsKept ==
  ASSUME IInv, UNCHANGED contactVars
  PROVE  IInv'
<1>1. UNCHANGED <<rowVars, indexVars, cmd, hand, lifeVars, built, raced>> /\ left' = left
  BY DEF contactVars, vars, rowVars, indexVars, lifeVars
<1> QED
  BY <1>1, ContactsKept, TypesHere DEF IInv

LEMMA RespondingOK ==
  ASSUME IInv, NEW t \in ThreadIds, ResponderStep(t)
  PROVE  IInv'
<1>1. CASE LookFails(t) \/ GenerationFails(t) \/ StoringFails(t)
  <2>1. Spend("faults")
    BY <1>1 DEF LookFails, GenerationFails, StoringFails
  <2>2. UNCHANGED <<rowVars, indexVars, cmd, hand, lifeVars, built, raced>>
    BY <1>1 DEF LookFails, GenerationFails, StoringFails, keptByFault
  <2> QED
    BY <2>1, <2>2, SpendIs, ContactsKept DEF IInv, Limits
<1>2. CASE ~(LookFails(t) \/ GenerationFails(t) \/ StoringFails(t))
  <2>1. UNCHANGED contactVars
    BY <1>2 DEF ResponderStep, LookForUnanswered, GenerateResponse, SaveResponse, PostResponse,
                ReleaseThread, keptByResponder
  <2> QED
    BY <2>1, ContactVarsKept
<1> QED
  BY <1>1, <1>2

LEMMA DeletionOK ==
  ASSUME IInv, NEW t \in ThreadIds,
         delete_thread(t) \/ clear_thread_messages(t) \/ clear_my_chat_messages(t)
  PROVE  IInv'
<1>1. /\ Spend("deletions")
      /\ UNCHANGED <<rowVars, indexVars, cmd, hand, lifeVars, built, raced>>
  BY DEF delete_thread, clear_thread_messages, clear_my_chat_messages, keptByDelete
<1> QED
  BY <1>1, SpendIs, ContactsKept DEF IInv, Limits

LEMMA RestartedOK ==
  ASSUME IInv, Restart
  PROVE  IInv'
<1>1. /\ Spend("restarts") /\ contacts' = contacts
      /\ peer_keys' = {} /\ index' = [p \in Peers |-> None]
      /\ cmd' = [c \in Commands |-> None] /\ main' = None /\ hand' = [s \in Sessions |-> None]
      /\ status' = "dormant" /\ handle' = None /\ loops' = {} /\ told' = {}
      /\ client' = [s \in Sessions |-> "none"] /\ queue' = [s \in Sessions |-> <<>>]
      /\ starting' = None /\ stopping' = FALSE
      /\ built' = FALSE /\ raced' = {} /\ late' = FALSE
  BY DEF Restart
<1>2. RowsTyped' /\ left' \in [Limits -> Nat]
  BY <1>1, TypesHere, SpendIs DEF IInv, Limits
<1>3. LifeTyped' /\ KeysTyped'
  <2>1. queue' \in [Sessions -> Seq(Events)]
    BY <1>1
  <2>2. LifeTyped'
    BY <1>1, <2>1 DEF LifeTyped
  <2>3. KeysTyped'
    BY <1>1 DEF KeysTyped
  <2> QED
    BY <2>2, <2>3
<1>4. TypesOK'
  BY <1>1, <1>2, <1>3, LifeTypes
<1>5. AcceptOK'
  BY <1>1 DEF IInv, AcceptOK, AcceptedByUser, Working
<1>6. ASSUME NEW j \in Ids PROVE IdOK(j)'
  <2>1. ~Removing(j)' /\ ~Changing(j)' /\ ~Rebuilding'
    BY <1>1 DEF Removing, Changing, CmdOn, HandOn, Rebuilding
  <2>2. ~Approving(j)' /\ ~Registering(j)' /\ ~Befriending(j)'
    BY <2>1, ChangingIs
  <2>3. RowsOK(j)' /\ KeysOK(j)'
    BY <1>1, <2>2 DEF RowsOK, KeysOK
  <2> QED
    BY <2>1, <2>3, Alone
<1>7. IndexOK'
  BY <1>1, <1>6 DEF IndexOK
<1>8. ClientsOK'
  BY <1>1 DEF ClientsOK
<1>9. StatusOK'
  BY <1>1 DEF StatusOK
<1> QED
  BY <1>4, <1>5, <1>7, <1>8, <1>9 DEF IInv

LEMMA InitOK ==
  ASSUME Init
  PROVE  IInv
<1>1. /\ contacts = [i \in Ids |-> None] /\ peer_keys = {} /\ index = [p \in Peers |-> None]
      /\ cmd = [c \in Commands |-> None] /\ main = None /\ hand = [s \in Sessions |-> None]
      /\ status = "dormant" /\ handle = None /\ client = [s \in Sessions |-> "none"]
      /\ told = {} /\ queue = [s \in Sessions |-> <<>>] /\ loops = {}
      /\ starting = None /\ stopping = FALSE
      /\ built = FALSE /\ raced = {} /\ late = FALSE /\ left \in [Limits -> Nat]
  BY ContactsAssumption DEF Init
<1>2. TypesOK
  <2>1. queue \in [Sessions -> Seq(Events)]
    BY <1>1
  <2> QED
    BY <1>1, <2>1 DEF TypesOK, ContactsTypeOK
<1>3. AcceptOK
  BY <1>1 DEF AcceptOK, AcceptedByUser, Working
<1>4. ASSUME NEW j \in Ids PROVE IdOK(j)
  <2>1. ~Removing(j) /\ ~Changing(j) /\ ~Rebuilding
    BY <1>1 DEF Removing, Changing, CmdOn, HandOn, Rebuilding
  <2>2. ~Approving(j) /\ ~Registering(j) /\ ~Befriending(j)
    BY <2>1, ChangingIs
  <2> QED
    BY <1>1, <2>1, <2>2 DEF IdOK, RemovalOK, RowsOK, KeysOK, RebuildOK
<1>5. IndexOK
  BY <1>1, <1>4 DEF IndexOK
<1>6. ClientsOK /\ StatusOK
  BY <1>1 DEF ClientsOK, StatusOK
<1> QED
  BY <1>2, <1>3, <1>5, <1>6 DEF IInv

-----------------------------------------------------------------------------
(* The invariant and what follows from it.                                     *)

LEMMA ContactStepOK ==
  ASSUME IInv, ContactStep
  PROVE  IInv'
<1>1. ASSUME NEW c \in Commands, CommandStep(c) PROVE IInv'
  BY <1>1, ApprovedOK, InvitedOK, RegisteredOK, FriendStoredOK, IssuesOK DEF CommandStep
<1>2. ASSUME NEW s \in Sessions, LoopStep(s) PROVE IInv'
  BY <1>2, HeardOK, IntroducedOK, IntroducedKeyOK, KnownReadOK, KnownAnsweredOK, EventOK
     DEF LoopStep
<1>3. CASE LifeStep
  BY <1>3, StartBegunOK, ListedOK, StartFailedOK, RebuiltOK, StartedOK, StopBegunOK, StoppedOK
     DEF LifeStep
<1> QED
  BY <1>1, <1>2, <1>3, ClientsStepOK, KeyForgottenOK, ContactDeletedOK DEF ContactStep

(* The inductive invariant holds in every reachable state.                     *)
THEOREM Inductive == SecretarySpec => []IInv
<1>1. SecretaryInit => IInv
  BY InitOK DEF SecretaryInit
<1>2. IInv /\ [SecretaryNext]_allVars => IInv'
  <2> SUFFICES ASSUME IInv, [SecretaryNext]_allVars PROVE IInv'
    OBVIOUS
  <2>1. CASE ContactStep
    BY <2>1, ContactStepOK
  <2>2. CASE SecretaryRestart
    BY <2>2, RestartedOK DEF SecretaryRestart
  <2>3. ASSUME NEW s \in Sessions,
               \/ \E m \in Incoming : handle_incoming_envelope(s, m)
               \/ FindThread(s) \/ StoreMessage(s) \/ AutoRespond(s)
        PROVE  IInv'
    BY <2>3, EnvelopeOK, ThreadFoundOK, MessageStoredOK, RespondedOK
  <2>4. ASSUME NEW t \in ThreadIds,
               \/ ResponderStep(t)
               \/ delete_thread(t) \/ clear_thread_messages(t) \/ clear_my_chat_messages(t)
        PROVE  IInv'
    BY <2>4, RespondingOK, DeletionOK
  <2>5. ASSUME NEW c \in Commands,
               FindOwnThread(c) \/ CreateOwnThread(c) \/ StoreOwnMessage(c)
        PROVE  IInv'
    BY <2>5, OwnMessageOK
  <2>6. CASE UNCHANGED allVars
    BY <2>6, ContactVarsKept DEF allVars, contactVars
  <2> QED
    BY <2>1, <2>2, <2>3, <2>4, <2>5, <2>6 DEF SecretaryNext
<1> QED
  BY <1>1, <1>2, PTL DEF SecretarySpec

(* A contact is accepted only when the user agreed to this very row, although  *)
(* the event loop updates a row it has read before; and when nothing is under  *)
(* way on a contact, and no removal or rebuild ran beside another change of    *)
(* it, relay ids and keys in memory are those of the table                     *)
(* (relay/manager/peers.rs, relay/secretary.rs, commands/relay_commands.rs).   *)
THEOREM ContactsAreAgreedAndIndexed == SecretarySpec => []ContactsSound
<1>1. IInv => ContactsSound
  <2> SUFFICES ASSUME IInv PROVE IndexAgrees
    BY DEF IInv, AcceptOK, ContactsSound
  <2> SUFFICES ASSUME ~Rebuilding, NEW i \in Ids \ raced, ~Busy(i)
               PROVE  /\ i \in peer_keys => contacts[i] # None
                      /\ index[KeyOf(i)] = i => i \in peer_keys
                      /\ contacts[i] # None /\ built => i \in peer_keys
                      /\ i \in peer_keys =>
                           index[KeyOf(i)] # None /\ index[KeyOf(i)] \in peer_keys \union raced
    BY DEF IndexAgrees
  <2>1. TypesOK /\ IndexOK /\ IdOK(i)
    BY DEF IInv, IndexOK
  <2>2. ~Changing(i) /\ ~Removing(i)
    BY <2>1, BusyIs DEF Busy, Flows, Removing
  <2>3. ~Registering(i) /\ ~Befriending(i)
    BY <2>2, ChangingIs
  <2>4. /\ i \in peer_keys => contacts[i] # None
        /\ contacts[i] # None /\ built => i \in peer_keys
        /\ i \in peer_keys => index[KeyOf(i)] # None
    BY <2>1, <2>2, <2>3 DEF IdOK, KeysOK
  <2>5. KeyOf(i) \in Peers /\ i # None
    BY KeyOfIs, NoneAssumption
  <2>6. index[KeyOf(i)] # None => index[KeyOf(i)] \in peer_keys
    BY <2>1, <2>5 DEF IndexOK
  <2> QED
    BY <2>4, <2>5, <2>6
<1> QED
  BY <1>1, Inductive, PTL

(* When start and stop are done and old sessions have said farewell, the       *)
(* status the window shows is that of the session in use.  Excepted are an     *)
(* event of an old session that is handled after the next start began (late),  *)
(* and a start that failed, which leaves "starting" with no session at all     *)
(* (relay/manager/lifecycle.rs, relay/manager/event_loop.rs).                  *)
THEOREM StatusTellsOfTheSession == SecretarySpec => []StatusIsOfSession
<1>1. IInv => StatusIsOfSession
  <2> SUFFICES ASSUME IInv, starting = None, ~stopping, loops \subseteq {handle}, ~late
               PROVE  IF handle = None THEN status \in {"dormant", "starting"}
                      ELSE status \in {"active", "reconnecting"} /\ handle \in loops \ told
    BY DEF StatusIsOfSession
  <2>1. CASE handle = None
    <3>1. loops = {}
      BY <2>1, NoneAssumption DEF IInv, TypesOK, ContactsTypeOK
    <3> QED
      BY <2>1, <3>1 DEF IInv, StatusOK
  <2>2. CASE handle # None
    BY <2>2 DEF IInv, StatusOK, ClientsOK
  <2> QED
    BY <2>1, <2>2
<1> QED
  BY <1>1, Inductive, PTL

-----------------------------------------------------------------------------
(* Part two: threads, messages and responders.  What Kept keeps of a sequence. *)

(* A set that has 0 and with each number the next has every number.           *)
LEMMA FromZeroOn ==
  ASSUME NEW S, 0 \in S, \A n \in Nat : n \in S => n + 1 \in S
  PROVE  Nat \subseteq S
<1> DEFINE T == Nat \ S
<1>1. SUFFICES ASSUME T # {} PROVE FALSE
  OBVIOUS
<1>2. PICK x \in T : \A y \in T : ~(<<y, x>> \in OpToRel(<, Nat))
  BY <1>1, NatLessThanWellFounded, WFMin
<1>3. \A y \in T : ~(y < x)
  <2>1. \A y \in T : y \in Nat /\ x \in Nat /\ (y < x => <<y, x>> \in OpToRel(<, Nat))
    BY DEF OpToRel
  <2> QED
    BY <1>2, <2>1
<1> QED
  BY <1>3

(* The kept part is defined, position by position.                             *)
LEMMA KeptOfIs ==
  ASSUME NEW s, Len(s) \in Nat, NEW S
  PROVE  /\ KeptOf(s, S)[0] = <<>>
         /\ \A k \in 1..Len(s) :
              KeptOf(s, S)[k] = IF s[k] \in S THEN Append(KeptOf(s, S)[k - 1], s[k])
                                ELSE KeptOf(s, S)[k - 1]
<1> DEFINE n == Len(s)
<1> DEFINE Next1(q, k) == IF s[k] \in S THEN Append(q, s[k]) ELSE q
<1> DEFINE P(k, f) == /\ DOMAIN f = 0..n /\ f[0] = <<>>
                      /\ \A i \in 1..n : i <= k => f[i] = Next1(f[i - 1], i)
<1> DEFINE Z == {k \in Nat : \E f : f = [i \in 0..n |-> f[i]] /\ P(k, f)}
<1> HIDE DEF Next1
<1>1. 0 \in Z
  <2> DEFINE f == [i \in 0..n |-> <<>>]
  <2>1. f = [i \in 0..n |-> f[i]] /\ P(0, f)
    OBVIOUS
  <2> QED
    BY <2>1
<1>2. ASSUME NEW k \in Nat, k \in Z PROVE k + 1 \in Z
  <2>1. PICK f : f = [i \in 0..n |-> f[i]] /\ P(k, f)
    BY <1>2
  <2> DEFINE g == [i \in 0..n |-> IF i = k + 1 THEN Next1(f[k], i) ELSE f[i]]
  <2>3. g = [i \in 0..n |-> g[i]] /\ DOMAIN g = 0..n
    OBVIOUS
  <2>4. \A i \in 0..n : i # k + 1 => g[i] = f[i]
    OBVIOUS
  <2>5. k + 1 \in 0..n => g[k + 1] = Next1(f[k], k + 1)
    OBVIOUS
  <2> HIDE DEF g
  <2>6. g[0] = <<>>
    BY <2>1, <2>4
  <2>7. ASSUME NEW i \in 1..n, i <= k + 1
        PROVE  g[i] = Next1(g[i - 1], i)
    <3>1. CASE i = k + 1
      BY <2>4, <2>5, <3>1
    <3>2. CASE i # k + 1
      <4>1. i <= k /\ i \in 0..n /\ i - 1 \in 0..n /\ i - 1 # k + 1
        BY <2>7, <3>2
      <4>2. g[i] = f[i] /\ g[i - 1] = f[i - 1]
        BY <2>4, <3>2, <4>1
      <4>3. f[i] = Next1(f[i - 1], i)
        BY <2>1, <4>1
      <4> QED
        BY <4>2, <4>3
    <3> QED
      BY <3>1, <3>2
  <2>8. P(k + 1, g)
    BY <2>3, <2>6, <2>7
  <2> HIDE DEF P
  <2> QED
    BY <2>3, <2>8
<1>3. n \in Z
  <2> HIDE DEF Z
  <2> QED
    BY <1>1, <1>2, FromZeroOn
<1>4. PICK f : f = [i \in 0..n |-> f[i]] /\ P(n, f)
  BY <1>3
<1>5. f = [i \in 0..n |-> IF i = 0 THEN <<>>
                          ELSE IF s[i] \in S THEN Append(f[i - 1], s[i]) ELSE f[i - 1]]
  BY <1>4 DEF Next1
<1>6. KeptOf(s, S)
        = [i \in 0..n |-> IF i = 0 THEN <<>>
                          ELSE IF s[i] \in S THEN Append(KeptOf(s, S)[i - 1], s[i])
                               ELSE KeptOf(s, S)[i - 1]]
  BY <1>5 DEF KeptOf
<1> DEFINE K == KeptOf(s, S)
<1>7. K = [i \in 0..n |-> IF i = 0 THEN <<>>
                          ELSE IF s[i] \in S THEN Append(K[i - 1], s[i]) ELSE K[i - 1]]
  BY <1>6
<1> HIDE DEF K
<1>8. K[0] = <<>>
  BY <1>7
<1>9. ASSUME NEW k \in 1..n
      PROVE  K[k] = IF s[k] \in S THEN Append(K[k - 1], s[k]) ELSE K[k - 1]
  <2>1. k \in 0..n /\ k # 0
    OBVIOUS
  <2> QED
    BY <1>7, <2>1
<1> QED
  BY <1>8, <1>9 DEF K

(* The kept sequence is the kept elements in their order: position i of it is  *)
(* position e[i] of the whole.                                                 *)
Embeds(e, r, s, n, S) ==
  /\ e \in [1..Len(r) -> 1..n]
  /\ \A i, j \in 1..Len(r) : i < j => e[i] < e[j]
  /\ \A i \in 1..Len(r) : r[i] = s[e[i]] /\ s[e[i]] \in S
  /\ \A k \in 1..n : s[k] \in S => \E i \in 1..Len(r) : e[i] = k

LEMMA KeptIs ==
  ASSUME NEW T, NEW s \in Seq(T), NEW S
  PROVE  Kept(s, S) \in Seq(T) /\ \E e : Embeds(e, Kept(s, S), s, Len(s), S)
<1> DEFINE K == KeptOf(s, S)
<1> DEFINE OK(k) == K[k] \in Seq(T) /\ \E e : Embeds(e, K[k], s, k, S)
<1> DEFINE Z == {k \in Nat : k <= Len(s) => OK(k)}
<1>0. /\ Len(s) \in Nat /\ K[0] = <<>>
      /\ \A k \in 1..Len(s) : K[k] = IF s[k] \in S THEN Append(K[k - 1], s[k]) ELSE K[k - 1]
  BY KeptOfIs
<1> HIDE DEF K
<1>1. 0 \in Z
  <2>1. Embeds(<<>>, <<>>, s, 0, S)
    BY DEF Embeds
  <2>2. OK(0)
    BY <1>0, <2>1
  <2> QED
    BY <2>2
<1>2. ASSUME NEW k \in Nat, k \in Z PROVE k + 1 \in Z
  <2>1. SUFFICES ASSUME k + 1 <= Len(s) PROVE OK(k + 1)
    OBVIOUS
  <2>2. PICK e : K[k] \in Seq(T) /\ Embeds(e, K[k], s, k, S)
    BY <1>0, <1>2, <2>1
  <2>3. k + 1 \in 1..Len(s) /\ (k + 1) - 1 = k /\ s[k + 1] \in T
    BY <1>0, <2>1, ElementOfSeq
  <2> DEFINE r == K[k]
  <2> DEFINE n == Len(r)
  <2>4. n \in Nat
    BY <2>2
  <2>5. CASE s[k + 1] \notin S
    <3>1. K[k + 1] = r
      BY <1>0, <2>3, <2>5
    <3>2. Embeds(e, r, s, k + 1, S)
      BY <2>2, <2>4, <2>5 DEF Embeds
    <3> QED
      BY <2>2, <3>1, <3>2
  <2>6. CASE s[k + 1] \in S
    <3>1. K[k + 1] = Append(r, s[k + 1])
      BY <1>0, <2>3, <2>6
    <3> DEFINE q == Append(r, s[k + 1])
    <3>2. q \in Seq(T) /\ Len(q) = n + 1 /\ q[n + 1] = s[k + 1] /\ \A i \in 1..n : q[i] = r[i]
      BY <2>2, <2>3
    <3> DEFINE f == [i \in 1..n + 1 |-> IF i = n + 1 THEN k + 1 ELSE e[i]]
    <3>0. n + 1 \in 1..n + 1 /\ \A i \in 1..n : i \in 1..n + 1 /\ i # n + 1
      BY <2>4
    <3>10. \A i \in 1..n : e[i] \in 1..k
      BY <2>2 DEF Embeds
    <3>3. f[n + 1] = k + 1 /\ \A i \in 1..n : f[i] = e[i] /\ e[i] \in 1..k
      BY <3>0, <3>10
    <3>4. f = [i \in 1..n + 1 |-> f[i]]
      OBVIOUS
    <3> HIDE DEF f, q
    <3>11. \A i \in 1..n + 1 : i = n + 1 \/ i \in 1..n
      BY <2>4
    <3>12. \A i \in 1..n + 1 : f[i] \in 1..k + 1
      BY <2>4, <3>3, <3>11
    <3>13. f \in [1..n + 1 -> 1..k + 1]
      BY <3>4, <3>12
    <3>5. \A i, j \in 1..n + 1 : i < j => f[i] < f[j]
      <4>1. SUFFICES ASSUME NEW i \in 1..n + 1, NEW j \in 1..n + 1, i < j PROVE f[i] < f[j]
        OBVIOUS
      <4>2. i \in 1..n
        BY <2>4, <4>1
      <4>3. CASE j = n + 1
        BY <3>3, <4>2, <4>3
      <4>4. CASE j # n + 1
        <5>1. j \in 1..n
          BY <2>4, <4>4
        <5> QED
          BY <2>2, <3>3, <4>1, <4>2, <5>1 DEF Embeds
      <4> QED
        BY <4>3, <4>4
    <3>6. ASSUME NEW i \in 1..n + 1 PROVE q[i] = s[f[i]] /\ s[f[i]] \in S
      <4>1. CASE i = n + 1
        BY <2>6, <3>2, <3>3, <4>1
      <4>2. CASE i # n + 1
        <5>1. i \in 1..n
          BY <2>4, <4>2
        <5> QED
          BY <2>2, <3>2, <3>3, <5>1 DEF Embeds
      <4> QED
        BY <4>1, <4>2
    <3>7. ASSUME NEW j \in 1..k + 1, s[j] \in S PROVE \E i \in 1..n + 1 : f[i] = j
      <4>1. CASE j = k + 1
        BY <2>4, <3>3, <4>1
      <4>2. CASE j # k + 1
        <5>1. j \in 1..k
          BY <4>2
        <5>2. PICK i \in 1..n : e[i] = j
          BY <2>2, <3>7, <5>1 DEF Embeds
        <5> QED
          BY <2>4, <3>3, <5>2
      <4> QED
        BY <4>1, <4>2
    <3>8. Embeds(f, q, s, k + 1, S)
      BY <2>4, <3>2, <3>13, <3>5, <3>6, <3>7 DEF Embeds
    <3> QED
      BY <3>1, <3>2, <3>8 DEF q
  <2> QED
    BY <2>5, <2>6
<1>3. Len(s) \in Z
  <2> HIDE DEF Z
  <2> QED
    BY <1>0, <1>1, <1>2, FromZeroOn
<1> QED
  BY <1>0, <1>3 DEF K, Kept

-----------------------------------------------------------------------------
(* The inductive invariant of the mail.                                        *)

Thread == [tid : ThreadIds, uid : Nat \ {0}, agent : Named \union {None}]
Message == [id : Incoming \union {None}, tid : ThreadIds, out : BOOLEAN,
            corr : Incoming \union {None}, agent : Agents \union Named \union {None},
            posted : BOOLEAN]
Task == [pc : {"look", "generate", "save", "post", "release"}, id : Ids,
         msg : Incoming \union {None}, agent : Agents \union Named \union {None}]

(* A message of the peer has an id and answers nothing here; one of this node  *)
(* has none, and when it is an answer an agent made it.                        *)
MessageOK(msg) ==
  /\ msg \in Message
  /\ ~msg.out => msg.id # None /\ msg.corr = None
  /\ msg.out => msg.id = None /\ (msg.corr # None => msg.agent # None)
TaskOK(task) ==
  /\ task \in Task
  /\ task.pc \in {"generate", "save"} => task.msg # None
  /\ task.pc = "save" => task.agent # None

MailTypes ==
  /\ threads \in Seq(Thread) /\ messages \in Seq(Message)
  /\ \A k \in DOMAIN messages : MessageOK(messages[k])
  /\ DOMAIN responder \subseteq ThreadIds
  /\ \A t \in DOMAIN responder : TaskOK(responder[t])

TablesOK ==
  /\ \A k \in DOMAIN threads : \E i \in Ids : HasRow(i, threads[k].uid)
  /\ \A k \in DOMAIN messages : HasThread(messages[k].tid)
  /\ \A j, k \in DOMAIN messages : j # k /\ messages[j].id # None =>
       messages[j].id # messages[k].id

(* Row k is the message m of the peer, in thread t; or an answer to m.         *)
Asks(k, m, t) == ~messages[k].out /\ messages[k].id = m /\ messages[k].tid = t
Answers(k, m) == messages[k].out /\ messages[k].corr = m
Preparing(t, m) ==
  /\ t \in DOMAIN responder /\ responder[t].pc \in {"generate", "save"}
  /\ responder[t].msg = m /\ HasThread(t)

(* An answer comes after what it answers, in the same thread, and is the only  *)
(* one; what a responder is to answer is in its thread and has no answer yet.  *)
AnswersOK ==
  \A m \in Incoming \ cleared :
    /\ \A j \in DOMAIN messages : Answers(j, m) =>
         \E k \in DOMAIN messages : k < j /\ Asks(k, m, messages[j].tid)
    /\ \A j, k \in DOMAIN messages : Answers(j, m) /\ Answers(k, m) => j = k
    /\ \A t \in ThreadIds : Preparing(t, m) =>
         /\ \E k \in DOMAIN messages : Asks(k, m, t)
         /\ \A j \in DOMAIN messages : ~Answers(j, m)

(* WaitsForResponder, of the very thread the message is in.                    *)
Served(k) ==
  \/ messages[k].tid \in DOMAIN responder /\ responder[messages[k].tid].pc # "release"
  \/ \E s \in Sessions : /\ Working(s, "decide") /\ hand[s].msg = messages[k].id
                         /\ hand[s].tid = messages[k].tid
WaitsOK ==
  \A k \in DOMAIN messages :
    (~messages[k].out /\ messages[k].id \notin excused
       /\ messages[k].id \notin AllAnswered(messages[k].tid)) => Served(k)

MailInv == MailTypes /\ TablesOK /\ AnswersOK /\ AnswersArePosted /\ WaitsOK

-----------------------------------------------------------------------------
(* Reading the tables.                                                         *)

LEMMA AnsweredMeans ==
  ASSUME NEW t, NEW x
  PROVE  /\ x \in AllAnswered(t) <=>
              \E j \in DOMAIN messages : messages[j].tid = t /\ Answers(j, x)
         /\ x \in AllAnswered(t)' <=>
              \E j \in DOMAIN messages' : messages'[j].tid = t /\ Answers(j, x)'
  BY DEF AllAnswered, Messages, Answers

LEMMA UnansweredMeans ==
  ASSUME NEW t, NEW k \in DOMAIN messages, messages[k].tid = t, ~messages[k].out,
         messages[k].id \notin AllAnswered(t)
  PROVE  messages[k].id \in AllUnanswered(t)
  BY DEF AllUnanswered, Messages

(* What a responder takes up is in its thread, and no later message there      *)
(* answers it: an answer within the recent messages it would have seen.        *)
LEMMA TakenUp ==
  ASSUME MailTypes, NEW t \in ThreadIds, Unanswered(t) # <<>>
  PROVE  \E k \in DOMAIN messages :
           /\ Asks(k, Unanswered(t)[1].id, t)
           /\ \A j \in DOMAIN messages : k < j /\ messages[j].tid = t =>
                ~Answers(j, Unanswered(t)[1].id)
<1> DEFINE A == {msg \in Messages : msg.tid = t}
           all == Kept(messages, A)
           recent == get_thread_messages_recent(t)
           U == {msg \in Messages : ~msg.out /\ msg.id \notin AnsweredIn(recent)}
           first == Unanswered(t)
           off == IF Len(all) <= Recent THEN 0 ELSE Len(all) - Recent
<1>1. PICK e : all \in Seq(Message) /\ Embeds(e, all, messages, Len(messages), A)
  BY KeptIs DEF MailTypes
<1>2. /\ Len(all) \in Nat /\ Recent \in Nat \ {0} /\ off \in Nat
      /\ recent = IF Len(all) <= Recent THEN all
                  ELSE SubSeq(all, Len(all) - Recent + 1, Len(all))
  BY <1>1, SecretaryAssumption DEF get_thread_messages_recent
<1> HIDE DEF all
<1>3. /\ recent \in Seq(Message) /\ Len(recent) + off = Len(all)
      /\ \A i \in 1..Len(recent) : recent[i] = all[i + off] /\ i + off \in 1..Len(all)
  <2>1. CASE Len(all) <= Recent
    BY <1>1, <1>2, <2>1
  <2>2. CASE ~(Len(all) <= Recent)
    <3> DEFINE lo == Len(all) - Recent + 1
               part == SubSeq(all, lo, Len(all))
    <3>1. lo \in 1..Len(all) /\ off = lo - 1 /\ recent = part
      BY <1>2, <2>2
    <3>2. /\ part \in Seq(Message) /\ Len(part) = Len(all) - lo + 1
          /\ \A i \in 1..Len(all) - lo + 1 : part[i] = all[lo + i - 1]
      BY <1>1, <1>2, <3>1, SubSeqProperties
    <3> HIDE DEF lo, part, off
    <3>3. Len(part) \in Nat /\ Len(part) + off = Len(all)
      BY <1>2, <3>1, <3>2
    <3>4. ASSUME NEW i \in 1..Len(part) PROVE part[i] = all[i + off] /\ i + off \in 1..Len(all)
      <4>1. i \in 1..Len(all) - lo + 1 /\ lo + i - 1 = i + off /\ i + off \in 1..Len(all)
        BY <1>2, <3>1, <3>2, <3>3
      <4> QED
        BY <3>2, <4>1
    <3> QED
      BY <3>1, <3>2, <3>3, <3>4
  <2> QED
    BY <2>1, <2>2
<1> HIDE DEF recent, off
<1>4. first = Kept(recent, U)
  BY DEF Unanswered, recent
<1>5. PICK f : first \in Seq(Message) /\ Embeds(f, first, recent, Len(recent), U)
  BY <1>3, <1>4, KeptIs
<1> HIDE DEF first
<1>6. 1 \in 1..Len(first)
  BY <1>5 DEF first
<1>7. f[1] \in 1..Len(recent) /\ first[1] = recent[f[1]] /\ first[1] \in U
  BY <1>5, <1>6 DEF Embeds
<1> DEFINE p == f[1] + off
           k == e[p]
<1>8. p \in 1..Len(all) /\ first[1] = all[p] /\ p = f[1] + off
  BY <1>3, <1>7
<1>9. k \in 1..Len(messages) /\ first[1] = messages[k] /\ messages[k] \in A
  BY <1>1, <1>8 DEF Embeds
<1>10. Asks(k, first[1].id, t)
  BY <1>7, <1>9 DEF Asks
<1>11. ASSUME NEW j \in DOMAIN messages, k < j, messages[j].tid = t
       PROVE  ~Answers(j, first[1].id)
  <2>1. j \in 1..Len(messages) /\ messages[j] \in A
    BY <1>11 DEF MailTypes, Messages
  <2>2. PICK i \in 1..Len(all) : e[i] = j
    BY <1>1, <2>1 DEF Embeds
  <2>3. p < i
    <3> SUFFICES ASSUME ~(p < i) PROVE FALSE
      OBVIOUS
    <3>1. i = p \/ i < p
      BY <1>2, <1>8
    <3>2. e[i] = e[p] \/ e[i] < e[p]
      BY <1>1, <1>8, <3>1 DEF Embeds
    <3> QED
      BY <1>9, <1>11, <2>1, <2>2, <3>2
  <2>4. i - off \in 1..Len(recent) /\ (i - off) + off = i
    <3>1. Len(recent) \in Nat /\ f[1] \in 1..Len(recent)
      BY <1>3, <1>7
    <3>2. i \in Nat /\ i <= Len(recent) + off /\ f[1] + off < i
      BY <1>2, <1>3, <1>8, <2>3
    <3> HIDE DEF p
    <3> QED
      BY <1>2, <3>1, <3>2
  <2>5. recent[i - off] = messages[j]
    BY <1>1, <1>3, <2>2, <2>4 DEF Embeds
  <2>6. Answers(j, first[1].id) => first[1].id \in AnsweredIn(recent)
    BY <1>3, <2>4, <2>5 DEF Answers, AnsweredIn
  <2> QED
    BY <1>7, <2>6
<1>12. k \in DOMAIN messages
  BY <1>9 DEF MailTypes
<1> QED
  BY <1>10, <1>11, <1>12 DEF first

LEMMA Rows ==
  ASSUME MailTypes
  PROVE  /\ Len(messages) \in Nat /\ DOMAIN messages = 1..Len(messages)
         /\ \A k \in DOMAIN messages : messages[k] \in Message /\ messages[k].tid \in ThreadIds
  BY DEF MailTypes, MessageOK, Message

(* Tasks that move while the tables stay: it is left to say what a new answer  *)
(* is prepared for, who posts, and who is served.                              *)
LEMMA TasksMove ==
  ASSUME MailInv, UNCHANGED <<contacts, threads, messages, cleared>>,
         DOMAIN responder' \subseteq ThreadIds,
         \A t \in DOMAIN responder' : TaskOK(responder'[t]),
         \A t \in ThreadIds, m \in Incoming \ cleared : Preparing(t, m)' =>
           \/ Preparing(t, m)
           \/ /\ \E k \in DOMAIN messages : Asks(k, m, t)
              /\ \A j \in DOMAIN messages : ~Answers(j, m),
         AnswersArePosted', WaitsOK'
  PROVE  MailInv'
<1>1. MailTypes'
  BY DEF MailInv, MailTypes
<1>2. TablesOK'
  BY DEF MailInv, TablesOK, HasThread, HasRow
<1>3. AnswersOK'
  <2> SUFFICES ASSUME NEW m \in Incoming \ cleared
               PROVE  /\ \A j \in DOMAIN messages : Answers(j, m) =>
                           \E k \in DOMAIN messages : k < j /\ Asks(k, m, messages[j].tid)
                      /\ \A j, k \in DOMAIN messages : Answers(j, m) /\ Answers(k, m) => j = k
                      /\ \A t \in ThreadIds : Preparing(t, m)' =>
                           /\ \E k \in DOMAIN messages : Asks(k, m, t)
                           /\ \A j \in DOMAIN messages : ~Answers(j, m)
    BY DEF AnswersOK, Asks, Answers
  <2> QED
    BY DEF MailInv, AnswersOK
<1> QED
  BY <1>1, <1>2, <1>3 DEF MailInv

(* Whoever was served still is, when only a responder that excuses what its    *)
(* thread has leaves.                                                          *)
LEMMA StillServed ==
  ASSUME MailInv, UNCHANGED messages, excused \subseteq excused',
         \A s \in Sessions : Working(s, "decide") =>
           \/ hand'[s] = hand[s]
           \/ hand[s].msg \in excused'
           \/ /\ hand[s].tid \in DOMAIN responder'
              /\ responder'[hand[s].tid].pc # "release",
         \A t \in DOMAIN responder : responder[t].pc # "release" =>
           \/ t \in DOMAIN responder' /\ responder'[t].pc # "release"
           \/ AllUnanswered(t) \subseteq excused'
  PROVE  WaitsOK'
<1> SUFFICES ASSUME NEW k \in DOMAIN messages, ~messages[k].out,
                    messages[k].id \notin excused',
                    messages[k].id \notin AllAnswered(messages[k].tid)'
             PROVE  Served(k)'
  BY DEF WaitsOK
<1> DEFINE t == messages[k].tid
<1>1. messages[k].id \notin AllAnswered(t)
  BY DEF AllAnswered, Messages
<1>2. Served(k) /\ messages[k].id \in AllUnanswered(t)
  BY <1>1, UnansweredMeans DEF MailInv, WaitsOK
<1>3. CASE t \in DOMAIN responder /\ responder[t].pc # "release"
  BY <1>2, <1>3 DEF Served
<1>4. ASSUME NEW s \in Sessions, Working(s, "decide"), hand[s].msg = messages[k].id,
             hand[s].tid = t
      PROVE  Served(k)'
  <2>1. CASE hand'[s] = hand[s]
    BY <1>4, <2>1 DEF Served, Working
  <2>2. CASE hand'[s] # hand[s]
    BY <1>4, <2>2 DEF Served
  <2> QED
    BY <2>1, <2>2
<1> QED
  BY <1>2, <1>3, <1>4 DEF Served

(* Tables, tasks and event loops that stay.                                    *)
LEMMA PostedStay ==
  ASSUME MailInv, UNCHANGED messages, stranded \subseteq stranded',
         \A t \in ThreadIds : Doing(t, "post") =>
           Doing(t, "post")' /\ responder'[t].msg = responder[t].msg
  PROVE  AnswersArePosted'
<1> SUFFICES ASSUME NEW k \in DOMAIN messages, messages[k].out, ~messages[k].posted
             PROVE  \/ messages[k].corr \in stranded'
                    \/ Doing(messages[k].tid, "post")'
                         /\ responder'[messages[k].tid].msg = messages[k].corr
  BY DEF AnswersArePosted
<1>1. messages[k].tid \in ThreadIds
  BY Rows DEF MailInv
<1> QED
  BY <1>1 DEF MailInv, AnswersArePosted

LEMMA TasksStay ==
  ASSUME MailInv, UNCHANGED <<contacts, threads, messages, responder, cleared, stranded>>,
         WaitsOK'
  PROVE  MailInv'
<1>1. AnswersArePosted'
  BY PostedStay DEF Doing
<1>2. \A t, m : Preparing(t, m)' => Preparing(t, m)
  BY DEF Preparing, HasThread
<1>3. DOMAIN responder \subseteq ThreadIds /\ \A t \in DOMAIN responder : TaskOK(responder[t])
  BY DEF MailInv, MailTypes
<1> QED
  BY <1>1, <1>2, <1>3, TasksMove

-----------------------------------------------------------------------------
(* Messages and threads that go.                                               *)

(* What is kept when messages go: threads L, and with a message what the       *)
(* invariant says of it.                                                       *)
ThreadsLeft(L) ==
  /\ threads' \in Seq(Thread) /\ L = {threads'[k].tid : k \in DOMAIN threads'}
  /\ \A k \in DOMAIN threads' :
       /\ \E n \in DOMAIN threads : threads[n] = threads'[k]
       /\ \E i \in Ids : contacts'[i] # None /\ contacts'[i].uid = threads'[k].uid
Spares(S, L) ==
  /\ \A k \in DOMAIN messages : messages[k] \in S => messages[k].tid \in L
  /\ \A j, k \in DOMAIN messages :
       messages[j] \in S /\ ~messages[k].out /\ messages[k].tid = messages[j].tid
         /\ messages[k].id \notin cleared' => messages[k] \in S
  /\ \A j, k \in DOMAIN messages :
       messages[j] \in S /\ ~messages[j].out /\ messages[k].out
         /\ messages[k].tid = messages[j].tid /\ messages[k].corr = messages[j].id
       => messages[k] \in S
  /\ \A k \in DOMAIN messages :
       messages[k].tid \in L /\ ~messages[k].out /\ messages[k].id \notin cleared'
         /\ messages[k].tid \in DOMAIN responder
         /\ responder[messages[k].tid].msg = messages[k].id => messages[k] \in S
HandsStay == \A s \in Sessions : Working(s, "decide") => hand'[s] = hand[s]

LEMMA Gone ==
  ASSUME MailInv, NEW S, messages' = Kept(messages, S), NEW L, ThreadsLeft(L), Spares(S, L),
         UNCHANGED <<responder, excused, stranded>>, cleared \subseteq cleared', HandsStay
  PROVE  MailInv'
<1> USE DEF ThreadsLeft, Spares, HandsStay
<1> DEFINE n == Len(messages)
<1>0. PICK new : new = messages'
  OBVIOUS
<1>1. PICK e : new \in Seq(Message) /\ Embeds(e, new, messages, n, S)
  BY <1>0, KeptIs DEF MailInv, MailTypes
<1>2. n \in Nat /\ DOMAIN messages = 1..n /\ DOMAIN new = 1..Len(new) /\ Len(new) \in Nat
  BY <1>1, Rows DEF MailInv
<1>3. \A i \in DOMAIN new : /\ e[i] \in DOMAIN messages /\ new[i] = messages[e[i]]
                            /\ messages[e[i]] \in S
  BY <1>1, <1>2 DEF Embeds
<1>4. \A k \in DOMAIN messages : messages[k] \in S => \E i \in DOMAIN new : e[i] = k
  BY <1>1, <1>2 DEF Embeds
<1>5. \A i, j \in DOMAIN new : (e[i] < e[j] => i < j) /\ (e[i] = e[j] => i = j)
  <2> SUFFICES ASSUME NEW i \in DOMAIN new, NEW j \in DOMAIN new
               PROVE  (e[i] < e[j] => i < j) /\ (e[i] = e[j] => i = j)
    OBVIOUS
  <2>1. /\ i \in 1..Len(new) /\ j \in 1..Len(new) /\ e[i] \in 1..n /\ e[j] \in 1..n
        /\ i < j => e[i] < e[j]
        /\ j < i => e[j] < e[i]
    BY <1>1, <1>2, <1>3 DEF Embeds
  <2> QED
    BY <1>2, <2>1
<1>6. \A k \in DOMAIN new : \A m, t :
        (Asks(k, m, t)' <=> Asks(e[k], m, t)) /\ (Answers(k, m)' <=> Answers(e[k], m))
  BY <1>0, <1>3 DEF Asks, Answers
<1> HIDE DEF n
<1>7. \A t : (HasThread(t)' <=> t \in L) /\ (HasThread(t)' => HasThread(t))
  BY DEF HasThread
<1>8. MailTypes'
  BY <1>0, <1>1, <1>3 DEF MailInv, MailTypes
<1>9. TablesOK'
  <2>1. \A k \in DOMAIN new : HasThread(new[k].tid)'
    BY <1>0, <1>3, <1>7
  <2>2. \A j, k \in DOMAIN new : j # k /\ new[j].id # None => new[j].id # new[k].id
    BY <1>3, <1>5 DEF MailInv, TablesOK
  <2> QED
    BY <1>0, <2>1, <2>2 DEF TablesOK, HasRow
<1>10. AnswersOK'
  <2> SUFFICES ASSUME NEW m \in Incoming \ cleared'
               PROVE  /\ \A j \in DOMAIN new : Answers(j, m)' =>
                           \E k \in DOMAIN new : k < j /\ Asks(k, m, new[j].tid)'
                      /\ \A j, k \in DOMAIN new : Answers(j, m)' /\ Answers(k, m)' => j = k
                      /\ \A t \in ThreadIds : Preparing(t, m)' =>
                           /\ \E k \in DOMAIN new : Asks(k, m, t)'
                           /\ \A j \in DOMAIN new : ~Answers(j, m)'
    BY <1>0 DEF AnswersOK
  <2>1. m \in Incoming \ cleared
    OBVIOUS
  <2>2. ASSUME NEW j \in DOMAIN new, Answers(j, m)'
        PROVE  \E k \in DOMAIN new : k < j /\ Asks(k, m, new[j].tid)'
    <3>1. PICK q \in DOMAIN messages : q < e[j] /\ Asks(q, m, messages[e[j]].tid)
      BY <1>3, <1>6, <2>1, <2>2 DEF MailInv, AnswersOK
    <3>2. messages[q] \in S
      BY <1>3, <3>1 DEF Asks
    <3>3. PICK i \in DOMAIN new : e[i] = q
      BY <1>4, <3>2
    <3> QED
      BY <1>3, <1>5, <1>6, <3>1, <3>3
  <2>3. \A j, k \in DOMAIN new : Answers(j, m)' /\ Answers(k, m)' => j = k
    BY <1>3, <1>5, <1>6, <2>1 DEF MailInv, AnswersOK
  <2>4. ASSUME NEW t \in ThreadIds, Preparing(t, m)'
        PROVE  /\ \E k \in DOMAIN new : Asks(k, m, t)'
               /\ \A j \in DOMAIN new : ~Answers(j, m)'
    <3>1. Preparing(t, m) /\ HasThread(t)'
      BY <1>7, <2>4 DEF Preparing
    <3>2. PICK q \in DOMAIN messages : Asks(q, m, t) /\ \A j \in DOMAIN messages : ~Answers(j, m)
      BY <2>1, <3>1 DEF MailInv, AnswersOK
    <3>3. messages[q] \in S
      BY <1>7, <3>1, <3>2 DEF Asks, Preparing
    <3>4. PICK i \in DOMAIN new : e[i] = q
      BY <1>4, <3>3
    <3> QED
      BY <1>3, <1>6, <3>2, <3>4
  <2> QED
    BY <2>2, <2>3, <2>4
<1>11. AnswersArePosted'
  <2>1. \A k \in DOMAIN new : new[k].out /\ ~new[k].posted =>
          \/ new[k].corr \in stranded
          \/ Doing(new[k].tid, "post") /\ responder[new[k].tid].msg = new[k].corr
    BY <1>3 DEF MailInv, AnswersArePosted
  <2> QED
    BY <1>0, <2>1 DEF AnswersArePosted, Doing
<1>12. WaitsOK'
  <2> SUFFICES ASSUME NEW k \in DOMAIN new, ~new[k].out, new[k].id \notin excused,
                      new[k].id \notin AllAnswered(new[k].tid)'
               PROVE  Served(k)'
    BY <1>0 DEF WaitsOK
  <2> DEFINE q == e[k]
             t == messages[q].tid
  <2>1. q \in DOMAIN messages /\ new[k] = messages[q] /\ messages[q] \in S
    BY <1>3
  <2>2. messages[q].id \notin AllAnswered(t)
    <3> SUFFICES ASSUME messages[q].id \in AllAnswered(t) PROVE FALSE
      OBVIOUS
    <3>0. PICK x, y : x = messages[q].id /\ y = t
      OBVIOUS
    <3>1. PICK j \in DOMAIN messages : messages[j].tid = y /\ Answers(j, x)
      BY <3>0, AnsweredMeans
    <3>2. messages[j] \in S
      BY <2>1, <3>0, <3>1 DEF Answers
    <3>3. PICK i \in DOMAIN new : e[i] = j
      BY <1>4, <3>2
    <3>4. new[i].tid = y /\ Answers(i, x)'
      BY <1>3, <1>6, <3>1, <3>3
    <3> QED
      BY <1>0, <2>1, <3>0, <3>4, AnsweredMeans
  <2>3. Served(q)
    BY <2>1, <2>2 DEF MailInv, WaitsOK
  <2> QED
    BY <1>0, <2>1, <2>3 DEF Served, Working
<1> QED
  BY <1>8, <1>9, <1>10, <1>11, <1>12 DEF MailInv

LEMMA KeptHas ==
  ASSUME NEW T, NEW s \in Seq(T), NEW S
  PROVE  /\ Kept(s, S) \in Seq(T)
         /\ \A k \in DOMAIN Kept(s, S) : \E n \in DOMAIN s : s[n] = Kept(s, S)[k] /\ s[n] \in S
         /\ \A n \in DOMAIN s : s[n] \in S => \E k \in DOMAIN Kept(s, S) : Kept(s, S)[k] = s[n]
<1> DEFINE r == Kept(s, S)
<1>1. PICK e : r \in Seq(T) /\ Embeds(e, r, s, Len(s), S)
  BY KeptIs
<1> HIDE DEF r
<1>2. DOMAIN r = 1..Len(r) /\ DOMAIN s = 1..Len(s)
  BY <1>1
<1>3. \A k \in DOMAIN r : e[k] \in DOMAIN s /\ s[e[k]] = r[k] /\ s[e[k]] \in S
  BY <1>1, <1>2 DEF Embeds
<1>4. \A n \in DOMAIN s : s[n] \in S => \E k \in DOMAIN r : e[k] = n
  BY <1>1, <1>2 DEF Embeds
<1>5. r \in Seq(T) /\ \A k \in DOMAIN r : \E n \in DOMAIN s : s[n] = r[k] /\ s[n] \in S
  BY <1>1, <1>3
<1>6. \A n \in DOMAIN s : s[n] \in S => \E k \in DOMAIN r : r[k] = s[n]
  BY <1>3, <1>4
<1> QED
  BY <1>5, <1>6 DEF r

LEMMA DecidesStay ==
  ASSUME TypesOK, ContactStep
  PROVE  HandsStay
<1>1. hand \in [Sessions -> Letters \union {None}]
  BY DEF TypesOK
<1>2. ASSUME NEW c \in Commands, CommandStep(c) PROVE hand' = hand
  BY <1>2 DEF CommandStep, UpdateApproved, UpdateWrittenTo, StoreInvited, RegisterContact, StoreFriend,
              relay_approve_contact, relay_send_message, relay_accept_invite,
              send_friend_request, Issue
<1>3. ASSUME NEW s \in Sessions, LoopStep(s)
      PROVE  hand' = hand \/ (~Working(s, "decide") /\ \E r : hand' = [hand EXCEPT ![s] = r])
  <2>1. ASSUME NEW p \in Peers, HearIntroduce(s, p)
        PROVE  ~Working(s, "decide") /\ \E r : hand' = [hand EXCEPT ![s] = r]
    BY <2>1 DEF HearIntroduce, Take, Working
  <2>2. handle_introduce(s) => ~Working(s, "decide") /\ \E r : hand' = [hand EXCEPT ![s] = r]
    BY DEF handle_introduce, Take, Drop, Working
  <2>3. RegisterIntroduced(s) => ~Working(s, "decide") /\ \E r : hand' = [hand EXCEPT ![s] = r]
    BY DEF RegisterIntroduced, Take, Drop, Working
  <2>4. ReadKnown(s) => ~Working(s, "decide") /\ \E r : hand' = [hand EXCEPT ![s] = r]
    BY DEF ReadKnown, Take, Drop, Working
  <2>5. AnswerKnown(s) => ~Working(s, "decide") /\ \E r : hand' = [hand EXCEPT ![s] = r]
    BY DEF AnswerKnown, Take, Drop, Working
  <2>6. run_event_loop(s) => hand' = hand
    BY DEF run_event_loop, dataVars
  <2> QED
    BY <1>3, <2>1, <2>2, <2>3, <2>4, <2>5, <2>6 DEF LoopStep
<1>4. ASSUME NEW s \in Sessions, ClientStep(s) PROVE hand' = hand
  BY <1>4 DEF ClientStep, ClientConnects, ClientLoses, ClientEnds, dataVars
<1>5. LifeStep => hand' = hand
  BY DEF LifeStep, StartBegin, ListContacts, StartFails, rebuild_peer_index, StartClient,
         StopBegin, StopEnd, dataVars
<1>6. (\E i \in Ids : ForgetKey(i)) \/ DeleteContact => hand' = hand
  BY DEF ForgetKey, DeleteContact
<1> QED
  BY <1>1, <1>2, <1>3, <1>4, <1>5, <1>6 DEF ContactStep, HandsStay

LEMMA CascadeOK ==
  ASSUME IInv, MailInv, ContactStep, Cascade, UNCHANGED <<responder, excused, stranded, cleared>>
  PROVE  MailInv'
<1> DEFINE R == {th \in Threads : \E i \in Ids : contacts'[i] # None /\ contacts'[i].uid = th.uid}
           S == {msg \in Messages : \E k \in DOMAIN threads' : threads'[k].tid = msg.tid}
<1>1. PICK L : L = {threads'[k].tid : k \in DOMAIN threads'}
  OBVIOUS
<1>2. threads' = Kept(threads, R) /\ messages' = Kept(messages, S)
  BY DEF Cascade
<1>3. /\ threads' \in Seq(Thread)
      /\ \A k \in DOMAIN threads' :
           \E n \in DOMAIN threads : threads[n] = threads'[k] /\ threads[n] \in R
  <2> HIDE DEF R
  <2> QED
    BY <1>2, KeptHas DEF MailInv, MailTypes
<1>4. ThreadsLeft(L)
  BY <1>1, <1>3 DEF ThreadsLeft
<1>5. \A k \in DOMAIN messages : messages[k] \in S <=> messages[k].tid \in L
  BY <1>1 DEF Messages
<1>6. HandsStay
  BY DecidesStay DEF IInv
<1> HIDE DEF R, S
<1>7. Spares(S, L)
  BY <1>5 DEF Spares
<1> QED
  BY <1>2, <1>4, <1>6, <1>7, Gone

LEMMA DeletedOK ==
  ASSUME MailInv, NEW t \in ThreadIds,
         delete_thread(t) \/ clear_thread_messages(t) \/ clear_my_chat_messages(t)
  PROVE  MailInv'
<1>1. PICK L : L = {threads'[k].tid : k \in DOMAIN threads'}
  OBVIOUS
<1>2. contacts' = contacts /\ HandsStay /\ UNCHANGED <<responder, excused, stranded>>
  BY DEF delete_thread, clear_thread_messages, clear_my_chat_messages, keptByDelete, rowVars,
         HandsStay
<1>3. /\ threads \in Seq(Thread) /\ \A k \in DOMAIN messages : MessageOK(messages[k])
      /\ \A k \in DOMAIN threads : \E i \in Ids : HasRow(i, threads[k].uid)
      /\ \A k \in DOMAIN messages : HasThread(messages[k].tid)
  BY DEF MailInv, MailTypes, TablesOK
<1>4. \A k \in DOMAIN threads : \E i \in Ids : contacts'[i] # None /\ contacts'[i].uid = threads[k].uid
  BY <1>2, <1>3 DEF HasRow
<1>5. threads' = threads => ThreadsLeft(L)
  BY <1>1, <1>3, <1>4 DEF ThreadsLeft
<1>6. CASE delete_thread(t)
  <2> DEFINE R == {th \in Threads : th.tid # t}
             S == {msg \in Messages : msg.tid # t}
  <2>1. threads' = Kept(threads, R) /\ messages' = Kept(messages, S) /\ cleared' = cleared
    BY <1>6 DEF delete_thread
  <2>2. /\ threads' \in Seq(Thread)
        /\ \A k \in DOMAIN threads' :
             \E n \in DOMAIN threads : threads[n] = threads'[k] /\ threads[n] \in R
        /\ \A n \in DOMAIN threads : threads[n] \in R =>
             \E k \in DOMAIN threads' : threads'[k] = threads[n]
    <3> HIDE DEF R
    <3> QED
      BY <1>3, <2>1, KeptHas
  <2>3. t \notin L /\ \A n \in DOMAIN threads : threads[n].tid # t => threads[n].tid \in L
    BY <1>1, <2>2 DEF Threads
  <2>4. \A k \in DOMAIN messages : messages[k] \in S <=> messages[k].tid \in L
    BY <1>3, <2>3 DEF Messages, HasThread
  <2>5. ThreadsLeft(L)
    BY <1>1, <1>4, <2>2 DEF ThreadsLeft
  <2> HIDE DEF R, S
  <2>6. Spares(S, L)
    BY <2>4 DEF Spares
  <2> QED
    BY <1>2, <2>1, <2>5, <2>6, Gone
<1>7. CASE clear_thread_messages(t)
  <2> DEFINE S == {msg \in Messages : msg.tid # t}
  <2>1. /\ messages' = Kept(messages, S) /\ threads' = threads /\ cleared \subseteq cleared'
        /\ t \in DOMAIN responder => responder[t].msg \in cleared' \union {None}
    BY <1>7 DEF clear_thread_messages
  <2>2. \A k \in DOMAIN messages : messages[k] \in S <=> messages[k].tid # t
    BY DEF Messages
  <2>3. \A k \in DOMAIN messages :
          /\ messages[k].tid \in L
          /\ ~messages[k].out => messages[k].id # None
    BY <1>1, <1>3, <2>1 DEF HasThread, MessageOK
  <2> HIDE DEF S
  <2>4. Spares(S, L)
    BY <2>1, <2>2, <2>3 DEF Spares
  <2> QED
    BY <1>2, <1>5, <2>1, <2>4, Gone
<1>8. CASE clear_my_chat_messages(t)
  <2>0. PICK gone \in SUBSET Replies :
          /\ messages' = Kept(messages, {msg \in Messages :
               msg.tid = t => (msg.out => msg.agent # None) /\ msg.id \notin gone})
          /\ threads' = threads /\ cleared' = cleared \cup gone
    BY <1>8 DEF clear_my_chat_messages
  <2> DEFINE S == {msg \in Messages :
                     msg.tid = t => (msg.out => msg.agent # None) /\ msg.id \notin gone}
  <2>1. /\ messages' = Kept(messages, S) /\ threads' = threads /\ cleared \subseteq cleared'
        /\ \A k \in DOMAIN messages :
             messages[k].tid = t /\ messages[k].id \in gone => messages[k].id \in cleared'
    BY <2>0
  <2>2. \A k \in DOMAIN messages :
          messages[k] \in S <=>
            (messages[k].tid = t => (messages[k].out => messages[k].agent # None)
                                      /\ messages[k].id \notin gone)
    BY DEF Messages
  <2>3. \A k \in DOMAIN messages :
          /\ messages[k].tid \in L
          /\ ~messages[k].out => messages[k].id # None
          /\ messages[k].out => messages[k].id = None /\ messages[k].id \notin gone
          /\ messages[k].out /\ messages[k].corr # None => messages[k].agent # None
    BY <1>1, <1>3, <2>1, SecretaryAssumption DEF HasThread, MessageOK
  <2> HIDE DEF S
  <2>4. \A k \in DOMAIN messages :
          ~messages[k].out /\ messages[k].id \notin cleared' => messages[k] \in S
    BY <2>1, <2>2
  <2>5. \A j, k \in DOMAIN messages :
          ~messages[j].out /\ messages[k].out /\ messages[k].corr = messages[j].id
            => messages[k] \in S
    BY <2>2, <2>3
  <2>6. Spares(S, L)
    BY <2>3, <2>4, <2>5 DEF Spares
  <2> QED
    BY <1>2, <1>5, <2>1, <2>6, Gone
<1> QED
  BY <1>6, <1>7, <1>8

-----------------------------------------------------------------------------
(* Messages and threads that come.                                             *)

LEMMA ThreadAdded ==
  ASSUME MailInv, NEW t \in FreshTids, NEW u \in Nat \ {0}, NEW a \in Named \union {None},
         threads' = create_thread(t, u, a), \E i \in Ids : HasRow(i, u),
         UNCHANGED <<contacts, messages, responder, excused, stranded, cleared>>, HandsStay
  PROVE  MailInv'
<1> DEFINE r == [tid |-> t, uid |-> u, agent |-> a]
           n == Len(threads)
<1>1. r \in Thread /\ t \in ThreadIds /\ t \notin DOMAIN responder
  BY DEF Thread, FreshTids, TidsHeld
<1>2. threads' = Append(threads, r) /\ threads \in Seq(Thread) /\ n \in Nat
  BY DEF create_thread, MailInv, MailTypes
<1>3. r.tid = t /\ r.uid = u
  OBVIOUS
<1> HIDE DEF r
<1>4. /\ threads' \in Seq(Thread) /\ DOMAIN threads' = 1..n + 1 /\ DOMAIN threads = 1..n
      /\ threads'[n + 1] = r /\ \A k \in 1..n : threads'[k] = threads[k]
  BY <1>1, <1>2
<1>5. \A k \in DOMAIN threads' : k = n + 1 \/ k \in DOMAIN threads
  BY <1>2, <1>4
<1>6. \A x : HasThread(x) => HasThread(x)'
  BY <1>2, <1>4 DEF HasThread
<1>7. \A x : HasThread(x)' => HasThread(x) \/ x = t
  BY <1>3, <1>4, <1>5 DEF HasThread
<1>8. MailTypes'
  BY <1>4 DEF MailInv, MailTypes
<1>9. TablesOK'
  <2>1. \A k \in DOMAIN threads' : \E i \in Ids : contacts[i] # None /\ contacts[i].uid = threads'[k].uid
    BY <1>3, <1>4, <1>5 DEF MailInv, TablesOK, HasRow
  <2>2. \A k \in DOMAIN messages : \E q \in DOMAIN threads' : threads'[q].tid = messages[k].tid
    BY <1>2, <1>4 DEF MailInv, TablesOK, HasThread
  <2> QED
    BY <2>1, <2>2 DEF MailInv, TablesOK, HasRow, HasThread
<1>10. AnswersOK'
  <2> SUFFICES ASSUME NEW m \in Incoming \ cleared
               PROVE  /\ \A j \in DOMAIN messages : Answers(j, m) =>
                           \E k \in DOMAIN messages : k < j /\ Asks(k, m, messages[j].tid)
                      /\ \A j, k \in DOMAIN messages : Answers(j, m) /\ Answers(k, m) => j = k
                      /\ \A x \in ThreadIds : Preparing(x, m)' =>
                           /\ \E k \in DOMAIN messages : Asks(k, m, x)
                           /\ \A j \in DOMAIN messages : ~Answers(j, m)
    BY DEF AnswersOK, Asks, Answers
  <2>1. \A x \in ThreadIds : Preparing(x, m)' => Preparing(x, m)
    BY <1>1, <1>7 DEF Preparing
  <2> QED
    BY <2>1 DEF MailInv, AnswersOK
<1>11. AnswersArePosted'
  BY PostedStay DEF Doing
<1>12. WaitsOK'
  BY StillServed DEF HandsStay
<1> QED
  BY <1>8, <1>9, <1>10, <1>11, <1>12 DEF MailInv

(* A message is added at the end.  An answer is one its thread has prepared    *)
(* and no longer prepares.                                                     *)
LEMMA MessageAdded ==
  ASSUME MailInv, NEW msg, MessageOK(msg), messages' = Append(messages, msg),
         HasThread(msg.tid), UNCHANGED <<contacts, threads, cleared>>,
         msg.id # None => ~Stored(msg.id),
         \A m \in Incoming \ cleared : msg.out /\ msg.corr = m =>
           Preparing(msg.tid, m) /\ ~(responder'[msg.tid].pc \in {"generate", "save"}),
         DOMAIN responder' \subseteq ThreadIds,
         \A t \in DOMAIN responder' : TaskOK(responder'[t]),
         \A t \in ThreadIds, m \in Incoming \ cleared : Preparing(t, m)' => Preparing(t, m),
         AnswersArePosted', WaitsOK'
  PROVE  MailInv'
<1> DEFINE n == Len(messages)
<1>1. PICK new : new = messages'
  OBVIOUS
<1>2. msg \in Message /\ messages \in Seq(Message) /\ n \in Nat /\ DOMAIN messages = 1..n
  BY Rows DEF MailInv, MailTypes, MessageOK
<1>3. /\ new \in Seq(Message) /\ DOMAIN new = 1..n + 1
      /\ new[n + 1] = msg /\ \A k \in 1..n : new[k] = messages[k]
  BY <1>1, <1>2
<1>4. /\ \A k \in DOMAIN new : k = n + 1 \/ k \in DOMAIN messages
      /\ \A k \in DOMAIN messages : k \in DOMAIN new /\ k < n + 1 /\ k # n + 1
  BY <1>2, <1>3
<1>5. \A k \in DOMAIN messages : \A m, t :
        (Asks(k, m, t)' <=> Asks(k, m, t)) /\ (Answers(k, m)' <=> Answers(k, m))
  BY <1>1, <1>2, <1>3 DEF Asks, Answers
<1>6. PICK last : last = n + 1
  OBVIOUS
<1>11. \A m : Answers(last, m)' <=> msg.out /\ msg.corr = m
  BY <1>1, <1>3, <1>6 DEF Answers
<1>7. \A t, m : Preparing(t, m)' => HasThread(t)
  BY DEF Preparing, HasThread
<1>8. MailTypes'
  <2>1. \A k \in DOMAIN new : MessageOK(new[k])
    BY <1>3, <1>4 DEF MailInv, MailTypes
  <2> QED
    BY <1>1, <1>3, <2>1 DEF MailInv, MailTypes
<1>9. TablesOK'
  <2>1. \A k \in DOMAIN new : HasThread(new[k].tid)
    BY <1>3, <1>4 DEF MailInv, TablesOK
  <2>2. \A k \in DOMAIN messages : msg.id # None => messages[k].id # msg.id
    BY DEF Stored
  <2>3. \A j, k \in DOMAIN new : j # k /\ new[j].id # None => new[j].id # new[k].id
    BY <1>2, <1>3, <1>4, <2>2 DEF MailInv, TablesOK
  <2> QED
    BY <1>1, <2>1, <2>3 DEF MailInv, TablesOK, HasRow, HasThread
<1>10. AnswersOK'
  <2> SUFFICES ASSUME NEW m \in Incoming \ cleared
               PROVE  /\ \A j \in DOMAIN new : Answers(j, m)' =>
                           \E k \in DOMAIN new : k < j /\ Asks(k, m, new[j].tid)'
                      /\ \A j, k \in DOMAIN new : Answers(j, m)' /\ Answers(k, m)' => j = k
                      /\ \A t \in ThreadIds : Preparing(t, m)' =>
                           /\ \E k \in DOMAIN new : Asks(k, m, t)'
                           /\ \A j \in DOMAIN new : ~Answers(j, m)'
    BY <1>1 DEF AnswersOK
  <2>0. /\ \A j \in DOMAIN messages : Answers(j, m) =>
             \E k \in DOMAIN messages : k < j /\ Asks(k, m, messages[j].tid)
        /\ \A j, k \in DOMAIN messages : Answers(j, m) /\ Answers(k, m) => j = k
        /\ \A t \in ThreadIds : Preparing(t, m) =>
             /\ \E k \in DOMAIN messages : Asks(k, m, t)
             /\ \A j \in DOMAIN messages : ~Answers(j, m)
    BY DEF MailInv, AnswersOK
  <2>1. PICK x : x = msg.tid /\ x \in ThreadIds
    BY <1>2 DEF Message
  <2>2. Answers(last, m)' =>
          /\ \E k \in DOMAIN messages : Asks(k, m, x)
          /\ \A j \in DOMAIN messages : ~Answers(j, m)
          /\ \A t \in ThreadIds : Preparing(t, m)' => FALSE
    <3> SUFFICES ASSUME Answers(last, m)'
                 PROVE  /\ \E k \in DOMAIN messages : Asks(k, m, x)
                        /\ \A j \in DOMAIN messages : ~Answers(j, m)
                        /\ \A t \in ThreadIds : Preparing(t, m)' => FALSE
      OBVIOUS
    <3>1. Preparing(x, m) /\ ~(responder'[x].pc \in {"generate", "save"})
      BY <1>11, <2>1
    <3>2. PICK k \in DOMAIN messages : Asks(k, m, x)
      BY <2>0, <2>1, <3>1
    <3>3. ASSUME NEW t \in ThreadIds, Preparing(t, m)' PROVE FALSE
      <4>1. Preparing(t, m)
        BY <3>3
      <4>2. PICK j \in DOMAIN messages : Asks(j, m, t)
        BY <2>0, <4>1
      <4>3. m # None
        BY SecretaryAssumption DEF Incoming
      <4>4. j = k /\ t = x
        BY <3>2, <4>2, <4>3 DEF MailInv, TablesOK, Asks
      <4> QED
        BY <3>1, <3>3, <4>4 DEF Preparing
    <3> QED
      BY <2>0, <2>1, <3>1, <3>2, <3>3
  <2>3. ASSUME NEW j \in DOMAIN new, Answers(j, m)'
        PROVE  \E k \in DOMAIN new : k < j /\ Asks(k, m, new[j].tid)'
    <3>1. CASE j = last
      <4>1. PICK k \in DOMAIN messages : Asks(k, m, x)
        BY <2>2, <2>3, <3>1
      <4>2. new[j].tid = x /\ k < j /\ k \in DOMAIN new /\ Asks(k, m, x)'
        BY <1>3, <1>4, <1>5, <1>6, <2>1, <3>1, <4>1
      <4> QED
        BY <1>1, <4>2
    <3>2. CASE j # last
      <4>1. j \in DOMAIN messages /\ Answers(j, m)
        BY <1>4, <1>5, <1>6, <2>3, <3>2
      <4>2. PICK k \in DOMAIN messages : k < j /\ Asks(k, m, messages[j].tid)
        BY <2>0, <4>1
      <4>3. PICK y : y = messages[j].tid
        OBVIOUS
      <4>4. new[j].tid = y /\ k \in DOMAIN new /\ Asks(k, m, y)'
        BY <1>2, <1>3, <1>4, <1>5, <4>1, <4>2, <4>3
      <4> QED
        BY <1>1, <4>2, <4>4
    <3> QED
      BY <3>1, <3>2
  <2>4. \A j, k \in DOMAIN new : Answers(j, m)' /\ Answers(k, m)' => j = k
    BY <1>4, <1>5, <1>6, <2>0, <2>2
  <2>5. ASSUME NEW t \in ThreadIds, Preparing(t, m)'
        PROVE  /\ \E k \in DOMAIN new : Asks(k, m, t)'
               /\ \A j \in DOMAIN new : ~Answers(j, m)'
    <3>1. Preparing(t, m)
      BY <2>5
    <3> QED
      BY <1>4, <1>5, <1>6, <2>0, <2>2, <2>5, <3>1
  <2> QED
    BY <2>3, <2>4, <2>5
<1> QED
  BY <1>8, <1>9, <1>10 DEF MailInv

(* Whoever was served still is when a message is added, and the new message is *)
(* served or needs no answer.                                                  *)
LEMMA ServedWithMore ==
  ASSUME MailInv, NEW msg, MessageOK(msg), messages' = Append(messages, msg),
         msg.id # None => ~Stored(msg.id), excused \ {msg.id} \subseteq excused',
         \A s \in Sessions : Working(s, "decide") => hand'[s] = hand[s],
         \A t \in DOMAIN responder : responder[t].pc # "release" =>
           t \in DOMAIN responder' /\ responder'[t].pc # "release",
         \/ msg.out \/ msg.id \in excused'
         \/ \E s \in Sessions : /\ Working(s, "decide")' /\ hand'[s].msg = msg.id
                                /\ hand'[s].tid = msg.tid
  PROVE  WaitsOK'
<1> DEFINE n == Len(messages)
<1>1. PICK new : new = messages'
  OBVIOUS
<1>2. msg \in Message /\ messages \in Seq(Message) /\ n \in Nat /\ DOMAIN messages = 1..n
  BY Rows DEF MailInv, MailTypes, MessageOK
<1>3. /\ DOMAIN new = 1..n + 1 /\ new[n + 1] = msg /\ \A k \in 1..n : new[k] = messages[k]
  BY <1>1, <1>2
<1> SUFFICES ASSUME NEW k \in DOMAIN new, ~new[k].out, new[k].id \notin excused',
                    new[k].id \notin AllAnswered(new[k].tid)'
             PROVE  Served(k)'
  BY <1>1 DEF WaitsOK
<1>4. CASE k = n + 1
  BY <1>1, <1>3, <1>4 DEF Served
<1>5. CASE k # n + 1
  <2>1. k \in DOMAIN messages /\ new[k] = messages[k]
    BY <1>2, <1>3, <1>5
  <2>2. PICK x, t : x = messages[k].id /\ t = messages[k].tid
    OBVIOUS
  <2>3. x \notin excused
    <3>1. x # None
      BY <2>1, <2>2 DEF MailInv, MailTypes, MessageOK
    <3>2. x # msg.id
      BY <2>1, <2>2, <3>1 DEF Stored
    <3> QED
      BY <2>1, <2>2, <3>2
  <2>4. x \notin AllAnswered(t)
    <3> SUFFICES ASSUME x \in AllAnswered(t) PROVE FALSE
      OBVIOUS
    <3>1. PICK j \in DOMAIN messages : messages[j].tid = t /\ Answers(j, x)
      BY AnsweredMeans
    <3>2. j \in DOMAIN new /\ new[j].tid = t /\ Answers(j, x)'
      BY <1>1, <1>2, <1>3, <3>1 DEF Answers
    <3> QED
      BY <1>1, <2>1, <2>2, <3>2, AnsweredMeans
  <2>5. Served(k)
    BY <2>1, <2>2, <2>3, <2>4 DEF MailInv, WaitsOK
  <2>6. \/ t \in DOMAIN responder /\ responder[t].pc # "release"
        \/ \E s \in Sessions : /\ Working(s, "decide") /\ hand[s].msg = x /\ hand[s].tid = t
    BY <2>2, <2>5 DEF Served
  <2>7. \/ t \in DOMAIN responder' /\ responder'[t].pc # "release"
        \/ \E s \in Sessions : /\ Working(s, "decide")' /\ hand'[s].msg = x /\ hand'[s].tid = t
    BY <2>6 DEF Working
  <2> QED
    BY <1>1, <2>1, <2>2, <2>7 DEF Served
<1> QED
  BY <1>4, <1>5

LEMMA PostedWithMore ==
  ASSUME MailInv, NEW msg, MessageOK(msg), messages' = Append(messages, msg),
         stranded' = stranded,
         \A t \in ThreadIds : Doing(t, "post") =>
           Doing(t, "post")' /\ responder'[t].msg = responder[t].msg,
         msg.out /\ ~msg.posted =>
           /\ msg.tid \in DOMAIN responder' /\ responder'[msg.tid].pc = "post"
           /\ responder'[msg.tid].msg = msg.corr
  PROVE  AnswersArePosted'
<1> DEFINE n == Len(messages)
<1>1. PICK new : new = messages'
  OBVIOUS
<1>2. msg \in Message /\ messages \in Seq(Message) /\ n \in Nat /\ DOMAIN messages = 1..n
  BY Rows DEF MailInv, MailTypes, MessageOK
<1>3. /\ DOMAIN new = 1..n + 1 /\ new[n + 1] = msg /\ \A k \in 1..n : new[k] = messages[k]
  BY <1>1, <1>2
<1> SUFFICES ASSUME NEW k \in DOMAIN new, new[k].out, ~new[k].posted,
                    new[k].corr \notin stranded
             PROVE  /\ new[k].tid \in DOMAIN responder'
                    /\ responder'[new[k].tid].pc = "post"
                    /\ responder'[new[k].tid].msg = new[k].corr
  BY <1>1 DEF AnswersArePosted, Doing
<1>4. CASE k = n + 1
  BY <1>3, <1>4
<1>5. CASE k # n + 1
  <2>1. k \in DOMAIN messages /\ new[k] = messages[k] /\ messages[k].tid \in ThreadIds
    BY <1>2, <1>3, <1>5, Rows DEF MailInv
  <2>2. PICK t : t = messages[k].tid
    OBVIOUS
  <2>3. Doing(t, "post") /\ responder[t].msg = messages[k].corr
    BY <2>1, <2>2 DEF MailInv, AnswersArePosted
  <2>4. Doing(t, "post")' /\ responder'[t].msg = messages[k].corr
    BY <2>1, <2>2, <2>3
  <2> QED
    BY <2>1, <2>2, <2>4 DEF Doing
<1> QED
  BY <1>4, <1>5

-----------------------------------------------------------------------------
(* Deliveries.                                                                 *)

LEMMA EnvelopeMail ==
  ASSUME MailInv, NEW s \in Sessions, NEW m \in Incoming, handle_incoming_envelope(s, m)
  PROVE  MailInv'
<1>1. /\ hand[s] = None /\ \E r : hand' = [hand EXCEPT ![s] = r]
      /\ UNCHANGED <<contacts, threads, messages, responder, excused, stranded, cleared>>
  BY DEF handle_incoming_envelope, keptByMail, rowVars, mailVars, Take
<1>2. \A z \in Sessions : Working(z, "decide") => hand'[z] = hand[z]
  BY <1>1 DEF Working
<1>3. WaitsOK'
  BY <1>1, <1>2, StillServed
<1> QED
  BY <1>1, <1>3, TasksStay

LEMMA ThreadFoundMail ==
  ASSUME IInv, MailInv, NEW s \in Sessions, FindThread(s)
  PROVE  MailInv'
<1>1. /\ hand[s] # None /\ hand[s].pc = "route"
      /\ UNCHANGED <<contacts, messages, responder, excused, stranded, cleared>>
  BY DEF FindThread, Working, keptByMail, rowVars
<1>2. hand[s] \in Routed
  BY <1>1, LettersAre DEF IInv, TypesOK, Letters
<1>3. hand[s].id \in Ids /\ hand[s].msg \in Incoming
  BY <1>2 DEF Routed
<1> DEFINE row == contacts[hand[s].id]
           want == Target[hand[s].msg]
<1>4. want \in Named \union {None} /\ (row # None => row.uid \in Nat \ {0})
  BY <1>3, SecretaryAssumption DEF Incoming, IInv, TypesOK, ContactsTypeOK, Row
<1>5. \E r : hand' = [hand EXCEPT ![s] = r]
  BY DEF FindThread, Drop, Take
<1>6. \/ threads' = threads
      \/ row # None /\ \E t \in FreshTids : threads' = create_thread(t, row.uid, want)
  BY DEF FindThread
<1>7. HandsStay
  BY <1>1, <1>5 DEF HandsStay, Working
<1>8. CASE threads' = threads
  <2>1. WaitsOK'
    BY <1>1, <1>7, StillServed DEF HandsStay
  <2> QED
    BY <1>1, <1>8, <2>1, TasksStay
<1>9. ASSUME row # None, NEW t \in FreshTids, threads' = create_thread(t, row.uid, want)
      PROVE  MailInv'
  <2>1. PICK u, a : u = row.uid /\ a = want
    OBVIOUS
  <2>2. \E i \in Ids : HasRow(i, u)
    BY <1>3, <1>9, <2>1 DEF HasRow
  <2> HIDE DEF row, want
  <2> QED
    BY <1>1, <1>4, <1>7, <1>9, <2>1, <2>2, ThreadAdded
<1> QED
  BY <1>6, <1>8, <1>9

LEMMA StoredMail ==
  ASSUME IInv, MailInv, NEW s \in Sessions, StoreMessage(s)
  PROVE  MailInv'
<1> DEFINE h == hand[s]
<1>1. /\ h # None /\ h.pc = "store"
      /\ UNCHANGED <<contacts, threads, responder, stranded, cleared>>
  BY DEF StoreMessage, Working, keptByMail, rowVars
<1>2. h \in Storing
  BY <1>1, LettersAre DEF IInv, TypesOK, Letters
<1>3. h.msg \in Incoming /\ h.tid \in ThreadIds /\ h.msg # None
  BY <1>2, SecretaryAssumption DEF Storing, Incoming
<1>4. hand \in [Sessions -> Letters \union {None}] /\ \E r : hand' = [hand EXCEPT ![s] = r]
  BY DEF StoreMessage, Drop, Take, IInv, TypesOK
<1>5. \A z \in Sessions : Working(z, "decide") => hand'[z] = hand[z]
  BY <1>1, <1>4 DEF Working
<1>6. CASE ~(HasThread(h.tid) /\ ~Stored(h.msg))
  <2>1. messages' = messages /\ excused' = excused
    BY <1>6 DEF StoreMessage
  <2>2. WaitsOK'
    BY <1>1, <1>5, <2>1, StillServed
  <2> QED
    BY <1>1, <2>1, <2>2, TasksStay
<1>7. CASE HasThread(h.tid) /\ ~Stored(h.msg)
  <2> DEFINE msg == [id |-> h.msg, tid |-> h.tid, out |-> FALSE,
                     corr |-> None, agent |-> None, posted |-> FALSE]
             asks == h.respond /\ h.msg \in Requests
  <2>1. /\ messages' = Append(messages, msg)
        /\ excused' = IF asks THEN excused \ {h.msg} ELSE excused \cup {h.msg}
        /\ IF asks THEN Take(s, [h EXCEPT !.pc = "decide"]) ELSE Drop(s)
    BY <1>7 DEF StoreMessage
  <2>2. MessageOK(msg) /\ msg.id = h.msg /\ msg.tid = h.tid /\ ~msg.out
    BY <1>3 DEF MessageOK, Message
  <2> HIDE DEF msg
  <2>3. asks => Working(s, "decide")' /\ hand'[s].msg = h.msg /\ hand'[s].tid = h.tid
    <3> DEFINE r == [h EXCEPT !.pc = "decide"]
    <3>1. r # None /\ r.pc = "decide" /\ r.msg = h.msg /\ r.tid = h.tid
      <4>1. r \in Storing /\ r.pc = "decide" /\ r.msg = h.msg /\ r.tid = h.tid
        BY <1>2 DEF Storing
      <4> QED
        BY <4>1, NoMailAssumption
    <3>2. asks => hand' = [hand EXCEPT ![s] = r]
      BY <2>1 DEF Take
    <3> HIDE DEF r
    <3> QED
      BY <1>4, <3>1, <3>2 DEF Working
  <2>4. WaitsOK'
    <3>1. msg.id # None => ~Stored(msg.id)
      BY <1>7, <2>2
    <3>2. excused \ {msg.id} \subseteq excused'
      BY <2>1, <2>2
    <3>3. \/ msg.out \/ msg.id \in excused'
          \/ \E z \in Sessions : /\ Working(z, "decide")' /\ hand'[z].msg = msg.id
                                 /\ hand'[z].tid = msg.tid
      BY <2>1, <2>2, <2>3
    <3> QED
      BY <1>1, <1>5, <2>1, <2>2, <3>1, <3>2, <3>3, ServedWithMore
  <2>5. AnswersArePosted'
    BY <1>1, <2>1, <2>2, PostedWithMore DEF Doing
  <2>6. \A t \in ThreadIds, m \in Incoming \ cleared : Preparing(t, m)' => Preparing(t, m)
    BY <1>1 DEF Preparing, HasThread
  <2>7. DOMAIN responder' \subseteq ThreadIds /\ \A t \in DOMAIN responder' : TaskOK(responder'[t])
    BY <1>1 DEF MailInv, MailTypes
  <2> QED
    BY <1>1, <1>7, <2>1, <2>2, <2>4, <2>5, <2>6, <2>7, MessageAdded
<1> QED
  BY <1>6, <1>7

LEMMA RespondMail ==
  ASSUME IInv, MailInv, NEW s \in Sessions, AutoRespond(s)
  PROVE  MailInv'
<1> DEFINE h == hand[s]
<1>1. /\ h # None /\ h.pc = "decide" /\ hand' = [hand EXCEPT ![s] = None]
      /\ UNCHANGED <<contacts, threads, messages, stranded, cleared>>
  BY DEF AutoRespond, Working, keptByMail, rowVars, Drop, Take
<1>2. h \in Storing
  BY <1>1, LettersAre DEF IInv, TypesOK, Letters
<1>3. h.msg \in Incoming /\ h.tid \in ThreadIds /\ h.id \in Ids
  BY <1>2 DEF Storing
<1>4. \A z \in Sessions : z = s \/ hand'[z] = hand[z]
  BY <1>1 DEF IInv, TypesOK
<1>5. DOMAIN responder \subseteq ThreadIds /\ \A t \in DOMAIN responder : TaskOK(responder[t])
  BY DEF MailInv, MailTypes
<1>6. CASE h.tid \in DOMAIN responder
  <2>1. /\ responder' = responder
        /\ excused' = IF responder[h.tid].pc = "release" THEN excused \cup {h.msg} ELSE excused
    BY <1>6 DEF AutoRespond
  <2>2. WaitsOK'
    <3>1. \A z \in Sessions : Working(z, "decide") =>
           \/ hand'[z] = hand[z]
           \/ hand[z].msg \in excused'
           \/ /\ hand[z].tid \in DOMAIN responder'
              /\ responder'[hand[z].tid].pc # "release"
      BY <1>4, <1>6, <2>1
    <3> QED
      BY <1>1, <2>1, <3>1, StillServed
  <2> QED
    BY <1>1, <2>1, <2>2, TasksStay
<1>7. CASE h.tid \notin DOMAIN responder
  <2> DEFINE r == [pc |-> "look", id |-> h.id, msg |-> None, agent |-> None]
  <2>1. /\ responder' = [t \in DOMAIN responder \cup {h.tid} |-> IF t = h.tid THEN r ELSE responder[t]]
        /\ excused' = excused
    BY <1>7 DEF AutoRespond
  <2>2. TaskOK(r) /\ r.pc = "look"
    BY <1>3 DEF TaskOK, Task
  <2> HIDE DEF r
  <2>3. /\ DOMAIN responder' = DOMAIN responder \cup {h.tid} /\ responder'[h.tid] = r
        /\ \A t \in DOMAIN responder : responder'[t] = responder[t]
    BY <1>7, <2>1
  <2>4. WaitsOK'
    <3>1. \A z \in Sessions : Working(z, "decide") =>
           \/ hand'[z] = hand[z]
           \/ hand[z].msg \in excused'
           \/ /\ hand[z].tid \in DOMAIN responder'
              /\ responder'[hand[z].tid].pc # "release"
      BY <1>4, <2>2, <2>3
    <3>2. \A t \in DOMAIN responder : responder[t].pc # "release" =>
            t \in DOMAIN responder' /\ responder'[t].pc # "release"
      BY <2>3
    <3> QED
      BY <1>1, <2>1, <3>1, <3>2, StillServed
  <2>5. AnswersArePosted'
    BY <1>1, <2>3, PostedStay DEF Doing
  <2>6. \A t \in ThreadIds, m \in Incoming \ cleared : Preparing(t, m)' => Preparing(t, m)
    BY <1>1, <2>2, <2>3 DEF Preparing, HasThread
  <2>7. DOMAIN responder' \subseteq ThreadIds /\ \A t \in DOMAIN responder' : TaskOK(responder'[t])
    BY <1>3, <1>5, <2>2, <2>3
  <2> QED
    BY <1>1, <2>4, <2>5, <2>6, <2>7, TasksMove
<1> QED
  BY <1>6, <1>7

-----------------------------------------------------------------------------
(* Responders.                                                                 *)

LEMMA MoveIs ==
  ASSUME MailInv, NEW t \in ThreadIds, t \in DOMAIN responder, NEW r, TaskOK(r), Move(t, r)
  PROVE  /\ DOMAIN responder' = DOMAIN responder /\ responder'[t] = r
         /\ \A x \in DOMAIN responder \ {t} : responder'[x] = responder[x]
         /\ DOMAIN responder' \subseteq ThreadIds
         /\ \A x \in DOMAIN responder' : TaskOK(responder'[x])
  BY DEF Move, MailInv, MailTypes

(* A task that gives up excuses what it leaves.                                *)
LEMMA GivesUp ==
  ASSUME MailInv, NEW t \in ThreadIds, t \in DOMAIN responder,
         \/ ~Doing(t, "post")
         \/ responder[t].msg \in stranded'
         \/ ~\E k \in DOMAIN messages :
              messages[k].out /\ messages[k].tid = t /\ messages[k].corr = responder[t].msg,
         GiveUp(t), stranded \subseteq stranded',
         UNCHANGED <<contacts, hand, threads, messages, cleared>>
  PROVE  MailInv'
<1> DEFINE r == [responder[t] EXCEPT !.pc = "release"]
<1>1. Move(t, r) /\ excused' = excused \cup AllUnanswered(t)
  BY DEF GiveUp
<1>2. TaskOK(r) /\ r.pc = "release"
  BY DEF MailInv, MailTypes, TaskOK, Task
<1> HIDE DEF r
<1>3. /\ DOMAIN responder' = DOMAIN responder /\ responder'[t] = r
      /\ \A x \in DOMAIN responder \ {t} : responder'[x] = responder[x]
      /\ DOMAIN responder' \subseteq ThreadIds
      /\ \A x \in DOMAIN responder' : TaskOK(responder'[x])
  BY <1>1, <1>2, MoveIs
<1>4. WaitsOK'
  BY <1>1, <1>3, StillServed
<1>5. AnswersArePosted'
  <2> SUFFICES ASSUME NEW k \in DOMAIN messages, messages[k].out, ~messages[k].posted,
                      messages[k].corr \notin stranded'
               PROVE  /\ messages[k].tid \in DOMAIN responder'
                      /\ responder'[messages[k].tid].pc = "post"
                      /\ responder'[messages[k].tid].msg = messages[k].corr
    BY DEF AnswersArePosted, Doing
  <2>1. Doing(messages[k].tid, "post") /\ responder[messages[k].tid].msg = messages[k].corr
    BY DEF MailInv, AnswersArePosted
  <2>2. messages[k].tid # t
    BY <2>1
  <2> QED
    BY <1>3, <2>1, <2>2 DEF Doing
<1>6. \A x \in ThreadIds, m \in Incoming \ cleared : Preparing(x, m)' => Preparing(x, m)
  BY <1>2, <1>3 DEF Preparing, HasThread
<1> QED
  BY <1>3, <1>4, <1>5, <1>6, TasksMove

(* A task that goes on, between answers.                                       *)
LEMMA GoesOn ==
  ASSUME MailInv, NEW t \in ThreadIds, t \in DOMAIN responder, responder[t].pc # "post",
         NEW r, TaskOK(r), r.pc # "release", Move(t, r),
         UNCHANGED <<contacts, hand, threads, messages, excused, stranded, cleared>>,
         \A m \in Incoming \ cleared : Preparing(t, m)' =>
           \/ Preparing(t, m)
           \/ /\ \E k \in DOMAIN messages : Asks(k, m, t)
              /\ \A j \in DOMAIN messages : ~Answers(j, m)
  PROVE  MailInv'
<1>1. /\ DOMAIN responder' = DOMAIN responder /\ responder'[t] = r
      /\ \A x \in DOMAIN responder \ {t} : responder'[x] = responder[x]
      /\ DOMAIN responder' \subseteq ThreadIds
      /\ \A x \in DOMAIN responder' : TaskOK(responder'[x])
  BY MoveIs
<1>2. WaitsOK'
  BY <1>1, StillServed
<1>3. AnswersArePosted'
  BY <1>1, PostedStay DEF Doing
<1>4. \A x \in ThreadIds, m \in Incoming \ cleared : Preparing(x, m)' =>
        \/ Preparing(x, m)
        \/ /\ \E k \in DOMAIN messages : Asks(k, m, x)
           /\ \A j \in DOMAIN messages : ~Answers(j, m)
  <2>1. \A x \in ThreadIds \ {t}, m \in Incoming : Preparing(x, m)' => Preparing(x, m)
    BY <1>1 DEF Preparing, HasThread
  <2> QED
    BY <2>1
<1> QED
  BY <1>1, <1>2, <1>3, <1>4, TasksMove

LEMMA LookedMail ==
  ASSUME IInv, MailInv, NEW t \in ThreadIds, LookForUnanswered(t)
  PROVE  MailInv'
<1>1. /\ t \in DOMAIN responder /\ responder[t].pc = "look"
      /\ UNCHANGED <<contacts, hand, threads, messages, stranded, cleared>>
  BY DEF LookForUnanswered, Doing, keptByResponder, contactVars, vars
<1>2. CASE Unanswered(t) = <<>>
  <2>1. GiveUp(t) /\ ~Doing(t, "post")
    BY <1>1, <1>2 DEF LookForUnanswered, Doing
  <2> QED
    BY <1>1, <2>1, GivesUp
<1>3. CASE Unanswered(t) # <<>>
  <2>1. PICK m : m = Unanswered(t)[1].id
    OBVIOUS
  <2>2. PICK k \in DOMAIN messages :
          /\ Asks(k, m, t)
          /\ \A j \in DOMAIN messages : k < j /\ messages[j].tid = t => ~Answers(j, m)
    BY <1>3, <2>1, TakenUp DEF MailInv
  <2>3. m \in Incoming /\ m # None
    BY <2>2 DEF MailInv, MailTypes, MessageOK, Message, Asks
  <2>4. m \notin cleared => \A j \in DOMAIN messages : ~Answers(j, m)
    <3> SUFFICES ASSUME m \notin cleared, NEW j \in DOMAIN messages, Answers(j, m) PROVE FALSE
      OBVIOUS
    <3>1. PICK q \in DOMAIN messages : q < j /\ Asks(q, m, messages[j].tid)
      BY <2>3 DEF MailInv, AnswersOK
    <3>2. q = k /\ messages[j].tid = t
      BY <2>2, <2>3, <3>1 DEF MailInv, TablesOK, Asks
    <3> QED
      BY <2>2, <3>1, <3>2
  <2> DEFINE r == [responder[t] EXCEPT !.pc = "generate", !.msg = m]
  <2>5. Move(t, r) /\ excused' = excused
    BY <1>3, <2>1 DEF LookForUnanswered
  <2>6. TaskOK(r) /\ r.pc = "generate" /\ r.msg = m
    BY <1>1, <2>3 DEF MailInv, MailTypes, TaskOK, Task
  <2> HIDE DEF r
  <2>7. responder'[t] = r
    BY <1>1, <2>5, <2>6, MoveIs
  <2>8. \A x : Preparing(t, x)' => x = m
    BY <2>6, <2>7 DEF Preparing
  <2> QED
    BY <1>1, <2>2, <2>4, <2>5, <2>6, <2>8, GoesOn
<1> QED
  BY <1>2, <1>3

LEMMA ResolvedAgentIs ==
  ASSUME MailInv, NEW t
  PROVE  resolve_agent_id(t) \in (Agents \union Named \union {None}) /\ resolve_agent_id(t) # None
<1> DEFINE bound == IF HasThread(t) THEN ThreadOf(t).agent ELSE None
<1>1. bound \in Named \union {None}
  <2>1. CASE HasThread(t)
    <3>1. PICK k \in DOMAIN threads : threads[k].tid = t
      BY <2>1 DEF HasThread
    <3>2. ThreadOf(t) \in {threads[j] : j \in DOMAIN threads}
      BY <3>1 DEF ThreadOf
    <3>3. ThreadOf(t) \in Thread
      BY <3>2 DEF MailInv, MailTypes
    <3> QED
      BY <2>1, <3>3 DEF Thread
  <2> QED
    BY <2>1
<1>2. resolve_agent_id(t) = IF bound # None THEN bound ELSE DefaultAgent
  BY DEF resolve_agent_id
<1> QED
  BY <1>1, <1>2, SecretaryAssumption

LEMMA GeneratedMail ==
  ASSUME MailInv, NEW t \in ThreadIds, GenerateResponse(t)
  PROVE  MailInv'
<1> DEFINE a == resolve_agent_id(t)
           r == [responder[t] EXCEPT !.pc = "save", !.agent = a]
<1>1. /\ t \in DOMAIN responder /\ responder[t].pc = "generate" /\ Move(t, r)
      /\ UNCHANGED <<contacts, hand, threads, messages, excused, stranded, cleared>>
  BY DEF GenerateResponse, Doing, keptByResponder, contactVars, vars
<1>2. a \in (Agents \union Named \union {None}) /\ a # None
  BY ResolvedAgentIs
<1> HIDE DEF a
<1>3. TaskOK(r) /\ r.pc = "save" /\ r.msg = responder[t].msg
  BY <1>1, <1>2 DEF MailInv, MailTypes, TaskOK, Task
<1> HIDE DEF r
<1>4. responder'[t] = r
  BY <1>1, <1>3, MoveIs
<1>5. \A m : Preparing(t, m)' => Preparing(t, m)
  BY <1>1, <1>3, <1>4 DEF Preparing, HasThread
<1> QED
  BY <1>1, <1>3, <1>5, GoesOn

LEMMA FailedMail ==
  ASSUME MailInv, NEW t \in ThreadIds,
         LookFails(t) \/ GenerationFails(t) \/ StoringFails(t)
  PROVE  MailInv'
<1>1. /\ t \in DOMAIN responder /\ GiveUp(t)
      /\ UNCHANGED <<contacts, hand, threads, messages, cleared>>
  BY DEF LookFails, GenerationFails, StoringFails, Doing, keptByFault, rowVars
<1>2. stranded \subseteq stranded' /\ (~Doing(t, "post") \/ responder[t].msg \in stranded')
  BY DEF LookFails, GenerationFails, StoringFails, Doing
<1> QED
  BY <1>1, <1>2, GivesUp

LEMMA SavedMail ==
  ASSUME MailInv, NEW t \in ThreadIds, SaveResponse(t)
  PROVE  MailInv'
<1>1. /\ t \in DOMAIN responder /\ responder[t].pc = "save"
      /\ UNCHANGED <<contacts, hand, threads, stranded, cleared>>
  BY DEF SaveResponse, Doing, keptByResponder, contactVars, vars
<1>2. CASE ~(responder[t].id \in peer_keys /\ HasThread(t))
  <2>1. GiveUp(t) /\ messages' = messages
    BY <1>2 DEF SaveResponse
  <2> QED
    BY <1>1, <2>1, GivesUp DEF Doing
<1>3. CASE responder[t].id \in peer_keys /\ HasThread(t)
  <2> DEFINE msg == Answer(t)
             r == [responder[t] EXCEPT !.pc = "post"]
  <2>1. messages' = Append(messages, msg) /\ Move(t, r) /\ excused' = excused
    BY <1>3 DEF SaveResponse
  <2>2. /\ MessageOK(msg) /\ msg.id = None /\ msg.tid = t /\ msg.out
        /\ msg.corr = responder[t].msg /\ ~msg.posted
    BY <1>1 DEF MailInv, MailTypes, TaskOK, Task, MessageOK, Message, Answer
  <2>3. TaskOK(r) /\ r.pc = "post" /\ r.msg = responder[t].msg
    BY <1>1 DEF MailInv, MailTypes, TaskOK, Task
  <2> HIDE DEF msg, r
  <2>4. /\ DOMAIN responder' = DOMAIN responder /\ responder'[t] = r
        /\ \A x \in DOMAIN responder \ {t} : responder'[x] = responder[x]
        /\ DOMAIN responder' \subseteq ThreadIds
        /\ \A x \in DOMAIN responder' : TaskOK(responder'[x])
    BY <1>1, <2>1, <2>3, MoveIs
  <2>5. WaitsOK'
    <3>1. \A x \in DOMAIN responder : responder[x].pc # "release" =>
            x \in DOMAIN responder' /\ responder'[x].pc # "release"
      BY <2>3, <2>4
    <3> QED
      BY <1>1, <2>1, <2>2, <3>1, ServedWithMore
  <2>6. AnswersArePosted'
    <3>1. \A x \in ThreadIds : Doing(x, "post") =>
            Doing(x, "post")' /\ responder'[x].msg = responder[x].msg
      BY <1>1, <2>4 DEF Doing
    <3>2. /\ msg.tid \in DOMAIN responder' /\ responder'[msg.tid].pc = "post"
          /\ responder'[msg.tid].msg = msg.corr
      BY <1>1, <2>2, <2>3, <2>4
    <3> QED
      BY <1>1, <2>1, <2>2, <3>1, <3>2, PostedWithMore
  <2>7. \A x \in ThreadIds, m \in Incoming \ cleared : Preparing(x, m)' => Preparing(x, m)
    BY <1>1, <2>3, <2>4 DEF Preparing, HasThread
  <2>8. \A m \in Incoming \ cleared : msg.out /\ msg.corr = m =>
          Preparing(msg.tid, m) /\ ~(responder'[msg.tid].pc \in {"generate", "save"})
    BY <1>1, <1>3, <2>2, <2>3, <2>4 DEF Preparing
  <2> QED
    BY <1>1, <1>3, <2>1, <2>2, <2>4, <2>5, <2>6, <2>7, <2>8, MessageAdded
<1> QED
  BY <1>2, <1>3

LEMMA PostedMail ==
  ASSUME MailInv, NEW t \in ThreadIds, PostResponse(t)
  PROVE  MailInv'
<1> DEFINE mine == {k \in DOMAIN messages : messages[k].out /\ messages[k].tid = t
                                             /\ messages[k].corr = responder[t].msg}
<1>1. /\ t \in DOMAIN responder /\ responder[t].pc = "post"
      /\ UNCHANGED <<contacts, hand, threads, stranded, cleared>>
  BY DEF PostResponse, Doing, keptByResponder, contactVars, vars
<1>2. CASE mine = {}
  <2>1. GiveUp(t) /\ messages' = messages
    BY <1>2 DEF PostResponse
  <2> QED
    BY <1>1, <1>2, <2>1, GivesUp
<1>3. CASE mine # {}
  <2> DEFINE r == [responder[t] EXCEPT !.pc = "look", !.msg = None, !.agent = None]
  <2>1. PICK new : new = messages'
    OBVIOUS
  <2>2. /\ new = [k \in DOMAIN messages |->
                    IF k \in mine THEN [messages[k] EXCEPT !.posted = TRUE] ELSE messages[k]]
        /\ Move(t, r) /\ excused' = excused
    BY <1>3, <2>1 DEF PostResponse
  <2>3. TaskOK(r) /\ r.pc = "look"
    BY <1>1 DEF MailInv, MailTypes, TaskOK, Task
  <2> HIDE DEF r
  <2>4. /\ DOMAIN responder' = DOMAIN responder /\ responder'[t] = r
        /\ \A x \in DOMAIN responder \ {t} : responder'[x] = responder[x]
        /\ DOMAIN responder' \subseteq ThreadIds
        /\ \A x \in DOMAIN responder' : TaskOK(responder'[x])
    BY <1>1, <2>2, <2>3, MoveIs
  <2>5. /\ messages \in Seq(Message) /\ DOMAIN messages = 1..Len(messages)
        /\ Len(messages) \in Nat /\ \A k \in DOMAIN messages : MessageOK(messages[k])
    BY Rows DEF MailInv, MailTypes
  <2>6. /\ DOMAIN new = DOMAIN messages
        /\ \A k \in DOMAIN messages :
             /\ MessageOK(new[k]) /\ new[k] \in Message
             /\ new[k].id = messages[k].id /\ new[k].tid = messages[k].tid
             /\ new[k].out = messages[k].out /\ new[k].corr = messages[k].corr
             /\ ~new[k].posted => ~messages[k].posted /\ k \notin mine
    <3>1. ASSUME NEW k \in DOMAIN messages
          PROVE  /\ MessageOK(new[k]) /\ new[k] \in Message
                 /\ new[k].id = messages[k].id /\ new[k].tid = messages[k].tid
                 /\ new[k].out = messages[k].out /\ new[k].corr = messages[k].corr
                 /\ ~new[k].posted => ~messages[k].posted /\ k \notin mine
      <4>1. CASE k \in mine
        <5>1. new[k] = [messages[k] EXCEPT !.posted = TRUE]
          BY <2>2, <4>1
        <5>2. PICK old, now : old = messages[k] /\ now = new[k]
          OBVIOUS
        <5>3. MessageOK(old) /\ now = [old EXCEPT !.posted = TRUE]
          BY <2>5, <5>1, <5>2
        <5>4. /\ MessageOK(now) /\ now.id = old.id /\ now.tid = old.tid /\ now.out = old.out
              /\ now.corr = old.corr /\ now.posted = TRUE
          BY <5>3 DEF MessageOK, Message
        <5> QED
          BY <5>2, <5>4 DEF MessageOK
      <4>2. CASE k \notin mine
        <5>1. new[k] = messages[k]
          BY <2>2, <4>2
        <5> QED
          BY <2>5, <4>2, <5>1 DEF MessageOK
      <4> QED
        BY <4>1, <4>2
    <3> QED
      BY <2>2, <3>1
  <2>7. new \in Seq(Message)
    <3>1. new \in [1..Len(messages) -> Message]
      BY <2>2, <2>5, <2>6
    <3> QED
      BY <2>5, <3>1
  <2>8. MailTypes'
    BY <1>1, <2>1, <2>4, <2>6, <2>7 DEF MailInv, MailTypes
  <2>9. TablesOK'
    <3>1. /\ \A k \in DOMAIN new : HasThread(new[k].tid)
          /\ \A j, k \in DOMAIN new : j # k /\ new[j].id # None => new[j].id # new[k].id
      BY <2>6 DEF MailInv, TablesOK
    <3> QED
      BY <1>1, <2>1, <3>1 DEF MailInv, TablesOK, HasThread, HasRow
  <2>10. \A k \in DOMAIN messages : \A m, x :
           (Asks(k, m, x)' <=> Asks(k, m, x)) /\ (Answers(k, m)' <=> Answers(k, m))
    BY <2>1, <2>6 DEF Asks, Answers
  <2>11. \A x \in ThreadIds : \A m : Preparing(x, m)' => Preparing(x, m)
    BY <1>1, <2>3, <2>4 DEF Preparing, HasThread
  <2>12. AnswersOK'
    <3> SUFFICES ASSUME NEW m \in Incoming \ cleared
                 PROVE  /\ \A j \in DOMAIN new : Answers(j, m)' =>
                             \E k \in DOMAIN new : k < j /\ Asks(k, m, new[j].tid)'
                        /\ \A j, k \in DOMAIN new : Answers(j, m)' /\ Answers(k, m)' => j = k
                        /\ \A x \in ThreadIds : Preparing(x, m)' =>
                             /\ \E k \in DOMAIN new : Asks(k, m, x)'
                             /\ \A j \in DOMAIN new : ~Answers(j, m)'
      BY <1>1, <2>1 DEF AnswersOK
    <3>1. /\ \A j \in DOMAIN messages : Answers(j, m) =>
               \E k \in DOMAIN messages : k < j /\ Asks(k, m, messages[j].tid)
          /\ \A j, k \in DOMAIN messages : Answers(j, m) /\ Answers(k, m) => j = k
          /\ \A x \in ThreadIds : Preparing(x, m) =>
               /\ \E k \in DOMAIN messages : Asks(k, m, x)
               /\ \A j \in DOMAIN messages : ~Answers(j, m)
      BY DEF MailInv, AnswersOK
    <3>2. ASSUME NEW j \in DOMAIN new, Answers(j, m)'
          PROVE  \E k \in DOMAIN new : k < j /\ Asks(k, m, new[j].tid)'
      <4>1. PICK y : y = messages[j].tid
        OBVIOUS
      <4>2. PICK k \in DOMAIN messages : k < j /\ Asks(k, m, y)
        BY <2>6, <2>10, <3>1, <3>2, <4>1
      <4>3. new[j].tid = y /\ k \in DOMAIN new /\ Asks(k, m, y)'
        BY <2>6, <2>10, <3>2, <4>1, <4>2
      <4> QED
        BY <2>1, <4>2, <4>3
    <3> QED
      BY <2>6, <2>10, <2>11, <3>1, <3>2
  <2>13. AnswersArePosted'
    <3> SUFFICES ASSUME NEW k \in DOMAIN new, new[k].out, ~new[k].posted,
                        new[k].corr \notin stranded
                 PROVE  /\ new[k].tid \in DOMAIN responder'
                        /\ responder'[new[k].tid].pc = "post"
                        /\ responder'[new[k].tid].msg = new[k].corr
      BY <1>1, <2>1 DEF AnswersArePosted, Doing
    <3>1. /\ messages[k].tid \in DOMAIN responder /\ responder[messages[k].tid].pc = "post"
          /\ responder[messages[k].tid].msg = messages[k].corr
      BY <2>6 DEF MailInv, AnswersArePosted, Doing
    <3>2. messages[k].tid # t
      BY <2>6, <3>1
    <3> QED
      BY <2>4, <2>6, <3>1, <3>2
  <2>14. WaitsOK'
    <3> SUFFICES ASSUME NEW k \in DOMAIN new, ~new[k].out, new[k].id \notin excused,
                        new[k].id \notin AllAnswered(new[k].tid)'
                 PROVE  Served(k)'
      BY <2>1, <2>2 DEF WaitsOK
    <3>1. PICK x, y : x = messages[k].id /\ y = messages[k].tid
      OBVIOUS
    <3>2. x \notin AllAnswered(y)
      <4> SUFFICES ASSUME x \in AllAnswered(y) PROVE FALSE
        OBVIOUS
      <4>1. PICK j \in DOMAIN messages : messages[j].tid = y /\ Answers(j, x)
        BY AnsweredMeans
      <4>2. j \in DOMAIN new /\ new[j].tid = y /\ Answers(j, x)'
        BY <2>6, <2>10, <4>1
      <4> QED
        BY <2>1, <2>6, <3>1, <4>2, AnsweredMeans
    <3>3. Served(k)
      BY <2>6, <3>1, <3>2 DEF MailInv, WaitsOK
    <3>4. \/ y \in DOMAIN responder' /\ responder'[y].pc # "release"
          \/ \E s \in Sessions : /\ Working(s, "decide")' /\ hand'[s].msg = x /\ hand'[s].tid = y
      BY <1>1, <2>3, <2>4, <3>1, <3>3 DEF Served, Working
    <3> QED
      BY <2>1, <2>6, <3>1, <3>4 DEF Served
  <2> QED
    BY <2>8, <2>9, <2>12, <2>13, <2>14 DEF MailInv
<1> QED
  BY <1>2, <1>3

LEMMA ReleasedMail ==
  ASSUME MailInv, NEW t \in ThreadIds, ReleaseThread(t)
  PROVE  MailInv'
<1>1. /\ t \in DOMAIN responder /\ responder[t].pc = "release"
      /\ responder' = [x \in DOMAIN responder \ {t} |-> responder[x]]
      /\ UNCHANGED <<contacts, hand, threads, messages, excused, stranded, cleared>>
  BY DEF ReleaseThread, Doing, keptByResponder, contactVars, vars
<1>2. /\ DOMAIN responder' = DOMAIN responder \ {t}
      /\ \A x \in DOMAIN responder' : responder'[x] = responder[x]
      /\ DOMAIN responder' \subseteq ThreadIds
      /\ \A x \in DOMAIN responder' : TaskOK(responder'[x])
  BY <1>1 DEF MailInv, MailTypes
<1>3. WaitsOK'
  BY <1>1, <1>2, StillServed
<1>4. AnswersArePosted'
  BY <1>1, <1>2, PostedStay DEF Doing
<1>5. \A x \in ThreadIds, m \in Incoming \ cleared : Preparing(x, m)' => Preparing(x, m)
  BY <1>1, <1>2 DEF Preparing, HasThread
<1> QED
  BY <1>1, <1>2, <1>3, <1>4, <1>5, TasksMove

-----------------------------------------------------------------------------
(* Messages of the window, and the end of the program.                         *)

LEMMA ThreadRows ==
  ASSUME MailTypes
  PROVE  \A k \in DOMAIN threads : threads[k].tid \in ThreadIds
<1>1. \A k \in DOMAIN threads : threads[k] \in Thread
  BY DEF MailTypes
<1> QED
  BY <1>1 DEF Thread

LEMMA OwnMail ==
  ASSUME IInv, MailInv, NEW c \in Commands,
         FindOwnThread(c) \/ CreateOwnThread(c) \/ StoreOwnMessage(c)
  PROVE  MailInv'
<1>1. UNCHANGED <<contacts, hand, responder, excused, stranded, cleared>> /\ HandsStay
  BY DEF FindOwnThread, CreateOwnThread, StoreOwnMessage, keptBySend, rowVars, HandsStay
<1>2. CASE threads' = threads /\ messages' = messages
  <2>1. WaitsOK'
    BY <1>1, <1>2, StillServed
  <2> QED
    BY <1>1, <1>2, <2>1, TasksStay
<1>3. CASE CreateOwnThread(c) /\ threads' # threads
  <2>1. cmd[c] \in Command
    BY <1>3 DEF CreateOwnThread, At, IInv, TypesOK, ContactsTypeOK
  <2>2. PICK u, a : u = cmd[c].uid /\ a = None
    OBVIOUS
  <2>3. /\ HasRow(cmd[c].id, u) /\ messages' = messages
        /\ \E t \in FreshTids : threads' = create_thread(t, u, a)
    BY <1>3, <2>2 DEF CreateOwnThread
  <2>4. u \in Nat \ {0} /\ \E i \in Ids : HasRow(i, u)
    <3>1. cmd[c].id \in Ids
      BY <2>1 DEF Command
    <3>2. contacts[cmd[c].id] \in Row /\ contacts[cmd[c].id].uid = u
      BY <2>3, <3>1 DEF HasRow, IInv, TypesOK, ContactsTypeOK
    <3> QED
      BY <2>3, <3>1, <3>2 DEF Row
  <2> QED
    BY <1>1, <2>2, <2>3, <2>4, ThreadAdded
<1>4. CASE StoreOwnMessage(c) /\ messages' # messages
  <2> DEFINE msg == [id |-> None, tid |-> cmd[c].tid, out |-> TRUE, corr |-> None,
                     agent |-> None, posted |-> TRUE]
  <2>1. HasThread(cmd[c].tid) /\ messages' = Append(messages, msg) /\ threads' = threads
    BY <1>4 DEF StoreOwnMessage
  <2>2. cmd[c].tid \in ThreadIds
    BY <2>1, ThreadRows DEF HasThread, MailInv
  <2>3. /\ MessageOK(msg) /\ msg.id = None /\ msg.out /\ msg.corr = None /\ msg.posted
        /\ HasThread(msg.tid)
    BY <2>1, <2>2 DEF MessageOK, Message
  <2> HIDE DEF msg
  <2>4. WaitsOK'
    BY <1>1, <2>1, <2>3, ServedWithMore DEF HandsStay
  <2>5. AnswersArePosted'
    BY <1>1, <2>1, <2>3, PostedWithMore DEF Doing
  <2>6. \A t \in ThreadIds, m \in Incoming \ cleared : Preparing(t, m)' => Preparing(t, m)
    BY <1>1, <2>1 DEF Preparing, HasThread
  <2>7. \A m \in Incoming \ cleared : msg.corr # m
    BY <2>3, SecretaryAssumption DEF Incoming
  <2>8. DOMAIN responder' \subseteq ThreadIds /\ \A t \in DOMAIN responder' : TaskOK(responder'[t])
    BY <1>1 DEF MailInv, MailTypes
  <2> QED
    BY <1>1, <2>1, <2>3, <2>4, <2>5, <2>6, <2>7, <2>8, MessageAdded
<1>5. \/ threads' = threads /\ messages' = messages
      \/ CreateOwnThread(c) /\ threads' # threads
      \/ StoreOwnMessage(c) /\ messages' # messages
  BY DEF FindOwnThread, CreateOwnThread, StoreOwnMessage
<1> QED
  BY <1>2, <1>3, <1>4, <1>5

LEMMA RestartedMail ==
  ASSUME MailInv, SecretaryRestart
  PROVE  MailInv'
<1>1. /\ UNCHANGED <<contacts, threads, messages, cleared>> /\ responder' = <<>>
      /\ excused' = excused \cup UNION {AllUnanswered(t) : t \in ThreadIds}
      /\ stranded' = stranded \cup {messages[k].corr : k \in
           {j \in DOMAIN messages : messages[j].out /\ ~messages[j].posted}}
  BY DEF SecretaryRestart, Restart
<1>2. DOMAIN responder' = {}
  BY <1>1
<1>3. AnswersArePosted'
  BY <1>1 DEF AnswersArePosted
<1>4. WaitsOK'
  <2> SUFFICES ASSUME NEW k \in DOMAIN messages, ~messages[k].out,
                      messages[k].id \notin excused',
                      messages[k].id \notin AllAnswered(messages[k].tid)'
               PROVE  FALSE
    BY <1>1 DEF WaitsOK
  <2>1. messages[k].id \notin AllAnswered(messages[k].tid)
    BY <1>1 DEF AllAnswered, Messages
  <2>2. messages[k].id \in AllUnanswered(messages[k].tid) /\ messages[k].tid \in ThreadIds
    BY <2>1, UnansweredMeans, Rows DEF MailInv
  <2> QED
    BY <1>1, <2>2
<1>5. \A t, m : ~Preparing(t, m)'
  BY <1>2 DEF Preparing
<1> QED
  BY <1>1, <1>2, <1>3, <1>4, <1>5, TasksMove

LEMMA MailInit ==
  ASSUME SecretaryInit
  PROVE  MailInv
<1>1. threads = <<>> /\ messages = <<>> /\ responder = <<>>
  BY DEF SecretaryInit
<1>2. DOMAIN messages = {} /\ DOMAIN threads = {} /\ DOMAIN responder = {}
  BY <1>1
<1>3. MailTypes
  BY <1>1, <1>2 DEF MailTypes
<1>4. TablesOK
  BY <1>2 DEF TablesOK
<1>5. AnswersOK
  BY <1>2 DEF AnswersOK, Preparing
<1>6. AnswersArePosted /\ WaitsOK
  BY <1>2 DEF AnswersArePosted, WaitsOK
<1> QED
  BY <1>3, <1>4, <1>5, <1>6 DEF MailInv

-----------------------------------------------------------------------------
(* The invariant of the mail and what follows from it.                         *)

THEOREM MailInductive == SecretarySpec => [](IInv /\ MailInv)
<1>1. SecretaryInit => MailInv
  BY MailInit
<1>2. IInv /\ MailInv /\ [SecretaryNext]_allVars => MailInv'
  <2> SUFFICES ASSUME IInv, MailInv, [SecretaryNext]_allVars PROVE MailInv'
    OBVIOUS
  <2>1. CASE ContactStep /\ Cascade /\ UNCHANGED <<responder, excused, stranded, cleared>>
    BY <2>1, CascadeOK
  <2>2. CASE SecretaryRestart
    BY <2>2, RestartedMail
  <2>3. ASSUME NEW s \in Sessions,
               \/ \E m \in Incoming : handle_incoming_envelope(s, m)
               \/ FindThread(s) \/ StoreMessage(s) \/ AutoRespond(s)
        PROVE  MailInv'
    BY <2>3, EnvelopeMail, ThreadFoundMail, StoredMail, RespondMail
  <2>4. ASSUME NEW t \in ThreadIds, ResponderStep(t)
        PROVE  MailInv'
    BY <2>4, LookedMail, GeneratedMail, FailedMail, SavedMail, PostedMail, ReleasedMail
       DEF ResponderStep
  <2>5. ASSUME NEW t \in ThreadIds,
               delete_thread(t) \/ clear_thread_messages(t) \/ clear_my_chat_messages(t)
        PROVE  MailInv'
    BY <2>5, DeletedOK
  <2>6. ASSUME NEW c \in Commands,
               FindOwnThread(c) \/ CreateOwnThread(c) \/ StoreOwnMessage(c)
        PROVE  MailInv'
    BY <2>6, OwnMail
  <2>7. CASE UNCHANGED allVars
    <3>1. UNCHANGED <<contacts, hand, threads, messages, responder, excused, stranded, cleared>>
      BY <2>7 DEF allVars, vars, mailVars
    <3>2. WaitsOK'
      BY <3>1, StillServed
    <3> QED
      BY <3>1, <3>2, TasksStay
  <2> QED
    BY <2>1, <2>2, <2>3, <2>4, <2>5, <2>6, <2>7 DEF SecretaryNext
<1> QED
  BY <1>1, <1>2, Inductive, PTL DEF SecretarySpec

(* Rows point at rows that exist; however often a message comes again, and     *)
(* whatever else is deleted meanwhile, the table holds at most one answer to   *)
(* it, unless it was cleared from a thread while it was answered or as an      *)
(* answer of the peer; and a stored answer is in the outbox, or its responder  *)
(* is about to put it there, unless the program ended between the two inserts  *)
(* or the second one failed (relay/secretary.rs, relay/db/messages.rs).        *)
THEOREM OneAnswerOnItsWay == SecretarySpec => []RepliesSound
<1>1. IInv /\ MailInv => RepliesSound
  <2> SUFFICES ASSUME IInv, MailInv PROVE TypeOK /\ AnsweredOnce
    BY DEF RepliesSound, MailInv
  <2>1. TypeOK
    <3>1. ContactsTypeOK /\ hand \in [Sessions -> Introduce \cup Routed \cup Storing \cup {None}]
      BY DEF IInv, TypesOK, Letters
    <3>2. \A k \in DOMAIN threads : threads[k].tid \in ThreadIds
      BY ThreadRows DEF MailInv
    <3> QED
      BY <3>1, <3>2 DEF TypeOK, MailInv, MailTypes, TablesOK
  <2>2. ASSUME NEW m \in Incoming \ cleared
        PROVE  Cardinality({k \in DOMAIN messages : messages[k].out /\ messages[k].corr = m}) <= 1
    <3> DEFINE S == {k \in DOMAIN messages : messages[k].out /\ messages[k].corr = m}
    <3>1. \A j, k \in S : j = k
      BY DEF MailInv, AnswersOK, Answers
    <3> HIDE DEF S
    <3>2. ASSUME S = {} PROVE Cardinality(S) <= 1
      BY <3>2, FS_EmptySet
    <3>3. ASSUME S # {} PROVE Cardinality(S) <= 1
      <4>1. PICK x : x \in S
        BY <3>3
      <4>2. S = {x}
        BY <3>1, <4>1
      <4> QED
        BY <4>2, FS_Singleton
    <3> QED
      BY <3>2, <3>3 DEF S
  <2> QED
    BY <2>1, <2>2 DEF AnsweredOnce
<1> QED
  BY <1>1, MailInductive, PTL

(* A stored message of a peer that is to be answered and has no answer yet has *)
(* a responder in its thread that will look again, or the event loop is about  *)
(* to start one.  Excused are the messages a responder left behind when its    *)
(* answer or one of its statements failed, those a restart interrupted, those  *)
(* older than the last Recent of their thread, and one deferred to a responder *)
(* that had looked for the last time (handle_incoming_message and              *)
(* ACTIVE_THREADS in relay/secretary.rs).                                      *)
THEOREM NobodyWaitsAlone == SecretarySpec => []WaitsForResponder
<1>1. MailInv => WaitsForResponder
  BY DEF MailInv, WaitsOK, WaitsForResponder, Served
<1> QED
  BY <1>1, MailInductive, PTL
=============================================================================
