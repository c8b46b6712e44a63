------------------------ MODULE RelayPresence_proofs ------------------------
(***************************************************************************)
(* Proofs about RelayPresence, for any peers, sessions and contacts and    *)
(* any number of lost sockets and restarts.                                *)
(***************************************************************************)
EXTENDS RelayPresence, SequenceTheorems, TLAPS

----------------------------------------------------------------------------
(* The inductive invariant.                                                *)

\* A session that has not authenticated has asked for nothing.
NothingAsked == \A s \in Sessions : pc[s] = "auth" => asked[s] = {}

\* The snapshot lists only peers that were looked up.
LookedUp == \A s \in Sessions : pc[s] = "read" => pend[s] \cap snap[s] = {}

\* The snapshot under way will show q's present status to s.
WillShow(s, q) ==
  \/ pc[s] = "read" /\ q \in pend[s]
  \/ pc[s] \in {"read", "snapshot"} /\ (Online(q) <=> q \in snap[s])

\* A handler of q has still to tell p q's present status.
WillTell(r, q, p) ==
  /\ owner[r] = q
  /\ Online(q) <=> news[r] = "online"
  /\ pc[r] \in {"unsubscribe", "collect"} \/ (pc[r] = "notify" /\ p \in pend[r])

\* Whom a session is to hear of: it asked for them and they stand in the
\* subscription of its peer.
Watches(s, q) ==
  /\ s \in open \ swept
  /\ conn[owner[s]] = s
  /\ q \in asked[s] \cap subs[owner[s]]

\* Whoever a session watches, it was told of, or is about to be.
NewsComes ==
  \A s \in Sessions, q \in Peers : Watches(s, q) =>
    \/ q \in told[s]
    \/ WillShow(s, q)
    \/ \E r \in Sessions : WillTell(r, q, owner[s])

\* RegisteredIsServed without the types.
Served ==
  \A p \in Peers : Online(p) =>
    /\ owner[conn[p]] = p
    /\ pc[conn[p]] \notin {"free", "auth", "unsubscribe"}
    /\ news[conn[p]] = "online"

IInv == TypeOK /\ Served /\ NothingAsked /\ LookedUp /\ NewsComes

USE DEF handlerVars, clientVars

----------------------------------------------------------------------------
(* Type correctness.                                                       *)

\* The frame a handler reads, and those that are left.
LEMMA FrameRead ==
  ASSUME TypeOK, NEW s \in Sessions, up[s] # <<>>
  PROVE  /\ Head(up[s]) \in SUBSET Peers
         /\ Tail(up[s]) \in Seq(SUBSET Peers)
<1>1. up[s] \in Seq(SUBSET Peers)
  BY DEF TypeOK
<1> QED
  BY <1>1, HeadTailProperties

\* What a client asks for.
LEMMA AskType ==
  ASSUME NEW qs \in SUBSET Peers
  PROVE  Ask(qs) \in Seq(SUBSET Peers)
<1>1. <<>> \in Seq(SUBSET Peers)
  OBVIOUS
<1>2. <<qs>> \in Seq(SUBSET Peers)
  OBVIOUS
<1> QED
  BY <1>1, <1>2 DEF Ask

LEMMA InitTypeOK ==
  ASSUME Init
  PROVE  TypeOK
<1>1. (CHOOSE p \in Peers : TRUE) \in Peers
  BY PeerAssumption
<1>2. <<>> \in Seq(SUBSET Peers)
  OBVIOUS
<1> QED
  BY <1>1, <1>2, ContactAssumption, BoundAssumption DEF Init, TypeOK

\* The steps of the clients.
LEMMA ClientTypeOK ==
  ASSUME TypeOK,
         \/ \E p \in Peers : Dial(p)
         \/ \E p, q \in Peers : AddContact(p, q)
         \/ \E s \in Sessions : OnConnected(s) \/ Drop(s)
  PROVE  TypeOK'
<1>1. ASSUME NEW p \in Peers, Dial(p)
      PROVE  TypeOK'
  <2>1. PICK s \in Sessions \ open :
          /\ pc[s] = "free"
          /\ owner' = [owner EXCEPT ![s] = p]
          /\ pc' = [pc EXCEPT ![s] = "auth"]
          /\ open' = open \cup {s}
          /\ greeted' = greeted \ {s}
          /\ \E first \in {<<>>, Ask(known[p])} : up' = [up EXCEPT ![s] = first]
          /\ view' = [view EXCEPT ![s] = {}]
          /\ asked' = [asked EXCEPT ![s] = {}]
          /\ told' = [told EXCEPT ![s] = {}]
          /\ swept' = swept \ {s}
    BY <1>1 DEF Dial
  <2>2. PICK first \in {<<>>, Ask(known[p])} : up' = [up EXCEPT ![s] = first]
    BY <2>1
  <2>3. first \in Seq(SUBSET Peers)
    <3>1. known[p] \in SUBSET Peers
      BY DEF TypeOK
    <3>2. Ask(known[p]) \in Seq(SUBSET Peers)
      BY <3>1, AskType
    <3>3. <<>> \in Seq(SUBSET Peers)
      OBVIOUS
    <3> QED
      BY <3>2, <3>3
  <2>4. up' \in [Sessions -> Seq(SUBSET Peers)]
    BY <2>2, <2>3 DEF TypeOK
  <2> QED
    BY <1>1, <2>1, <2>4 DEF Dial, TypeOK
<1>2. ASSUME NEW p \in Peers, NEW q \in Peers, AddContact(p, q)
      PROVE  TypeOK'
  <2>1. \A s \in Sessions : Append(up[s], {q}) \in Seq(SUBSET Peers)
    BY AppendProperties DEF TypeOK
  <2>2. up' \in [Sessions -> Seq(SUBSET Peers)]
    BY <1>2, <2>1 DEF AddContact, TypeOK
  <2>3. known' \in [Peers -> SUBSET Peers]
    BY <1>2 DEF AddContact, TypeOK
  <2> QED
    BY <1>2, <2>2, <2>3 DEF AddContact, TypeOK
<1>3. ASSUME NEW s \in Sessions, OnConnected(s)
      PROVE  TypeOK'
  <2>1. known[owner[s]] \in SUBSET Peers /\ up[s] \in Seq(SUBSET Peers)
    BY DEF TypeOK
  <2>2. up[s] \o Ask(known[owner[s]]) \in Seq(SUBSET Peers)
    BY <2>1, AskType, ConcatProperties
  <2>3. up' \in [Sessions -> Seq(SUBSET Peers)]
    BY <1>3, <2>2 DEF OnConnected, TypeOK
  <2> QED
    BY <1>3, <2>3 DEF OnConnected, TypeOK
<1>4. ASSUME NEW s \in Sessions, Drop(s)
      PROVE  TypeOK'
  <2>1. faults' \in 0..MaxFaults
    BY <1>4, BoundAssumption DEF Drop, TypeOK
  <2> QED
    BY <1>4, <2>1 DEF Drop, TypeOK
<1> QED
  BY <1>1, <1>2, <1>3, <1>4

\* The steps of a session's handler.
LEMMA HandlerTypeOK ==
  ASSUME TypeOK, NEW s \in Sessions, Handler(s)
  PROVE  TypeOK'
<1> USE DEF TypeOK
<1>1. CASE Register(s)
  BY <1>1 DEF Register, Changed
<1>2. CASE Collect(s)
  BY <1>2 DEF Collect, SubscribersOf, AfterNotify
<1>3. CASE Notify(s)
  <2>1. PICK q \in pend[s] :
          /\ pend' = [pend EXCEPT ![s] = @ \ {q}]
          /\ pc' = [pc EXCEPT ![s] = IF pend[s] = {q} THEN AfterNotify(s) ELSE @]
          /\ \/ UNCHANGED <<view, told>>
             \/ /\ conn[q] \in open
                /\ view' = [view EXCEPT ![conn[q]] = IF news[s] = "online"
                                             THEN @ \cup {owner[s]} ELSE @ \ {owner[s]}]
                /\ told' = [told EXCEPT ![conn[q]] =
                               IF Online(owner[s]) = (news[s] = "online")
                               THEN @ \cup {owner[s]} ELSE @]
    BY <1>3 DEF Notify
  <2>2. view' \in [Sessions -> SUBSET Peers] /\ told' \in [Sessions -> SUBSET Peers]
    <3>1. CASE UNCHANGED <<view, told>>
      BY <3>1
    <3>2. CASE ~ UNCHANGED <<view, told>>
      <4> DEFINE V == IF news[s] = "online" THEN view[conn[q]] \cup {owner[s]}
                                           ELSE view[conn[q]] \ {owner[s]}
                 T == IF Online(owner[s]) = (news[s] = "online")
                      THEN told[conn[q]] \cup {owner[s]} ELSE told[conn[q]]
      <4>1. view' = [view EXCEPT ![conn[q]] = V] /\ told' = [told EXCEPT ![conn[q]] = T]
        BY <2>1, <3>2
      <4>2. conn[q] \in Sessions
        BY <2>1, <3>2
      <4>3. V \in SUBSET Peers /\ T \in SUBSET Peers
        BY <4>2
      <4> HIDE DEF V, T
      <4> QED
        BY <4>1, <4>2, <4>3
    <3> QED
      BY <3>1, <3>2
  <2>3. pend' \in [Sessions -> SUBSET Peers]
    BY <2>1
  <2>4. /\ pc' \in [Sessions -> {"free", "auth", "collect", "notify", "loop", "read",
                                "snapshot", "unsubscribe"}]
        /\ \A r \in Sessions : pend'[r] # {} => pc'[r] \in {"notify", "read"}
    BY <1>3, <2>1 DEF Notify, AfterNotify
  <2> QED
    BY <1>3, <2>2, <2>3, <2>4 DEF Notify
<1>4. CASE Subscribe(s)
  <2>1. Head(up[s]) \in SUBSET Peers /\ Tail(up[s]) \in Seq(SUBSET Peers)
    BY <1>4, FrameRead DEF Subscribe
  <2> QED
    BY <1>4, <2>1 DEF Subscribe
<1>5. CASE Read(s)
  BY <1>5 DEF Read
<1>6. CASE Snapshot(s)
  <2>1. view' \in [Sessions -> SUBSET Peers] /\ told' \in [Sessions -> SUBSET Peers]
    <3>1. CASE s \notin open
      BY <1>6, <3>1 DEF Snapshot
    <3>2. CASE s \in open
      <4> DEFINE V == (view[s] \ asked[s]) \cup snap[s]
                 T == told[s] \cup {q \in asked[s] : Online(q) = (q \in snap[s])}
      <4>1. view' = [view EXCEPT ![s] = V] /\ told' = [told EXCEPT ![s] = T]
        BY <1>6, <3>2 DEF Snapshot
      <4>2. V \in SUBSET Peers /\ T \in SUBSET Peers
        OBVIOUS
      <4> HIDE DEF V, T
      <4> QED
        BY <4>1, <4>2
    <3> QED
      BY <3>1, <3>2
  <2>2. /\ pc' \in [Sessions -> {"free", "auth", "collect", "notify", "loop", "read",
                                "snapshot", "unsubscribe"}]
        /\ \A r \in Sessions : pend'[r] # {} => pc'[r] \in {"notify", "read"}
    BY <1>6 DEF Snapshot
  <2> QED
    BY <1>6, <2>1, <2>2 DEF Snapshot
<1>7. CASE Close(s)
  <2>1. <<>> \in Seq(SUBSET Peers)
    OBVIOUS
  <2>2. up' \in [Sessions -> Seq(SUBSET Peers)]
    BY <1>7, <2>1 DEF Close
  <2>3. CASE conn[owner[s]] = s
    <3>1. told' \in [Sessions -> SUBSET Peers]
      BY <1>7, <2>3 DEF Close, Changed
    <3>2. /\ conn' \in [Peers -> Sessions \cup {None}]
          /\ news' \in [Sessions -> {"online", "offline"}]
          /\ pc' \in [Sessions -> {"free", "auth", "collect", "notify", "loop", "read",
                                   "snapshot", "unsubscribe"}]
      BY <1>7, <2>3 DEF Close
    <3>3. \A r \in Sessions : pend'[r] # {} => pc'[r] \in {"notify", "read"}
      BY <1>7, <2>3 DEF Close
    <3> QED
      BY <1>7, <2>2, <3>1, <3>2, <3>3 DEF Close
  <2>4. CASE conn[owner[s]] # s
    BY <1>7, <2>2, <2>4 DEF Close
  <2> QED
    BY <2>3, <2>4
<1>8. CASE Unsubscribe(s)
  BY <1>8 DEF Unsubscribe
<1> QED
  BY <1>1, <1>2, <1>3, <1>4, <1>5, <1>6, <1>7, <1>8 DEF Handler

LEMMA StepTypeOK == TypeOK /\ [Next]_vars => TypeOK'
<1> SUFFICES ASSUME TypeOK, [Next]_vars PROVE TypeOK'
  OBVIOUS
<1>1. CASE ServerRestart
  <2>1. <<>> \in Seq(SUBSET Peers)
    OBVIOUS
  <2> QED
    BY <1>1, <2>1, BoundAssumption DEF ServerRestart, TypeOK
<1>2. CASE UNCHANGED vars
  BY <1>2 DEF vars, TypeOK
<1> QED
  BY <1>1, <1>2, ClientTypeOK, HandlerTypeOK DEF Next

----------------------------------------------------------------------------
(* The invariant, action by action.                                        *)

LEMMA InitIInv == Init => IInv
<1> SUFFICES ASSUME Init PROVE IInv
  OBVIOUS
<1>1. TypeOK
  BY InitTypeOK
<1>2. Served /\ NothingAsked /\ LookedUp
  BY DEF Init, Served, Online, NothingAsked, LookedUp
<1>3. NewsComes
  BY DEF Init, NewsComes, Watches
<1> QED
  BY <1>1, <1>2, <1>3 DEF IInv

\* The clients.  A session dialled is neither registered nor telling anybody;
\* the other steps touch nothing the invariant speaks of but open, which only
\* shrinks.
LEMMA DialKeeps ==
  ASSUME IInv, TypeOK', NEW p \in Peers, Dial(p)
  PROVE  IInv'
<1>1. PICK r \in Sessions \ open :
        /\ pc[r] = "free"
        /\ owner' = [owner EXCEPT ![r] = p]
        /\ pc' = [pc EXCEPT ![r] = "auth"]
        /\ open' = open \cup {r}
        /\ asked' = [asked EXCEPT ![r] = {}]
        /\ told' = [told EXCEPT ![r] = {}]
        /\ swept' = swept \ {r}
  BY DEF Dial
<1> USE DEF IInv, TypeOK
<1>2. UNCHANGED <<conn, subs, news, pend, snap>>
  BY DEF Dial
<1>3. Served'
  BY <1>1, <1>2 DEF Served, Online
<1>4. NothingAsked' /\ LookedUp'
  BY <1>1, <1>2 DEF NothingAsked, LookedUp
<1>5. NewsComes'
  <2> SUFFICES ASSUME NEW s \in Sessions, NEW q \in Peers, Watches(s, q)'
               PROVE  (q \in told[s] \/ WillShow(s, q) \/ \E t \in Sessions : WillTell(t, q, owner[s]))'
    BY DEF NewsComes
  <2>1. s # r /\ Watches(s, q)
    BY <1>1, <1>2 DEF Watches
  <2>2. CASE q \in told[s] \/ WillShow(s, q)
    BY <1>1, <1>2, <2>1, <2>2 DEF WillShow, Online
  <2>3. ASSUME NEW t \in Sessions, WillTell(t, q, owner[s])
        PROVE  WillTell(t, q, owner[s])'
    BY <1>1, <1>2, <2>1, <2>3 DEF WillTell, Online
  <2> QED
    BY <2>1, <2>2, <2>3 DEF NewsComes
<1> QED
  BY <1>3, <1>4, <1>5 DEF IInv

LEMMA ClientKeeps ==
  ASSUME IInv, TypeOK',
         \/ \E p, q \in Peers : AddContact(p, q)
         \/ \E s \in Sessions : OnConnected(s) \/ Drop(s)
         \/ UNCHANGED vars
  PROVE  IInv'
<1>1. /\ UNCHANGED <<conn, subs, owner, pc, news, pend, snap, asked, told, swept>>
      /\ open' \subseteq open
  BY DEF AddContact, OnConnected, Drop, vars
<1>2. Served' /\ NothingAsked' /\ LookedUp'
  BY <1>1 DEF IInv, Served, Online, NothingAsked, LookedUp
<1>3. ASSUME NEW s \in Sessions, NEW q \in Peers
      PROVE  /\ Watches(s, q)' => Watches(s, q)
             /\ WillShow(s, q) => WillShow(s, q)'
             /\ \A t \in Sessions : WillTell(t, q, owner[s]) => WillTell(t, q, owner[s])'
  BY <1>1 DEF Watches, WillShow, WillTell, Online
<1>4. NewsComes'
  BY <1>1, <1>3 DEF IInv, NewsComes
<1> QED
  BY <1>2, <1>4 DEF IInv

\* A session registers: a peer that was not online becomes news, and its
\* handler has yet to spread it.
LEMMA RegisterKeeps ==
  ASSUME IInv, TypeOK', NEW s \in Sessions, Register(s)
  PROVE  IInv'
<1> USE DEF IInv, TypeOK
<1>1. /\ pc[s] = "auth"
      /\ conn' = [conn EXCEPT ![owner[s]] = s]
      /\ news' = [news EXCEPT ![s] = "online"]
      /\ pc' = [pc EXCEPT ![s] = "collect"]
      /\ UNCHANGED <<subs, owner, pend, snap, open, asked, swept>>
  BY DEF Register
<1>2. Served'
  BY <1>1, PeerAssumption DEF Served, Online
<1>3. NothingAsked' /\ LookedUp'
  BY <1>1 DEF NothingAsked, LookedUp
<1>4. NewsComes'
  <2> SUFFICES ASSUME NEW r \in Sessions, NEW q \in Peers, Watches(r, q)'
               PROVE  (q \in told[r] \/ WillShow(r, q) \/ \E t \in Sessions : WillTell(t, q, owner[r]))'
    BY DEF NewsComes
  <2>1. r # s /\ owner[r] # owner[s] /\ Watches(r, q)
    BY <1>1 DEF Watches, NothingAsked
  <2>2. CASE q = owner[s] /\ ~ Online(q)
    <3>1. WillTell(s, q, owner[r])'
      BY <1>1, <2>2, PeerAssumption DEF WillTell, Online
    <3> QED
      BY <3>1
  <2>3. CASE ~ (q = owner[s] /\ ~ Online(q))
    <3>1. Online(q)' <=> Online(q)
      BY <1>1, <2>3, PeerAssumption DEF Online
    <3>2. q \in told[r] => q \in told'[r]
      BY <2>3 DEF Register, Changed
    <3>3. WillShow(r, q) => WillShow(r, q)'
      BY <1>1, <2>1, <3>1 DEF WillShow
    <3>4. \A t \in Sessions : WillTell(t, q, owner[r]) => WillTell(t, q, owner[r])'
      BY <1>1, <3>1 DEF WillTell
    <3> QED
      BY <2>1, <3>2, <3>3, <3>4 DEF NewsComes
  <2> QED
    BY <2>2, <2>3
<1> QED
  BY <1>2, <1>3, <1>4

\* The subscribers are collected: whoever watches the peer is among them.
LEMMA CollectKeeps ==
  ASSUME IInv, TypeOK', NEW s \in Sessions, Collect(s)
  PROVE  IInv'
<1> USE DEF IInv, TypeOK
<1>1. /\ pc[s] = "collect"
      /\ pend' = [pend EXCEPT ![s] = SubscribersOf(owner[s])]
      /\ pc' = [pc EXCEPT ![s] = IF SubscribersOf(owner[s]) = {} THEN AfterNotify(s)
                                 ELSE "notify"]
      /\ UNCHANGED <<conn, subs, owner, news, snap, open, asked, told, swept>>
  BY DEF Collect
<1>2. Served'
  BY <1>1 DEF Served, Online, AfterNotify
<1>3. NothingAsked' /\ LookedUp'
  BY <1>1 DEF NothingAsked, LookedUp, AfterNotify
<1>4. NewsComes'
  <2> SUFFICES ASSUME NEW r \in Sessions, NEW q \in Peers, Watches(r, q)'
               PROVE  (q \in told[r] \/ WillShow(r, q) \/ \E t \in Sessions : WillTell(t, q, owner[r]))'
    BY DEF NewsComes
  <2>1. Watches(r, q)
    BY <1>1 DEF Watches
  <2>2. q \in told[r] => q \in told'[r]
    BY <1>1
  <2>3. WillShow(r, q) => WillShow(r, q)'
    BY <1>1 DEF WillShow, Online
  <2>4. ASSUME NEW t \in Sessions, WillTell(t, q, owner[r])
        PROVE  WillTell(t, q, owner[r])'
    <3>1. owner[r] \in SubscribersOf(q)
      BY <2>1 DEF Watches, SubscribersOf
    <3> QED
      BY <1>1, <2>4, <3>1 DEF WillTell, Online
  <2> QED
    BY <2>1, <2>2, <2>3, <2>4 DEF NewsComes
<1> QED
  BY <1>2, <1>3, <1>4

\* One subscriber is notified: the connection it has by now is the watching
\* session, if one watches.
LEMMA NotifyKeeps ==
  ASSUME IInv, TypeOK', NEW s \in Sessions, Notify(s)
  PROVE  IInv'
<1> USE DEF IInv, TypeOK
<1>1. PICK p \in pend[s] :
        /\ pc[s] = "notify"
        /\ pend' = [pend EXCEPT ![s] = @ \ {p}]
        /\ pc' = [pc EXCEPT ![s] = IF pend[s] = {p} THEN AfterNotify(s) ELSE @]
        /\ IF conn[p] \in open
           THEN told' = [told EXCEPT ![conn[p]] =
                           IF Online(owner[s]) = (news[s] = "online")
                           THEN @ \cup {owner[s]} ELSE @]
           ELSE UNCHANGED told
        /\ UNCHANGED <<conn, subs, owner, news, snap, open, asked, swept>>
  BY DEF Notify
<1>2. Served'
  BY <1>1 DEF Served, Online, AfterNotify
<1>3. NothingAsked' /\ LookedUp'
  BY <1>1 DEF NothingAsked, LookedUp, AfterNotify
<1>4. \A r \in Sessions : told[r] \subseteq told'[r]
  <2>1. CASE conn[p] \notin open
    BY <1>1, <2>1
  <2>2. CASE conn[p] \in open
    <3> DEFINE T == IF Online(owner[s]) = (news[s] = "online")
                    THEN told[conn[p]] \cup {owner[s]} ELSE told[conn[p]]
    <3>1. told' = [told EXCEPT ![conn[p]] = T]
      BY <1>1, <2>2
    <3>2. told[conn[p]] \subseteq T
      OBVIOUS
    <3> HIDE DEF T
    <3> QED
      BY <3>1, <3>2
  <2> QED
    BY <2>1, <2>2
<1>5. NewsComes'
  <2> SUFFICES ASSUME NEW r \in Sessions, NEW q \in Peers, Watches(r, q)'
               PROVE  (q \in told[r] \/ WillShow(r, q) \/ \E t \in Sessions : WillTell(t, q, owner[r]))'
    BY DEF NewsComes
  <2>1. Watches(r, q)
    BY <1>1 DEF Watches
  <2>2. WillShow(r, q) => WillShow(r, q)'
    BY <1>1 DEF WillShow, Online
  <2>3. ASSUME NEW t \in Sessions, WillTell(t, q, owner[r]), ~ WillTell(t, q, owner[r])'
        PROVE  q \in told'[r]
    <3>1. t = s /\ owner[s] = q /\ p = owner[r] /\ (Online(q) <=> news[s] = "online")
      BY <1>1, <2>3 DEF WillTell, Online
    <3>2. conn[p] = r /\ r \in open
      BY <2>1, <3>1 DEF Watches
    <3>3. Online(owner[s]) = (news[s] = "online")
      BY <3>1 DEF Online
    <3>4. told' = [told EXCEPT ![r] = @ \cup {q}]
      BY <1>1, <3>1, <3>2, <3>3
    <3> QED
      BY <3>4
  <2> QED
    BY <1>4, <2>1, <2>2, <2>3 DEF NewsComes
<1> QED
  BY <1>2, <1>3, <1>5

\* A subscription is set: all of it is still to be looked up, and the other
\* sessions of the peer watch no more.
LEMMA SubscribeKeeps ==
  ASSUME IInv, TypeOK', NEW s \in Sessions, Subscribe(s)
  PROVE  IInv'
<1> USE DEF IInv, TypeOK
<1>1. /\ pc[s] = "loop"
      /\ subs' = [subs EXCEPT ![owner[s]] = Head(up[s])]
      /\ swept' = (swept \cup {r \in Sessions : owner[r] = owner[s]}) \ {s}
      /\ asked' = [asked EXCEPT ![s] = Head(up[s])]
      /\ pend' = [pend EXCEPT ![s] = Head(up[s])]
      /\ snap' = [snap EXCEPT ![s] = {}]
      /\ pc' = [pc EXCEPT ![s] = "read"]
      /\ UNCHANGED <<conn, owner, news, open, told>>
  BY DEF Subscribe
<1>2. Served'
  BY <1>1 DEF Served, Online
<1>3. NothingAsked' /\ LookedUp'
  BY <1>1 DEF NothingAsked, LookedUp
<1>4. NewsComes'
  <2> SUFFICES ASSUME NEW r \in Sessions, NEW q \in Peers, Watches(r, q)'
               PROVE  (q \in told[r] \/ WillShow(r, q) \/ \E t \in Sessions : WillTell(t, q, owner[r]))'
    BY DEF NewsComes
  <2>1. CASE r = s
    BY <1>1, <2>1 DEF Watches, WillShow
  <2>2. CASE r # s
    <3>1. owner[r] # owner[s] /\ Watches(r, q)
      BY <1>1, <2>2 DEF Watches
    <3>2. WillShow(r, q) => WillShow(r, q)'
      BY <1>1, <2>2 DEF WillShow, Online
    <3>3. \A t \in Sessions : WillTell(t, q, owner[r]) => WillTell(t, q, owner[r])'
      BY <1>1 DEF WillTell, Online
    <3> QED
      BY <1>1, <3>1, <3>2, <3>3 DEF NewsComes
  <2> QED
    BY <2>1, <2>2
<1> QED
  BY <1>2, <1>3, <1>4

\* A peer is looked up.
LEMMA ReadKeeps ==
  ASSUME IInv, TypeOK', NEW s \in Sessions, Read(s)
  PROVE  IInv'
<1> USE DEF IInv, TypeOK
<1>1. PICK p \in pend[s] :
        /\ pc[s] = "read"
        /\ pend' = [pend EXCEPT ![s] = @ \ {p}]
        /\ snap' = [snap EXCEPT ![s] = IF Online(p) THEN @ \cup {p} ELSE @]
        /\ pc' = [pc EXCEPT ![s] = IF pend[s] = {p} THEN "snapshot" ELSE @]
        /\ UNCHANGED <<conn, subs, owner, news, open, asked, told, swept>>
  BY DEF Read
<1>2. Served'
  BY <1>1 DEF Served, Online
<1>3. NothingAsked'
  BY <1>1 DEF NothingAsked
<1>4. LookedUp'
  BY <1>1 DEF LookedUp
<1>5. NewsComes'
  <2> SUFFICES ASSUME NEW r \in Sessions, NEW q \in Peers, Watches(r, q)'
               PROVE  (q \in told[r] \/ WillShow(r, q) \/ \E t \in Sessions : WillTell(t, q, owner[r]))'
    BY DEF NewsComes
  <2>1. Watches(r, q)
    BY <1>1 DEF Watches
  <2>2. WillShow(r, q) => WillShow(r, q)'
    <3>1. CASE r # s
      BY <1>1, <3>1 DEF WillShow, Online
    <3>2. CASE r = s
      <4>1. pc'[s] \in {"read", "snapshot"} /\ (Online(q)' <=> Online(q))
        BY <1>1 DEF Online
      <4>2. q \in pend[s] \ {p} => pc'[s] = "read" /\ q \in pend'[s]
        BY <1>1
      <4>3. q = p => (Online(q) <=> q \in snap'[s])
        BY <1>1 DEF LookedUp
      <4>4. q # p => (q \in snap'[s] <=> q \in snap[s])
        BY <1>1
      <4> QED
        BY <1>1, <3>2, <4>1, <4>2, <4>3, <4>4 DEF WillShow
    <3> QED
      BY <3>1, <3>2
  <2>3. \A t \in Sessions : WillTell(t, q, owner[r]) => WillTell(t, q, owner[r])'
    BY <1>1 DEF WillTell, Online
  <2> QED
    BY <1>1, <2>1, <2>2, <2>3 DEF NewsComes
<1> QED
  BY <1>2, <1>3, <1>4, <1>5

\* The snapshot is sent.
LEMMA SnapshotKeeps ==
  ASSUME IInv, TypeOK', NEW s \in Sessions, Snapshot(s)
  PROVE  IInv'
<1> USE DEF IInv, TypeOK
<1>1. /\ pc[s] = "snapshot"
      /\ pc' = [pc EXCEPT ![s] = "loop"]
      /\ snap' = [snap EXCEPT ![s] = {}]
      /\ UNCHANGED <<conn, subs, owner, news, pend, open, asked, swept>>
  BY DEF Snapshot
<1>2. Served'
  BY <1>1 DEF Served, Online
<1>3. NothingAsked' /\ LookedUp'
  BY <1>1 DEF NothingAsked, LookedUp
<1>4. /\ \A r \in Sessions : told[r] \subseteq told'[r]
      /\ s \in open => \A q \in asked[s] :
                          (Online(q) <=> q \in snap[s]) => q \in told'[s]
  <2>1. CASE s \notin open
    BY <2>1 DEF Snapshot
  <2>2. CASE s \in open
    <3> DEFINE Right == {q \in asked[s] : Online(q) = (q \in snap[s])}
    <3>1. told' = [told EXCEPT ![s] = @ \cup Right]
      BY <2>2 DEF Snapshot
    <3>2. \A q \in asked[s] : (Online(q) <=> q \in snap[s]) => q \in Right
      BY DEF Online
    <3> HIDE DEF Right
    <3> QED
      BY <3>1, <3>2
  <2> QED
    BY <2>1, <2>2
<1>5. NewsComes'
  <2> SUFFICES ASSUME NEW r \in Sessions, NEW q \in Peers, Watches(r, q)'
               PROVE  (q \in told[r] \/ WillShow(r, q) \/ \E t \in Sessions : WillTell(t, q, owner[r]))'
    BY DEF NewsComes
  <2>1. Watches(r, q)
    BY <1>1 DEF Watches
  <2>2. WillShow(r, q) => q \in told'[r] \/ WillShow(r, q)'
    <3>1. CASE r # s
      BY <1>1, <3>1 DEF WillShow, Online
    <3>2. CASE r = s
      BY <1>1, <1>4, <2>1, <3>2 DEF WillShow, Watches
    <3> QED
      BY <3>1, <3>2
  <2>3. \A t \in Sessions : WillTell(t, q, owner[r]) => WillTell(t, q, owner[r])'
    BY <1>1 DEF WillTell, Online
  <2> QED
    BY <1>1, <1>4, <2>1, <2>2, <2>3 DEF NewsComes
<1> QED
  BY <1>2, <1>3, <1>5

\* A session ends: if it was the registered one, its peer is news and its
\* handler has yet to spread it.
LEMMA CloseKeeps ==
  ASSUME IInv, TypeOK', NEW s \in Sessions, Close(s)
  PROVE  IInv'
<1> USE DEF IInv, TypeOK
<1>1. /\ pc[s] \in {"auth", "loop"}
      /\ s \notin open
      /\ \E c \in {"unsubscribe", "free"} : pc' = [pc EXCEPT ![s] = c]
      /\ UNCHANGED <<subs, owner, pend, snap, open, asked, swept>>
  BY DEF Close
<1>2. conn[owner[s]] = s =>
        /\ conn' = [conn EXCEPT ![owner[s]] = None]
        /\ told' = [r \in Sessions |-> told[r] \ {owner[s]}]
        /\ news' = [news EXCEPT ![s] = "offline"]
        /\ pc' = [pc EXCEPT ![s] = "unsubscribe"]
  BY DEF Close, Changed
<1>3. conn[owner[s]] # s => UNCHANGED <<conn, told, news>>
  BY DEF Close
<1>4. \A p \in Peers \ {owner[s]} : conn'[p] = conn[p]
  BY <1>2, <1>3
<1>5. Served'
  <2> SUFFICES ASSUME NEW p \in Peers, Online(p)'
               PROVE  (/\ owner[conn[p]] = p
                       /\ pc[conn[p]] \notin {"free", "auth", "unsubscribe"}
                       /\ news[conn[p]] = "online")'
    BY DEF Served
  <2>1. conn'[p] = conn[p] /\ Online(p)
    BY <1>2, <1>3 DEF Online
  <2>2. conn[p] # s
    BY <1>2, <2>1 DEF Served, Online
  <2> QED
    BY <1>1, <1>2, <1>3, <2>1, <2>2 DEF Served, Online
<1>6. NothingAsked' /\ LookedUp'
  BY <1>1 DEF NothingAsked, LookedUp
<1>7. NewsComes'
  <2> SUFFICES ASSUME NEW r \in Sessions, NEW q \in Peers, Watches(r, q)'
               PROVE  (q \in told[r] \/ WillShow(r, q) \/ \E t \in Sessions : WillTell(t, q, owner[r]))'
    BY DEF NewsComes
  <2>1. r # s /\ Watches(r, q)
    BY <1>1, <1>2, <1>3, PeerAssumption DEF Watches
  <2>2. CASE conn[owner[s]] = s /\ q = owner[s]
    <3>1. WillTell(s, q, owner[r])'
      BY <1>1, <1>2, <2>2 DEF WillTell, Online
    <3> QED
      BY <3>1
  <2>3. CASE ~ (conn[owner[s]] = s /\ q = owner[s])
    <3>1. (Online(q)' <=> Online(q)) /\ (q \in told[r] => q \in told'[r])
      BY <1>2, <1>3, <2>3 DEF Online
    <3>2. WillShow(r, q) => WillShow(r, q)'
      BY <1>1, <2>1, <3>1 DEF WillShow
    <3>3. \A t \in Sessions : WillTell(t, q, owner[r]) => WillTell(t, q, owner[r])'
      <4> SUFFICES ASSUME NEW t \in Sessions, WillTell(t, q, owner[r])
                   PROVE  WillTell(t, q, owner[r])'
        OBVIOUS
      <4>1. t # s
        BY <1>1 DEF WillTell
      <4>2. pc'[t] = pc[t] /\ news'[t] = news[t]
        BY <1>1, <1>2, <1>3, <4>1
      <4> QED
        BY <1>1, <3>1, <4>2 DEF WillTell
    <3> QED
      BY <1>1, <2>1, <3>1, <3>2, <3>3 DEF NewsComes
  <2> QED
    BY <2>2, <2>3
<1> QED
  BY <1>5, <1>6, <1>7

\* The clean-up of the session that ended.
LEMMA UnsubscribeKeeps ==
  ASSUME IInv, TypeOK', NEW s \in Sessions, Unsubscribe(s)
  PROVE  IInv'
<1> USE DEF IInv, TypeOK
<1>1. /\ pc[s] = "unsubscribe"
      /\ subs' = [subs EXCEPT ![owner[s]] = {}]
      /\ swept' = swept \cup {r \in Sessions : owner[r] = owner[s]}
      /\ pc' = [pc EXCEPT ![s] = "collect"]
      /\ UNCHANGED <<conn, owner, news, pend, snap, open, asked, told>>
  BY DEF Unsubscribe
<1>2. Served'
  BY <1>1 DEF Served, Online
<1>3. NothingAsked' /\ LookedUp'
  BY <1>1 DEF NothingAsked, LookedUp
<1>4. NewsComes'
  <2> SUFFICES ASSUME NEW r \in Sessions, NEW q \in Peers, Watches(r, q)'
               PROVE  (q \in told[r] \/ WillShow(r, q) \/ \E t \in Sessions : WillTell(t, q, owner[r]))'
    BY DEF NewsComes
  <2>1. Watches(r, q)
    BY <1>1 DEF Watches
  <2>2. WillShow(r, q) => WillShow(r, q)'
    BY <1>1 DEF WillShow, Online
  <2>3. \A t \in Sessions : WillTell(t, q, owner[r]) => WillTell(t, q, owner[r])'
    BY <1>1 DEF WillTell, Online
  <2> QED
    BY <1>1, <2>1, <2>2, <2>3 DEF NewsComes
<1> QED
  BY <1>2, <1>3, <1>4

\* After a restart nobody is registered, and so nobody watches.
LEMMA RestartKeeps ==
  ASSUME IInv, TypeOK', ServerRestart
  PROVE  IInv'
<1> USE DEF IInv, TypeOK
<1>1. Served' /\ NothingAsked' /\ LookedUp'
  BY DEF ServerRestart, Served, Online, NothingAsked, LookedUp
<1>2. NewsComes'
  BY PeerAssumption DEF ServerRestart, NewsComes, Watches
<1> QED
  BY <1>1, <1>2

LEMMA StepIInv == IInv /\ [Next]_vars => IInv'
<1> SUFFICES ASSUME IInv, [Next]_vars PROVE IInv'
  OBVIOUS
<1>1. TypeOK'
  BY StepTypeOK DEF IInv
<1>2. ASSUME NEW s \in Sessions, Handler(s)
      PROVE  IInv'
  BY <1>1, <1>2, RegisterKeeps, CollectKeeps, NotifyKeeps, SubscribeKeeps, ReadKeeps,
     SnapshotKeeps, CloseKeeps, UnsubscribeKeeps DEF Handler
<1> QED
  BY <1>1, <1>2, DialKeeps, ClientKeeps, RestartKeeps DEF Next

LEMMA Inductive == Spec => []IInv
  BY InitIInv, StepIInv, PTL DEF Spec

----------------------------------------------------------------------------
(* What users see.                                                         *)

\* A registration is always served: remove_connection_if_session and the
\* comparison of session ids leave no entry behind in connections, whatever
\* the sessions of a peer do to each other (relay-server/src/ws.rs).
THEOREM RegistrationsAreServed == Spec => []RegisteredIsServed
<1>1. IInv => RegisteredIsServed
  BY DEF IInv, Served, RegisteredIsServed
<1> QED
  BY <1>1, Inductive, PTL

\* A session that was replaced does not remove the newer connection when it
\* ends (relay-server/src/ws.rs, the clean-up after the read loop).
THEOREM ReplacedSessionsLeaveTheNewer == Spec => NewerConnectionKept
<1> DEFINE Kept == \A p \in Peers :
                     Online(p) /\ conn[p] \in open /\ conn'[p] = None
                       => \A q \in Peers : conn'[q] = None /\ subs'[q] = {}
<1>1. IInv /\ [Next]_vars => [Kept]_vars
  <2> SUFFICES ASSUME IInv, Next, NEW p \in Peers,
                      Online(p), conn[p] \in open, conn'[p] = None
               PROVE  \A q \in Peers : conn'[q] = None /\ subs'[q] = {}
    OBVIOUS
  <2>1. CASE ServerRestart
    BY <2>1 DEF ServerRestart
  <2>2. ASSUME NEW s \in Sessions, Register(s)
        PROVE  FALSE
    BY <2>2, PeerAssumption DEF Register, Online, IInv, TypeOK
  <2>3. ASSUME NEW s \in Sessions, Close(s)
        PROVE  FALSE
    BY <2>3 DEF Close, Online, IInv, TypeOK
  <2>4. CASE UNCHANGED conn
    BY <2>4 DEF Online
  <2> QED
    BY <2>1, <2>2, <2>3, <2>4 DEF Next, Handler, Dial, AddContact, OnConnected, Drop,
       Collect, Notify, Subscribe, Read, Snapshot, Unsubscribe
<1> QED
  BY <1>1, Inductive, PTL DEF Spec, NewerConnectionKept

\* When all is quiet, a session that asked for a peer and is subscribed to it
\* was sent its present status: the snapshot and the notices of
\* relay-server/src/ws.rs and presence.rs leave no gap between them.
THEOREM PresenceIsUpToDate == Spec => []NoChangeMissed
<1>1. IInv => NoChangeMissed
  <2> SUFFICES ASSUME IInv, Quiet, NEW s \in Sessions \ swept, Current(s),
                      NEW q \in asked[s] \cap subs[owner[s]]
               PROVE  q \in told[s]
    BY DEF NoChangeMissed
  <2>1. q \in Peers /\ Watches(s, q)
    BY DEF IInv, TypeOK, Current, Watches
  <2>2. ~ WillShow(s, q) /\ \A r \in Sessions : ~ WillTell(r, q, owner[s])
    BY DEF Quiet, WillShow, WillTell
  <2> QED
    BY <2>1, <2>2 DEF IInv, NewsComes
<1> QED
  BY <1>1, Inductive, PTL
=============================================================================
