----------------------- MODULE RelayDelivery_proofs -----------------------
(***************************************************************************)
(* Proofs about RelayDelivery, for any number of peers, messages and       *)
(* sessions, any queue cap and any number of faults.                       *)
(***************************************************************************)
EXTENDS RelayDelivery, SequenceTheorems, FiniteSetTheorems, TLAPS

USE DEF Envelope, PeerAck, ServerAck, Connected, Disconnected

----------------------------------------------------------------------------
(* What the wire operators do to a well-typed state.                       *)

\* Push appends the given events to one inbox at most.
LEMMA PushAdds ==
  ASSUME TypeOK, NEW s \in Sessions, NEW es \in Seq(Event), Push(s, es)
  PROVE  /\ inbox' \in [Peers -> Seq(Event)]
         /\ \A p \in Peers : Range(inbox'[p]) \subseteq Range(inbox[p]) \cup Range(es)
<1>1. owner[s] \in Peers /\ inbox \in [Peers -> Seq(Event)]
  BY DEF TypeOK
<1>2. /\ inbox[owner[s]] \o es \in Seq(Event)
      /\ Range(inbox[owner[s]] \o es) = Range(inbox[owner[s]]) \cup Range(es)
  BY <1>1, ConcatProperties, RangeConcatenation
<1> QED
  BY <1>1, <1>2 DEF Push

\* Send appends the given frames to one session at most.
LEMMA SendAdds ==
  ASSUME TypeOK, NEW p \in Peers, NEW cs \in Seq(ClientMsg), Send(p, cs)
  PROVE  /\ up' \in [Sessions -> Seq(ClientMsg)]
         /\ \A s \in Sessions : Range(up'[s]) \subseteq Range(up[s]) \cup Range(cs)
<1>1. cur[p] \in Sessions \cup {None} /\ up \in [Sessions -> Seq(ClientMsg)]
  BY DEF TypeOK
<1>2. ASSUME cur[p] # None
      PROVE  /\ up[cur[p]] \o cs \in Seq(ClientMsg)
             /\ Range(up[cur[p]] \o cs) = Range(up[cur[p]]) \cup Range(cs)
  BY <1>1, <1>2, ConcatProperties, RangeConcatenation
<1> QED
  BY <1>1, <1>2 DEF Send

\* A non-empty sequence: its head is one of its elements, its tail has no other.
LEMMA HeadAndTail ==
  ASSUME NEW S, NEW q \in Seq(S), q # <<>>
  PROVE  /\ Head(q) \in S
         /\ Head(q) \in Range(q)
         /\ Tail(q) \in Seq(S)
         /\ Range(Tail(q)) \subseteq Range(q)
<1>1. /\ Len(q) \in Nat \ {0}
      /\ DOMAIN q = 1..Len(q)
      /\ Head(q) = q[1]
  BY EmptySeq, LenProperties
<1>2. /\ Head(q) \in S
      /\ Tail(q) \in Seq(S)
      /\ Len(Tail(q)) = Len(q) - 1
      /\ \A i \in 1..Len(Tail(q)) : Tail(q)[i] = q[i + 1]
  BY HeadTailProperties
<1>3. Range(q) = {q[i] : i \in 1..Len(q)}
  BY RangeEquality
<1>4. Range(Tail(q)) = {Tail(q)[i] : i \in 1..Len(Tail(q))}
  BY <1>2, RangeEquality
<1> QED
  BY <1>1, <1>2, <1>3, <1>4

\* Taking an event off an inbox.
LEMMA TakeRemoves ==
  ASSUME TypeOK, NEW p \in Peers, Take(p)
  PROVE  /\ inbox' \in [Peers -> Seq(Event)]
         /\ held' \in [Peers -> Nat]
         /\ Head(inbox[p]) \in Event
         /\ Head(inbox[p]) \in Range(inbox[p])
         /\ \A q \in Peers : Range(inbox'[q]) \subseteq Range(inbox[q])
<1>1. inbox \in [Peers -> Seq(Event)] /\ held \in [Peers -> Nat]
  BY DEF TypeOK
<1>2. /\ Head(inbox[p]) \in Event
      /\ Head(inbox[p]) \in Range(inbox[p])
      /\ Tail(inbox[p]) \in Seq(Event)
      /\ Range(Tail(inbox[p])) \subseteq Range(inbox[p])
  BY <1>1, HeadAndTail DEF Take
<1> QED
  BY <1>1, <1>2 DEF Take

\* Reading a frame off a session.
LEMMA ReadingRemoves ==
  ASSUME TypeOK, NEW s \in Sessions, NEW k, Reading(s, k)
  PROVE  /\ up' \in [Sessions -> Seq(ClientMsg)]
         /\ Head(up[s]) \in ClientMsg
         /\ Head(up[s]) \in Range(up[s])
         /\ Head(up[s]).kind = k
         /\ \A t \in Sessions : Range(up'[t]) \subseteq Range(up[t])
<1>1. up \in [Sessions -> Seq(ClientMsg)]
  BY DEF TypeOK
<1>2. /\ Head(up[s]) \in ClientMsg
      /\ Head(up[s]) \in Range(up[s])
      /\ Tail(up[s]) \in Seq(ClientMsg)
      /\ Range(Tail(up[s])) \subseteq Range(up[s])
  BY <1>1, HeadAndTail DEF Reading
<1> QED
  BY <1>1, <1>2 DEF Reading

\* The envelopes of unfinished messages, in any order, are frames, and none of
\* them is an acknowledgement.
LEMMA ResentFrames ==
  ASSUME NEW p \in Peers, NEW R \in SUBSET Unfinished(p), NEW ms \in Orders(R)
  PROVE  /\ Envelopes(ms) \in Seq(ClientMsg)
         /\ \A c \in Range(Envelopes(ms)) : c.kind = "envelope"
<1>1. R \subseteq Messages
  BY DEF Unfinished
<1>2. Cardinality(R) \in Nat
  BY <1>1, MessageAssumption, FS_Subset, FS_CardinalityType
<1>3. ms \in [1..Cardinality(R) -> Messages]
  BY <1>1 DEF Orders, Bijection, Injection
<1>4. Envelopes(ms) \in [1..Cardinality(R) -> ClientMsg]
  BY <1>3 DEF Envelopes, ClientMsg
<1>5. Envelopes(ms) \in Seq(ClientMsg)
  BY <1>2, <1>4, IsASeq
<1>6. \A c \in Range(Envelopes(ms)) : c.kind = "envelope"
  BY <1>3 DEF Range, Envelopes
<1> QED
  BY <1>5, <1>6

\* Dialing takes a free session, and empties its wire.
LEMMA DialTypes ==
  ASSUME TypeOK, NEW p \in Peers, Dial(p)
  PROVE  /\ cur' \in [Peers -> Sessions \cup {None}]
         /\ owner' \in [Sessions -> Peers]
         /\ \E s \in Sessions : /\ pc[s] = "free"
                                /\ pc' = [pc EXCEPT ![s] = "auth"]
         /\ up' \in [Sessions -> Seq(ClientMsg)]
         /\ \A s \in Sessions : Range(up'[s]) \subseteq Range(up[s])
<1> DEFINE t == CHOOSE s \in Free : TRUE
<1>1. t \in Free
  BY DEF Dial
<1>2. t \in Sessions /\ pc[t] = "free"
  BY <1>1 DEF Free
<1>3. /\ cur' = [cur EXCEPT ![p] = t]
      /\ owner' = [owner EXCEPT ![t] = p]
      /\ pc' = [pc EXCEPT ![t] = "auth"]
      /\ up' = [up EXCEPT ![t] = <<>>]
  BY DEF Dial
<1>4. <<>> \in Seq(ClientMsg) /\ Range(<<>>) = {}
  BY DEF Range
<1> HIDE DEF t
<1> QED
  BY <1>2, <1>3, <1>4 DEF TypeOK

----------------------------------------------------------------------------
(* What the steps of a node do, for all the invariants below.              *)

OutboxStates == {"none", "pending", "sending", "queued", "sent", "delivered"}
StateValues  == {"none", "sending", "queued", "sent", "delivered"}

\* The steps of relay_send_message and of relay_start with one message.
CommandStep(m) ==
  \/ Compose(m) \/ Sending(m) \/ Replay(m) \/ RetryDue(m)
  \/ OutboxFails(m) \/ PostFails(m) \/ ReplayFails(m)

LEMMA FaultCounted == ASSUME TypeOK, NEW k, Fault(k) PROVE faults' \in 0..MaxFaults
BY BoundAssumption DEF TypeOK, Fault

\* The two columns of a message after a step that says nothing of an
\* acknowledgement.
Unacknowledged ==
  /\ outbox' \in [Messages -> OutboxStates]
  /\ state' \in [Messages -> StateValues]
  /\ \A m \in Messages : /\ outbox'[m] \in {outbox[m], "pending", "sending"}
                         /\ state'[m] \in {state[m], "sending", "queued"}

\* What a step may add to the wires to the server: envelopes.
OnlyEnvelopesUp ==
  /\ up' \in [Sessions -> Seq(ClientMsg)]
  /\ \A s \in Sessions : \A c \in Range(up'[s]) :
       c \in Range(up[s]) \/ c.kind = "envelope"

\* A command puts one envelope on the wire at most, and moves the two columns
\* of its own message; the server and the event loops see nothing of it.
LEMMA CommandDoes ==
  ASSUME TypeOK, NEW m \in Messages, CommandStep(m)
  PROVE  /\ UNCHANGED <<serverVars, inbox, held, cur, status, stored, failed>>
         /\ call' \in [Messages -> {"none", "stored", "check", "posted", "done"}]
         /\ replay' \in [Messages -> {"no", "due", "sent"}]
         /\ later' \subseteq Messages
         /\ faults' \in 0..MaxFaults
         /\ Unacknowledged
         /\ OnlyEnvelopesUp
<1> USE DEF CommandStep, Sending, Replay, Compose, PersistOutbox, PostLater, Post,
            MarkSending, ReplaySkips, ReplaySends, ReplayMarks, RetryDue,
            OutboxFails, PostFails, ReplayFails, Backoff
<1>1. UNCHANGED <<serverVars, inbox, held, cur, status, stored, failed>>
  BY DEF wireVars
<1>0. call \in [Messages -> {"none", "stored", "check", "posted", "done"}]
  BY DEF TypeOK
<1>2. call' \in [Messages -> {"none", "stored", "check", "posted", "done"}]
  <2>1. \/ UNCHANGED call
        \/ \E c \in {"stored", "check", "posted", "done"} :
             call' = [call EXCEPT ![m] = c]
    OBVIOUS
  <2> QED
    BY <1>0, <2>1
<1>3. replay' \in [Messages -> {"no", "due", "sent"}]
  BY DEF TypeOK
<1>4. later' \subseteq Messages
  BY DEF TypeOK
<1>5. faults' \in 0..MaxFaults
  <2>1. UNCHANGED faults \/ \E k : Fault(k)
    OBVIOUS
  <2> QED
    BY <2>1, FaultCounted DEF TypeOK
<1>6. Unacknowledged
  <2>1. /\ \/ UNCHANGED outbox
           \/ \E c \in {"pending", "sending"} : outbox' = [outbox EXCEPT ![m] = c]
        /\ \/ UNCHANGED state
           \/ \E c \in {"sending", "queued"} : state' = [state EXCEPT ![m] = c]
    OBVIOUS
  <2>2. outbox \in [Messages -> OutboxStates] /\ state \in [Messages -> StateValues]
    BY DEF TypeOK, OutboxStates, StateValues
  <2>3. ASSUME NEW n \in Messages
        PROVE  /\ outbox'[n] \in {outbox[n], "pending", "sending"}
               /\ state'[n] \in {state[n], "sending", "queued"}
    BY <2>1, <2>2
  <2>4. outbox' \in [Messages -> OutboxStates] /\ state' \in [Messages -> StateValues]
    BY <2>1, <2>2 DEF OutboxStates, StateValues
  <2> QED
    BY <2>3, <2>4 DEF Unacknowledged
<1>7. OnlyEnvelopesUp
  <2>1. CASE UNCHANGED up
    BY <2>1 DEF TypeOK, OnlyEnvelopesUp
  <2>2. CASE Send(From[m], <<Envelope(m)>>)
    <3>1. <<Envelope(m)>> \in Seq(ClientMsg) /\ From[m] \in Peers
      BY MessageAssumption DEF ClientMsg
    <3>2. Range(<<Envelope(m)>>) = {Envelope(m)}
      BY DEF Range
    <3>3. /\ up' \in [Sessions -> Seq(ClientMsg)]
          /\ \A s \in Sessions :
               Range(up'[s]) \subseteq Range(up[s]) \cup {Envelope(m)}
      BY <2>2, <3>1, <3>2, SendAdds
    <3> QED
      BY <3>3 DEF OnlyEnvelopesUp
  <2> QED
    BY <2>1, <2>2 DEF wireVars
<1> QED
  BY <1>1, <1>2, <1>3, <1>4, <1>5, <1>6, <1>7

\* So does a re-send of what is unfinished.
LEMMA ResendDoes ==
  ASSUME TypeOK, NEW p \in Peers, Resend(p)
  PROVE  /\ later' \subseteq Messages
         /\ faults' \in 0..MaxFaults
         /\ Unacknowledged
         /\ OnlyEnvelopesUp
<1>1. PICK bad \in SUBSET Unfinished(p) :
        LET good == Unfinished(p) \ bad
        IN  /\ IF bad = {} THEN UNCHANGED faults ELSE Fault("send")
            /\ \E ms \in Orders(good) : Send(p, Envelopes(ms))
            /\ outbox' = [m \in Messages |-> IF m \in good THEN "sending"
                                             ELSE IF m \in bad THEN "pending"
                                             ELSE outbox[m]]
            /\ state' = [m \in Messages |-> IF m \in good THEN "sending"
                                            ELSE IF m \in bad THEN "queued"
                                            ELSE state[m]]
            /\ later' = later \cup bad
  BY DEF Resend
<1> DEFINE good == Unfinished(p) \ bad
<1>2. bad \subseteq Messages
  BY DEF Unfinished
<1>3. later' \subseteq Messages
  BY <1>1, <1>2 DEF TypeOK
<1>4. faults' \in 0..MaxFaults
  BY <1>1, FaultCounted DEF TypeOK
<1>5. Unacknowledged
  BY <1>1 DEF TypeOK, Unacknowledged, OutboxStates, StateValues
<1>6. OnlyEnvelopesUp
  <2>1. PICK ms \in Orders(good) : Send(p, Envelopes(ms))
    BY <1>1
  <2> HIDE DEF good
  <2>2. good \in SUBSET Unfinished(p)
    BY DEF good
  <2>3. /\ Envelopes(ms) \in Seq(ClientMsg)
        /\ \A c \in Range(Envelopes(ms)) : c.kind = "envelope"
    BY <2>2, ResentFrames
  <2> QED
    BY <2>1, <2>3, SendAdds DEF OnlyEnvelopesUp
<1> QED
  BY <1>3, <1>4, <1>5, <1>6

\* A frame of a session went from its client to the server's socket: dropping
\* it, dialing anew or a crash adds nothing to any wire but Disconnected.
LEMMA ClientDoes ==
  ASSUME TypeOK, NEW p \in Peers,
         Start(p) \/ Redial(p) \/ Drop(p) \/ Crash(p)
  PROVE  /\ UNCHANGED <<conn, task, seen, rows, gone, routed, cut, surplus,
                        outbox, later, state, stored, failed>>
         /\ \/ UNCHANGED pc
            \/ \E s \in Sessions : /\ pc[s] = "free"
                                   /\ pc' = [pc EXCEPT ![s] = "auth"]
         /\ owner' \in [Sessions -> Peers]
         /\ up' \in [Sessions -> Seq(ClientMsg)]
         /\ \A s \in Sessions : Range(up'[s]) \subseteq Range(up[s])
         /\ inbox' \in [Peers -> Seq(Event)]
         /\ held' \in [Peers -> Nat]
         /\ \A q \in Peers : \A e \in Range(inbox'[q]) :
              e \in Range(inbox[q]) \/ e = Disconnected
         /\ cur' \in [Peers -> Sessions \cup {None}]
         /\ status' \in [Peers -> {"dormant", "active", "reconnecting"}]
         /\ call' \in [Messages -> {"none", "stored", "check", "posted", "done"}]
         /\ replay' \in [Messages -> {"no", "due", "sent"}]
         /\ faults' \in 0..MaxFaults
<1>0. /\ owner \in [Sessions -> Peers]
      /\ up \in [Sessions -> Seq(ClientMsg)]
      /\ inbox \in [Peers -> Seq(Event)]
      /\ held \in [Peers -> Nat]
      /\ cur \in [Peers -> Sessions \cup {None}]
      /\ status \in [Peers -> {"dormant", "active", "reconnecting"}]
      /\ call \in [Messages -> {"none", "stored", "check", "posted", "done"}]
      /\ replay \in [Messages -> {"no", "due", "sent"}]
      /\ faults \in 0..MaxFaults
  BY DEF TypeOK
<1>1. CASE Start(p) \/ Redial(p)
  <2>1. Dial(p)
    BY <1>1 DEF Start, Redial
  <2>2. /\ UNCHANGED <<conn, task, seen, rows, gone, routed, cut, surplus, inbox,
                       held, call, outbox, later, state, stored, failed, faults>>
        /\ status' \in [Peers -> {"dormant", "active", "reconnecting"}]
        /\ replay' \in [Messages -> {"no", "due", "sent"}]
    BY <1>0, <1>1 DEF Start, Redial
  <2> QED
    BY <1>0, <2>1, <2>2, DialTypes
<1>2. CASE Drop(p)
  <2>1. PICK k \in held[p]..Len(inbox[p]) :
          /\ inbox' = [inbox EXCEPT
                         ![p] = Append(SubSeq(@, 1, k), Disconnected)]
          /\ held' = [held EXCEPT ![p] = k + 1]
    BY <1>2 DEF Drop
  <2> DEFINE old == inbox[p]
             kept == SubSeq(old, 1, k)
  <2>2. old \in Seq(Event) /\ held[p] \in Nat
    BY <1>0
  <2>3. k \in Nat /\ k <= Len(old) /\ Len(old) \in Nat
    BY <2>2, LenProperties
  <2>4. /\ kept \in Seq(Event)
        /\ Len(kept) = k
        /\ \A i \in 1..k : kept[i] = old[i]
    BY <2>2, <2>3, SubSeqProperties
  <2>5. Range(kept) \subseteq Range(old)
    <3>1. Range(kept) = {kept[i] : i \in 1..k}
      BY <2>4, RangeEquality
    <3>2. Range(old) = {old[i] : i \in 1..Len(old)}
      BY <2>2, RangeEquality
    <3> QED
      BY <2>3, <2>4, <3>1, <3>2
  <2>6. /\ Append(kept, Disconnected) \in Seq(Event)
        /\ Range(Append(kept, Disconnected)) = Range(kept) \cup {Disconnected}
    <3>1. Disconnected \in Event /\ <<Disconnected>> \in Seq(Event)
      BY DEF Event
    <3>2. Append(kept, Disconnected) = kept \o <<Disconnected>>
      BY <2>4, <3>1, AppendIsConcat
    <3>3. Range(<<Disconnected>>) = {Disconnected}
      BY DEF Range
    <3> HIDE DEF kept
    <3>4. Range(kept \o <<Disconnected>>) = Range(kept) \cup Range(<<Disconnected>>)
      BY <2>4, <3>1, RangeConcatenation
    <3>5. kept \o <<Disconnected>> \in Seq(Event)
      BY <2>4, <3>1, ConcatProperties
    <3> QED
      BY <3>2, <3>3, <3>4, <3>5
  <2>7. /\ inbox' \in [Peers -> Seq(Event)]
        /\ \A q \in Peers : \A e \in Range(inbox'[q]) :
              e \in Range(inbox[q]) \/ e = Disconnected
    <3> HIDE DEF old, kept
    <3>1. inbox' = [inbox EXCEPT ![p] = Append(kept, Disconnected)]
      BY <2>1 DEF kept, old
    <3> QED
      BY <1>0, <2>5, <2>6, <3>1 DEF old
  <2>8. held' \in [Peers -> Nat]
    BY <1>0, <2>1, <2>3
  <2>9. faults' \in 0..MaxFaults
    BY <1>0, <1>2, FaultCounted DEF Drop
  <2>10. /\ UNCHANGED <<serverVars, up, status, call, replay, outbox, later,
                        state, stored, failed>>
         /\ cur' \in [Peers -> Sessions \cup {None}]
    BY <1>0, <1>2 DEF Drop
  <2> QED
    BY <1>0, <2>7, <2>8, <2>9, <2>10 DEF serverVars
<1>3. CASE Crash(p)
  <2>1. <<>> \in Seq(Event) /\ Range(<<>>) = {}
    BY DEF Range
  <2>2. inbox' = [inbox EXCEPT ![p] = <<>>]
    BY <1>3 DEF Crash
  <2>3. /\ inbox' \in [Peers -> Seq(Event)]
        /\ \A q \in Peers : Range(inbox'[q]) \subseteq Range(inbox[q])
    BY <1>0, <2>1, <2>2
  <2>4. /\ UNCHANGED <<serverVars, up, outbox, later, state, stored, failed>>
        /\ held' \in [Peers -> Nat]
        /\ cur' \in [Peers -> Sessions \cup {None}]
        /\ status' \in [Peers -> {"dormant", "active", "reconnecting"}]
        /\ call' \in [Messages -> {"none", "stored", "check", "posted", "done"}]
        /\ replay' \in [Messages -> {"no", "due", "sent"}]
    BY <1>0, <1>3 DEF Crash
  <2>5. faults' \in 0..MaxFaults
    BY <1>3, FaultCounted DEF Crash
  <2> QED
    BY <1>0, <2>3, <2>4, <2>5 DEF serverVars
<1> QED
  BY <1>1, <1>2, <1>3

----------------------------------------------------------------------------
(* Type correctness.                                                       *)

LEMMA InitTypeOK == Init => TypeOK
<1> SUFFICES ASSUME Init PROVE TypeOK
  OBVIOUS
<1>1. \A S : <<>> \in Seq(S)
  OBVIOUS
<1>2. Nobody \in Peers
  BY PeerAssumption DEF Nobody
<1> QED
  BY <1>1, <1>2, BoundAssumption DEF Init, TypeOK, Busy

\* The steps of a node preserve the types.
LEMMA NodeTypeOK ==
  ASSUME TypeOK, NEW p \in Peers, Node(p)
  PROVE  TypeOK'
<1>1. CASE OnEnvelope(p)
  <2> DEFINE e == Head(inbox[p])
  <2>1. Take(p) /\ e.kind = "envelope"
    BY <1>1 DEF OnEnvelope
  <2>2. e \in Event
    BY <2>1, TakeRemoves
  <2>3. e.m \in Messages
    BY <2>1, <2>2 DEF Event, MsgEvent
  <2>4. <<PeerAck(e.m)>> \in Seq(ClientMsg)
    BY <2>3 DEF ClientMsg
  <2>5. up' \in [Sessions -> Seq(ClientMsg)]
    <3>1. CASE UNCHANGED up
      BY <3>1 DEF TypeOK
    <3>2. CASE Send(p, <<PeerAck(e.m)>>)
      BY <2>4, <3>2, SendAdds
    <3> QED
      BY <1>1, <3>1, <3>2 DEF OnEnvelope
  <2>6. stored' \subseteq Messages /\ failed' \subseteq Messages
    BY <1>1, <2>3 DEF OnEnvelope, TypeOK
  <2>7. inbox' \in [Peers -> Seq(Event)] /\ held' \in [Peers -> Nat]
    BY <2>1, TakeRemoves
  <2>8. faults' \in 0..MaxFaults
    BY <1>1, FaultCounted DEF OnEnvelope, TypeOK
  <2> QED
    BY <1>1, <2>5, <2>6, <2>7, <2>8 DEF OnEnvelope, TypeOK, serverVars
<1>2. CASE OnServerAck(p)
  <2> DEFINE e == Head(inbox[p])
  <2>1. Take(p) /\ e.kind \in AckStatus
    BY <1>2 DEF OnServerAck
  <2>2. e \in Event
    BY <2>1, TakeRemoves
  <2>3. e.m \in Messages
    BY <2>1, <2>2 DEF Event, MsgEvent, AckStatus
  <2>4. inbox' \in [Peers -> Seq(Event)] /\ held' \in [Peers -> Nat]
    BY <2>1, TakeRemoves
  <2> QED
    BY <1>2, <2>1, <2>3, <2>4 DEF OnServerAck, TypeOK, serverVars, AckStatus
<1>3. CASE OnPeerAck(p)
  <2>1. Take(p)
    BY <1>3 DEF OnPeerAck
  <2>2. inbox' \in [Peers -> Seq(Event)] /\ held' \in [Peers -> Nat]
    BY <2>1, TakeRemoves
  <2> QED
    BY <1>3, <2>2 DEF OnPeerAck, TypeOK, serverVars
<1>4. CASE OnConnected(p)
  <2>1. Take(p) /\ Resend(p)
    BY <1>4 DEF OnConnected
  <2>2. inbox' \in [Peers -> Seq(Event)] /\ held' \in [Peers -> Nat]
    BY <2>1, TakeRemoves
  <2>3. /\ later' \subseteq Messages
        /\ faults' \in 0..MaxFaults
        /\ outbox' \in [Messages -> OutboxStates]
        /\ state' \in [Messages -> StateValues]
        /\ up' \in [Sessions -> Seq(ClientMsg)]
    BY <2>1, ResendDoes DEF Unacknowledged, OnlyEnvelopesUp
  <2> QED
    BY <1>4, <2>2, <2>3 DEF OnConnected, TypeOK, serverVars, OutboxStates, StateValues
<1>5. CASE OnDisconnected(p)
  <2>1. Take(p)
    BY <1>5 DEF OnDisconnected
  <2>2. inbox' \in [Peers -> Seq(Event)] /\ held' \in [Peers -> Nat]
    BY <2>1, TakeRemoves
  <2> QED
    BY <1>5, <2>2 DEF OnDisconnected, TypeOK, serverVars
<1> QED
  BY <1>1, <1>2, <1>3, <1>4, <1>5 DEF Node

\* So do the commands and the client.
LEMMA CommandTypeOK ==
  ASSUME TypeOK, NEW m \in Messages, CommandStep(m)
  PROVE  TypeOK'
BY CommandDoes DEF TypeOK, serverVars, Unacknowledged, OnlyEnvelopesUp,
   OutboxStates, StateValues

LEMMA ClientTypeOK ==
  ASSUME TypeOK, NEW p \in Peers,
         Start(p) \/ Redial(p) \/ Drop(p) \/ Crash(p)
  PROVE  TypeOK'
<1>1. /\ pc' \in [Sessions -> {"free", "auth", "drain", "loop"} \cup Busy]
      /\ \A s \in Sessions : pc'[s] \in Busy => task[s] # None
  <2>1. \/ UNCHANGED pc
        \/ \E s \in Sessions : pc' = [pc EXCEPT ![s] = "auth"]
    BY ClientDoes
  <2> QED
    BY <2>1 DEF TypeOK, Busy
<1> QED
  BY <1>1, ClientDoes DEF TypeOK

\* The events a backlog is sent as.
LEMMA BacklogEvents ==
  ASSUME TypeOK, IsFiniteSet(rows), NEW R \in SUBSET rows, NEW b \in Backlogs(R)
  PROVE  /\ [i \in DOMAIN b |-> Envelope(b[i].m)] \in Seq(Event)
         /\ \A e \in Range([i \in DOMAIN b |-> Envelope(b[i].m)]) :
              e.kind = "envelope"
<1> DEFINE n == Cardinality(R)
<1>1. n \in Nat
  BY FS_Subset, FS_CardinalityType
<1>2. b \in [1..n -> R]
  BY DEF Backlogs, Orders, Bijection, Injection
<1> HIDE DEF n
<1>3. \A i \in DOMAIN b : b[i].m \in Messages
  <2>1. R \subseteq [id : Nat, m : Messages]
    BY DEF TypeOK
  <2> QED
    BY <1>2, <2>1
<1>4. [i \in DOMAIN b |-> Envelope(b[i].m)] \in [1..n -> Event]
  BY <1>2, <1>3 DEF Event, MsgEvent
<1>5. [i \in DOMAIN b |-> Envelope(b[i].m)] \in Seq(Event)
  BY <1>1, <1>4, IsASeq
<1> QED
  BY <1>5 DEF Range

\* A drain sends envelopes.
LEMMA DrainSends ==
  ASSUME TypeOK, IsFiniteSet(rows), NEW s \in Sessions, Drain(s)
  PROVE  /\ inbox' \in [Peers -> Seq(Event)]
         /\ \A p \in Peers : \A e \in Range(inbox'[p]) :
              e \in Range(inbox[p]) \/ e.kind = "envelope"
<1> DEFINE R == {r \in rows' : To[r.m] = owner[s]}
<1>1. PICK b \in Backlogs(R) : Push(s, [i \in DOMAIN b |-> Envelope(b[i].m)])
  BY DEF Drain
<1>2. R \in SUBSET rows
  BY DEF Drain
<1> HIDE DEF R
<1> DEFINE es == [i \in DOMAIN b |-> Envelope(b[i].m)]
<1>3. es \in Seq(Event) /\ \A e \in Range(es) : e.kind = "envelope"
  BY <1>2, BacklogEvents
<1>4. Push(s, es)
  BY <1>1
<1> HIDE DEF es
<1> QED
  BY <1>3, <1>4, PushAdds

\* Pushing one event adds nothing else to any inbox.
LEMMA PushOne ==
  ASSUME TypeOK, NEW s \in Sessions, NEW x \in Event, Push(s, <<x>>)
  PROVE  /\ inbox' \in [Peers -> Seq(Event)]
         /\ \A p \in Peers : \A e \in Range(inbox'[p]) :
              e \in Range(inbox[p]) \/ e = x
<1>1. <<x>> \in Seq(Event) /\ Range(<<x>>) = {x}
  BY DEF Range
<1> QED
  BY <1>1, PushAdds

\* What a handler that works on a message has in its hands.
LEMMA BusyTask ==
  ASSUME TypeOK, NEW s \in Sessions, pc[s] \in Busy
  PROVE  task[s] \in Messages
BY DEF TypeOK

\* A row for a message.
LEMMA InsertAdds ==
  ASSUME TypeOK, NEW s \in Sessions, Insert(s)
  PROVE  \E n \in Nat : /\ \A r \in rows : r.id < n
                        /\ rows' = rows \cup {[id |-> n, m |-> task[s]]}
<1>1. PICK n \in {1} \cup {r.id + 1 : r \in rows} :
        /\ \A r \in rows : r.id < n
        /\ rows' = rows \cup {[id |-> n, m |-> task[s]]}
  BY DEF Insert
<1>2. n \in Nat
  BY DEF TypeOK
<1> QED
  BY <1>1, <1>2

\* The steps of a session's handler preserve the types.
LEMMA HandlerTypeOK ==
  ASSUME TypeOK, IsFiniteSet(rows), NEW s \in Sessions, Handler(s)
  PROVE  TypeOK' /\ IsFiniteSet(rows')
<1> USE DEF Busy
<1>0. ASSUME pc[s] \in Busy
      PROVE  task[s] \in Messages
  BY <1>0, BusyTask
<1>1. CASE Drain(s)
  <2>1. PICK n \in {0} \cup {r.id : r \in rows} :
          /\ rows' = {r \in rows : r.id > n}
          /\ gone' = gone \cup {r.m : r \in rows \ rows'}
          /\ IF n = 0 THEN UNCHANGED faults ELSE Fault("expire")
    BY <1>1 DEF Drain
  <2>2. /\ rows' \subseteq [id : Nat, m : Messages]
        /\ gone' \subseteq Messages
        /\ IsFiniteSet(rows')
    <3>1. rows' \in SUBSET rows
      BY <2>1
    <3> QED
      BY <2>1, <3>1, FS_Subset DEF TypeOK
  <2>3. faults' \in 0..MaxFaults
    BY <2>1, FaultCounted DEF TypeOK
  <2>4. inbox' \in [Peers -> Seq(Event)]
    BY <1>1, DrainSends
  <2> QED
    BY <1>1, <2>2, <2>3, <2>4 DEF Drain, TypeOK, nodeVars
<1>2. CASE Duplicate(s)
  <2>1. Reading(s, "envelope") /\ Push(s, <<ServerAck(Head(up[s]).m, "sent")>>)
    BY <1>2 DEF Duplicate
  <2>2. Head(up[s]) \in ClientMsg /\ up' \in [Sessions -> Seq(ClientMsg)]
    BY <2>1, ReadingRemoves
  <2>3. ServerAck(Head(up[s]).m, "sent") \in Event
    BY <2>2 DEF ClientMsg, Event, MsgEvent, AckStatus
  <2>4. inbox' \in [Peers -> Seq(Event)]
    BY <2>1, <2>3, PushOne
  <2> QED
    BY <1>2, <2>2, <2>4 DEF Duplicate, TypeOK, serverVars, nodeVars
<1>3. CASE MarkSeen(s)
  <2>1. Head(up[s]) \in ClientMsg /\ up' \in [Sessions -> Seq(ClientMsg)]
    BY <1>3, ReadingRemoves DEF MarkSeen
  <2>2. Head(up[s]).m \in Messages
    BY <2>1 DEF ClientMsg
  <2>3. /\ task' = [task EXCEPT ![s] = Head(up[s]).m]
        /\ pc' = [pc EXCEPT ![s] = "route"]
        /\ seen' = seen \cup {Head(up[s]).m}
    BY <1>3 DEF MarkSeen
  <2>4. \A t \in Sessions : pc'[t] \in Busy => task'[t] # None
    BY <2>2, <2>3, MessageAssumption DEF TypeOK
  <2> QED
    BY <1>3, <2>1, <2>2, <2>3, <2>4 DEF MarkSeen, TypeOK, nodeVars
<1>4. CASE Forward(s)
  <2>1. task[s] \in Messages
    BY <1>0, <1>4 DEF Forward
  <2>2. To[task[s]] \in Peers
    BY <2>1, MessageAssumption
  <2>3. conn[To[task[s]]] \in Sessions
    BY <1>4, <2>2 DEF Forward, TypeOK
  <2>4. Envelope(task[s]) \in Event
    BY <2>1 DEF Event, MsgEvent
  <2>5. inbox' \in [Peers -> Seq(Event)]
    BY <1>4, <2>3, <2>4, PushOne DEF Forward
  <2> QED
    BY <1>4, <2>1, <2>5 DEF Forward, TypeOK, nodeVars
<1>5. CASE TargetOffline(s)
  BY <1>5 DEF TargetOffline, TypeOK, nodeVars, wireVars
<1>6. CASE Insert(s)
  <2>1. task[s] \in Messages
    BY <1>0, <1>6 DEF Insert
  <2>2. PICK n \in Nat : rows' = rows \cup {[id |-> n, m |-> task[s]]}
    BY <1>6, InsertAdds
  <2>3. rows' \subseteq [id : Nat, m : Messages]
    BY <2>1, <2>2 DEF TypeOK
  <2>4. IsFiniteSet(rows')
    BY <2>2, FS_AddElement
  <2> QED
    BY <1>6, <2>1, <2>3, <2>4, MessageAssumption DEF Insert, TypeOK, nodeVars, wireVars
<1>7. CASE Trim(s)
  <2>1. task[s] \in Messages
    BY <1>0, <1>7 DEF Trim
  <2>2. Overflow(To[task[s]]) \subseteq rows
    BY DEF Overflow, RowsOf
  <2>3. /\ rows' = rows \ Overflow(To[task[s]])
        /\ gone' = gone \cup {r.m : r \in Overflow(To[task[s]])}
    BY <1>7 DEF Trim
  <2>4. /\ rows' \subseteq [id : Nat, m : Messages]
        /\ gone' \subseteq Messages
        /\ IsFiniteSet(rows')
    <3> HIDE DEF Overflow
    <3>1. rows' \in SUBSET rows
      BY <2>3
    <3> QED
      BY <2>2, <2>3, <3>1, FS_Subset DEF TypeOK
  <2> QED
    BY <1>7, <2>1, <2>4, MessageAssumption DEF Trim, TypeOK, nodeVars, wireVars
<1>8. CASE Acknowledge(s)
  <2>1. task[s] \in Messages
    BY <1>0, <1>8 DEF Acknowledge
  <2> DEFINE x == ServerAck(task[s],
                            IF pc[s] = "ackSent" THEN "sent" ELSE "queued")
  <2>2. x \in Event
    BY <2>1 DEF Event, MsgEvent, AckStatus
  <2>3. inbox' \in [Peers -> Seq(Event)]
    BY <1>8, <2>2, PushOne DEF Acknowledge
  <2> QED
    BY <1>8, <2>3 DEF Acknowledge, Finish, TypeOK, nodeVars
<1>9. CASE HandlePeerAck(s)
  <2> DEFINE m == Head(up[s]).m
  <2>1. Head(up[s]) \in ClientMsg /\ up' \in [Sessions -> Seq(ClientMsg)]
    BY <1>9, ReadingRemoves DEF HandlePeerAck
  <2>2. m \in Messages
    BY <2>1 DEF ClientMsg
  <2>3. rows' \in SUBSET rows
    BY <1>9 DEF HandlePeerAck
  <2>4. rows' \subseteq [id : Nat, m : Messages] /\ IsFiniteSet(rows')
    BY <2>3, FS_Subset DEF TypeOK
  <2>5. faults' \in 0..MaxFaults
    BY <1>9, FaultCounted DEF HandlePeerAck, TypeOK
  <2>6. \A t \in Sessions : pc'[t] \in Busy => task'[t] # None
    BY <1>9, <2>2, MessageAssumption DEF HandlePeerAck, TypeOK
  <2> HIDE DEF m
  <2>7. task' = [task EXCEPT ![s] = m]
    BY <1>9 DEF HandlePeerAck, m
  <2> QED
    <3>1. /\ pc' = [pc EXCEPT ![s] = "confirm"]
          /\ UNCHANGED <<conn, owner, seen, gone, routed, cut, surplus, inbox, held,
                         nodeVars>>
      BY <1>9 DEF HandlePeerAck
    <3>2. /\ pc' \in [Sessions -> {"free", "auth", "drain", "loop"} \cup Busy]
          /\ task' \in [Sessions -> Messages \cup {None}]
      BY <2>2, <2>7, <3>1 DEF TypeOK
    <3> QED
      BY <2>1, <2>4, <2>5, <2>6, <3>1, <3>2 DEF TypeOK, nodeVars
<1>10. CASE Confirm(s)
  <2>1. task[s] \in Messages /\ From[task[s]] \in Peers
    BY <1>0, <1>10, MessageAssumption DEF Confirm
  <2>2. conn[From[task[s]]] \in Sessions \cup {None} /\ PeerAck(task[s]) \in Event
    BY <2>1 DEF TypeOK, Event, MsgEvent
  <2>3. inbox' \in [Peers -> Seq(Event)]
    <3>1. CASE UNCHANGED inbox
      BY <3>1 DEF TypeOK
    <3>2. CASE conn[From[task[s]]] # None
               /\ Push(conn[From[task[s]]], <<PeerAck(task[s])>>)
      BY <2>2, <3>2, PushOne
    <3> QED
      BY <1>10, <3>1, <3>2 DEF Confirm
  <2> QED
    BY <1>10, <2>3 DEF Confirm, Finish, TypeOK, nodeVars
<1>11. UNCHANGED rows => IsFiniteSet(rows')
  OBVIOUS
<1>12. UNCHANGED rows \/ Drain(s) \/ Insert(s) \/ Trim(s) \/ HandlePeerAck(s)
  BY DEF Handler, Duplicate, MarkSeen, Forward, TargetOffline, Acknowledge, Confirm,
     serverVars
<1> QED
  BY <1>1, <1>2, <1>3, <1>4, <1>5, <1>6, <1>7, <1>8, <1>9, <1>10, <1>11, <1>12
     DEF Handler

\* Logging in, closing, and the faults of the server.
ServerFault ==
  \/ \E s \in Sessions : EnqueueFails(s) \/ DrainFails(s)
  \/ ServerRestart
  \/ \E m \in Messages : Forget(m)

LEMMA ServerTypeOK ==
  ASSUME TypeOK, (\E s \in Sessions : Login(s) \/ Close(s)) \/ ServerFault
  PROVE  TypeOK'
<1> USE DEF Busy
<1>1. ASSUME NEW s \in Sessions, Login(s) PROVE TypeOK'
  <2>1. Connected \in Event
    BY DEF Event
  <2>2. inbox' \in [Peers -> Seq(Event)]
    BY <1>1, <2>1, PushOne DEF Login
  <2> QED
    BY <1>1, <2>2 DEF Login, TypeOK, nodeVars
<1>2. ASSUME NEW s \in Sessions, Close(s) PROVE TypeOK'
  <2>1. up' \in [Sessions -> Seq(ClientMsg)] /\ Nobody \in Peers
    BY <1>2, PeerAssumption DEF Close, TypeOK, Nobody
  <2> QED
    BY <1>2, <2>1 DEF Close, TypeOK, nodeVars
<1>3. ASSUME NEW s \in Sessions, EnqueueFails(s) PROVE TypeOK'
  <2>1. faults' \in 0..MaxFaults
    BY <1>3, FaultCounted DEF EnqueueFails
  <2>2. task[s] \in Messages
    BY <1>3, BusyTask DEF EnqueueFails
  <2>3. cut' \subseteq Messages /\ surplus' \subseteq Peers
    BY <1>3, <2>2, MessageAssumption DEF EnqueueFails, TypeOK
  <2> QED
    BY <1>3, <2>1, <2>3 DEF EnqueueFails, Finish, TypeOK, nodeVars, wireVars
<1>4. ASSUME NEW s \in Sessions, DrainFails(s) PROVE TypeOK'
  <2>1. faults' \in 0..MaxFaults
    BY <1>4, FaultCounted DEF DrainFails
  <2> QED
    BY <1>4, <2>1 DEF DrainFails, TypeOK, nodeVars, wireVars
<1>5. CASE ServerRestart
  <2>1. faults' \in 0..MaxFaults
    BY <1>5, FaultCounted DEF ServerRestart
  <2>2. up' \in [Sessions -> Seq(ClientMsg)] /\ Nobody \in Peers
    BY <1>5, PeerAssumption DEF ServerRestart, Nobody
  <2>3. cut' \subseteq Messages /\ surplus' \subseteq Peers
    <3>1. \A s \in Sessions : pc[s] \in Busy => To[task[s]] \in Peers
      BY BusyTask, MessageAssumption
    <3> QED
      BY <1>5, <3>1, BusyTask DEF ServerRestart, TypeOK
  <2> QED
    BY <1>5, <2>1, <2>2, <2>3 DEF ServerRestart, TypeOK, nodeVars
<1>6. ASSUME NEW m \in Messages, Forget(m) PROVE TypeOK'
  <2>1. faults' \in 0..MaxFaults
    BY <1>6, FaultCounted DEF Forget
  <2> QED
    BY <1>6, <2>1 DEF Forget, TypeOK, nodeVars, wireVars
<1> QED
  BY <1>1, <1>2, <1>3, <1>4, <1>5, <1>6 DEF ServerFault

\* The actions of Next, as these lemmas group them.
LEMMA NextSteps ==
  ASSUME [Next]_vars
  PROVE  \/ \E m \in Messages : CommandStep(m)
         \/ \E p \in Peers : Node(p)
         \/ \E p \in Peers : Start(p) \/ Redial(p) \/ Drop(p) \/ Crash(p)
         \/ \E s \in Sessions : Handler(s)
         \/ \E s \in Sessions : Login(s) \/ Close(s)
         \/ ServerFault
         \/ UNCHANGED vars
BY DEF Next, Environment, CommandStep, ServerFault

\* Only a handler touches the queue.
LEMMA RowsStay ==
  ASSUME TypeOK, [Next]_vars, \A s \in Sessions : ~ Handler(s)
  PROVE  UNCHANGED rows
<1>1. ASSUME NEW p \in Peers, Node(p) PROVE UNCHANGED rows
  BY <1>1 DEF Node, OnEnvelope, OnServerAck, OnPeerAck, OnConnected, OnDisconnected,
     serverVars
<1>2. ASSUME NEW m \in Messages, CommandStep(m) PROVE UNCHANGED rows
  BY <1>2, CommandDoes DEF serverVars
<1>3. ASSUME NEW p \in Peers, Start(p) \/ Redial(p) \/ Drop(p) \/ Crash(p)
      PROVE  UNCHANGED rows
  BY <1>3, ClientDoes
<1>4. ASSUME (\E s \in Sessions : Login(s) \/ Close(s)) \/ ServerFault
      PROVE  UNCHANGED rows
  BY <1>4 DEF Login, Close, ServerFault, EnqueueFails, DrainFails, ServerRestart, Forget
<1>5. CASE UNCHANGED vars
  BY <1>5 DEF vars, serverVars
<1> QED
  BY <1>1, <1>2, <1>3, <1>4, <1>5, NextSteps

Typed == TypeOK /\ IsFiniteSet(rows)

LEMMA TypedInductive == Spec => []Typed
<1>1. Init => Typed
  BY InitTypeOK, FS_EmptySet DEF Init, Typed
<1>2. Typed /\ [Next]_vars => Typed'
  <2> SUFFICES ASSUME Typed, [Next]_vars PROVE Typed'
    OBVIOUS
  <2> USE DEF Typed
  <2>1. ASSUME NEW s \in Sessions, Handler(s) PROVE Typed'
    BY <2>1, HandlerTypeOK
  <2>2. CASE \A s \in Sessions : ~ Handler(s)
    <3>1. TypeOK'
      <4>1. CASE UNCHANGED vars
        BY <4>1 DEF TypeOK, vars, serverVars, wireVars, nodeVars
      <4> QED
        BY <2>2, <4>1, NextSteps, CommandTypeOK, NodeTypeOK, ClientTypeOK, ServerTypeOK
    <3> QED
      BY <2>2, <3>1, RowsStay
  <2> QED
    BY <2>1, <2>2
<1> QED
  BY <1>1, <1>2, PTL DEF Spec

\* Every variable keeps its type, for any instance of the constants.
THEOREM TypeCorrect == Spec => []TypeOK
BY TypedInductive, PTL DEF Typed

----------------------------------------------------------------------------
(* Acknowledgements.  PeerAckMeansHandled and QueuedMeansKept are inductive *)
(* together: the first is what makes it safe to delete a row on a PeerAck.  *)

Kept == HeldIds \cup Handled \cup gone

\* What a handler is about to say is so.
HandsSound ==
  \A s \in Sessions :
    /\ pc[s] \in {"trim", "ackQueued"} => task[s] \in Kept
    /\ pc[s] = "ackSent" => task[s] \in routed
    /\ pc[s] = "confirm" => task[s] \in Handled

AckInv == Typed /\ PeerAckMeansHandled /\ QueuedMeansKept /\ HandsSound

\* What a step may add: nothing handled, kept or forwarded is forgotten, a new
\* acknowledgement is about a handled message, a new Queued about a kept one,
\* a new Sent about one that was seen before or had been forwarded.
SoundStep ==
  /\ Handled \subseteq Handled'
  /\ Kept \subseteq Kept'
  /\ routed \subseteq routed'
  /\ \A s \in Sessions : \A c \in Range(up'[s]) :
       c \in Range(up[s]) \/ c.kind = "envelope" \/ c.m \in Handled'
  /\ \A p \in Peers : \A e \in Range(inbox'[p]) :
       \/ e \in Range(inbox[p])
       \/ /\ e.kind = "peer_ack" => e.m \in Handled'
          /\ e.kind = "queued" => e.m \in Kept'
          /\ e.kind = "sent" => e.m \in seen \cup routed
  /\ \A m \in Messages :
       /\ outbox'[m] = "delivered" => outbox[m] = "delivered" \/ m \in Handled'
       /\ state'[m] = "delivered" => state[m] = "delivered" \/ m \in Handled'
       /\ outbox'[m] = "queued" => outbox[m] = "queued" \/ m \in Kept'
  /\ \A s \in Sessions :
       \/ pc'[s] = pc[s] /\ task'[s] = task[s]
       \/ /\ pc'[s] \in {"trim", "ackQueued"} => task'[s] \in Kept'
          /\ pc'[s] = "ackSent" => task'[s] \in routed'
          /\ pc'[s] = "confirm" => task'[s] \in Handled'

\* A sound step preserves these invariants.
LEMMA SoundStepPreserves ==
  ASSUME PeerAckMeansHandled, QueuedMeansKept, HandsSound, SoundStep
  PROVE  PeerAckMeansHandled' /\ QueuedMeansKept' /\ HandsSound'
<1>1. ASSUME NEW s \in Sessions, NEW c \in Frames(s)', c.kind = "peer_ack"
      PROVE  c.m \in Handled'
  BY <1>1 DEF SoundStep, PeerAckMeansHandled, Frames
<1>2. ASSUME NEW p \in Peers, NEW e \in Events(p)'
      PROVE  /\ e.kind = "peer_ack" => e.m \in Handled'
             /\ e.kind = "queued" => e.m \in Kept'
  BY <1>2 DEF SoundStep, PeerAckMeansHandled, QueuedMeansKept, Events, Kept
<1>3. ASSUME NEW m \in Messages
      PROVE  /\ outbox'[m] = "delivered" \/ state'[m] = "delivered"
                  => m \in Handled'
             /\ outbox'[m] = "queued" => m \in Kept'
  BY <1>3 DEF SoundStep, PeerAckMeansHandled, QueuedMeansKept, Kept
<1>4. ASSUME NEW s \in Sessions
      PROVE  /\ pc'[s] \in {"trim", "ackQueued"} => task'[s] \in Kept'
             /\ pc'[s] = "ackSent" => task'[s] \in routed'
             /\ pc'[s] = "confirm" => task'[s] \in Handled'
  BY DEF SoundStep, HandsSound
<1>5. PeerAckMeansHandled'
  BY <1>1, <1>2, <1>3, <1>4 DEF PeerAckMeansHandled
<1>6. QueuedMeansKept'
  BY <1>2, <1>3, <1>4 DEF QueuedMeansKept, Kept
<1>7. HandsSound'
  BY <1>4 DEF HandsSound
<1> QED
  BY <1>5, <1>6, <1>7

\* The event loop of a node takes sound steps: it acknowledges what it has just
\* handled, and writes into the outbox what an event told it.
LEMMA NodeSound ==
  ASSUME AckInv, NEW p \in Peers, Node(p)
  PROVE  SoundStep
<1> USE DEF AckInv, Typed
<1> DEFINE e == Head(inbox[p])
<1>b. ASSUME Take(p)
      PROVE  /\ \A q \in Peers : Range(inbox'[q]) \subseteq Range(inbox[q])
             /\ e \in Event
             /\ e \in Events(p)
  BY <1>b, TakeRemoves DEF Events
<1>1. CASE OnEnvelope(p)
  <2>1. Take(p) /\ e.kind = "envelope"
    BY <1>1 DEF OnEnvelope
  <2>2. e.m \in Messages
    BY <1>b, <2>1 DEF Event, MsgEvent
  <2>3. Handled \subseteq Handled'
    BY <1>1 DEF OnEnvelope, Handled
  <2>4. Kept \subseteq Kept'
    BY <1>1, <2>3 DEF OnEnvelope, serverVars, Kept, HeldIds
  <2>5. ASSUME NEW s \in Sessions, NEW c \in Range(up'[s])
        PROVE  c \in Range(up[s]) \/ c.m \in Handled'
    <3>1. CASE UNCHANGED up
      BY <2>5, <3>1
    <3>2. CASE Send(p, <<PeerAck(e.m)>>) /\ e.m \in Handled'
      <4>1. <<PeerAck(e.m)>> \in Seq(ClientMsg)
        BY <2>2 DEF ClientMsg
      <4>2. c \in Range(up[s]) \/ c \in Range(<<PeerAck(e.m)>>)
        BY <2>5, <3>2, <4>1, SendAdds
      <4>3. Range(<<PeerAck(e.m)>>) = {PeerAck(e.m)}
        BY DEF Range
      <4> QED
        BY <3>2, <4>2, <4>3
    <3> QED
      BY <1>1, <3>1, <3>2 DEF OnEnvelope, Handled
  <2>6. UNCHANGED <<pc, task, outbox, state, routed>>
    BY <1>1 DEF OnEnvelope, serverVars
  <2> QED
    BY <1>b, <2>1, <2>3, <2>4, <2>5, <2>6 DEF SoundStep
<1>2. CASE OnServerAck(p)
  <2>1. /\ Take(p)
        /\ e.kind \in AckStatus
        /\ outbox' = [outbox EXCEPT ![e.m] = e.kind]
        /\ state' = [state EXCEPT ![e.m] = e.kind]
        /\ UNCHANGED <<pc, task, rows, gone, routed, up, stored, failed>>
    BY <1>2 DEF OnServerAck, serverVars
  <2>2. UNCHANGED Handled /\ UNCHANGED Kept
    BY <2>1 DEF Handled, Kept, HeldIds
  <2>3. e.kind = "queued" => e.m \in Kept
    BY <1>b, <2>1 DEF QueuedMeansKept, Kept
  <2>4. ASSUME NEW m \in Messages
        PROVE  /\ outbox'[m] = "delivered" => outbox[m] = "delivered"
               /\ state'[m] = "delivered" => state[m] = "delivered"
               /\ outbox'[m] = "queued" => outbox[m] = "queued" \/ m \in Kept
    BY <2>1, <2>3 DEF TypeOK, AckStatus
  <2> QED
    BY <1>b, <2>1, <2>2, <2>4 DEF SoundStep
<1>3. CASE OnPeerAck(p)
  <2>1. /\ Take(p)
        /\ e.kind = "peer_ack"
        /\ outbox' = [outbox EXCEPT ![e.m] = "delivered"]
        /\ state' = [state EXCEPT ![e.m] = "delivered"]
        /\ UNCHANGED <<pc, task, rows, gone, routed, up, stored, failed>>
    BY <1>3 DEF OnPeerAck, serverVars
  <2>2. UNCHANGED Handled /\ UNCHANGED Kept
    BY <2>1 DEF Handled, Kept, HeldIds
  <2>3. e.m \in Handled
    BY <1>b, <2>1 DEF PeerAckMeansHandled
  <2>4. ASSUME NEW m \in Messages
        PROVE  /\ outbox'[m] = "delivered" => outbox[m] = "delivered" \/ m = e.m
               /\ state'[m] = "delivered" => state[m] = "delivered" \/ m = e.m
               /\ outbox'[m] = "queued" => outbox[m] = "queued"
    BY <2>1 DEF TypeOK
  <2> QED
    BY <1>b, <2>1, <2>2, <2>3, <2>4 DEF SoundStep
<1>4. CASE OnConnected(p)
  <2>1. /\ Take(p)
        /\ Resend(p)
        /\ UNCHANGED <<pc, task, rows, gone, routed, stored, failed>>
    BY <1>4 DEF OnConnected, serverVars
  <2>2. UNCHANGED Handled /\ UNCHANGED Kept
    BY <2>1 DEF Handled, Kept, HeldIds
  <2>3. Unacknowledged /\ OnlyEnvelopesUp
    BY <2>1, ResendDoes
  <2> QED
    BY <1>b, <2>1, <2>2, <2>3 DEF SoundStep, Unacknowledged, OnlyEnvelopesUp
<1>5. CASE OnDisconnected(p)
  <2>1. /\ Take(p)
        /\ UNCHANGED <<pc, task, rows, gone, routed, up, outbox, state, stored,
                       failed>>
    BY <1>5 DEF OnDisconnected, serverVars
  <2>2. UNCHANGED Handled /\ UNCHANGED Kept
    BY <2>1 DEF Handled, Kept, HeldIds
  <2> QED
    BY <1>b, <2>1, <2>2 DEF SoundStep
<1> QED
  BY <1>1, <1>2, <1>3, <1>4, <1>5 DEF Node

\* So do the user's commands ...
LEMMA CommandSound ==
  ASSUME AckInv, NEW m \in Messages, CommandStep(m)
  PROVE  SoundStep
<1>1. /\ UNCHANGED <<rows, gone, routed, pc, task, inbox, stored, failed>>
      /\ Unacknowledged
      /\ OnlyEnvelopesUp
  BY CommandDoes DEF AckInv, Typed, serverVars
<1>2. UNCHANGED Handled /\ UNCHANGED Kept
  BY <1>1 DEF Handled, Kept, HeldIds
<1> QED
  BY <1>1, <1>2 DEF SoundStep, Unacknowledged, OnlyEnvelopesUp

\* ... and the client's connection loop.
LEMMA ClientSound ==
  ASSUME AckInv, NEW p \in Peers,
         Start(p) \/ Redial(p) \/ Drop(p) \/ Crash(p)
  PROVE  SoundStep
<1>1. /\ UNCHANGED <<task, rows, gone, routed, outbox, state, stored, failed>>
      /\ \/ UNCHANGED pc
         \/ \E s \in Sessions : pc' = [pc EXCEPT ![s] = "auth"]
      /\ \A s \in Sessions : Range(up'[s]) \subseteq Range(up[s])
      /\ \A q \in Peers : \A e \in Range(inbox'[q]) :
           e \in Range(inbox[q]) \/ e = Disconnected
  BY ClientDoes DEF AckInv, Typed
<1>2. UNCHANGED Handled /\ UNCHANGED Kept
  BY <1>1 DEF Handled, Kept, HeldIds
<1>3. \A s \in Sessions : pc'[s] = pc[s] \/ pc'[s] = "auth"
  BY <1>1 DEF AckInv, Typed, TypeOK
<1> QED
  BY <1>1, <1>2, <1>3 DEF SoundStep

\* Inserting a row: the message is kept, and nothing is lost.
LEMMA InsertKeeps ==
  ASSUME NEW n, NEW x, rows' = rows \cup {[id |-> n, m |-> x]}
  PROVE  HeldIds' = HeldIds \cup {x}
<1> DEFINE r == [id |-> n, m |-> x]
<1>1. r.m = x
  OBVIOUS
<1> HIDE DEF r
<1>2. {q.m : q \in rows \cup {r}} = {q.m : q \in rows} \cup {r.m}
  OBVIOUS
<1>3. rows' = rows \cup {r}
  BY DEF r
<1> QED
  BY <1>1, <1>2, <1>3 DEF HeldIds

\* A session's handler takes sound steps.  A row leaves the queue by age or at
\* the cap, and then is in gone, or by a PeerAck, whose message was handled.
LEMMA HandlerSound ==
  ASSUME AckInv, NEW s \in Sessions, Handler(s)
  PROVE  SoundStep
<1> USE DEF AckInv, Typed
<1>a. ASSUME NEW x, pc' = [pc EXCEPT ![s] = x],
             \/ UNCHANGED task
             \/ \E y : task' = [task EXCEPT ![s] = y]
      PROVE  /\ pc'[s] = x
             /\ \A t \in Sessions : t = s \/ (pc'[t] = pc[t] /\ task'[t] = task[t])
  BY <1>a DEF TypeOK
<1>b. ASSUME UNCHANGED <<rows, gone, stored, failed>>
      PROVE  UNCHANGED Handled /\ UNCHANGED Kept
  BY <1>b DEF Handled, Kept, HeldIds
<1>c. ASSUME pc[s] \in Busy
      PROVE  task[s] \in Messages
  BY <1>c, BusyTask
<1>1. CASE Drain(s)
  <2>1. /\ \E n \in {0} \cup {r.id : r \in rows} : rows' = {r \in rows : r.id > n}
        /\ gone' = gone \cup {r.m : r \in rows \ rows'}
        /\ pc' = [pc EXCEPT ![s] = "loop"]
        /\ UNCHANGED <<task, up, outbox, state, routed, stored, failed>>
    BY <1>1 DEF Drain, nodeVars
  <2>2. UNCHANGED Handled
    BY <2>1 DEF Handled
  <2>3. Kept \subseteq Kept'
    BY <2>1 DEF Kept, Handled, HeldIds
  <2>4. \A p \in Peers : \A e \in Range(inbox'[p]) :
          e \in Range(inbox[p]) \/ e.kind = "envelope"
    BY <1>1, DrainSends
  <2> QED
    BY <1>a, <2>1, <2>2, <2>3, <2>4 DEF SoundStep
<1>2. CASE Duplicate(s)
  <2> DEFINE x == ServerAck(Head(up[s]).m, "sent")
  <2>1. /\ Reading(s, "envelope")
        /\ Push(s, <<x>>)
        /\ UNCHANGED <<pc, task, rows, gone, routed, stored, failed, outbox, state>>
    BY <1>2 DEF Duplicate, serverVars, nodeVars
  <2>2. /\ Head(up[s]) \in ClientMsg
        /\ \A t \in Sessions : Range(up'[t]) \subseteq Range(up[t])
    BY <2>1, ReadingRemoves
  <2>3. x \in Event /\ x.kind = "sent" /\ x.m \in seen
    BY <1>2, <2>2 DEF Duplicate, ClientMsg, Event, MsgEvent, AckStatus
  <2>4. \A p \in Peers : \A e \in Range(inbox'[p]) : e \in Range(inbox[p]) \/ e = x
    BY <2>1, <2>3, PushOne
  <2> QED
    BY <1>b, <2>1, <2>2, <2>3, <2>4 DEF SoundStep
<1>3. CASE MarkSeen(s)
  <2>1. /\ Reading(s, "envelope")
        /\ pc' = [pc EXCEPT ![s] = "route"]
        /\ task' = [task EXCEPT ![s] = Head(up[s]).m]
        /\ UNCHANGED <<rows, gone, routed, stored, failed, outbox, state, inbox>>
    BY <1>3 DEF MarkSeen, nodeVars
  <2>2. \A t \in Sessions : Range(up'[t]) \subseteq Range(up[t])
    BY <2>1, ReadingRemoves
  <2> QED
    BY <1>a, <1>b, <2>1, <2>2 DEF SoundStep
<1>4. CASE Forward(s)
  <2>1. /\ conn[To[task[s]]] # None
        /\ Push(conn[To[task[s]]], <<Envelope(task[s])>>)
        /\ pc' = [pc EXCEPT ![s] = "ackSent"]
        /\ routed' = routed \cup {task[s]}
        /\ UNCHANGED <<task, rows, gone, stored, failed, outbox, state, up>>
    BY <1>4 DEF Forward, nodeVars
  <2>2. task[s] \in Messages /\ To[task[s]] \in Peers
    BY <1>4, <1>c, MessageAssumption DEF Forward, Busy
  <2>3. conn[To[task[s]]] \in Sessions /\ Envelope(task[s]) \in Event
    BY <2>1, <2>2 DEF TypeOK, Event, MsgEvent
  <2>4. \A p \in Peers : \A e \in Range(inbox'[p]) :
          e \in Range(inbox[p]) \/ e = Envelope(task[s])
    BY <2>1, <2>3, PushOne
  <2> QED
    BY <1>a, <1>b, <2>1, <2>4 DEF SoundStep
<1>5. CASE TargetOffline(s)
  <2>1. /\ pc' = [pc EXCEPT ![s] = "store"]
        /\ UNCHANGED <<task, rows, gone, routed, stored, failed, outbox, state, up,
                       inbox>>
    BY <1>5 DEF TargetOffline, wireVars, nodeVars
  <2> QED
    BY <1>a, <1>b, <2>1 DEF SoundStep
<1>6. CASE Insert(s)
  <2>1. /\ pc' = [pc EXCEPT ![s] = "trim"]
        /\ UNCHANGED <<task, gone, routed, up, inbox, outbox, state, stored, failed>>
    BY <1>6 DEF Insert, wireVars, nodeVars
  <2>2. UNCHANGED Handled
    BY <2>1 DEF Handled
  <2>3. HeldIds' = HeldIds \cup {task[s]}
    BY <1>6, InsertAdds, InsertKeeps
  <2>4. Kept' = Kept \cup {task[s]}
    BY <2>1, <2>2, <2>3 DEF Kept
  <2> QED
    BY <1>a, <2>1, <2>2, <2>4 DEF SoundStep
<1>7. CASE Trim(s)
  <2> DEFINE old == Overflow(To[task[s]])
  <2>1. /\ pc[s] = "trim"
        /\ pc' = [pc EXCEPT ![s] = "ackQueued"]
        /\ rows' = rows \ old
        /\ gone' = gone \cup {r.m : r \in old}
        /\ UNCHANGED <<task, routed, up, inbox, outbox, state, stored, failed>>
    BY <1>7 DEF Trim, wireVars, nodeVars
  <2>2. UNCHANGED Handled
    BY <2>1 DEF Handled
  <2> HIDE DEF old
  <2>3. Kept \subseteq Kept'
    BY <2>1, <2>2 DEF Kept, HeldIds
  <2>4. task[s] \in Kept
    BY <2>1 DEF HandsSound
  <2> QED
    BY <1>a, <2>1, <2>2, <2>3, <2>4 DEF SoundStep
<1>8. CASE Acknowledge(s)
  <2> DEFINE x == ServerAck(task[s],
                            IF pc[s] = "ackSent" THEN "sent" ELSE "queued")
  <2>1. /\ pc[s] \in {"ackSent", "ackQueued"}
        /\ Push(s, <<x>>)
        /\ pc' = [pc EXCEPT ![s] = "loop"]
        /\ task' = [task EXCEPT ![s] = None]
        /\ UNCHANGED <<up, rows, gone, routed, outbox, state, stored, failed>>
    BY <1>8 DEF Acknowledge, Finish, nodeVars
  <2>2. task[s] \in Messages
    BY <1>c, <2>1 DEF Busy
  <2>3. x \in Event
    BY <2>2 DEF Event, MsgEvent, AckStatus
  <2>4. \A p \in Peers : \A e \in Range(inbox'[p]) : e \in Range(inbox[p]) \/ e = x
    BY <2>1, <2>3, PushOne
  <2>5. /\ x.kind # "peer_ack"
        /\ x.kind = "queued" => x.m \in Kept
        /\ x.kind = "sent" => x.m \in routed
    BY <2>1 DEF HandsSound
  <2> HIDE DEF x
  <2> QED
    BY <1>a, <1>b, <2>1, <2>4, <2>5 DEF SoundStep
<1>9. CASE HandlePeerAck(s)
  <2> DEFINE m == Head(up[s]).m
  <2>1. /\ Reading(s, "peer_ack")
        /\ rows' = {q \in rows : q.m # m} \/ UNCHANGED rows
        /\ pc' = [pc EXCEPT ![s] = "confirm"]
        /\ task' = [task EXCEPT ![s] = m]
        /\ UNCHANGED <<gone, routed, inbox, outbox, state, stored, failed>>
    BY <1>9 DEF HandlePeerAck, nodeVars
  <2>2. /\ Head(up[s]) \in ClientMsg
        /\ Head(up[s]) \in Frames(s)
        /\ Head(up[s]).kind = "peer_ack"
        /\ \A t \in Sessions : Range(up'[t]) \subseteq Range(up[t])
    BY <2>1, ReadingRemoves DEF Frames
  <2>3. m \in Messages /\ m \in Handled
    BY <2>2 DEF ClientMsg, PeerAckMeansHandled
  <2>4. UNCHANGED Handled
    BY <2>1 DEF Handled
  <2>5. Kept \subseteq Kept'
    BY <2>1, <2>3, <2>4 DEF Kept, HeldIds
  <2> HIDE DEF m
  <2>6. task'[s] = m
    BY <2>1 DEF TypeOK
  <2>7. \A t \in Sessions : (pc'[t] = pc[t] /\ task'[t] = task[t])
                             \/ (pc'[t] = "confirm" /\ task'[t] = m)
    BY <1>a, <2>1, <2>6
  <2>8. UNCHANGED <<inbox, outbox, state, routed>>
    BY <2>1
  <2> QED
    BY <2>2, <2>3, <2>4, <2>5, <2>7, <2>8 DEF SoundStep
<1>10. CASE Confirm(s)
  <2> DEFINE m == task[s]
  <2>1. /\ pc[s] = "confirm"
        /\ pc' = [pc EXCEPT ![s] = "loop"]
        /\ task' = [task EXCEPT ![s] = None]
        /\ UNCHANGED <<up, rows, gone, routed, outbox, state, stored, failed>>
    BY <1>10 DEF Confirm, Finish, nodeVars
  <2>2. m \in Messages /\ m \in Handled
    BY <1>c, <2>1 DEF Busy, HandsSound
  <2>3. conn[From[m]] \in Sessions \cup {None} /\ PeerAck(m) \in Event
    BY <2>2, MessageAssumption DEF TypeOK, Event, MsgEvent
  <2>4. \A p \in Peers : \A e \in Range(inbox'[p]) :
          e \in Range(inbox[p]) \/ e = PeerAck(m)
    <3>1. CASE UNCHANGED inbox
      BY <3>1
    <3>2. CASE conn[From[m]] # None /\ Push(conn[From[m]], <<PeerAck(m)>>)
      BY <2>3, <3>2, PushOne
    <3> QED
      BY <1>10, <3>1, <3>2 DEF Confirm
  <2> HIDE DEF m
  <2>5. \A t \in Sessions : (pc'[t] = pc[t] /\ task'[t] = task[t]) \/ pc'[t] = "loop"
    BY <1>a, <2>1
  <2>6. \A p \in Peers : \A e \in Range(inbox'[p]) :
          e \in Range(inbox[p]) \/ (e.kind = "peer_ack" /\ e.m = m)
    BY <2>4
  <2>7. UNCHANGED Handled /\ UNCHANGED Kept
    BY <1>b, <2>1
  <2> QED
    BY <2>1, <2>2, <2>5, <2>6, <2>7 DEF SoundStep
<1> QED
  BY <1>1, <1>2, <1>3, <1>4, <1>5, <1>6, <1>7, <1>8, <1>9, <1>10 DEF Handler

\* So do logging in, closing, the faults of the server, and stuttering.
LEMMA ServerSound ==
  ASSUME AckInv,
         \/ \E s \in Sessions : Login(s) \/ Close(s)
         \/ ServerFault
         \/ UNCHANGED vars
  PROVE  SoundStep
<1> USE DEF AckInv, Typed, ServerFault
<1>1. UNCHANGED <<rows, gone, routed, stored, failed, outbox, state>>
  BY DEF Login, Close, EnqueueFails, DrainFails, ServerRestart, Forget, vars,
         serverVars, nodeVars
<1>2. UNCHANGED Handled /\ UNCHANGED Kept
  BY <1>1 DEF Handled, Kept, HeldIds
<1>3. \A s \in Sessions : \/ pc'[s] = pc[s] /\ task'[s] = task[s]
                         \/ pc'[s] \in {"free", "drain", "loop"}
  <2>1. \/ UNCHANGED <<pc, task>>
        \/ \E t \in Sessions, x \in {"free", "drain", "loop"} :
             /\ pc' = [pc EXCEPT ![t] = x]
             /\ UNCHANGED task \/ task' = [task EXCEPT ![t] = None]
        \/ pc' = [t \in Sessions |-> "free"]
    BY DEF Login, Close, EnqueueFails, Finish, DrainFails, ServerRestart, Forget, vars,
           serverVars
  <2> QED
    BY <2>1 DEF TypeOK
<1>4. Range(<<>>) = {}
  BY DEF Range
<1>5. ASSUME NEW s \in Sessions PROVE Range(up'[s]) \subseteq Range(up[s])
  <2>1. \/ UNCHANGED up
        \/ \E t \in Sessions : up' = [up EXCEPT ![t] = <<>>]
        \/ up' = [t \in Sessions |-> <<>>]
    BY DEF Login, Close, EnqueueFails, DrainFails, ServerRestart, Forget, vars, wireVars
  <2>2. up'[s] = up[s] \/ up'[s] = <<>>
    BY <2>1 DEF TypeOK
  <2> QED
    BY <1>4, <2>2
<1>6. ASSUME NEW p \in Peers, NEW e \in Range(inbox'[p])
      PROVE  e \in Range(inbox[p]) \/ e = Connected
  <2>1. CASE UNCHANGED inbox
    BY <1>6, <2>1
  <2>2. ASSUME NEW s \in Sessions, Login(s)
        PROVE  e \in Range(inbox[p]) \/ e = Connected
    <3>1. Connected \in Event
      BY DEF Event
    <3>2. Push(s, <<Connected>>)
      BY <2>2 DEF Login
    <3> QED
      BY <1>6, <3>1, <3>2, PushOne
  <2> QED
    BY <2>1, <2>2 DEF Close, EnqueueFails, DrainFails, ServerRestart, Forget, vars,
                      wireVars
<1> QED
  BY <1>1, <1>2, <1>3, <1>5, <1>6 DEF SoundStep

\* Every step is sound.
LEMMA StepSound ==
  ASSUME AckInv, [Next]_vars
  PROVE  SoundStep
BY NextSteps, NodeSound, CommandSound, ClientSound, HandlerSound, ServerSound

LEMMA AckInvInductive == Spec => []AckInv
<1>1. Init => AckInv
  <2> SUFFICES ASSUME Init PROVE AckInv
    OBVIOUS
  <2>1. Range(<<>>) = {}
    BY DEF Range
  <2>2. PeerAckMeansHandled
    BY <2>1 DEF Init, PeerAckMeansHandled, Frames, Events
  <2>3. QueuedMeansKept
    BY <2>1 DEF Init, QueuedMeansKept, Events
  <2>4. HandsSound
    BY DEF Init, HandsSound
  <2> QED
    BY <2>2, <2>3, <2>4, InitTypeOK, FS_EmptySet DEF AckInv, Typed, Init
<1>2. AckInv /\ Typed' /\ [Next]_vars => AckInv'
  BY StepSound, SoundStepPreserves DEF AckInv
<1> QED
  BY <1>1, <1>2, TypedInductive, PTL DEF Spec

\* An acknowledgement of a peer, wherever it is, is about a message the
\* receiver has handled.
THEOREM PeerAckIsSound == Spec => []PeerAckMeansHandled
BY AckInvInductive, PTL DEF AckInv

\* What a sender's outbox calls queued is in the queue, handled or discarded.
THEOREM QueuedIsSound == Spec => []QueuedMeansKept
BY AckInvInductive, PTL DEF AckInv

----------------------------------------------------------------------------
(* The queue implements the mailbox.                                       *)

confirmedBar == {m \in Messages : outbox[m] = "delivered"}

\* Receiving: the receiver handles at most one message in a step.
LEMMA EnvelopeRefines ==
  ASSUME AckInv, NEW p \in Peers, OnEnvelope(p)
  PROVE  [MB!Next]_(MB!vars)
<1> DEFINE e == Head(inbox[p])
<1>1. Take(p) /\ e.kind = "envelope" /\ UNCHANGED <<rows, gone, outbox>>
  BY DEF OnEnvelope, serverVars
<1>2. e.m \in Messages
  BY <1>1, TakeRemoves DEF AckInv, Typed, Event, MsgEvent
<1>3. Handled' = Handled \/ Handled' = Handled \cup {e.m}
  BY DEF OnEnvelope, Handled
<1>4. UNCHANGED HeldIds
  BY <1>1 DEF HeldIds
<1>5. CASE Handled' = Handled
  BY <1>1, <1>4, <1>5 DEF MB!vars
<1>6. CASE Handled' = Handled \cup {e.m}
  BY <1>1, <1>2, <1>4, <1>6 DEF MB!Next, MB!Receive
<1> QED
  BY <1>3, <1>5, <1>6

\* Confirming: an outbox row becomes delivered for a handled message only.
LEMMA PeerAckRefines ==
  ASSUME AckInv, NEW p \in Peers, OnPeerAck(p)
  PROVE  [MB!Next]_(MB!vars)
<1> DEFINE e == Head(inbox[p])
<1>1. /\ Take(p)
      /\ e.kind = "peer_ack"
      /\ outbox' = [outbox EXCEPT ![e.m] = "delivered"]
      /\ UNCHANGED <<rows, gone, stored, failed>>
  BY DEF OnPeerAck, serverVars
<1>2. e \in Event /\ e \in Events(p)
  BY <1>1, TakeRemoves DEF AckInv, Typed, Events
<1>3. e.m \in Messages /\ e.m \in Handled
  BY <1>1, <1>2 DEF AckInv, Typed, PeerAckMeansHandled, Event, MsgEvent
<1>4. UNCHANGED <<HeldIds, Handled>>
  BY <1>1 DEF HeldIds, Handled
<1>5. confirmedBar' = confirmedBar \cup {e.m}
  BY <1>1, <1>3 DEF confirmedBar, AckInv, Typed, TypeOK
<1> QED
  BY <1>1, <1>3, <1>4, <1>5 DEF MB!Next, MB!Confirm, confirmedBar

\* Draining: rows leave by age only.
LEMMA DrainRefines ==
  ASSUME AckInv, NEW s \in Sessions, Drain(s)
  PROVE  [MB!Next]_(MB!vars)
<1>1. /\ \E n \in {0} \cup {r.id : r \in rows} : rows' = {r \in rows : r.id > n}
      /\ gone' = gone \cup {r.m : r \in rows \ rows'}
      /\ UNCHANGED <<outbox, stored, failed>>
  BY DEF Drain, nodeVars
<1>2. UNCHANGED <<Handled, confirmedBar>>
  BY <1>1 DEF Handled, confirmedBar
<1>3. /\ HeldIds' \subseteq HeldIds
      /\ gone \subseteq gone'
      /\ gone' \subseteq gone \cup HeldIds
      /\ HeldIds \ HeldIds' \subseteq gone'
  BY <1>1 DEF HeldIds
<1> QED
  BY <1>2, <1>3 DEF MB!Next, MB!Discard, confirmedBar

\* Queueing: one message comes in ...
LEMMA InsertRefines ==
  ASSUME AckInv, NEW s \in Sessions, Insert(s)
  PROVE  [MB!Next]_(MB!vars)
<1>1. UNCHANGED <<gone, outbox, stored, failed>>
  BY DEF Insert, nodeVars
<1>2. task[s] \in Messages
  BY BusyTask DEF Insert, AckInv, Typed, Busy
<1>3. UNCHANGED <<Handled, confirmedBar>>
  BY <1>1 DEF Handled, confirmedBar
<1>4. HeldIds' = HeldIds \cup {task[s]}
  BY InsertAdds, InsertKeeps DEF AckInv, Typed
<1> QED
  BY <1>1, <1>2, <1>3, <1>4 DEF MB!Next, MB!Keep, confirmedBar

\* ... and what is over the cap goes out.
LEMMA TrimRefines ==
  ASSUME AckInv, NEW s \in Sessions, Trim(s)
  PROVE  [MB!Next]_(MB!vars)
<1> DEFINE old == Overflow(To[task[s]])
<1>1. /\ rows' = rows \ old
      /\ gone' = gone \cup {r.m : r \in old}
      /\ UNCHANGED <<outbox, stored, failed>>
  BY DEF Trim, nodeVars
<1>2. UNCHANGED <<Handled, confirmedBar>>
  BY <1>1 DEF Handled, confirmedBar
<1>3. old \subseteq rows
  BY DEF Overflow, RowsOf
<1> HIDE DEF old
<1>4. /\ HeldIds' \subseteq HeldIds
      /\ gone \subseteq gone'
      /\ gone' \subseteq gone \cup HeldIds
      /\ HeldIds \ HeldIds' \subseteq gone'
  BY <1>1, <1>3 DEF HeldIds
<1> QED
  BY <1>2, <1>4 DEF MB!Next, MB!Discard, confirmedBar

\* Releasing: a PeerAck deletes the rows of a handled message, or fails to.
LEMMA HandlePeerAckRefines ==
  ASSUME AckInv, NEW s \in Sessions, HandlePeerAck(s)
  PROVE  [MB!Next]_(MB!vars)
<1> DEFINE m == Head(up[s]).m
<1>1. /\ Reading(s, "peer_ack")
      /\ rows' = {q \in rows : q.m # m} \/ UNCHANGED rows
      /\ UNCHANGED <<gone, outbox, stored, failed>>
  BY DEF HandlePeerAck, nodeVars
<1>2. /\ Head(up[s]) \in ClientMsg
      /\ Head(up[s]) \in Frames(s)
      /\ Head(up[s]).kind = "peer_ack"
  BY <1>1, ReadingRemoves DEF AckInv, Typed, Frames
<1>3. m \in Messages /\ m \in Handled
  BY <1>2 DEF ClientMsg, AckInv, PeerAckMeansHandled
<1>4. UNCHANGED <<Handled, confirmedBar>>
  BY <1>1 DEF Handled, confirmedBar
<1>5. HeldIds' = HeldIds \ {m} \/ UNCHANGED HeldIds
  BY <1>1 DEF HeldIds
<1> QED
  BY <1>1, <1>3, <1>4, <1>5 DEF MB!Next, MB!vars, MB!Release, confirmedBar

\* Every other step leaves the mailbox alone, or takes a confirmation back.
LEMMA OtherRefines ==
  ASSUME AckInv, UNCHANGED <<rows, gone, stored, failed>>,
         \A m \in Messages : outbox'[m] = "delivered" => outbox[m] = "delivered"
  PROVE  [MB!Next]_(MB!vars)
<1>1. UNCHANGED <<HeldIds, Handled, gone>>
  BY DEF HeldIds, Handled
<1>2. confirmedBar' \subseteq confirmedBar
  BY DEF confirmedBar
<1> QED
  BY <1>1, <1>2 DEF MB!Next, MB!Unconfirm, confirmedBar

\* Every step of the delivery protocol is a step of the mailbox, or none.
LEMMA StepRefines ==
  ASSUME AckInv, [Next]_vars
  PROVE  [MB!Next]_(MB!vars)
<1> USE DEF AckInv, Typed
<1> DEFINE quiet == /\ UNCHANGED <<rows, gone, stored, failed>>
                    /\ \A m \in Messages : outbox'[m] = "delivered"
                                             => outbox[m] = "delivered"
<1>1. ASSUME NEW m \in Messages, CommandStep(m)
      PROVE  quiet
  BY <1>1, CommandDoes DEF serverVars, Unacknowledged
<1>2. ASSUME NEW p \in Peers, Start(p) \/ Redial(p) \/ Drop(p) \/ Crash(p)
      PROVE  quiet
  BY <1>2, ClientDoes
<1>3. ASSUME NEW p \in Peers, OnServerAck(p) PROVE quiet
  <2>1. /\ Head(inbox[p]).kind \in AckStatus
        /\ outbox' = [outbox EXCEPT ![Head(inbox[p]).m] = Head(inbox[p]).kind]
        /\ UNCHANGED <<rows, gone, stored, failed>>
    BY <1>3 DEF OnServerAck, serverVars
  <2> QED
    BY <2>1 DEF TypeOK, AckStatus
<1>4. ASSUME NEW p \in Peers, OnConnected(p) \/ OnDisconnected(p) PROVE quiet
  <2>1. CASE OnConnected(p)
    BY <2>1, ResendDoes DEF OnConnected, serverVars, Unacknowledged
  <2>2. CASE OnDisconnected(p)
    BY <2>2 DEF OnDisconnected, serverVars
  <2> QED
    BY <1>4, <2>1, <2>2
<1>5. ASSUME NEW s \in Sessions,
             \/ Login(s) \/ Close(s) \/ Duplicate(s) \/ MarkSeen(s) \/ Forward(s)
             \/ TargetOffline(s) \/ Acknowledge(s) \/ Confirm(s)
      PROVE  quiet
  BY <1>5 DEF Login, Close, Duplicate, MarkSeen, Forward, TargetOffline, Acknowledge,
              Confirm, serverVars, nodeVars
<1>6. ASSUME ServerFault \/ UNCHANGED vars PROVE quiet
  BY <1>6 DEF ServerFault, EnqueueFails, DrainFails, ServerRestart, Forget, vars,
              serverVars, nodeVars
<1>7. ASSUME quiet PROVE [MB!Next]_(MB!vars)
  BY <1>7, OtherRefines
<1> HIDE DEF quiet
<1>8. ASSUME NEW p \in Peers, Node(p) PROVE [MB!Next]_(MB!vars)
  BY <1>3, <1>4, <1>7, <1>8, EnvelopeRefines, PeerAckRefines DEF Node
<1>9. ASSUME NEW s \in Sessions, Handler(s) PROVE [MB!Next]_(MB!vars)
  BY <1>5, <1>7, <1>9, DrainRefines, InsertRefines, TrimRefines, HandlePeerAckRefines
     DEF Handler
<1> QED
  BY <1>1, <1>2, <1>5, <1>6, <1>7, <1>8, <1>9, NextSteps

\* The relay keeps the mailbox's promise, whatever fails.
THEOREM RelayImplementsMailbox == Spec => ImplementsMailbox
<1>1. Init => MB!Init
  BY DEF Init, MB!Init, HeldIds, Handled
<1>2. AckInv /\ [Next]_vars => [MB!Next]_(MB!vars)
  BY StepRefines
<1> QED
  BY <1>1, <1>2, AckInvInductive, PTL DEF Spec, ImplementsMailbox, MB!Spec

\* A row leaves the queue for a handled or a discarded message only.
THEOREM QueueReleasesHandled == Spec => OnlyReleasedWhenHandled
<1>1. AckInv /\ [Next]_vars =>
        [\A m \in Messages : m \in HeldIds /\ m \notin HeldIds' =>
           m \in Handled \/ m \in gone']_vars
  <2> SUFFICES ASSUME AckInv, [Next]_vars, NEW m \in Messages,
                      m \in HeldIds, m \notin HeldIds'
               PROVE  m \in Handled \/ m \in gone'
    OBVIOUS
  <2>1. [MB!Next]_(MB!vars)
    BY StepRefines
  <2> QED
    BY <2>1 DEF MB!Next, MB!vars, MB!Keep, MB!Discard, MB!Receive, MB!Release,
                MB!Confirm, MB!Unconfirm
<1> QED
  BY <1>1, AckInvInductive, PTL DEF Spec, OnlyReleasedWhenHandled

----------------------------------------------------------------------------
(* The server's acknowledgements.  AckMeansTaken speaks of what was         *)
(* acknowledged; the invariant adds what may be at any time: the messages   *)
(* seen before, whose duplicates are acknowledged.                          *)

TakenInv ==
  /\ \A m \in seen \ cut : Taken(m)
  /\ \A p \in Peers : \A e \in Events(p) :
       e.kind \in AckStatus /\ e.m \notin cut => Taken(e.m)
  /\ \A m \in Messages \ cut :
       outbox[m] \in AckStatus \/ state[m] = "sent" => Taken(m)

\* An event on its way to the sender says that m was acknowledged.
AckComes(m) == \E p \in Peers : \E e \in Events(p) : e.m = m /\ e.kind \in AckStatus

\* What a step may do: a message in a handler's hands stays there, or is taken, or
\* is cut off; what is newly seen or noted is taken.
TakenStep ==
  /\ cut \subseteq cut'
  /\ \A m \in Messages \ cut' : Routing(m) => Taken(m)'
  /\ \A m \in seen' : m \in seen \/ Taken(m)'
  /\ \A m \in Messages :
       /\ outbox'[m] \in AckStatus => outbox[m] \in AckStatus \/ AckComes(m)
       /\ state'[m] = "sent" => state[m] = "sent" \/ AckComes(m)

\* Such a step, sound as every step is, keeps the invariant.
LEMMA TakenStepPreserves ==
  ASSUME AckInv, TakenInv, SoundStep, TakenStep, TypeOK'
  PROVE  TakenInv'
<1> USE DEF AckInv, Typed
<1>1. ASSUME NEW m \in Messages \ cut', Taken(m)
      PROVE  Taken(m)'
  BY <1>1 DEF Taken, SoundStep, TakenStep, Kept
<1>2. ASSUME NEW m \in seen' \ cut'
      PROVE  Taken(m)'
  <2>1. m \in Messages \ cut' /\ m \notin cut
    BY DEF TakenStep, TypeOK
  <2> QED
    BY <1>1, <2>1 DEF TakenStep, TakenInv
<1>3. ASSUME NEW p \in Peers, NEW e \in Events(p)', e.kind \in AckStatus, e.m \notin cut'
      PROVE  Taken(e.m)'
  <2>1. e.m \in Messages \ cut' /\ e.m \notin cut
    <3>1. inbox'[p] \in Seq(Event)
      BY DEF TypeOK
    <3>2. e \in Event
      BY <1>3, <3>1, RangeEquality DEF Events
    <3> QED
      BY <1>3, <3>2 DEF Event, MsgEvent, AckStatus, TakenStep
  <2>2. CASE e \in Events(p)
    BY <1>1, <1>3, <2>1, <2>2 DEF TakenInv
  <2>3. CASE e.kind = "queued" /\ e.m \in Kept'
    BY <2>3 DEF Taken, Kept
  <2>4. CASE e.kind = "sent" /\ e.m \in seen
    BY <1>1, <2>1, <2>4 DEF TakenInv
  <2>5. CASE e.m \in routed
    BY <1>1, <2>1, <2>5 DEF Taken
  <2> QED
    BY <1>3, <2>2, <2>3, <2>4, <2>5 DEF SoundStep, AckStatus, Events
<1>4. ASSUME NEW m \in Messages \ cut', outbox'[m] \in AckStatus \/ state'[m] = "sent"
      PROVE  Taken(m)'
  <2>1. m \notin cut
    BY DEF TakenStep
  <2>2. Taken(m)
    BY <1>4, <2>1 DEF TakenStep, TakenInv, AckComes
  <2> QED
    BY <1>1, <2>2
<1> QED
  BY <1>2, <1>3, <1>4 DEF TakenInv

\* A step that leaves the server's handlers alone.
LEMMA RoutingStays ==
  ASSUME TypeOK, UNCHANGED task, NEW m \in Messages, Routing(m),
         \/ UNCHANGED pc
         \/ \E s \in Sessions : pc[s] = "free" /\ pc' = [pc EXCEPT ![s] = "auth"]
  PROVE  Taken(m)'
<1>1. PICK s \in Sessions : pc[s] \in {"route", "store"} /\ task[s] = m
  BY DEF Routing
<1>2. pc'[s] = pc[s] /\ task'[s] = m
  BY <1>1 DEF TypeOK
<1> QED
  BY <1>1, <1>2 DEF Taken, Routing

\* The nodes change nothing on the server; the columns take what an event says.
LEMMA CommandTakes ==
  ASSUME AckInv, NEW m \in Messages, CommandStep(m)
  PROVE  TakenStep
<1>1. UNCHANGED <<pc, task, seen, cut>> /\ Unacknowledged
  BY CommandDoes DEF AckInv, Typed, serverVars
<1> QED
  BY <1>1, RoutingStays DEF AckInv, Typed, TakenStep, Unacknowledged, AckStatus

LEMMA ClientTakes ==
  ASSUME AckInv, NEW p \in Peers,
         Start(p) \/ Redial(p) \/ Drop(p) \/ Crash(p)
  PROVE  TakenStep
<1>1. /\ UNCHANGED <<task, seen, cut, outbox, state>>
      /\ \/ UNCHANGED pc
         \/ \E s \in Sessions : pc[s] = "free" /\ pc' = [pc EXCEPT ![s] = "auth"]
  BY ClientDoes DEF AckInv, Typed
<1> QED
  BY <1>1, RoutingStays DEF AckInv, Typed, TakenStep

LEMMA NodeTakes ==
  ASSUME AckInv, NEW p \in Peers, Node(p)
  PROVE  TakenStep
<1> USE DEF AckInv, Typed
<1> DEFINE e == Head(inbox[p])
<1>1. UNCHANGED <<pc, task, seen, cut>>
  BY DEF Node, OnEnvelope, OnServerAck, OnPeerAck, OnConnected, OnDisconnected,
         serverVars
<1>2. ASSUME NEW m \in Messages
      PROVE  /\ outbox'[m] \in AckStatus => outbox[m] \in AckStatus \/ AckComes(m)
             /\ state'[m] = "sent" => state[m] = "sent" \/ AckComes(m)
  <2>1. CASE OnServerAck(p)
    <3>1. /\ e.kind \in AckStatus
          /\ e \in Events(p)
          /\ outbox' = [outbox EXCEPT ![e.m] = e.kind]
          /\ state' = [state EXCEPT ![e.m] = e.kind]
      BY <2>1, TakeRemoves DEF OnServerAck, Events
    <3>2. CASE m = e.m
      BY <3>1, <3>2 DEF AckComes
    <3>3. CASE m # e.m
      <4>1. outbox'[m] = outbox[m] /\ state'[m] = state[m]
        BY <3>1, <3>3 DEF TypeOK
      <4> QED
        BY <4>1
    <3> QED
      BY <3>2, <3>3
  <2>2. CASE OnPeerAck(p)
    <3>1. /\ outbox'[m] \in {outbox[m], "delivered"}
          /\ state'[m] \in {state[m], "delivered"}
      BY <2>2 DEF OnPeerAck, TypeOK
    <3> QED
      BY <3>1 DEF AckStatus
  <2>3. CASE OnConnected(p)
    <3>1. Unacknowledged
      BY <2>3, ResendDoes DEF OnConnected
    <3> QED
      BY <3>1 DEF Unacknowledged, AckStatus
  <2>4. CASE OnEnvelope(p) \/ OnDisconnected(p)
    BY <2>4 DEF OnEnvelope, OnDisconnected
  <2> QED
    BY <2>1, <2>2, <2>3, <2>4 DEF Node
<1> QED
  BY <1>1, <1>2, RoutingStays DEF TakenStep

\* The server: a handler forwards or stores what it has in its hands before it
\* acknowledges it; nothing else ends that, unless the insert fails or the
\* server restarts.
LEMMA HandlerTakes ==
  ASSUME AckInv, NEW s \in Sessions, Handler(s)
  PROVE  TakenStep
<1> USE DEF AckInv, Typed
<1>a. UNCHANGED <<outbox, state, cut>>
  BY DEF Handler, Drain, Duplicate, MarkSeen, Forward, TargetOffline, Insert, Trim,
     Acknowledge, HandlePeerAck, Confirm, serverVars, nodeVars
<1>b. \A t \in Sessions : t # s => pc'[t] = pc[t] /\ task'[t] = task[t]
  BY DEF Handler, Drain, Duplicate, MarkSeen, Forward, TargetOffline, Insert, Trim,
     Acknowledge, HandlePeerAck, Confirm, Finish, serverVars, TypeOK
<1>c. ASSUME NEW m \in Messages, Routing(m), ~ Taken(m)'
      PROVE  pc[s] \in {"route", "store"} /\ task[s] = m
  BY <1>b, <1>c DEF Taken, Routing
<1>1. CASE MarkSeen(s)
  <2>1. /\ pc[s] = "loop"
        /\ seen' = seen \cup {Head(up[s]).m}
        /\ task'[s] = Head(up[s]).m
        /\ pc'[s] = "route"
    BY <1>1 DEF MarkSeen, Reading, TypeOK
  <2>2. \A m \in seen' : m \in seen \/ Taken(m)'
    BY <2>1 DEF Taken, Routing
  <2> QED
    BY <1>a, <1>c, <2>1, <2>2 DEF TakenStep
<1>2. CASE Forward(s)
  <2>1. task[s] \in routed' /\ UNCHANGED seen
    BY <1>2 DEF Forward
  <2> QED
    BY <1>a, <1>c, <2>1 DEF TakenStep, Taken
<1>3. CASE TargetOffline(s)
  <2>1. pc'[s] = "store" /\ UNCHANGED <<task, seen>>
    BY <1>3 DEF TargetOffline, TypeOK
  <2> QED
    BY <1>a, <1>c, <2>1 DEF TakenStep, Taken, Routing
<1>4. CASE Insert(s)
  <2>1. UNCHANGED seen
    BY <1>4 DEF Insert
  <2>2. task[s] \in HeldIds'
    BY <1>4, InsertAdds, InsertKeeps
  <2> QED
    BY <1>a, <1>c, <2>1, <2>2 DEF TakenStep, Taken
<1>5. CASE \/ Drain(s) \/ Duplicate(s) \/ Trim(s) \/ Acknowledge(s)
           \/ HandlePeerAck(s) \/ Confirm(s)
  <2>1. UNCHANGED seen
    BY <1>5 DEF Drain, Duplicate, Trim, Acknowledge, HandlePeerAck, Confirm, serverVars
  <2>2. pc[s] \notin {"route", "store"}
    BY <1>5 DEF Drain, Duplicate, Trim, Acknowledge, HandlePeerAck, Confirm, Reading
  <2> QED
    BY <1>a, <1>c, <2>1, <2>2 DEF TakenStep
<1> QED
  BY <1>1, <1>2, <1>3, <1>4, <1>5 DEF Handler

LEMMA ServerTakes ==
  ASSUME AckInv,
         \/ \E s \in Sessions : Login(s) \/ Close(s)
         \/ ServerFault
         \/ UNCHANGED vars
  PROVE  TakenStep
<1> USE DEF AckInv, Typed, ServerFault
<1>1. UNCHANGED <<outbox, state>> /\ seen' \subseteq seen /\ cut \subseteq cut'
  BY DEF Login, Close, EnqueueFails, DrainFails, ServerRestart, Forget, vars,
         serverVars, nodeVars
<1>2. ASSUME NEW m \in Messages \ cut', Routing(m)
      PROVE  Routing(m)'
  <2>1. PICK t \in Sessions : pc[t] \in {"route", "store"} /\ task[t] = m
    BY <1>2 DEF Routing
  <2>2. ASSUME NEW s \in Sessions, Login(s) \/ Close(s) \/ DrainFails(s)
        PROVE  pc'[t] = pc[t] /\ task'[t] = task[t]
    BY <2>1, <2>2 DEF Login, Close, DrainFails, TypeOK
  <2>3. ASSUME NEW s \in Sessions, EnqueueFails(s)
        PROVE  pc'[t] = pc[t] /\ task'[t] = task[t]
    <3>1. s # t
      BY <1>2, <2>1, <2>3 DEF EnqueueFails
    <3> QED
      BY <2>3, <3>1 DEF EnqueueFails, Finish, TypeOK
  <2>4. ~ ServerRestart
    BY <1>2, <2>1 DEF ServerRestart
  <2>5. ASSUME NEW n \in Messages, Forget(n)
        PROVE  pc'[t] = pc[t] /\ task'[t] = task[t]
    BY <2>5 DEF Forget
  <2>6. ASSUME UNCHANGED vars
        PROVE  pc'[t] = pc[t] /\ task'[t] = task[t]
    BY <2>6 DEF vars, serverVars
  <2>7. pc'[t] = pc[t] /\ task'[t] = task[t]
    BY <2>2, <2>3, <2>4, <2>5, <2>6
  <2> QED
    BY <2>1, <2>7 DEF Routing
<1> QED
  BY <1>1, <1>2 DEF TakenStep, Taken

\* A message the server acknowledged was forwarded, or is kept, or was handled or
\* discarded, or is in the hands of a handler that will see to it; only a failed
\* insert or a restart of the server lets go of one that is in a handler's hands
\* (cut), and nothing is said of that one.
THEOREM AcknowledgedIsTaken == Spec => []AckMeansTaken
<1>1. Init => TakenInv
  <2>1. Range(<<>>) = {}
    BY DEF Range
  <2> QED
    BY <2>1 DEF Init, TakenInv, Events, AckStatus
<1>2. AckInv /\ AckInv' /\ TakenInv /\ [Next]_vars => TakenInv'
  <2> SUFFICES ASSUME AckInv, AckInv', TakenInv, [Next]_vars
               PROVE  TakenInv'
    OBVIOUS
  <2>1. SoundStep
    BY StepSound
  <2>2. TakenStep
    BY NextSteps, CommandTakes, ClientTakes, NodeTakes, HandlerTakes, ServerTakes
  <2>3. TypeOK'
    BY DEF AckInv, Typed
  <2> QED
    BY <2>1, <2>2, <2>3, TakenStepPreserves
<1>3. TakenInv => AckMeansTaken
  BY DEF TakenInv, AckMeansTaken
<1> QED
  BY <1>1, <1>2, <1>3, AckInvInductive, PTL DEF Spec

----------------------------------------------------------------------------
(* The cap.  The rows of a target are numbered apart, so that of those a    *)
(* deletion keeps - the ones with fewer than QueueCap newer rows - there    *)
(* are QueueCap at most, whatever other enqueues have added meanwhile.      *)

Apart == \A q, r \in rows : q.id = r.id => q = r

CapInv ==
  /\ Typed
  /\ Apart
  /\ \A t \in Peers : IsFiniteSet(Trimming(t))
  /\ CapHolds

\* The number of newer rows tells the rows of a set apart: there are no more of
\* them with a number below c than numbers.
LEMMA FewNewest ==
  ASSUME NEW S, IsFiniteSet(S), NEW c \in Nat \ {0},
         \A r \in S : r.id \in Nat,
         \A q, r \in S : q.id = r.id => q = r
  PROVE  Cardinality({r \in S : Cardinality({q \in S : q.id > r.id}) < c}) <= c
<1> DEFINE newer(r) == {q \in S : q.id > r.id}
           few == {r \in S : Cardinality(newer(r)) < c}
           f == [r \in few |-> Cardinality(newer(r))]
<1>1. ASSUME NEW r \in S
      PROVE  IsFiniteSet(newer(r)) /\ Cardinality(newer(r)) \in Nat
  <2>1. newer(r) \in SUBSET S
    OBVIOUS
  <2> HIDE DEF newer
  <2> QED
    BY <2>1, FS_Subset, FS_CardinalityType
<1>2. IsFiniteSet(few) /\ Cardinality(few) \in Nat
  <2>1. few \in SUBSET S
    OBVIOUS
  <2> HIDE DEF few
  <2> QED
    BY <2>1, FS_Subset, FS_CardinalityType
<1>3. f \in [few -> 0..(c - 1)]
  <2> HIDE DEF newer
  <2> QED
    BY <1>1
<1>4. ASSUME NEW q \in few, NEW r \in few, q.id > r.id
      PROVE  f[q] # f[r]
  <2>1. newer(q) \in SUBSET newer(r) /\ q \in newer(r) /\ q \notin newer(q)
    BY <1>4
  <2>2. newer(q) # newer(r)
    BY <2>1
  <2>3. Cardinality(newer(q)) # Cardinality(newer(r))
    <3>1. r \in S
      OBVIOUS
    <3> HIDE DEF newer, few
    <3> QED
      BY <1>1, <2>1, <2>2, <3>1, FS_Subset
  <2> QED
    BY <2>3
<1>5. \A q, r \in few : q # r => f[q] # f[r]
  <2> SUFFICES ASSUME NEW q \in few, NEW r \in few, q # r
               PROVE  f[q] # f[r]
    OBVIOUS
  <2>1. q.id > r.id \/ r.id > q.id
    OBVIOUS
  <2> HIDE DEF f, few
  <2> QED
    BY <1>4, <2>1
<1>6. IsFiniteSet(0..(c - 1)) /\ Cardinality(0..(c - 1)) = c
  BY FS_Interval
<1> HIDE DEF f, few
<1>7. ~ (c < Cardinality(few))
  <2> SUFFICES ASSUME c < Cardinality(few) PROVE FALSE
    OBVIOUS
  <2>1. \E q, r \in few : q # r /\ f[q] = f[r]
    BY <1>2, <1>3, <1>6, FS_PigeonHole
  <2> QED
    BY <1>5, <2>1
<1>8. Cardinality(few) <= c
  BY <1>2, <1>7
<1> QED
  BY <1>8 DEF few

\* The rows of a target.
LEMMA RowsOfFinite ==
  ASSUME Typed, NEW t
  PROVE  /\ IsFiniteSet(RowsOf(t))
         /\ Cardinality(RowsOf(t)) \in Nat
         /\ \A r \in RowsOf(t) : r.id \in Nat
<1>1. RowsOf(t) \in SUBSET rows
  BY DEF RowsOf
<1>2. \A r \in rows : r.id \in Nat
  BY DEF Typed, TypeOK
<1> QED
  BY <1>1, <1>2, FS_Subset, FS_CardinalityType DEF Typed

\* What is left of a target's rows by the deletion.
LEMMA TrimLeaves ==
  ASSUME CapInv, NEW t \in Peers
  PROVE  Cardinality(RowsOf(t) \ Overflow(t)) <= QueueCap
<1> DEFINE S == RowsOf(t)
           over(r) == Cardinality({q \in S : q.id > r.id})
<1>1. /\ IsFiniteSet(S)
      /\ \A r \in S : r.id \in Nat
      /\ \A q, r \in S : q.id = r.id => q = r
  BY RowsOfFinite DEF CapInv, Apart, RowsOf
<1>2. Cardinality({r \in S : over(r) < QueueCap}) <= QueueCap
  <2> HIDE DEF S
  <2> QED
    BY <1>1, BoundAssumption, FewNewest
<1>3. ASSUME NEW r \in S PROVE over(r) \in Nat
  <2>1. {q \in S : q.id > r.id} \in SUBSET S
    OBVIOUS
  <2> HIDE DEF S
  <2> QED
    BY <1>1, <2>1, FS_Subset, FS_CardinalityType
<1>4. S \ Overflow(t) = {r \in S : over(r) < QueueCap}
  <2>1. Overflow(t) = {r \in S : over(r) >= QueueCap}
    BY DEF Overflow
  <2> HIDE DEF S, over
  <2> QED
    BY <1>3, <2>1, BoundAssumption
<1> QED
  BY <1>2, <1>4

\* A step that adds no row, and ends no deletion without a trace, keeps the cap.
LEMMA CapStays ==
  ASSUME CapInv, Typed', rows' \subseteq rows, surplus \subseteq surplus',
         \A t \in Peers : \/ UNCHANGED Trimming(t)
                          \/ /\ Trimming(t)' \subseteq Trimming(t)
                             /\ t \in surplus'
  PROVE  CapInv'
<1> USE DEF CapInv
<1>1. Apart'
  BY DEF Apart
<1>2. ASSUME NEW t \in Peers PROVE IsFiniteSet(Trimming(t))'
  <2>1. Trimming(t)' \in SUBSET Trimming(t)
    OBVIOUS
  <2> QED
    BY <2>1, FS_Subset
<1>3. ASSUME NEW t \in Peers \ surplus'
      PROVE  Cardinality(RowsOf(t))' <= QueueCap + Cardinality(Trimming(t))'
  <2>1. UNCHANGED Trimming(t) /\ t \notin surplus
    OBVIOUS
  <2>2. Cardinality(RowsOf(t)) <= QueueCap + Cardinality(Trimming(t))
    BY <2>1 DEF CapHolds
  <2>3. RowsOf(t)' \in SUBSET RowsOf(t)
    BY DEF RowsOf
  <2>4. /\ Cardinality(RowsOf(t)') <= Cardinality(RowsOf(t))
        /\ Cardinality(RowsOf(t)') \in Nat
        /\ Cardinality(RowsOf(t)) \in Nat
    BY <2>3, RowsOfFinite, FS_Subset, FS_CardinalityType
  <2>5. Cardinality(Trimming(t)) \in Nat
    BY FS_CardinalityType
  <2> QED
    BY <2>1, <2>2, <2>4, <2>5, BoundAssumption
<1>4. CapHolds'
  BY <1>3 DEF CapHolds
<1> QED
  BY <1>1, <1>2, <1>4

\* Handlers that are not between the two statements stay out of it.
LEMMA TrimmingStays ==
  ASSUME \A s \in Sessions : \/ pc'[s] = pc[s] /\ task'[s] = task[s]
                             \/ pc[s] # "trim" /\ pc'[s] # "trim"
  PROVE  \A t \in Peers : UNCHANGED Trimming(t)
BY DEF Trimming

\* The insert: one row more, and one handler more that is to cut down.
LEMMA InsertCap ==
  ASSUME CapInv, Typed', NEW s \in Sessions, Insert(s)
  PROVE  CapInv'
<1> USE DEF CapInv
<1>1. PICK n \in Nat : /\ \A r \in rows : r.id < n
                       /\ rows' = rows \cup {[id |-> n, m |-> task[s]]}
  BY InsertAdds DEF Typed
<1> DEFINE x == [id |-> n, m |-> task[s]]
           u == To[task[s]]
<1>2. x.id = n /\ x.m = task[s]
  OBVIOUS
<1>3. task[s] \in Messages /\ u \in Peers
  BY BusyTask, MessageAssumption DEF Insert, Busy, Typed
<1>4. /\ pc[s] = "store"
      /\ pc' = [pc EXCEPT ![s] = "trim"]
      /\ UNCHANGED <<task, surplus>>
  BY DEF Insert
<1> HIDE DEF x
<1>5. rows' = rows \cup {x}
  BY <1>1 DEF x
<1>6. Apart'
  <2>1. \A r \in rows : r.id \in Nat /\ r.id < n
    BY <1>1 DEF Typed, TypeOK
  <2> QED
    BY <1>2, <1>5, <2>1 DEF Apart
<1>7. ASSUME NEW t \in Peers
      PROVE  /\ RowsOf(t)' = IF t = u THEN RowsOf(t) \cup {x} ELSE RowsOf(t)
             /\ Trimming(t)' = IF t = u THEN Trimming(t) \cup {s} ELSE Trimming(t)
             /\ s \notin Trimming(t)
  <2>1. RowsOf(t)' = IF t = u THEN RowsOf(t) \cup {x} ELSE RowsOf(t)
    BY <1>2, <1>5 DEF RowsOf
  <2>2. \A z \in Sessions : pc'[z] = IF z = s THEN "trim" ELSE pc[z]
    BY <1>4 DEF Typed, TypeOK
  <2>3. Trimming(t)' = IF t = u THEN Trimming(t) \cup {s} ELSE Trimming(t)
    BY <1>4, <2>2 DEF Trimming
  <2> QED
    BY <1>4, <2>1, <2>3 DEF Trimming
<1>8. \A t \in Peers : IsFiniteSet(Trimming(t))'
  BY <1>7, FS_AddElement
<1>9. ASSUME NEW t \in Peers \ surplus'
      PROVE  Cardinality(RowsOf(t))' <= QueueCap + Cardinality(Trimming(t))'
  <2>1. Cardinality(RowsOf(t)) <= QueueCap + Cardinality(Trimming(t))
    BY <1>4 DEF CapHolds
  <2>2. /\ IsFiniteSet(RowsOf(t)) /\ Cardinality(RowsOf(t)) \in Nat
        /\ IsFiniteSet(Trimming(t)) /\ Cardinality(Trimming(t)) \in Nat
    BY RowsOfFinite, FS_CardinalityType
  <2>3. CASE t = u
    <3>1. Cardinality(RowsOf(t) \cup {x}) <= Cardinality(RowsOf(t)) + 1
      <4>1. Cardinality(RowsOf(t) \cup {x}) =
              IF x \in RowsOf(t) THEN Cardinality(RowsOf(t)) ELSE Cardinality(RowsOf(t)) + 1
        BY <2>2, FS_AddElement
      <4> QED
        BY <2>2, <4>1
    <3>2. Cardinality(Trimming(t) \cup {s}) = Cardinality(Trimming(t)) + 1
      BY <1>7, <2>2, FS_AddElement
    <3>3. Cardinality(RowsOf(t) \cup {x}) \in Nat
      BY <2>2, FS_AddElement, FS_CardinalityType
    <3>4. Cardinality(RowsOf(t) \cup {x}) <= QueueCap + Cardinality(Trimming(t) \cup {s})
      BY <2>1, <2>2, <3>1, <3>2, <3>3, BoundAssumption
    <3> QED
      BY <1>7, <2>3, <3>4
  <2>4. CASE t # u
    BY <1>7, <2>1, <2>4
  <2> QED
    BY <2>3, <2>4
<1> QED
  BY <1>6, <1>8, <1>9 DEF CapHolds

\* The deletion: what it leaves is within the cap by itself.
LEMMA TrimCap ==
  ASSUME CapInv, Typed', NEW s \in Sessions, Trim(s)
  PROVE  CapInv'
<1> USE DEF CapInv
<1> DEFINE u == To[task[s]]
<1>1. task[s] \in Messages /\ u \in Peers
  BY BusyTask, MessageAssumption DEF Trim, Busy, Typed
<1>2. /\ rows' = rows \ Overflow(u)
      /\ pc' = [pc EXCEPT ![s] = "ackQueued"]
      /\ surplus' = surplus \ {u}
      /\ UNCHANGED task
  BY DEF Trim
<1>3. Apart'
  BY <1>2 DEF Apart
<1>4. \A z \in Sessions : pc'[z] = IF z = s THEN "ackQueued" ELSE pc[z]
  BY <1>2 DEF Typed, TypeOK
<1>5. ASSUME NEW t \in Peers
      PROVE  /\ Trimming(t)' \in SUBSET Trimming(t)
             /\ t # u => Trimming(t)' = Trimming(t)
             /\ t # u => RowsOf(t)' = RowsOf(t)
             /\ t = u => RowsOf(t)' = RowsOf(t) \ Overflow(t)
  <2>1. Trimming(t)' \in SUBSET Trimming(t)
    BY <1>2, <1>4 DEF Trimming
  <2>2. t # u => Trimming(t)' = Trimming(t)
    BY <1>2, <1>4 DEF Trimming
  <2>3. \A r \in Overflow(u) : r \in RowsOf(u)
    BY DEF Overflow
  <2>4. RowsOf(t)' = {r \in rows \ Overflow(u) : To[r.m] = t}
    BY <1>2 DEF RowsOf
  <2>5. t # u => RowsOf(t)' = RowsOf(t)
    BY <2>3, <2>4 DEF RowsOf
  <2>6. t = u => RowsOf(t)' = RowsOf(t) \ Overflow(t)
    <3>1. RowsOf(u) \ Overflow(u) = {r \in rows \ Overflow(u) : To[r.m] = u}
      BY DEF RowsOf
    <3> QED
      BY <2>4, <3>1
  <2> QED
    BY <2>1, <2>2, <2>5, <2>6
<1>6. \A t \in Peers : IsFiniteSet(Trimming(t))'
  BY <1>5, FS_Subset
<1>7. ASSUME NEW t \in Peers \ surplus'
      PROVE  Cardinality(RowsOf(t))' <= QueueCap + Cardinality(Trimming(t))'
  <2>1. CASE t = u
    <3>1. Cardinality(RowsOf(t)') <= QueueCap
      BY <1>5, <2>1, TrimLeaves
    <3>2. Cardinality(RowsOf(t)') \in Nat
      <4>1. RowsOf(t)' \in SUBSET rows
        BY <1>2 DEF RowsOf
      <4> QED
        BY <4>1, FS_Subset, FS_CardinalityType DEF Typed
    <3>3. Cardinality(Trimming(t)') \in Nat
      BY <1>5, FS_Subset, FS_CardinalityType
    <3> QED
      BY <3>1, <3>2, <3>3, BoundAssumption
  <2>2. CASE t # u
    BY <1>2, <1>5, <2>2 DEF CapHolds
  <2> QED
    BY <2>1, <2>2
<1> QED
  BY <1>3, <1>6, <1>7 DEF CapHolds

\* The nodes, and every handler between other statements.
LEMMA OtherCap ==
  ASSUME CapInv, Typed', [Next]_vars, \A s \in Sessions : ~ Insert(s) /\ ~ Trim(s)
  PROVE  CapInv'
<1> USE DEF CapInv, Typed
<1>1. ASSUME NEW p \in Peers, Node(p) PROVE CapInv'
  <2>1. UNCHANGED <<rows, surplus, pc, task>>
    BY <1>1 DEF Node, OnEnvelope, OnServerAck, OnPeerAck, OnConnected, OnDisconnected,
                serverVars
  <2> QED
    BY <2>1, TrimmingStays, CapStays
<1>2. ASSUME NEW m \in Messages, CommandStep(m) PROVE CapInv'
  <2>1. UNCHANGED <<rows, surplus, pc, task>>
    BY <1>2, CommandDoes DEF serverVars
  <2> QED
    BY <2>1, TrimmingStays, CapStays
<1>3. ASSUME NEW p \in Peers, Start(p) \/ Redial(p) \/ Drop(p) \/ Crash(p) PROVE CapInv'
  <2>1. /\ UNCHANGED <<rows, surplus, task>>
        /\ \/ UNCHANGED pc
           \/ \E s \in Sessions : pc[s] = "free" /\ pc' = [pc EXCEPT ![s] = "auth"]
    BY <1>3, ClientDoes
  <2>2. \A s \in Sessions : pc'[s] = pc[s] \/ (pc[s] # "trim" /\ pc'[s] # "trim")
    BY <2>1 DEF TypeOK
  <2> QED
    BY <2>1, <2>2, TrimmingStays, CapStays
<1>4. ASSUME NEW s \in Sessions, Handler(s) \/ Login(s) \/ Close(s) \/ DrainFails(s)
      PROVE  CapInv'
  <2>1. rows' \subseteq rows /\ UNCHANGED surplus
    BY <1>4 DEF Handler, Drain, Duplicate, MarkSeen, Forward, TargetOffline,
       Acknowledge, HandlePeerAck, Confirm, Login, Close, DrainFails, serverVars
  <2>2. \A t \in Sessions : \/ pc'[t] = pc[t] /\ task'[t] = task[t]
                            \/ pc[t] # "trim" /\ pc'[t] # "trim"
    <3>1. \/ UNCHANGED <<pc, task>>
          \/ /\ pc[s] # "trim"
             /\ \E x \in {"loop", "route", "store", "ackSent", "confirm", "drain", "free"} :
                  pc' = [pc EXCEPT ![s] = x]
             /\ UNCHANGED task \/ \E y : task' = [task EXCEPT ![s] = y]
      BY <1>4 DEF Handler, Drain, Duplicate, MarkSeen, Forward, TargetOffline,
         Acknowledge, HandlePeerAck, Confirm, Finish, Login, Close, DrainFails,
         Reading, serverVars
    <3>2. pc \in [Sessions -> {"free", "auth", "drain", "loop"} \cup Busy]
          /\ task \in [Sessions -> Messages \cup {None}]
      BY DEF TypeOK
    <3>3. \A t \in Sessions : t # s => pc'[t] = pc[t] /\ task'[t] = task[t]
      BY <3>1, <3>2
    <3>4. (pc'[s] = pc[s] /\ task'[s] = task[s]) \/ (pc[s] # "trim" /\ pc'[s] # "trim")
      BY <3>1, <3>2
    <3> QED
      BY <3>3, <3>4
  <2> QED
    BY <2>1, <2>2, TrimmingStays, CapStays
<1>5. ASSUME NEW s \in Sessions, EnqueueFails(s) PROVE CapInv'
  <2>1. /\ UNCHANGED rows
        /\ pc' = [pc EXCEPT ![s] = "loop"]
        /\ task' = [task EXCEPT ![s] = None]
        /\ surplus \subseteq surplus'
        /\ pc[s] = "trim" => To[task[s]] \in surplus'
    BY <1>5 DEF EnqueueFails, Finish
  <2>2. \A z \in Sessions : \/ pc'[z] = pc[z] /\ task'[z] = task[z]
                            \/ z = s /\ pc'[z] = "loop"
    BY <2>1 DEF TypeOK
  <2>3. ASSUME NEW t \in Peers
        PROVE  \/ UNCHANGED Trimming(t)
               \/ Trimming(t)' \subseteq Trimming(t) /\ t \in surplus'
    <3>1. CASE pc[s] = "trim" /\ t = To[task[s]]
      BY <2>1, <2>2, <3>1 DEF Trimming
    <3>2. CASE ~ (pc[s] = "trim" /\ t = To[task[s]])
      BY <2>2, <3>2 DEF Trimming
    <3> QED
      BY <3>1, <3>2
  <2> QED
    BY <2>1, <2>3, CapStays
<1>6. CASE ServerRestart
  <2>1. /\ UNCHANGED rows
        /\ surplus \subseteq surplus'
        /\ \A s \in Sessions : pc'[s] = "free"
        /\ \A s \in Sessions : pc[s] = "trim" => To[task[s]] \in surplus'
    BY <1>6 DEF ServerRestart
  <2>2. ASSUME NEW t \in Peers
        PROVE  \/ UNCHANGED Trimming(t)
               \/ Trimming(t)' \subseteq Trimming(t) /\ t \in surplus'
    BY <2>1 DEF Trimming
  <2> QED
    BY <2>1, <2>2, CapStays
<1>7. ASSUME \/ \E m \in Messages : Forget(m)
             \/ UNCHANGED vars
      PROVE  CapInv'
  <2>1. UNCHANGED <<rows, surplus, pc, task>>
    BY <1>7 DEF Forget, vars, serverVars
  <2> QED
    BY <2>1, TrimmingStays, CapStays
<1> QED
  BY <1>1, <1>2, <1>3, <1>4, <1>5, <1>6, <1>7, NextSteps DEF ServerFault

\* The queue of a target is within the cap, but for one row for each enqueue that
\* stands between its two statements, and for what a deletion that failed, or that
\* a restart cut off, left over (surplus, until the next enqueue for the target).
THEOREM CapIsKept == Spec => []CapHolds
<1>1. Init => CapInv
  <2> SUFFICES ASSUME Init PROVE CapInv
    OBVIOUS
  <2>1. Typed /\ Apart
    BY InitTypeOK, FS_EmptySet DEF Init, Typed, Apart
  <2>2. ASSUME NEW t \in Peers
        PROVE  /\ RowsOf(t) = {}
               /\ Trimming(t) = {}
    BY DEF Init, RowsOf, Trimming
  <2>3. \A t \in Peers : IsFiniteSet(Trimming(t)) /\ Cardinality(Trimming(t)) = 0
    BY <2>2, FS_EmptySet
  <2>4. CapHolds
    BY <2>2, <2>3, FS_EmptySet, BoundAssumption DEF CapHolds
  <2> QED
    BY <2>1, <2>3, <2>4 DEF CapInv
<1>2. CapInv /\ Typed' /\ [Next]_vars => CapInv'
  BY InsertCap, TrimCap, OtherCap
<1>3. CapInv => CapHolds
  BY DEF CapInv
<1> QED
  BY <1>1, <1>2, <1>3, TypedInductive, PTL DEF Spec

============================================================================
