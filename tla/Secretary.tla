----------------------------- MODULE Secretary -----------------------------
(***************************************************************************)
(* The secretary of one node (relay/secretary.rs): messages of contacts    *)
(* are stored in threads and answered by an agent, one responder at a time *)
(* per thread, beside the commands that change contacts and threads        *)
(* (module Contacts, relay/db/threads.rs, relay/db/messages.rs).           *)
(***************************************************************************)
EXTENDS Contacts, SequencesExt

CONSTANTS
  Requests,     \* MessageRequests other nodes send; a node may send one again
  Replies,      \* MessageResponses they send
  Sender,       \* who sends which
  Target,       \* the agent a request names, or None
  Named,        \* agents other nodes know of
  ThreadIds,    \* ids of threads: more than are ever in use at once
  Agents, Visible, DefaultAgent,
  Recent        \* messages a responder looks at: 50 in the code

ASSUME SecretaryAssumption ==
  /\ Sender \in [Requests \cup Replies -> Peers]
  /\ Target \in [Requests \cup Replies -> Named \cup {None}]
  /\ Visible \subseteq Agents /\ DefaultAgent \in Agents
  /\ Recent \in Nat \ {0} /\ ThreadIds \subseteq Nat
  /\ None \notin Requests \cup Replies \cup Agents \cup Named

Incoming == Requests \cup Replies
Routed  == [pc : {"route"}, id : Ids, uid : {0}, msg : Incoming]
Storing == [pc : {"store", "decide"}, id : Ids, uid : Nat \ {0}, msg : Incoming,
            tid : ThreadIds, respond : BOOLEAN]

ASSUME NoMailAssumption == None \notin Routed /\ None \notin Storing

VARIABLES
  threads,   \* table peer_threads, oldest first
  messages,  \* table peer_messages, oldest first
  responder, \* per thread in ACTIVE_THREADS, the task that answers in it
  excused,   \* history: requests the code is known to leave without an answer
  stranded,  \* history: requests whose answer was stored when the program ended or
             \* the outbox refused it
  cleared    \* history: messages cleared from a thread while being answered there,
             \* and answers of a peer cleared with the messages they answer

mailVars == <<threads, messages, responder, excused, stranded, cleared>>
allVars == <<vars, mailVars>>
contactVars == vars
TidsHeld == {threads[k].tid : k \in DOMAIN threads} \cup DOMAIN responder
  \cup {cmd[c].tid : c \in {d \in Commands : cmd[d] # None}}
  \cup {hand[s].tid : s \in {z \in Sessions :
          hand[z] # None /\ hand[z].pc \in {"store", "decide"}}}
(* A thread id nobody holds, uuid::new_v4: the least, which bounds a run.  *)
FreshTids == {t \in ThreadIds \ TidsHeld : \A k \in ThreadIds : k < t => k \in TidsHeld}
(* SelectSeq with a set for its test, in a form the proofs can expand.     *)
KeptOf(s, S) ==
  LET upto[k \in 0..Len(s)] ==
        IF k = 0 THEN <<>>
        ELSE IF s[k] \in S THEN Append(upto[k - 1], s[k]) ELSE upto[k - 1]
  IN upto
Kept(s, S) == KeptOf(s, S)[Len(s)]
Threads  == {threads[k] : k \in DOMAIN threads}
Messages == {messages[k] : k \in DOMAIN messages}

HasThread(t) == \E k \in DOMAIN threads : threads[k].tid = t
ThreadOf(t) == threads[CHOOSE k \in DOMAIN threads : threads[k].tid = t]
create_thread(t, u, a) == Append(threads, [tid |-> t, uid |-> u, agent |-> a])
(* list_threads_for_contact: the latest first.                             *)
list_threads(u) == Reverse(SelectSeq(threads, LAMBDA th : th.uid = u))

StoredNever(id) == FALSE
Stored(id) == \E k \in DOMAIN messages : messages[k].id = id
get_thread_messages_recent(t) ==
  LET all == Kept(messages, {msg \in Messages : msg.tid = t}) IN
  IF Len(all) <= Recent THEN all ELSE SubSeq(all, Len(all) - Recent + 1, Len(all))
PostedIn(seq) == {seq[k].corr : k \in {j \in DOMAIN seq : seq[j].out /\ seq[j].posted}}
AnsweredIn(seq) == {seq[k].corr : k \in {j \in DOMAIN seq : seq[j].out}}
(* The incoming messages no outgoing one is correlated with; answers of    *)
(* the peer are incoming messages too.                                     *)
Unanswered(t) ==
  LET recent == get_thread_messages_recent(t) IN
  Kept(recent, {msg \in Messages : ~msg.out /\ msg.id \notin AnsweredIn(recent)})
(* The same of the whole thread: for the histories and properties only.    *)
AllAnswered(t) == {msg.corr : msg \in {x \in Messages : x.tid = t /\ x.out}}
AllUnanswered(t) ==
  {msg.id : msg \in {x \in Messages : x.tid = t /\ ~x.out}} \ AllAnswered(t)

(* ON DELETE CASCADE from contacts to threads to messages.                 *)
Cascade ==
  /\ threads' = Kept(threads, {th \in Threads :
       \E i \in Ids : contacts'[i] # None /\ contacts'[i].uid = th.uid})
  /\ messages' = Kept(messages, {msg \in Messages :
       \E k \in DOMAIN threads' : threads'[k].tid = msg.tid})

SecretaryInit ==
  Init /\ threads = <<>> /\ messages = <<>> /\ responder = <<>> /\ excused = {}
  /\ stranded = {} /\ cleared = {}

-----------------------------------------------------------------------------
(* handle_incoming_envelope and handle_incoming_message.                   *)

keptByMail == <<rowVars, indexVars, cmd, lifeVars, built, raced>>

(* The relay id is resolved first; a message of an unknown peer is dropped *)
(* without an acknowledgement.                                             *)
handle_incoming_envelope(s, m) ==
  /\ s \in loops /\ hand[s] = None /\ index[Sender[m]] # None /\ Spend("deliveries")
  /\ Take(s, [pc |-> "route", id |-> index[Sender[m]], uid |-> 0, msg |-> m])
  /\ UNCHANGED <<keptByMail, mailVars>>

(* The contact is read; the thread is the one of the named agent, or the   *)
(* latest, or a new one, which needs its agent to exist.  Without contact  *)
(* or agent the message is acknowledged and lost.                          *)
FindThread(s) ==
  /\ Working(s, "route")
  /\ LET row == contacts[hand[s].id]
         want == Target[hand[s].msg]
         Fits(th) == want = None \/ th.agent = want
         ths == IF row = None THEN <<>> ELSE SelectSeq(list_threads(row.uid), Fits)
     IN IF row = None \/ (ths = <<>> /\ want \notin Agents \cup {None})
        THEN Drop(s) /\ UNCHANGED threads
        ELSE \E t \in ThreadIds :
               /\ IF ths = <<>> THEN t \in FreshTids ELSE t = ths[1].tid
               /\ threads' = IF ths = <<>> THEN create_thread(t, row.uid, want) ELSE threads
               /\ Take(s, [pc |-> "store", id |-> hand[s].id, uid |-> row.uid,
                           msg |-> hand[s].msg, tid |-> t,
                           respond |-> row.status # "pending_outgoing"])
  /\ UNCHANGED <<keptByMail, left, messages, responder, excused, stranded, cleared>>

(* insert_peer_message ignores an id the table holds; a thread deleted in  *)
(* between is an error.                                                    *)
StoreMessage(s) ==
  /\ Working(s, "store")
  /\ LET h == hand[s] IN
     IF HasThread(h.tid) /\ ~Stored(h.msg)
     THEN /\ messages' = Append(messages, [id |-> h.msg, tid |-> h.tid, out |-> FALSE,
                                           corr |-> None, agent |-> None, posted |-> FALSE])
          /\ excused' = IF h.respond /\ h.msg \in Requests THEN excused \ {h.msg}
                        ELSE excused \cup {h.msg}
          /\ IF h.respond /\ h.msg \in Requests THEN Take(s, [h EXCEPT !.pc = "decide"])
             ELSE Drop(s)
     ELSE Drop(s) /\ UNCHANGED <<messages, excused>>
  /\ UNCHANGED <<keptByMail, left, threads, responder, stranded, cleared>>

(* The thread is taken, or the answer is left to the responder in it --    *)
(* which may have looked for the last time already.                        *)
AutoRespond(s) ==
  /\ Working(s, "decide") /\ Drop(s)
  /\ LET h == hand[s] IN
     IF h.tid \in DOMAIN responder
     THEN /\ excused' = IF responder[h.tid].pc = "release" THEN excused \cup {h.msg}
                        ELSE excused
          /\ UNCHANGED responder
     ELSE /\ responder' = [t \in DOMAIN responder \cup {h.tid} |->
              IF t = h.tid THEN [pc |-> "look", id |-> h.id, msg |-> None, agent |-> None]
              ELSE responder[t]]
          /\ UNCHANGED excused
  /\ UNCHANGED <<keptByMail, left, threads, messages, stranded, cleared>>

-----------------------------------------------------------------------------
(* The responder task of a thread.                                         *)

keptByResponder == <<contactVars, threads>>
Doing(t, pc) == t \in DOMAIN responder /\ responder[t].pc = pc
Move(t, rec) == responder' = [responder EXCEPT ![t] = rec]
GiveUp(t) ==
  /\ Move(t, [responder[t] EXCEPT !.pc = "release"])
  /\ excused' = excused \cup AllUnanswered(t)

LookForUnanswered(t) ==
  /\ Doing(t, "look")
  /\ IF Unanswered(t) = <<>> THEN GiveUp(t)
     ELSE /\ Move(t, [responder[t] EXCEPT !.pc = "generate", !.msg = Unanswered(t)[1].id])
          /\ UNCHANGED excused
  /\ UNCHANGED <<keptByResponder, messages, stranded, cleared>>

keptByFault == <<rowVars, indexVars, cmd, hand, lifeVars, built, raced, threads>>
(* A list that cannot be read is taken for an empty one.                   *)
LookFails(t) ==
  /\ Doing(t, "look") /\ Spend("faults") /\ GiveUp(t)
  /\ UNCHANGED <<keptByFault, messages, stranded, cleared>>

(* The visitor's choice is taken when it is visible; the thread is then    *)
(* asked for its agent, which is the visitor's choice as well.             *)
resolve_agent_id(t) ==
  LET bound == IF HasThread(t) THEN ThreadOf(t).agent ELSE None IN
  IF bound # None /\ bound \in Visible THEN bound
  ELSE IF bound # None THEN bound
  ELSE DefaultAgent

GenerateResponse(t) ==
  /\ Doing(t, "generate")
  /\ Move(t, [responder[t] EXCEPT !.pc = "save", !.agent = resolve_agent_id(t)])
  /\ UNCHANGED <<keptByResponder, messages, excused, stranded, cleared>>

(* No default agent, no key for the provider, an error of the provider.    *)
GenerationFails(t) ==
  /\ Doing(t, "generate") /\ Spend("faults") /\ GiveUp(t)
  /\ UNCHANGED <<keptByFault, messages, stranded, cleared>>

(* encrypt_for_peer needs the key of the contact, the insert its thread.   *)
Answer(t) == [id |-> None, tid |-> t, out |-> TRUE, corr |-> responder[t].msg,
              agent |-> responder[t].agent, posted |-> FALSE]
SaveBeforeEncrypt(t) ==
  /\ Doing(t, "save")
  /\ IF HasThread(t)
     THEN /\ messages' = Append(messages, Answer(t))
          /\ IF responder[t].id \in peer_keys
             THEN Move(t, [responder[t] EXCEPT !.pc = "post"]) /\ UNCHANGED excused
             ELSE GiveUp(t)
     ELSE GiveUp(t) /\ UNCHANGED messages
  /\ UNCHANGED <<keptByResponder, stranded, cleared>>
SaveResponse(t) ==
  /\ Doing(t, "save")
  /\ IF responder[t].id \in peer_keys /\ HasThread(t)
     THEN /\ messages' = Append(messages, Answer(t))
          /\ Move(t, [responder[t] EXCEPT !.pc = "post"]) /\ UNCHANGED excused
     ELSE GiveUp(t) /\ UNCHANGED messages
  /\ UNCHANGED <<keptByResponder, stranded, cleared>>

PostAndEnd(t) ==
  /\ Doing(t, "post")
  /\ messages' = [k \in DOMAIN messages |->
       IF messages[k].out /\ messages[k].tid = t /\ messages[k].corr = responder[t].msg
       THEN [messages[k] EXCEPT !.posted = TRUE] ELSE messages[k]]
  /\ Move(t, [responder[t] EXCEPT !.pc = "release", !.msg = None, !.agent = None])
  /\ UNCHANGED <<keptByResponder, excused, stranded, cleared>>
(* insert_outbox needs the message it was made for.  The send that follows *)
(* may fail: the row is then sent when the node is connected again.        *)
PostResponse(t) ==
  /\ Doing(t, "post")
  /\ LET mine == {k \in DOMAIN messages : messages[k].out /\ messages[k].tid = t
                                          /\ messages[k].corr = responder[t].msg} IN
     IF mine = {} THEN GiveUp(t) /\ UNCHANGED messages
     ELSE /\ messages' = [k \in DOMAIN messages |->
               IF k \in mine THEN [messages[k] EXCEPT !.posted = TRUE] ELSE messages[k]]
          /\ Move(t, [responder[t] EXCEPT !.pc = "look", !.msg = None, !.agent = None])
          /\ UNCHANGED excused
  /\ UNCHANGED <<keptByResponder, stranded, cleared>>

(* A failing insert of the answer, or of its outbox row once the answer is *)
(* stored: such an answer is posted by nobody.                             *)
StoringFails(t) ==
  /\ Doing(t, "save") \/ Doing(t, "post")
  /\ Spend("faults") /\ GiveUp(t)
  /\ stranded' = IF Doing(t, "post") THEN stranded \cup {responder[t].msg} ELSE stranded
  /\ UNCHANGED <<keptByFault, messages, cleared>>

ReleaseThread(t) ==
  /\ Doing(t, "release")
  /\ responder' = [x \in DOMAIN responder \ {t} |-> responder[x]]
  /\ UNCHANGED <<keptByResponder, messages, excused, stranded, cleared>>

-----------------------------------------------------------------------------
(* relay_send_message after its contact is accepted.                       *)

keptBySend == <<rowVars, indexVars, hand, lifeVars, built, raced, left>>

FindOwnThread(c) ==
  /\ At(c, "message", "thread")
  /\ LET ths == list_threads(cmd[c].uid) IN
     IF ths # <<>>
     THEN /\ \E t \in ThreadIds :
               t = ths[1].tid /\ cmd' = [cmd EXCEPT ![c].pc = "store", ![c].tid = t]
          /\ UNCHANGED threads
     ELSE Goto(c, "create") /\ UNCHANGED threads
  /\ UNCHANGED <<keptBySend, messages, responder, excused, stranded, cleared>>

CreateOwnThread(c) ==
  /\ At(c, "message", "create")
  /\ IF HasRow(cmd[c].id, cmd[c].uid)
     THEN \E t \in FreshTids :
            /\ threads' = create_thread(t, cmd[c].uid, None)
            /\ cmd' = [cmd EXCEPT ![c].pc = "store", ![c].tid = t]
     ELSE Finish(c) /\ UNCHANGED threads
  /\ UNCHANGED <<keptBySend, messages, responder, excused, stranded, cleared>>

StoreOwnMessage(c) ==
  /\ At(c, "message", "store") /\ Finish(c)
  /\ messages' = IF HasThread(cmd[c].tid)
       THEN Append(messages, [id |-> None, tid |-> cmd[c].tid, out |-> TRUE, corr |-> None,
                              agent |-> None, posted |-> TRUE])
       ELSE messages
  /\ UNCHANGED <<keptBySend, threads, responder, excused, stranded, cleared>>

-----------------------------------------------------------------------------
(* Commands of the main thread on threads.                                 *)

keptByDelete == <<rowVars, indexVars, cmd, hand, lifeVars, built, raced, responder, excused,
                  stranded>>

delete_thread(t) ==
  /\ main = None /\ HasThread(t) /\ Spend("deletions")
  /\ threads' = Kept(threads, {th \in Threads : th.tid # t})
  /\ messages' = Kept(messages, {msg \in Messages : msg.tid # t})
  /\ UNCHANGED <<keptByDelete, cleared>>

clear_thread_messages(t) ==
  /\ main = None /\ HasThread(t) /\ Spend("deletions")
  /\ messages' = Kept(messages, {msg \in Messages : msg.tid # t})
  /\ cleared' = cleared \cup
       (IF t \in DOMAIN responder THEN {responder[t].msg} \ {None} ELSE {})
  /\ UNCHANGED <<keptByDelete, threads>>

(* The user's own messages and the peer's responses to those: gone.  An    *)
(* automatic answer to such a response stays.                              *)
clear_my_chat_messages(t) ==
  /\ main = None /\ HasThread(t) /\ Spend("deletions")
  /\ \E gone \in SUBSET (Replies \cap {msg.id : msg \in {x \in Messages : x.tid = t}}) :
       /\ gone # {} => \E k \in DOMAIN messages :
                        messages[k].tid = t /\ messages[k].out /\ messages[k].agent = None
       /\ messages' = Kept(messages, {msg \in Messages :
            msg.tid = t => (msg.out => msg.agent # None) /\ msg.id \notin gone})
       /\ cleared' = cleared \cup gone
  /\ UNCHANGED <<keptByDelete, threads>>

SecretaryRestart ==
  /\ Restart /\ responder' = <<>> /\ UNCHANGED <<threads, messages, cleared>>
  /\ excused' = excused \cup UNION {AllUnanswered(t) : t \in ThreadIds}
  /\ stranded' = stranded \cup {messages[k].corr : k \in
       {j \in DOMAIN messages : messages[j].out /\ ~messages[j].posted}}

ResponderStep(t) ==
  \/ LookForUnanswered(t) \/ GenerateResponse(t) \/ SaveResponse(t) \/ PostResponse(t)
  \/ LookFails(t) \/ GenerationFails(t) \/ StoringFails(t) \/ ReleaseThread(t)
SecretaryNext ==
  \/ ContactStep /\ Cascade /\ UNCHANGED <<responder, excused, stranded, cleared>>
  \/ SecretaryRestart
  \/ \E s \in Sessions :
       \/ \E m \in Incoming : handle_incoming_envelope(s, m)
       \/ FindThread(s) \/ StoreMessage(s) \/ AutoRespond(s)
  \/ \E t \in ThreadIds :
       \/ ResponderStep(t)
       \/ delete_thread(t) \/ clear_thread_messages(t) \/ clear_my_chat_messages(t)
  \/ \E c \in Commands : FindOwnThread(c) \/ CreateOwnThread(c) \/ StoreOwnMessage(c)

SecretarySpec == SecretaryInit /\ [][SecretaryNext]_allVars

-----------------------------------------------------------------------------
(* Rows point at rows that exist, an incoming message is stored once, and  *)
(* the lists of the manager have their types.                              *)
TypeOK ==
  /\ ContactsTypeOK
  /\ hand \in [Sessions -> Introduce \cup Routed \cup Storing \cup {None}]
  /\ \A k \in DOMAIN threads : threads[k].tid \in ThreadIds
       /\ \E i \in Ids : HasRow(i, threads[k].uid)
  /\ \A k \in DOMAIN messages : HasThread(messages[k].tid)
  /\ \A j, k \in DOMAIN messages : j # k /\ messages[j].id # None =>
       messages[j].id # messages[k].id
  /\ DOMAIN responder \subseteq ThreadIds

(* However often a request comes again, and whatever else is deleted while *)
(* an answer to it is made, the table never holds two answers to it.       *)
(* Excepted is a request cleared from its thread while it is answered: it  *)
(* can come again into another thread, with a responder of its own.  So is *)
(* an answer of the peer that the user cleared: the answer made to it      *)
(* stays, out of sight of a responder that meets it again.                 *)
AnsweredOnce ==
  \A m \in Incoming \ cleared :
    Cardinality({k \in DOMAIN messages : messages[k].out /\ messages[k].corr = m}) <= 1

(* A stored request that waits for its answer has a responder in its       *)
(* thread, or the event loop is about to start one.  Excused are requests  *)
(* of a contact not to be answered, those a failed responder, a restart or *)
(* a thread of more than Recent messages left, and a request deferred to a *)
(* responder that had looked for the last time.                            *)
WaitsForResponder ==
  \A k \in DOMAIN messages :
    (~messages[k].out /\ messages[k].id \notin excused
       /\ messages[k].id \notin AllAnswered(messages[k].tid)) =>
      \/ messages[k].tid \in DOMAIN responder /\ responder[messages[k].tid].pc # "release"
      \/ \E s \in Sessions : Working(s, "decide") /\ hand[s].msg = messages[k].id

(* A stored answer is in the outbox, or its responder is about to put it   *)
(* there: it counts as an answer, so nobody would make it again.  Only the *)
(* end of the program between the two inserts and a failing second one     *)
(* leave it out.                                                           *)
AnswersArePosted ==
  \A k \in DOMAIN messages :
    (messages[k].out /\ ~messages[k].posted) =>
      \/ messages[k].corr \in stranded
      \/ Doing(messages[k].tid, "post") /\ responder[messages[k].tid].msg = messages[k].corr

(* One answer to a request is made, and is on its way once it is stored.   *)
RepliesSound == TypeOK /\ AnsweredOnce /\ AnswersArePosted
=============================================================================
