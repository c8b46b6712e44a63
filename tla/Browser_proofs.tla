---------------------------- MODULE Browser_proofs ----------------------------
(* Proofs about Browser, for any conversations, actors, settings and any number *)
(* of sessions, processes, timeouts and crashes.                                *)
EXTENDS Browser, FiniteSetTheorems, TLAPS

-----------------------------------------------------------------------------
(* The inductive invariant.                                                    *)

Calling == {"ensure", "reading", "health", "post", "wait"}
Closers == {"tool", "delete", "idle", "shutdown"}
Pcs == Calling \union {"rest", "done", "find", "check", "pend", "insert", "update", "closing",
                       "ending", "kill", "clear", "park"}

Calls == [kind : Kinds \union {None}, pc : Pcs, conv : Conversations \union {None},
          id : Ids \union {None}, method : {"create", "do", "close", None},
          port : Procs \union {None}, todo : SUBSET Conversations,
          cfg : [Knobs -> Values \union {None}], dom : Domains \union {None},
          took : SUBSET Domains]

(* What a call carries, by where it stands. *)
CarriesRight(r) ==
  /\ r.method # None <=> r.pc \in Calling \union {"check", "pend", "insert", "update"}
  /\ r.pc \in {"pend", "insert"} => r.method = "create"
  /\ r.pc \in {"check", "update"} => r.method = "do"
  /\ r.method = "close" => r.kind \in Closers
  /\ r.method \in {"create", "do"} \/ r.pc = "find" => r.kind = "command"
  /\ r.pc = "closing" => r.kind \in Closers
  /\ r.pc = "ending" => r.kind = "shutdown"
  /\ r.pc \in {"kill", "clear"} <=> r.kind = "set"
  /\ r.pc \in {"rest", "done"} => r.kind = None
  /\ r.method # None => r.id \in Ids
  /\ r.pc \in {"health", "post", "wait"} => r.port \in Procs
  /\ r.kind = "command" \/ r.pc = "park" => r.conv \in Conversations
  /\ r.pc = "park" => r.dom \in Domains
  /\ r.pc \notin {"reading", "kill", "clear"} => \A k \in Knobs : r.cfg[k] = None
  /\ r.pc # "insert" => r.took = {}

CallsOK ==
  /\ act \in [Actors -> Calls]
  /\ \A a \in Actors : CarriesRight(act[a])
  /\ drawn \in 0..MaxIds

(* Whoever starts or ends a process holds the mutex, and there is none then,   *)
(* unless shutdown waits for it to close.                                      *)
LockOK ==
  /\ \A a \in Actors : At(a, "reading") \/ At(a, "health") \/ At(a, "clear") \/ At(a, "ending")
                       <=> lock = a
  /\ lock # None => sidecar = None \/ At(lock, "ending")
  /\ \A a \in Actors : At(a, "reading") => Unborn # {}

(* Processes are numbered as they are spawned; one that serves nobody has no   *)
(* session open.                                                               *)
NumbersOK == \E n \in 0..MaxProcs : Unborn = (n + 1)..MaxProcs

ProcsOK ==
  /\ \A p \in Procs : p # sidecar \/ ~Alive(p) => proc[p].open = {}
  /\ sidecar # None => sidecar \notin Unborn
  /\ \A p \in Procs : Alive(p) =>
       \/ p = sidecar \/ p \in excused.stray
       \/ lock # None /\ At(lock, "health") /\ act[lock].port = p
  /\ \A a \in Actors : At(a, "health") => act[a].port \notin Unborn

(* A request goes to the sidecar, or to a process that has died. *)
PortsOK ==
  /\ \A a \in Actors : At(a, "post") \/ At(a, "wait") =>
       act[a].port \notin Unborn /\ (Alive(act[a].port) => act[a].port = sidecar)
  /\ \A r \in loose : r.port \notin Unborn /\ (Alive(r.port) => r.port = sidecar)

(* A setting that a starting or serving process has missed is one whose setter *)
(* will restart it.                                                            *)
Missed(v, k) == v # setting[k] => \E a \in Actors : At(a, "kill") /\ act[a].cfg[k] # None

ServingOK == Alive(sidecar) => \A k \in Knobs : Missed(proc[sidecar].cfg[k], k)

StartingOK ==
  \A a \in Actors, k \in Knobs :
    /\ At(a, "reading") /\ act[a].cfg[k] # None => Missed(act[a].cfg[k], k)
    /\ At(a, "health") => Missed(proc[act[a].port].cfg[k], k)

SettersOK ==
  \A k \in Knobs \ excused.raced : \A a \in Actors :
    act[a].kind = "set" /\ act[a].cfg[k] # None => act[a].cfg[k] = setting[k]

SavedOK ==
  \A k \in Knobs \ (excused.raced \union excused.apart) :
    saved[k] # setting[k] => \E a \in Actors : act[a].kind = "set" /\ act[a].cfg[k] # None

SavingOK == SettersOK /\ SavedOK

(* An id is in one place. *)
Makes(a) == act[a].method = "create"
Closes(a) == act[a].method = "close"
IdsOK ==
  /\ \A a \in Actors : Makes(a) \/ Closes(a) => act[a].id <= drawn
  /\ \A c \in Cached : sessions[c].id <= drawn
  /\ \A a, b \in Actors : Makes(a) /\ (Makes(b) \/ Closes(b)) /\ act[a].id = act[b].id => a = b
  /\ \A a \in Actors, c \in Cached : Makes(a) \/ Closes(a) => act[a].id # sessions[c].id
  /\ \A c, d \in Cached : sessions[c].id = sessions[d].id => c = d
  /\ \A r \in loose : r.method = "close" =>
       /\ r.id <= drawn
       /\ \A a \in Actors : Makes(a) => act[a].id # r.id
       /\ \A c \in Cached : sessions[c].id # r.id
  /\ \A r \in loose : r.method = "create" => r.id \in excused.leaked

(* Where a session is open, and who knows of it. *)
OpenHere(id) == Alive(sidecar) /\ id \in proc[sidecar].open
Known(id) ==
  \/ \E c \in Cached : sessions[c].id = id
  \/ \E a \in Actors : act[a].id = id /\ (a \in Creators \/ Closes(a))
  \/ id \in excused.leaked

MapOK ==
  /\ \A c \in Cached :
       sessions[c].id \in excused.cutoff \/ OpenHere(sessions[c].id) \/ \E a \in Actors : At(a, "clear")
  /\ \A a \in Creators : act[a].id \in excused.cutoff \/ OpenHere(act[a].id)
  /\ Alive(sidecar) => \A id \in proc[sidecar].open : Known(id)
  /\ \A a \in Actors : Closes(a) /\ (At(a, "post") \/ At(a, "wait")) /\ ~Alive(act[a].port)
                         /\ OpenHere(act[a].id) => act[a].id \in excused.leaked

(* Where an approval is. *)
Carried(c, d) == \E a \in Actors : At(a, "insert") /\ act[a].conv = c /\ d \in act[a].took
Waiting(c, d) == /\ c \notin Cached /\ d \in pending[c]
                 /\ \A a \in Actors : At(a, "insert") => act[a].conv # c

ApprovalsOK ==
  \A c \in Conversations : \A d \in granted[c] :
    \/ c \in Cached /\ d \in sessions[c].approved
    \/ Waiting(c, d)
    \/ Carried(c, d)

IInv ==
  /\ TypeOK /\ CallsOK /\ LockOK /\ NumbersOK /\ ProcsOK /\ PortsOK
  /\ ServingOK /\ StartingOK /\ SavingOK /\ IdsOK /\ MapOK /\ ApprovalsOK

USE DEF core, rest, calls, At

-----------------------------------------------------------------------------
(* What the steps do to a call.                                                *)

LEMMA PcsAre ==
  {"ensure", "reading", "health", "post", "wait", "rest", "done", "find", "check", "pend",
   "insert", "update", "closing", "ending", "kill", "clear", "park"} \subseteq Pcs
  BY DEF Pcs, Calling

LEMMA KindsAre ==
  {"command", "tool", "delete", "idle", "shutdown", "set", "approve"} \subseteq Kinds
  BY DEF Kinds

LEMMA NoneIsNo ==
  None \notin {"create", "do", "close", "command", "tool", "delete", "idle", "shutdown",
               "set", "approve"}
  BY NoneAssumption DEF Kinds

(* One call changes, into one that is right. *)
Turned(a) ==
  /\ act' \in [Actors -> Calls]
  /\ CarriesRight(act'[a])
  /\ \A b \in Actors \ {a} : act'[b] = act[b]

SameWork(a) ==
  /\ act'[a].kind = act[a].kind
  /\ act'[a].conv = act[a].conv
  /\ act'[a].id = act[a].id
  /\ act'[a].method = act[a].method
  /\ act'[a].cfg = act[a].cfg
  /\ act'[a].dom = act[a].dom
  /\ act'[a].took = act[a].took

LEMMA Turning ==
  ASSUME act \in [Actors -> Calls], NEW a \in Actors, NEW r \in Calls, CarriesRight(r),
         act' = [act EXCEPT ![a] = r]
  PROVE  Turned(a) /\ act'[a] = r
  BY DEF Turned

LEMMA ACall ==
  ASSUME CallsOK, NEW a \in Actors
  PROVE  act[a] \in Calls /\ CarriesRight(act[a]) /\ act \in [Actors -> Calls]
  BY DEF CallsOK

LEMMA RestingIs ==
  /\ Resting \in Calls
  /\ Resting.pc = "rest" /\ Resting.kind = None /\ Resting.method = None /\ Resting.took = {}
  /\ Resting.cfg = [k \in Knobs |-> None]
  /\ Done \in Calls /\ CarriesRight(Done)
  /\ Done.pc = "done" /\ Done.kind = None /\ Done.method = None /\ Done.took = {}
  /\ Done.cfg = [k \in Knobs |-> None]
<1>1. Resting \in Calls /\ Done \in Calls
  BY DEF Resting, Done, Calls, Pcs, Calling
<1>2. /\ Resting.pc = "rest" /\ Resting.kind = None /\ Resting.method = None /\ Resting.took = {}
      /\ Resting.cfg = [k \in Knobs |-> None]
      /\ Done.pc = "done" /\ Done.kind = None /\ Done.method = None /\ Done.took = {}
      /\ Done.cfg = [k \in Knobs |-> None]
  BY DEF Resting, Done
<1>3. CarriesRight(Done)
  BY <1>2, NoneIsNo DEF CarriesRight, Calling
<1> QED
  BY <1>1, <1>2, <1>3

(* The forms the steps share. *)
LEMMA GoDoes ==
  ASSUME CallsOK, NEW a \in Actors, NEW pc \in Pcs, Go(a, pc),
         CarriesRight([act[a] EXCEPT !.pc = pc])
  PROVE  Turned(a) /\ SameWork(a) /\ act'[a].pc = pc /\ act'[a].port = act[a].port
<1> DEFINE r == [act[a] EXCEPT !.pc = pc]
<1>1. r \in Calls
  BY ACall DEF Calls
<1>2. Turned(a) /\ act'[a] = r
  BY <1>1, ACall, Turning DEF Go
<1> QED
  BY <1>2, ACall DEF Calls, SameWork

LEMMA RestDoes ==
  ASSUME CallsOK, NEW a \in Actors, Rest(a)
  PROVE  Turned(a) /\ act'[a] = Done
  BY ACall, RestingIs, Turning DEF Rest

(* A call with nothing in its hands. *)
Free(a) ==
  /\ act'[a].method = None /\ act'[a].took = {}
  /\ act'[a].pc \in {"done", "closing", "find", "park"}
  /\ \A k \in Knobs : act'[a].cfg[k] = None
  /\ act'[a].kind # "set"

LEMMA BackDoes ==
  ASSUME CallsOK, NEW a \in Actors, act[a].kind \in Closers, BackToList(a)
  PROVE  Turned(a) /\ Free(a)
<1> DEFINE r == [Resting EXCEPT !.kind = act[a].kind, !.pc = "closing", !.todo = act[a].todo]
<1>1. r \in Calls
  BY ACall, RestingIs, PcsAre DEF Calls
<1>2. /\ r.kind = act[a].kind /\ r.pc = "closing" /\ r.method = None /\ r.took = {}
      /\ r.cfg = [k \in Knobs |-> None]
  BY RestingIs DEF Calls
<1>3. act' = [act EXCEPT ![a] = r]
  BY DEF BackToList
<1> HIDE DEF r
<1>4. CarriesRight(r)
  BY <1>2, NoneIsNo DEF CarriesRight, Calling, Closers
<1>5. Turned(a) /\ act'[a] = r
  BY <1>1, <1>3, <1>4, ACall, Turning
<1> QED
  BY <1>2, <1>5 DEF Free, Closers

LEMMA RestFrees ==
  ASSUME CallsOK, NEW a \in Actors, Rest(a)
  PROVE  Turned(a) /\ Free(a)
  BY RestDoes, RestingIs, NoneIsNo DEF Free

LEMMA FailedFrees ==
  ASSUME CallsOK, NEW a \in Actors, act[a].pc \in Calling, Failed(a)
  PROVE  Turned(a) /\ Free(a)
<1>1. act[a].kind = "command" \/ act[a].kind \in Closers
  BY ACall DEF CarriesRight, Calls
<1> QED
  BY <1>1, BackDoes, RestFrees DEF Failed

(* Where a call may go on with what it carries. *)
LEMMA MayGo ==
  ASSUME NEW r \in Calls, CarriesRight(r), NEW pc \in Pcs,
         \/ r.pc = "ensure" /\ pc = "reading"
         \/ r.pc = "health" /\ pc = "post"
         \/ r.pc = "post" /\ pc = "wait"
         \/ r.pc = "wait" /\ r.method = "create" /\ pc = "pend"
         \/ r.pc = "wait" /\ r.method = "do" /\ pc = "update"
         \/ r.pc = "check" /\ pc = "ensure"
         \/ r.pc = "kill" /\ pc = "clear"
  PROVE  CarriesRight([r EXCEPT !.pc = pc])
<1> DEFINE s == [r EXCEPT !.pc = pc]
<1>1. /\ s.pc = pc /\ s.kind = r.kind /\ s.conv = r.conv /\ s.id = r.id /\ s.method = r.method
      /\ s.port = r.port /\ s.cfg = r.cfg /\ s.dom = r.dom /\ s.took = r.took
  BY DEF Calls
<1> HIDE DEF s
<1>2. CarriesRight(s)
  BY <1>1, NoneIsNo DEF CarriesRight, Calling, Closers
<1> QED
  BY <1>2 DEF s

LEMMA FindSidecarDoes ==
  ASSUME TypeOK, CallsOK, NEW a \in Actors, FindSidecar(a)
  PROVE  Turned(a) /\ SameWork(a) /\ act'[a].pc = "post" /\ act'[a].port = sidecar
<1> DEFINE r == [act[a] EXCEPT !.pc = "post", !.port = sidecar]
<1>1. act[a] \in Calls /\ CarriesRight(act[a])
  BY ACall
<1>2. act[a].pc = "ensure" /\ sidecar \in Procs
  BY DEF FindSidecar, TypeOK, Alive
<1>3. r \in Calls
  BY <1>1, <1>2, PcsAre, KindsAre DEF Calls
<1>4. /\ r.pc = "post"
      /\ r.kind = act[a].kind
      /\ r.conv = act[a].conv
      /\ r.id = act[a].id
      /\ r.method = act[a].method
      /\ r.cfg = act[a].cfg
      /\ r.dom = act[a].dom
      /\ r.took = act[a].took
      /\ r.port = sidecar
  BY <1>1 DEF Calls
<1>5. act' = [act EXCEPT ![a] = r]
  BY DEF FindSidecar
<1> HIDE DEF r
<1>6. CarriesRight(r)
  BY <1>1, <1>2, <1>4, NoneIsNo DEF CarriesRight, Calling, Closers
<1>7. Turned(a) /\ act'[a] = r
  BY <1>3, <1>5, <1>6, ACall, Turning
<1> QED
  BY <1>1, <1>2, <1>4, <1>7 DEF SameWork, Free

LEMMA StartSidecarDoes ==
  ASSUME TypeOK, CallsOK, NEW a \in Actors, StartSidecar(a)
  PROVE  Turned(a) /\ SameWork(a) /\ act'[a].pc = "reading" /\ act'[a].port = act[a].port
<1>1. Go(a, "reading") /\ act[a].pc = "ensure" /\ "reading" \in Pcs
  BY PcsAre DEF StartSidecar
<1>2. CarriesRight([act[a] EXCEPT !.pc = "reading"])
  BY <1>1, ACall, MayGo
<1> QED
  BY <1>1, <1>2, GoDoes

LEMMA ReadKnobDoes ==
  ASSUME TypeOK, CallsOK, NEW a \in Actors, NEW k \in Knobs, ReadKnob(a, k)
  PROVE  /\ Turned(a)
         /\ act'[a].pc = "reading"
         /\ act'[a].kind = act[a].kind /\ act'[a].conv = act[a].conv /\ act'[a].id = act[a].id
         /\ act'[a].method = act[a].method /\ act'[a].took = act[a].took
         /\ act'[a].cfg = [act[a].cfg EXCEPT ![k] = setting[k]]
<1> DEFINE r == [act[a] EXCEPT !.cfg[k] = setting[k]]
<1>1. act[a] \in Calls /\ CarriesRight(act[a])
  BY ACall
<1>2. act[a].pc = "reading" /\ setting[k] \in Values
  BY DEF ReadKnob, TypeOK
<1>3. r \in Calls
  BY <1>1, <1>2, PcsAre, KindsAre DEF Calls
<1>4. /\ r.pc = act[a].pc
      /\ r.kind = act[a].kind
      /\ r.conv = act[a].conv
      /\ r.id = act[a].id
      /\ r.method = act[a].method
      /\ r.cfg = [act[a].cfg EXCEPT ![k] = setting[k]]
      /\ r.dom = act[a].dom
      /\ r.took = act[a].took
      /\ r.port = act[a].port
  BY <1>1 DEF Calls
<1>5. act' = [act EXCEPT ![a] = r]
  BY DEF ReadKnob
<1> HIDE DEF r
<1>6. CarriesRight(r)
  BY <1>1, <1>2, <1>4, NoneIsNo DEF CarriesRight, Calling, Closers
<1>7. Turned(a) /\ act'[a] = r
  BY <1>3, <1>5, <1>6, ACall, Turning
<1> QED
  BY <1>1, <1>2, <1>4, <1>7 DEF SameWork, Free

LEMMA HealthyDoes ==
  ASSUME TypeOK, CallsOK, NEW a \in Actors, Healthy(a)
  PROVE  Turned(a) /\ SameWork(a) /\ act'[a].pc = "post" /\ act'[a].port = act[a].port
<1>1. Go(a, "post") /\ act[a].pc = "health" /\ "post" \in Pcs
  BY PcsAre DEF Healthy
<1>2. CarriesRight([act[a] EXCEPT !.pc = "post"])
  BY <1>1, ACall, MayGo
<1> QED
  BY <1>1, <1>2, GoDoes

LEMMA KillSidecarDoes ==
  ASSUME TypeOK, CallsOK, NEW a \in Actors, KillSidecar(a)
  PROVE  Turned(a) /\ SameWork(a) /\ act'[a].pc = "clear" /\ act'[a].port = act[a].port
<1>1. Go(a, "clear") /\ act[a].pc = "kill" /\ "clear" \in Pcs
  BY PcsAre DEF KillSidecar
<1>2. CarriesRight([act[a] EXCEPT !.pc = "clear"])
  BY <1>1, ACall, MayGo
<1> QED
  BY <1>1, <1>2, GoDoes

LEMMA AskToCloseDoes ==
  ASSUME TypeOK, CallsOK, NEW a \in Actors, AskToClose(a)
  PROVE  Turned(a) /\ SameWork(a) /\ act'[a].pc = "ending" /\ act'[a].port = act[a].port
<1>1. Go(a, "ending") /\ act[a].pc = "closing" /\ act[a].kind = "shutdown" /\ "ending" \in Pcs
  BY PcsAre DEF AskToClose
<1>2. CarriesRight([act[a] EXCEPT !.pc = "ending"])
  BY <1>1, ACall DEF CarriesRight, Calling, Closers, Calls
<1> QED
  BY <1>1, <1>2, GoDoes

LEMMA PostDoes ==
  ASSUME TypeOK, CallsOK, NEW a \in Actors, Post(a)
  PROVE  /\ Turned(a)
         /\ \/ /\ Alive(act[a].port) /\ SameWork(a) /\ act'[a].pc = "wait"
               /\ act'[a].port = act[a].port
            \/ ~ Alive(act[a].port) /\ Free(a)
<1>1. act[a].pc = "post" /\ "wait" \in Pcs /\ act[a].pc \in Calling
  BY PcsAre DEF Post, Calling
<1>2. CarriesRight([act[a] EXCEPT !.pc = "wait"])
  BY <1>1, ACall, MayGo
<1> QED
  BY <1>1, <1>2, GoDoes, FailedFrees DEF Post

LEMMA ServeDoes ==
  ASSUME TypeOK, CallsOK, NEW a \in Actors, Serve(a)
  PROVE  /\ Turned(a)
         /\ \/ act[a].method = "create" /\ SameWork(a) /\ act'[a].pc = "pend"
            \/ act[a].method = "close" /\ Free(a)
            \/ act[a].method = "do" /\ SameWork(a) /\ act'[a].pc = "update"
<1>1. act[a].pc = "wait" /\ {"pend", "update"} \subseteq Pcs
  BY PcsAre DEF Serve
<1>2. act[a].method \in {"create", "do", "close"}
  BY <1>1, ACall DEF CarriesRight, Calling, Calls
<1>3. CASE act[a].method = "create"
  <2>1. CarriesRight([act[a] EXCEPT !.pc = "pend"])
    BY <1>1, <1>3, ACall, MayGo
  <2> QED
    BY <1>1, <1>3, <2>1, GoDoes DEF Serve
<1>4. CASE act[a].method = "do"
  <2>1. CarriesRight([act[a] EXCEPT !.pc = "update"])
    BY <1>1, <1>4, ACall, MayGo
  <2> QED
    BY <1>1, <1>4, <2>1, GoDoes DEF Serve
<1>5. CASE act[a].method = "close"
  <2>1. act[a].kind \in Closers /\ BackToList(a)
    BY <1>5, ACall DEF Serve, CarriesRight
  <2> QED
    BY <1>5, <2>1, BackDoes
<1> QED
  BY <1>2, <1>3, <1>4, <1>5

LEMMA CheckAddressDoes ==
  ASSUME TypeOK, CallsOK, NEW a \in Actors, CheckAddress(a)
  PROVE  Turned(a) /\ (Free(a) \/ (SameWork(a) /\ act'[a].pc = "ensure"))
<1>1. act[a].pc = "check" /\ "ensure" \in Pcs
  BY PcsAre DEF CheckAddress
<1>2. CarriesRight([act[a] EXCEPT !.pc = "ensure"])
  BY <1>1, ACall, MayGo
<1> QED
  BY <1>1, <1>2, GoDoes, RestFrees DEF CheckAddress

(* The process that is spawned next. *)
Born == MaxProcs - Cardinality(Unborn) + 1

LEMMA SpawnDoes ==
  ASSUME TypeOK, CallsOK, NEW a \in Actors, Spawn(a), Born \in Procs
  PROVE  /\ Turned(a)
         /\ Born \in Procs /\ act'[a].pc = "health" /\ act'[a].port = Born
         /\ act'[a].kind = act[a].kind /\ act'[a].conv = act[a].conv /\ act'[a].id = act[a].id
         /\ act'[a].method = act[a].method /\ act'[a].took = act[a].took
         /\ \A k \in Knobs : act'[a].cfg[k] = None
<1> DEFINE r == [act[a] EXCEPT !.pc = "health", !.port = Born, !.cfg = Resting.cfg]
<1>1. act[a] \in Calls /\ CarriesRight(act[a])
  BY ACall
<1>2. act[a].pc = "reading" /\ Resting.cfg = [k \in Knobs |-> None]
  BY RestingIs DEF Spawn
<1>3. r \in Calls
  BY <1>1, <1>2, PcsAre, KindsAre DEF Calls
<1>4. /\ r.pc = "health"
      /\ r.kind = act[a].kind
      /\ r.conv = act[a].conv
      /\ r.id = act[a].id
      /\ r.method = act[a].method
      /\ r.cfg = Resting.cfg
      /\ r.dom = act[a].dom
      /\ r.took = act[a].took
      /\ r.port = Born
  BY <1>1 DEF Calls
<1>5. act' = [act EXCEPT ![a] = r]
  BY DEF Spawn, Born
<1> HIDE DEF r
<1>6. CarriesRight(r)
  BY <1>1, <1>2, <1>4, NoneIsNo DEF CarriesRight, Calling, Closers
<1>7. Turned(a) /\ act'[a] = r
  BY <1>3, <1>5, <1>6, ACall, Turning
<1> QED
  BY <1>1, <1>2, <1>4, <1>7 DEF SameWork, Free

LEMMA CommandDoes ==
  ASSUME TypeOK, CallsOK, NEW a \in Actors, NEW c \in Conversations, NEW d \in Domains \union {None},
         Command(a, c, d)
  PROVE  Turned(a) /\ Free(a)
<1> DEFINE r == [act[a] EXCEPT !.kind = "command", !.pc = "find", !.conv = c, !.dom = d]
<1>1. act[a] \in Calls /\ CarriesRight(act[a])
  BY ACall
<1>2. /\ act[a].pc = "rest" /\ act[a].kind = None /\ act[a].method = None /\ act[a].took = {}
      /\ \A k \in Knobs : act[a].cfg[k] = None
  BY ACall DEF Command, CarriesRight, Calling
<1>3. r \in Calls
  BY <1>1, <1>2, PcsAre, KindsAre DEF Calls
<1>4. /\ r.pc = "find"
      /\ r.kind = "command"
      /\ r.conv = c
      /\ r.id = act[a].id
      /\ r.method = act[a].method
      /\ r.cfg = act[a].cfg
      /\ r.dom = d
      /\ r.took = act[a].took
      /\ r.port = act[a].port
  BY <1>1 DEF Calls
<1>5. act' = [act EXCEPT ![a] = r]
  BY DEF Command
<1> HIDE DEF r
<1>6. CarriesRight(r)
  BY <1>1, <1>2, <1>4, NoneIsNo DEF CarriesRight, Calling, Closers
<1>7. Turned(a) /\ act'[a] = r
  BY <1>3, <1>5, <1>6, ACall, Turning
<1> QED
  BY <1>1, <1>2, <1>4, <1>7 DEF SameWork, Free

LEMMA FindSessionDoes ==
  ASSUME TypeOK, CallsOK, NEW a \in Actors, FindSession(a)
  PROVE  /\ Turned(a) /\ act'[a].method = "do" /\ act'[a].pc \in {"ensure", "check"}
         /\ act'[a].took = {} /\ act'[a].kind = "command" /\ \A k \in Knobs : act'[a].cfg[k] = None
<1> DEFINE r == [act[a] EXCEPT !.pc = AfterFind(a), !.method = "do", !.id = sessions[act[a].conv].id]
<1>1. act[a] \in Calls /\ CarriesRight(act[a])
  BY ACall
<1>2. /\ act[a].pc = "find" /\ sessions[act[a].conv].id \in Ids
      /\ AfterFind(a) \in {"ensure", "check"}
      /\ act[a].took = {} /\ act[a].kind = "command" /\ \A k \in Knobs : act[a].cfg[k] = None
  BY ACall, NoneAssumption DEF FindSession, TypeOK, Cached, AfterFind, CarriesRight
<1>3. r \in Calls
  BY <1>1, <1>2, PcsAre, KindsAre DEF Calls
<1>4. /\ r.pc = AfterFind(a)
      /\ r.kind = act[a].kind
      /\ r.conv = act[a].conv
      /\ r.id = sessions[act[a].conv].id
      /\ r.method = "do"
      /\ r.cfg = act[a].cfg
      /\ r.dom = act[a].dom
      /\ r.took = act[a].took
      /\ r.port = act[a].port
  BY <1>1 DEF Calls
<1>5. act' = [act EXCEPT ![a] = r]
  BY DEF FindSession
<1> HIDE DEF r
<1>6. CarriesRight(r)
  BY <1>1, <1>2, <1>4, NoneIsNo DEF CarriesRight, Calling, Closers
<1>7. Turned(a) /\ act'[a] = r
  BY <1>3, <1>5, <1>6, ACall, Turning
<1> QED
  BY <1>1, <1>2, <1>4, <1>7 DEF SameWork, Free

LEMMA NewSessionDoes ==
  ASSUME TypeOK, CallsOK, NEW a \in Actors, NewSession(a)
  PROVE  /\ Turned(a) /\ act'[a].method = "create" /\ act'[a].id = drawn + 1
         /\ act'[a].pc = "ensure" /\ act'[a].took = {} /\ act'[a].kind = "command"
         /\ \A k \in Knobs : act'[a].cfg[k] = None
<1> DEFINE r == [act[a] EXCEPT !.pc = "ensure", !.method = "create", !.id = drawn + 1]
<1>1. act[a] \in Calls /\ CarriesRight(act[a])
  BY ACall
<1>2. /\ act[a].pc = "find" /\ drawn + 1 \in Ids
      /\ act[a].took = {} /\ act[a].kind = "command" /\ \A k \in Knobs : act[a].cfg[k] = None
  BY ACall, BoundAssumption DEF NewSession, CallsOK, Ids, CarriesRight
<1>3. r \in Calls
  BY <1>1, <1>2, PcsAre, KindsAre DEF Calls
<1>4. /\ r.pc = "ensure"
      /\ r.kind = act[a].kind
      /\ r.conv = act[a].conv
      /\ r.id = drawn + 1
      /\ r.method = "create"
      /\ r.cfg = act[a].cfg
      /\ r.dom = act[a].dom
      /\ r.took = act[a].took
      /\ r.port = act[a].port
  BY <1>1 DEF Calls
<1>5. act' = [act EXCEPT ![a] = r]
  BY DEF NewSession, SendCommand
<1> HIDE DEF r
<1>6. CarriesRight(r)
  BY <1>1, <1>2, <1>4, NoneIsNo DEF CarriesRight, Calling, Closers
<1>7. Turned(a) /\ act'[a] = r
  BY <1>3, <1>5, <1>6, ACall, Turning
<1> QED
  BY <1>1, <1>2, <1>4, <1>7 DEF SameWork, Free

LEMMA TakePendingDoes ==
  ASSUME TypeOK, CallsOK, NEW a \in Actors, TakePending(a)
  PROVE  /\ Turned(a)
         /\ act[a].conv \in Conversations /\ act'[a].pc = "insert"
         /\ act'[a].kind = act[a].kind /\ act'[a].conv = act[a].conv /\ act'[a].id = act[a].id
         /\ act'[a].method = act[a].method /\ act'[a].took = pending[act[a].conv]
         /\ \A k \in Knobs : act'[a].cfg[k] = None
<1> DEFINE r == [act[a] EXCEPT !.pc = "insert", !.took = pending[act[a].conv]]
<1>1. act[a] \in Calls /\ CarriesRight(act[a])
  BY ACall
<1>2. /\ act[a].pc = "pend" /\ act[a].conv \in Conversations
      /\ pending[act[a].conv] \in SUBSET Domains
      /\ \A k \in Knobs : act[a].cfg[k] = None
  BY ACall DEF TakePending, TypeOK, CarriesRight
<1>3. r \in Calls
  BY <1>1, <1>2, PcsAre, KindsAre DEF Calls
<1>4. /\ r.pc = "insert"
      /\ r.kind = act[a].kind
      /\ r.conv = act[a].conv
      /\ r.id = act[a].id
      /\ r.method = act[a].method
      /\ r.cfg = act[a].cfg
      /\ r.dom = act[a].dom
      /\ r.took = pending[act[a].conv]
      /\ r.port = act[a].port
  BY <1>1 DEF Calls
<1>5. act' = [act EXCEPT ![a] = r]
  BY DEF TakePending
<1> HIDE DEF r
<1>6. CarriesRight(r)
  BY <1>1, <1>2, <1>4, NoneIsNo DEF CarriesRight, Calling, Closers
<1>7. Turned(a) /\ act'[a] = r
  BY <1>3, <1>5, <1>6, ACall, Turning
<1> QED
  BY <1>1, <1>2, <1>4, <1>7 DEF SameWork, Free

LEMMA InsertSessionDoes ==
  ASSUME TypeOK, CallsOK, NEW a \in Actors, InsertSession(a)
  PROVE  /\ Turned(a)
         /\ act[a].conv \in Conversations /\ act'[a].method = "do" /\ act'[a].kind = "command"
         /\ act'[a].pc \in {"ensure", "check"} /\ act'[a].took = {}
         /\ \A k \in Knobs : act'[a].cfg[k] = None
<1> DEFINE r == [act[a] EXCEPT !.pc = AfterFind(a), !.method = "do", !.took = {}]
<1>1. act[a] \in Calls /\ CarriesRight(act[a])
  BY ACall
<1>2. /\ act[a].pc = "insert" /\ act[a].kind = "command" /\ act[a].conv \in Conversations
      /\ act[a].id \in Ids /\ AfterFind(a) \in {"ensure", "check"}
      /\ \A k \in Knobs : act[a].cfg[k] = None
  BY ACall, NoneIsNo DEF InsertSession, AfterFind, CarriesRight
<1>3. r \in Calls
  BY <1>1, <1>2, PcsAre, KindsAre DEF Calls
<1>4. /\ r.pc = AfterFind(a)
      /\ r.kind = act[a].kind
      /\ r.conv = act[a].conv
      /\ r.id = act[a].id
      /\ r.method = "do"
      /\ r.cfg = act[a].cfg
      /\ r.dom = act[a].dom
      /\ r.took = {}
      /\ r.port = act[a].port
  BY <1>1 DEF Calls
<1>5. act' = [act EXCEPT ![a] = r]
  BY DEF InsertSession
<1> HIDE DEF r
<1>6. CarriesRight(r)
  BY <1>1, <1>2, <1>4, NoneIsNo DEF CarriesRight, Calling, Closers
<1>7. Turned(a) /\ act'[a] = r
  BY <1>3, <1>5, <1>6, ACall, Turning
<1> QED
  BY <1>1, <1>2, <1>4, <1>7 DEF SameWork, Free

LEMMA StartClosingDoes ==
  ASSUME TypeOK, CallsOK, NEW a \in Actors, NEW kind \in Closers, NEW cs \in SUBSET Conversations,
         StartClosing(a, kind, cs)
  PROVE  Turned(a) /\ Free(a)
<1> DEFINE r == [act[a] EXCEPT !.kind = kind, !.pc = "closing", !.todo = cs]
<1>1. act[a] \in Calls /\ CarriesRight(act[a])
  BY ACall
<1>2. /\ act[a].pc = "rest" /\ act[a].kind = None /\ act[a].method = None /\ act[a].took = {}
      /\ \A k \in Knobs : act[a].cfg[k] = None
      /\ kind \in Kinds /\ kind # "set"
  BY ACall DEF StartClosing, CarriesRight, Closers, Kinds, Calling
<1>3. r \in Calls
  BY <1>1, <1>2, PcsAre, KindsAre DEF Calls
<1>4. /\ r.pc = "closing"
      /\ r.kind = kind
      /\ r.conv = act[a].conv
      /\ r.id = act[a].id
      /\ r.method = act[a].method
      /\ r.cfg = act[a].cfg
      /\ r.dom = act[a].dom
      /\ r.took = act[a].took
      /\ r.port = act[a].port
  BY <1>1 DEF Calls
<1>5. act' = [act EXCEPT ![a] = r]
  BY DEF StartClosing
<1> HIDE DEF r
<1>6. CarriesRight(r)
  BY <1>1, <1>2, <1>4, NoneIsNo DEF CarriesRight, Calling, Closers
<1>7. Turned(a) /\ act'[a] = r
  BY <1>3, <1>5, <1>6, ACall, Turning
<1> QED
  BY <1>1, <1>2, <1>4, <1>7 DEF SameWork, Free

LEMMA SetKnobDoes ==
  ASSUME TypeOK, CallsOK, NEW a \in Actors, NEW k \in Knobs, NEW v \in Values, SetKnob(a, k, v)
  PROVE  /\ Turned(a)
         /\ act'[a].kind = "set" /\ act'[a].pc = "kill" /\ act'[a].method = None
         /\ act'[a].took = {} /\ act'[a].cfg[k] = v /\ \A m \in Knobs \ {k} : act'[a].cfg[m] = None
<1> DEFINE r == [act[a] EXCEPT !.kind = "set", !.pc = "kill", !.cfg[k] = v]
<1>1. act[a] \in Calls /\ CarriesRight(act[a])
  BY ACall
<1>2. /\ act[a].pc = "rest" /\ act[a].kind = None /\ act[a].method = None /\ act[a].took = {}
      /\ act[a].cfg \in [Knobs -> Values \union {None}] /\ \A m \in Knobs : act[a].cfg[m] = None
  BY ACall DEF SetKnob, CarriesRight, Calling, Calls
<1>3. r \in Calls
  BY <1>1, <1>2, PcsAre, KindsAre DEF Calls
<1>4. /\ r.pc = "kill"
      /\ r.kind = "set"
      /\ r.conv = act[a].conv
      /\ r.id = act[a].id
      /\ r.method = act[a].method
      /\ r.cfg = [act[a].cfg EXCEPT ![k] = v]
      /\ r.dom = act[a].dom
      /\ r.took = act[a].took
      /\ r.port = act[a].port
  BY <1>1 DEF Calls
<1>5. act' = [act EXCEPT ![a] = r]
  BY DEF SetKnob
<1> HIDE DEF r
<1>6. CarriesRight(r)
  BY <1>1, <1>2, <1>4, NoneIsNo DEF CarriesRight, Calling, Closers
<1>7. Turned(a) /\ act'[a] = r
  BY <1>3, <1>5, <1>6, ACall, Turning
<1> QED
  BY <1>1, <1>2, <1>4, <1>7 DEF SameWork, Free

LEMMA CloseNextDoes ==
  ASSUME TypeOK, CallsOK, NEW a \in Actors, CloseNext(a)
  PROVE  /\ Turned(a)
         /\ \/ Free(a) /\ UNCHANGED <<sessions, granted>>
            \/ \E c \in Cached :
                 /\ sessions' = [sessions EXCEPT ![c] = None]
                 /\ granted' = [granted EXCEPT ![c] = @ \ sessions[c].approved]
                 /\ act'[a].method = "close" /\ act'[a].id = sessions[c].id
                 /\ act'[a].pc = "ensure" /\ act'[a].took = {} /\ act'[a].kind # "set"
                 /\ \A k \in Knobs : act'[a].cfg[k] = None
<1>1. /\ act[a] \in Calls /\ CarriesRight(act[a]) /\ act[a].pc = "closing"
      /\ act[a].kind \in Closers
      /\ act[a].method = None /\ act[a].took = {} /\ \A k \in Knobs : act[a].cfg[k] = None
  BY ACall DEF CloseNext, CarriesRight, Calling
<1>2. PICK c \in act[a].todo :
        IF c \in Cached
        THEN /\ sessions' = [sessions EXCEPT ![c] = None]
             /\ granted' = [granted EXCEPT ![c] = @ \ sessions[c].approved]
             /\ act' = [act EXCEPT ![a].pc = "ensure", ![a].method = "close", ![a].conv = c,
                                   ![a].id = sessions[c].id, ![a].todo = @ \ {c}]
        ELSE /\ act' = [act EXCEPT ![a].todo = @ \ {c}]
             /\ UNCHANGED <<sessions, granted>>
  BY DEF CloseNext
<1>3. CASE c \in Cached
  <2> DEFINE r == [act[a] EXCEPT !.pc = "ensure", !.method = "close", !.conv = c,
                                 !.id = sessions[c].id, !.todo = act[a].todo \ {c}]
  <2>1. sessions[c].id \in Ids
    BY <1>3, NoneAssumption DEF TypeOK, Cached
  <2>2. r \in Calls
    BY <1>1, <1>3, <2>1, PcsAre DEF Calls, Cached
  <2>3. /\ r.pc = "ensure" /\ r.method = "close" /\ r.id = sessions[c].id /\ r.kind = act[a].kind
        /\ r.took = act[a].took /\ r.cfg = act[a].cfg /\ r.conv = c
    BY <1>1 DEF Calls
  <2>4. act' = [act EXCEPT ![a] = r]
    BY <1>2, <1>3
  <2> HIDE DEF r
  <2>5. CarriesRight(r)
    BY <1>1, <1>3, <2>1, <2>3, NoneIsNo DEF CarriesRight, Calling, Closers, Cached
  <2>6. Turned(a) /\ act'[a] = r
    BY <2>2, <2>4, <2>5, ACall, Turning
  <2> QED
    BY <1>1, <1>2, <1>3, <2>3, <2>6 DEF Closers
<1>4. CASE c \notin Cached
  <2> DEFINE r == [act[a] EXCEPT !.todo = act[a].todo \ {c}]
  <2>1. r \in Calls
    BY <1>1 DEF Calls
  <2>2. /\ r.pc = act[a].pc /\ r.method = act[a].method /\ r.id = act[a].id /\ r.kind = act[a].kind
        /\ r.took = act[a].took /\ r.cfg = act[a].cfg /\ r.conv = act[a].conv
    BY <1>1 DEF Calls
  <2>3. act' = [act EXCEPT ![a] = r]
    BY <1>2, <1>4
  <2> HIDE DEF r
  <2>4. CarriesRight(r)
    BY <1>1, <2>2, NoneIsNo DEF CarriesRight, Calling, Closers
  <2>5. Turned(a) /\ act'[a] = r
    BY <2>1, <2>3, <2>4, ACall, Turning
  <2> QED
    BY <1>1, <1>2, <1>4, <2>2, <2>5 DEF Closers, Free
<1> QED
  BY <1>3, <1>4

LEMMA ApproveDoes ==
  ASSUME TypeOK, CallsOK, NEW a \in Actors, NEW c \in Conversations, NEW d \in Domains,
         Approve(a, c, d)
  PROVE  Turned(a) /\ Free(a)
<1>1. CASE c \in Cached
  BY <1>1, RestFrees DEF Approve
<1>2. CASE c \notin Cached
  <2> DEFINE r == [act[a] EXCEPT !.kind = "approve", !.pc = "park", !.conv = c, !.dom = d]
  <2>1. /\ act[a] \in Calls /\ act[a].took = {} /\ act[a].method = None
        /\ \A k \in Knobs : act[a].cfg[k] = None
    BY ACall DEF Approve, CarriesRight, Calling
  <2>2. r \in Calls
    BY <2>1, PcsAre, KindsAre DEF Calls
  <2>3. /\ r.pc = "park" /\ r.method = None /\ r.kind = "approve" /\ r.conv = c /\ r.dom = d
        /\ r.took = act[a].took /\ r.cfg = act[a].cfg
    BY <2>1 DEF Calls
  <2>4. act' = [act EXCEPT ![a] = r]
    BY <1>2 DEF Approve
  <2> HIDE DEF r
  <2>5. CarriesRight(r)
    BY <2>1, <2>3, NoneIsNo DEF CarriesRight, Calling, Closers
  <2>6. Turned(a) /\ act'[a] = r
    BY <2>2, <2>4, <2>5, ACall, Turning
  <2> QED
    BY <2>1, <2>3, <2>6 DEF Free
<1> QED
  BY <1>1, <1>2

-----------------------------------------------------------------------------
(* The invariant, action by action.                                            *)

USE DEF IInv

(* A setter that waits to restart the sidecar goes on waiting. *)
LEMMA MissedStays ==
  ASSUME \A b \in Actors : act[b].pc = "kill" => act'[b] = act[b],
         UNCHANGED setting, NEW v, NEW k \in Knobs, Missed(v, k)
  PROVE  Missed(v, k)'
  BY DEF Missed

(* The settings of the processes stay as they were. *)
LEMMA SettingsStay ==
  ASSUME TypeOK, CallsOK, ServingOK, StartingOK,
         \A b \in Actors : act[b].pc = "kill" \/ act'[b].pc \in {"reading", "health"} => act'[b] = act[b],
         UNCHANGED setting, sidecar' = sidecar \/ ~Alive(sidecar)',
         \A q \in Procs : proc'[q].cfg = proc[q].cfg /\ (Alive(q)' => Alive(q))
  PROVE  ServingOK' /\ StartingOK'
<1>1. \A v : \A k \in Knobs : Missed(v, k) => Missed(v, k)'
  <2> SUFFICES ASSUME NEW v, NEW k \in Knobs, Missed(v, k)
               PROVE  Missed(v, k)'
    OBVIOUS
  <2> QED
    BY MissedStays
<1>2. ServingOK'
  <2> SUFFICES ASSUME Alive(sidecar)', NEW k \in Knobs
               PROVE  Missed(proc[sidecar].cfg[k], k)'
    BY DEF ServingOK
  <2>1. sidecar' = sidecar /\ sidecar \in Procs
    BY DEF TypeOK, Alive
  <2>2. Alive(sidecar) /\ proc'[sidecar].cfg = proc[sidecar].cfg
    BY <2>1 DEF Alive
  <2>3. \A v : v = proc[sidecar].cfg[k] => Missed(v, k)'
    BY <1>1, <2>2 DEF ServingOK
  <2> QED
    BY <2>1, <2>2, <2>3 DEF Missed
<1>3. StartingOK'
  <2> SUFFICES ASSUME NEW b \in Actors, NEW k \in Knobs
               PROVE  /\ (At(b, "reading") /\ act[b].cfg[k] # None => Missed(act[b].cfg[k], k))'
                      /\ (At(b, "health") => Missed(proc[act[b].port].cfg[k], k))'
    BY DEF StartingOK
  <2>1. CASE act'[b].pc \notin {"reading", "health"}
    BY <2>1
  <2>2. CASE act'[b].pc \in {"reading", "health"}
    <3>1. act'[b] = act[b] /\ (act[b].pc = "health" => act[b].port \in Procs)
      BY <2>2, ACall DEF CarriesRight
    <3>2. \A v : At(b, "reading") /\ act[b].cfg[k] # None /\ v = act[b].cfg[k] => Missed(v, k)'
      BY <1>1 DEF StartingOK
    <3>3. \A v : At(b, "health") /\ v = proc[act[b].port].cfg[k] => Missed(v, k)'
      BY <1>1 DEF StartingOK
    <3>4. (At(b, "reading") /\ act[b].cfg[k] # None => Missed(act[b].cfg[k], k))'
      BY <3>1, <3>2 DEF Missed
    <3>5. (At(b, "health") => Missed(proc[act[b].port].cfg[k], k))'
      BY <3>1, <3>3 DEF Missed
    <3> QED
      BY <3>4, <3>5
  <2> QED
    BY <2>1, <2>2
<1> QED
  BY <1>2, <1>3

(* The ports in use stay as they were. *)
LEMMA PortsStay ==
  ASSUME TypeOK, CallsOK, PortsOK,
         \A b \in Actors : act'[b].pc \in {"post", "wait"} => act'[b] = act[b],
         loose' \subseteq loose, Unborn' \subseteq Unborn,
         \A q \in Procs : Alive(q)' => Alive(q) /\ (q = sidecar => sidecar' = sidecar)
  PROVE  PortsOK'
<1>1. \A q \in Procs : q \notin Unborn /\ (Alive(q) => q = sidecar)
                         => q \notin Unborn' /\ (Alive(q)' => q = sidecar')
  OBVIOUS
<1>2. ASSUME NEW b \in Actors, At(b, "post")' \/ At(b, "wait")'
      PROVE  (act[b].port \notin Unborn /\ (Alive(act[b].port) => act[b].port = sidecar))'
  <2>1. act'[b] = act[b] /\ act[b].port \in Procs
    BY <1>2, ACall DEF CarriesRight
  <2>2. act[b].port \notin Unborn /\ (Alive(act[b].port) => act[b].port = sidecar)
    BY <1>2, <2>1 DEF PortsOK
  <2> QED
    BY <1>1, <2>1, <2>2 DEF Alive
<1>3. ASSUME NEW r \in loose'
      PROVE  (r.port \notin Unborn /\ (Alive(r.port) => r.port = sidecar))'
  <2>1. r \in loose /\ r.port \in Procs
    BY DEF TypeOK
  <2> QED
    BY <1>1, <2>1 DEF PortsOK
<1> QED
  BY <1>2, <1>3 DEF PortsOK

Processes == [state : {"none", "up", "dead"}, cfg : [Knobs -> Values \union {None}],
              open : SUBSET Ids]

(* A request that is served changes the sessions of the sidecar only. *)
LEMMA HandledDoes ==
  ASSUME TypeOK, NEW p \in Procs, NEW id \in Ids, NEW method \in {"create", "do", "close"},
         Handled(method, p, id)
  PROVE  /\ proc' \in [Procs -> Processes]
         /\ \A q \in Procs : proc'[q].state = proc[q].state /\ proc'[q].cfg = proc[q].cfg
         /\ \A q \in Procs \ {p} : proc'[q].open = proc[q].open
         /\ method = "create" => proc'[p].open = proc[p].open \union {id}
         /\ method = "close" => proc'[p].open = proc[p].open \ {id}
         /\ method = "do" => proc'[p].open = proc[p].open
         /\ Unborn' = Unborn /\ \A q \in Procs : Alive(q)' <=> Alive(q)
<1> DEFINE O == CASE method = "create" -> proc[p].open \union {id}
                  [] method = "close"  -> proc[p].open \ {id}
                  [] OTHER             -> proc[p].open
<1>1. proc' = [proc EXCEPT ![p].open = O] /\ proc \in [Procs -> Processes]
  BY DEF Handled, TypeOK, Processes
<1>2. /\ method = "create" => O = proc[p].open \union {id}
      /\ method = "close" => O = proc[p].open \ {id}
      /\ method = "do" => O = proc[p].open
  OBVIOUS
<1> HIDE DEF O
<1>3. O \in SUBSET Ids
  BY <1>1, <1>2 DEF Processes
<1>4. /\ proc' \in [Procs -> Processes]
      /\ \A q \in Procs : proc'[q].state = proc[q].state /\ proc'[q].cfg = proc[q].cfg
      /\ \A q \in Procs \ {p} : proc'[q].open = proc[q].open
      /\ proc'[p].open = O
  BY <1>1, <1>3 DEF Processes
<1> QED
  BY <1>2, <1>4 DEF Unborn, Alive

Sessions == [id : Ids, approved : SUBSET Domains, fresh : BOOLEAN]

(* A session of the map is touched. *)
LEMMA FreshDoes ==
  ASSUME TypeOK, NEW c \in Cached, NEW b \in BOOLEAN, sessions' = [sessions EXCEPT ![c].fresh = b]
  PROVE  /\ sessions' \in [Conversations -> Sessions \union {None}]
         /\ Cached' = Cached
         /\ \A d \in Cached : /\ sessions'[d].id = sessions[d].id
                              /\ sessions'[d].approved = sessions[d].approved
<1>1. /\ sessions \in [Conversations -> Sessions \union {None}] /\ c \in Conversations
      /\ sessions[c] \in Sessions
  BY DEF TypeOK, Cached, Sessions
<1> DEFINE s == [sessions[c] EXCEPT !.fresh = b]
<1>2. s \in Sessions /\ s.id = sessions[c].id /\ s.approved = sessions[c].approved
  BY <1>1 DEF Sessions
<1>3. sessions' = [sessions EXCEPT ![c] = s]
  BY <1>1
<1>4. s # None
  BY <1>2, NoneAssumption DEF Sessions
<1> HIDE DEF s
<1> QED
  BY <1>1, <1>2, <1>3, <1>4 DEF Cached

(* The sidecar ends. *)
LEMMA DiesDoes ==
  ASSUME TypeOK, proc' = Die({sidecar})
  PROVE  /\ proc' \in [Procs -> Processes]
         /\ \A p \in Procs : proc'[p].cfg = proc[p].cfg
         /\ \A p \in Procs : Alive(p) /\ p = sidecar => proc'[p].state = "dead" /\ proc'[p].open = {}
         /\ \A p \in Procs : ~(Alive(p) /\ p = sidecar) => proc'[p] = proc[p]
<1>1. proc \in [Procs -> Processes] /\ \A p \in Procs : Alive(p) <=> proc[p].state = "up"
  BY NoneAssumption DEF TypeOK, Processes, Alive
<1>2. \A p \in Procs : proc'[p] = IF p = sidecar /\ proc[p].state = "up"
                                  THEN [proc[p] EXCEPT !.state = "dead", !.open = {}] ELSE proc[p]
  BY DEF Die
<1>3. \A p \in Procs : [proc[p] EXCEPT !.state = "dead", !.open = {}] \in Processes
  BY <1>1 DEF Processes
<1>4. proc' \in [Procs -> Processes]
  BY <1>1, <1>2, <1>3 DEF Die
<1>5. \A p \in Procs : LET q == [proc[p] EXCEPT !.state = "dead", !.open = {}] IN
        q.state = "dead" /\ q.open = {} /\ q.cfg = proc[p].cfg
  BY <1>1 DEF Processes
<1> QED
  BY <1>1, <1>2, <1>4, <1>5

LEMMA CutOffDoes ==
  ASSUME TypeOK, \A b \in Creators : act[b].id \in Ids, Excuse("cutoff", {act[b].id : b \in Creators})
  PROVE  /\ excused' \in Excuses
         /\ excused'.stray = excused.stray /\ excused'.leaked = excused.leaked
         /\ excused'.raced = excused.raced /\ excused'.apart = excused.apart /\ excused.cutoff \subseteq excused'.cutoff
         /\ \A b \in Creators : act[b].id \in excused'.cutoff
<1> DEFINE S == {act[b].id : b \in Creators}
<1>1. S \subseteq Ids /\ \A b \in Creators : act[b].id \in S
  OBVIOUS
<1>2. excused' = [excused EXCEPT !.cutoff = excused.cutoff \union S] /\ excused \in Excuses
  BY DEF Excuse, TypeOK, Excuses
<1> HIDE DEF S
<1> QED
  BY <1>1, <1>2 DEF Excuses

LEMMA RacedDoes ==
  ASSUME TypeOK, NEW k \in Knobs,
         IF \E b \in Actors : act[b].kind = "set" /\ act[b].cfg[k] # None
         THEN Excuse("raced", {k}) ELSE UNCHANGED excused
  PROVE  /\ excused' \in Excuses
         /\ excused'.stray = excused.stray /\ excused'.leaked = excused.leaked
         /\ excused'.cutoff = excused.cutoff /\ excused.raced \subseteq excused'.raced /\ excused'.apart = excused.apart
         /\ \A b \in Actors : act[b].kind = "set" /\ act[b].cfg[k] # None => k \in excused'.raced
<1>1. excused \in Excuses
  BY DEF TypeOK
<1>2. CASE \E b \in Actors : act[b].kind = "set" /\ act[b].cfg[k] # None
  <2>1. excused' = [excused EXCEPT !.raced = excused.raced \union {k}]
    BY <1>2 DEF Excuse
  <2> QED
    BY <1>1, <2>1 DEF Excuses
<1>3. CASE ~ \E b \in Actors : act[b].kind = "set" /\ act[b].cfg[k] # None
  BY <1>1, <1>3
<1> QED
  BY <1>2, <1>3

(* An approval enters its policy. *)
LEMMA ApprovedDoes ==
  ASSUME TypeOK, NEW c \in Conversations, NEW d \in Domains,
         IF c \in Cached THEN sessions' = [sessions EXCEPT ![c].approved = @ \union {d}]
                         ELSE UNCHANGED sessions
  PROVE  /\ sessions' \in [Conversations -> Sessions \union {None}]
         /\ Cached' = Cached
         /\ \A e \in Cached : /\ sessions'[e].id = sessions[e].id
                              /\ sessions[e].approved \subseteq sessions'[e].approved
         /\ c \in Cached => d \in sessions'[c].approved
<1>1. CASE c \notin Cached
  BY <1>1 DEF TypeOK, Sessions, Cached
<1>2. CASE c \in Cached
  <2>1. sessions \in [Conversations -> Sessions \union {None}] /\ sessions[c] \in Sessions
    BY <1>2 DEF TypeOK, Cached, Sessions
  <2> DEFINE s == [sessions[c] EXCEPT !.approved = sessions[c].approved \union {d}]
  <2>2. s \in Sessions /\ s.id = sessions[c].id /\ s.approved = sessions[c].approved \union {d}
    BY <2>1 DEF Sessions
  <2>3. sessions' = [sessions EXCEPT ![c] = s]
    BY <1>2, <2>1
  <2>4. s # None
    BY <2>2, NoneAssumption DEF Sessions
  <2> HIDE DEF s
  <2> QED
    BY <1>2, <2>1, <2>2, <2>3, <2>4 DEF Cached
<1> QED
  BY <1>1, <1>2

(* A session enters the map. *)
LEMMA InsertedIs ==
  ASSUME TypeOK, NEW c \in Conversations, NEW id \in Ids, NEW approved \in SUBSET Domains,
         sessions' = [sessions EXCEPT ![c] = Session(id, approved)]
  PROVE  /\ sessions' \in [Conversations -> Sessions \union {None}]
         /\ Cached' = Cached \union {c}
         /\ sessions'[c].id = id /\ sessions'[c].approved = approved
         /\ \A d \in Conversations : d # c => sessions'[d] = sessions[d]
<1> DEFINE s == Session(id, approved)
<1>1. s \in Sessions /\ s.id = id /\ s.approved = approved
  BY DEF Session, Sessions
<1>2. s # None
  BY <1>1, NoneAssumption DEF Sessions
<1>3. /\ sessions' = [sessions EXCEPT ![c] = s]
      /\ sessions \in [Conversations -> Sessions \union {None}]
  BY DEF TypeOK, Sessions
<1> HIDE DEF s
<1> QED
  BY <1>1, <1>2, <1>3 DEF Cached

(* The next process is the first that was not spawned yet. *)
LEMMA TheBorn ==
  ASSUME NumbersOK, Unborn # {}
  PROVE  Born \in Unborn /\ \E n \in 0..MaxProcs : Unborn \ {Born} = (n + 1)..MaxProcs
<1>1. PICK n \in 0..MaxProcs : Unborn = (n + 1)..MaxProcs
  BY DEF NumbersOK
<1>2. n < MaxProcs
  BY <1>1, BoundAssumption
<1>3. Cardinality((n + 1)..MaxProcs) = MaxProcs - (n + 1) + 1
  BY <1>2, FS_Interval, BoundAssumption
<1>4. Born = n + 1
  BY <1>1, <1>3, BoundAssumption DEF Born
<1>5. Unborn \ {Born} = ((n + 1) + 1)..MaxProcs
  BY <1>1, <1>2, <1>4, BoundAssumption
<1>6. n + 1 \in 0..MaxProcs /\ Born \in Unborn
  BY <1>1, <1>2, <1>4, BoundAssumption
<1> QED
  BY <1>5, <1>6

(* The map keeps its sessions, and no call closes one or enters one into it. *)
LEMMA MapStays ==
  ASSUME MapOK, CallsOK, Cached' = Cached,
         \A b \in Actors : /\ At(b, "clear") => At(b, "clear")'
                           /\ (b \in Creators)' <=> b \in Creators
                           /\ Closes(b)' <=> Closes(b)
                           /\ b \in Creators \/ Closes(b) => act'[b].id = act[b].id
                           /\ Closes(b) /\ (At(b, "post") \/ At(b, "wait"))' => act'[b] = act[b],
         \A c \in Cached : sessions'[c].id = sessions[c].id,
         excused.leaked \subseteq excused'.leaked, excused.cutoff \subseteq excused'.cutoff,
         \A id : OpenHere(id) => \/ OpenHere(id)' \/ id \in excused'.cutoff
                                 \/ /\ \A c \in Cached : sessions[c].id # id
                                    /\ \A b \in Creators : act[b].id # id,
         \A id : OpenHere(id)' => OpenHere(id) \/ id \in excused'.leaked,
         \A p \in Procs : Alive(p) => \/ Alive(p)' \/ ~Alive(sidecar)'
                                      \/ \A b \in Actors : At(b, "post") \/ At(b, "wait") =>
                                           act[b].port # p
  PROVE  MapOK'
<1>1. \A id : Known(id) => Known(id)'
  <2> SUFFICES ASSUME NEW id, Known(id)
               PROVE  Known(id)'
    OBVIOUS
  <2>1. CASE \E c \in Cached : sessions[c].id = id
    BY <2>1 DEF Known
  <2>2. CASE \E b \in Actors : act[b].id = id /\ (b \in Creators \/ Closes(b))
    <3>1. PICK b \in Actors : act[b].id = id /\ (b \in Creators \/ Closes(b))
      BY <2>2
    <3>2. act'[b].id = id /\ ((b \in Creators)' \/ Closes(b)')
      BY <3>1
    <3> QED
      BY <3>2 DEF Known
  <2>3. CASE id \in excused.leaked
    BY <2>3 DEF Known
  <2> QED
    BY <2>1, <2>2, <2>3 DEF Known
<1>2. \A id : OpenHere(id)' => Known(id)'
  BY <1>1 DEF MapOK, OpenHere, Known
<1>3. (\A c \in Cached : sessions[c].id \in excused.cutoff \/ OpenHere(sessions[c].id)
                           \/ \E a \in Actors : At(a, "clear"))'
  <2> SUFFICES ASSUME NEW c \in Cached
               PROVE  (sessions[c].id \in excused.cutoff \/ OpenHere(sessions[c].id)
                         \/ \E a \in Actors : At(a, "clear"))'
    OBVIOUS
  <2>1. \A id : id = sessions[c].id /\ OpenHere(id) => OpenHere(id)' \/ id \in excused'.cutoff
    OBVIOUS
  <2> QED
    BY <2>1 DEF MapOK, OpenHere
<1>4. (\A a \in Creators : act[a].id \in excused.cutoff \/ OpenHere(act[a].id))'
  <2> SUFFICES ASSUME NEW a \in Actors, (a \in Creators)'
               PROVE  (act[a].id \in excused.cutoff \/ OpenHere(act[a].id))'
    BY DEF Creators
  <2>1. a \in Creators /\ act'[a].id = act[a].id
    OBVIOUS
  <2>2. \A id : id = act[a].id /\ OpenHere(id) => OpenHere(id)' \/ id \in excused'.cutoff
    BY <2>1
  <2> QED
    BY <2>1, <2>2 DEF MapOK, OpenHere
<1>5. (\A a \in Actors : Closes(a) /\ (At(a, "post") \/ At(a, "wait")) /\ ~Alive(act[a].port)
                         /\ OpenHere(act[a].id) => act[a].id \in excused.leaked)'
  <2> SUFFICES ASSUME NEW a \in Actors, (Closes(a) /\ (At(a, "post") \/ At(a, "wait")))',
                      (~Alive(act[a].port))', OpenHere(act[a].id)'
               PROVE  act'[a].id \in excused'.leaked
    OBVIOUS
  <2>1. act'[a] = act[a] /\ Closes(a)
    OBVIOUS
  <2>2. \A id : id = act[a].id /\ OpenHere(id)' => OpenHere(id) \/ id \in excused'.leaked
    OBVIOUS
  <2>3. act[a].port \in Procs /\ ~Alive(act[a].port)' /\ (At(a, "post") \/ At(a, "wait"))
    BY <2>1, ACall DEF CarriesRight
  <2>4. Alive(sidecar)' /\ ~Alive(act[a].port)
    BY <2>3 DEF OpenHere
  <2> QED
    BY <2>1, <2>2, <2>3 DEF MapOK, OpenHere
<1> QED
  BY <1>2, <1>3, <1>4, <1>5 DEF MapOK, OpenHere

LEMMA StandStill ==
  ASSUME act' = act
  PROVE  \A b \in Actors : /\ At(b, "clear") => At(b, "clear")'
                           /\ (b \in Creators)' <=> b \in Creators
                           /\ Closes(b)' <=> Closes(b)
                           /\ act'[b] = act[b]
  BY DEF Creators, Closes

(* A call that has nothing to do with the sidecar. *)
LEMMA SidecarStays ==
  ASSUME IInv, NEW a \in Actors, Turned(a),
         UNCHANGED <<setting, saved, proc, sidecar, lock, loose>>,
         excused.stray \subseteq excused'.stray, excused.raced \subseteq excused'.raced /\ excused'.apart = excused.apart,
         act[a].pc \notin {"reading", "health", "clear", "ending", "kill"},
         act'[a].pc \notin {"reading", "health", "clear", "ending", "post", "wait"},
         act[a].kind # "set", act'[a].kind # "set"
  PROVE  /\ LockOK' /\ NumbersOK' /\ ProcsOK' /\ PortsOK' /\ ServingOK' /\ StartingOK' /\ SavingOK'
         /\ \A id : OpenHere(id)' <=> OpenHere(id)
         /\ \A p : Alive(p)' <=> Alive(p)
<1>1. Unborn' = Unborn /\ \A p : Alive(p)' <=> Alive(p)
  BY DEF Unborn, Alive
<1>2. lock # a /\ (lock # None => lock \in Actors /\ act'[lock] = act[lock])
  BY DEF LockOK, Turned, TypeOK
<1>3. LockOK'
  BY <1>1, <1>2 DEF LockOK, Turned
<1>4. NumbersOK'
  BY <1>1 DEF NumbersOK
<1>5. ProcsOK'
  BY <1>1, <1>2 DEF ProcsOK, Turned
<1>6. PortsOK'
  BY <1>1, PortsStay DEF Turned
<1>7. ServingOK' /\ StartingOK'
  BY <1>1, SettingsStay DEF Turned
<1>8. SavingOK'
  BY DEF SavingOK, SettersOK, SavedOK, Turned
<1> QED
  BY <1>1, <1>3, <1>4, <1>5, <1>6, <1>7, <1>8 DEF OpenHere

(* The steps that change nothing but where a call stands. *)
LEMMA CallKeeps ==
  ASSUME IInv, NEW a \in Actors, Turned(a),
         UNCHANGED <<setting, saved, proc, sidecar, lock, sessions, pending, loose, drawn, granted,
                     excused>>,
         \/ /\ SameWork(a) /\ act[a].pc = "ensure" /\ act'[a].pc = "post"
            /\ act'[a].port = sidecar /\ Alive(sidecar)
         \/ /\ SameWork(a) /\ act[a].pc = "post" /\ act'[a].pc = "wait"
            /\ act'[a].port = act[a].port
         \/ SameWork(a) /\ act[a].pc = "check" /\ act'[a].pc = "ensure"
         \/ /\ Free(a) /\ act[a].pc \in {"rest", "post", "wait", "check", "closing"}
            /\ Closes(a) => ~OpenHere(act[a].id) \/ act[a].id \in excused.leaked
  PROVE  IInv'
<1>1. /\ act[a].pc \in {"rest", "ensure", "post", "wait", "check", "closing"}
      /\ act'[a].pc \in {"ensure", "post", "wait", "done", "closing", "find", "park"}
      /\ act[a].kind # "set" /\ act'[a].kind # "set"
      /\ act[a].took = {} /\ act'[a].took = {}
      /\ act'[a].method \in {"create", "close"} =>
           act'[a].method = act[a].method /\ act'[a].id = act[a].id
  BY ACall, NoneIsNo DEF Free, SameWork, CarriesRight
<1>2. Unborn' = Unborn /\ \A p \in Procs : Alive(p)' <=> Alive(p)
  BY DEF Unborn, Alive
<1>3. lock # a /\ (lock # None => lock \in Actors /\ act'[lock] = act[lock])
  BY <1>1 DEF LockOK, Turned, TypeOK
<1>4. TypeOK'
  BY <1>1, <1>2, <1>3 DEF TypeOK
<1>5. CallsOK'
  BY <1>1, <1>2, <1>3, NoneAssumption DEF CallsOK, Turned
<1>6. LockOK'
  BY <1>1, <1>2, <1>3, NoneAssumption DEF LockOK, Turned, Unborn
<1>7. NumbersOK'
  BY <1>1, <1>2, <1>3 DEF NumbersOK, Unborn
<1>8. ProcsOK'
  BY <1>1, <1>2, <1>3 DEF ProcsOK, LockOK, Turned, Unborn, Alive, SameWork, Free
<1>9. PortsOK'
  BY <1>1, <1>2, <1>3 DEF PortsOK, Turned, Unborn, Alive, SameWork, Free
<1>10. ServingOK'
  BY <1>1, <1>2, <1>3, MissedStays DEF ServingOK, Alive, Turned
<1>11. StartingOK'
  BY <1>1, <1>2, <1>3, MissedStays DEF StartingOK, Turned
<1>12. SavingOK'
  BY <1>1, <1>2, <1>3 DEF SavingOK, SettersOK, SavedOK, Turned, SameWork, Free
<1>13. IdsOK'
  BY <1>1, <1>2, <1>3 DEF IdsOK, Turned, Makes, Closes, Cached, SameWork, Free
<1>14. MapOK'
  BY <1>1, <1>2, <1>3 DEF MapOK, Turned, OpenHere, Known, Creators, Closes, Cached, Alive, SameWork,
     Free
<1>15. ApprovalsOK'
  BY <1>1, <1>2, <1>3 DEF ApprovalsOK, Turned, Carried, Waiting, Cached
<1> QED
  BY <1>4, <1>5, <1>6, <1>7, <1>8, <1>9, <1>10, <1>11, <1>12, <1>13, <1>14, <1>15

(* The start of a sidecar, step by step; the mutex is held. *)
LEMMA StartSidecarKeeps ==
  ASSUME IInv, NEW a \in Actors, StartSidecar(a)
  PROVE  IInv'
<1>1. Turned(a) /\ SameWork(a) /\ act[a].pc = "ensure" /\ act'[a].pc = "reading"
  BY StartSidecarDoes DEF StartSidecar
<1>2. /\ lock = None /\ lock' = a /\ ~Alive(sidecar) /\ sidecar' = None /\ Unborn # {}
      /\ UNCHANGED <<setting, saved, proc, sessions, pending, loose, drawn, granted, excused>>
  BY DEF StartSidecar
<1>3. /\ act[a].kind # "set" /\ act[a].took = {} /\ act'[a].took = {}
      /\ \A k \in Knobs : act'[a].cfg[k] = None
  BY <1>1, ACall DEF SameWork, CarriesRight
<1>4. Unborn' = Unborn /\ \A p \in Procs : Alive(p)' <=> Alive(p)
  BY <1>2 DEF Unborn, Alive
<1>5. \A b \in Actors : act[b].pc \notin {"reading", "health", "clear", "ending"}
  BY <1>2, NoneAssumption DEF LockOK
<1>6. TypeOK'
  BY <1>1, <1>2, <1>3, <1>4, <1>5 DEF TypeOK
<1>7. CallsOK'
  BY <1>1, <1>2, <1>3, <1>4, <1>5, NoneAssumption DEF CallsOK, Turned
<1>8. LockOK'
  BY <1>1, <1>2, <1>3, <1>4, <1>5, NoneAssumption DEF LockOK, Turned, Unborn
<1>9. NumbersOK'
  BY <1>1, <1>2, <1>3, <1>4, <1>5 DEF NumbersOK, Unborn
<1>10. ProcsOK'
  BY <1>1, <1>2, <1>3, <1>4, <1>5 DEF ProcsOK, LockOK, Turned, Unborn, Alive, SameWork
<1>11. PortsOK'
  BY <1>1, <1>2, <1>3, <1>4, <1>5 DEF PortsOK, Turned, Unborn, Alive, SameWork
<1>12. ServingOK'
  BY <1>1, <1>2, <1>3, <1>4, <1>5, MissedStays DEF ServingOK, Alive, Turned
<1>13. StartingOK'
  BY <1>1, <1>2, <1>3, <1>4, <1>5, MissedStays DEF StartingOK, Turned
<1>14. SavingOK'
  BY <1>1, <1>2, <1>3, <1>4, <1>5 DEF SavingOK, SettersOK, SavedOK, Turned, SameWork
<1>15. IdsOK'
  BY <1>1, <1>2, <1>3, <1>4, <1>5 DEF IdsOK, Turned, Makes, Closes, Cached, SameWork
<1>16. MapOK'
  BY <1>1, <1>2, <1>3, <1>4, <1>5 DEF MapOK, Turned, OpenHere, Known, Creators, Closes, Cached,
     Alive, SameWork
<1>17. ApprovalsOK'
  BY <1>1, <1>2, <1>3, <1>4, <1>5 DEF ApprovalsOK, Turned, Carried, Waiting, Cached
<1> QED
  BY <1>6, <1>7, <1>8, <1>9, <1>10, <1>11, <1>12, <1>13, <1>14, <1>15, <1>16, <1>17

LEMMA ReadKnobKeeps ==
  ASSUME IInv, NEW a \in Actors, NEW k \in Knobs, ReadKnob(a, k)
  PROVE  IInv'
<1>1. /\ Turned(a) /\ act[a].pc = "reading" /\ act'[a].pc = "reading"
      /\ act'[a].kind = act[a].kind /\ act'[a].conv = act[a].conv /\ act'[a].id = act[a].id
      /\ act'[a].method = act[a].method /\ act'[a].took = act[a].took
      /\ act'[a].cfg = [act[a].cfg EXCEPT ![k] = setting[k]]
  BY ReadKnobDoes DEF ReadKnob
<1>2. UNCHANGED <<setting, saved, proc, sidecar, lock, sessions, pending, loose, drawn, granted,
                   excused>>
  BY DEF ReadKnob
<1>3. /\ act[a].kind # "set" /\ act[a].took = {} /\ lock = a
      /\ act[a].cfg \in [Knobs -> Values \union {None}]
  BY <1>1, ACall DEF CarriesRight, LockOK, Calls
<1>4. Unborn' = Unborn /\ \A p \in Procs : Alive(p)' <=> Alive(p)
  BY <1>2 DEF Unborn, Alive
<1>5. TypeOK'
  BY <1>1, <1>2, <1>3, <1>4 DEF TypeOK
<1>6. CallsOK'
  BY <1>1, <1>2, <1>3, <1>4, NoneAssumption DEF CallsOK, Turned
<1>7. LockOK'
  BY <1>1, <1>2, <1>3, <1>4, NoneAssumption DEF LockOK, Turned, Unborn
<1>8. NumbersOK'
  BY <1>1, <1>2, <1>3, <1>4 DEF NumbersOK, Unborn
<1>9. ProcsOK'
  BY <1>1, <1>2, <1>3, <1>4 DEF ProcsOK, LockOK, Turned, Unborn, Alive
<1>10. PortsOK'
  BY <1>1, <1>2, <1>3, <1>4 DEF PortsOK, Turned, Unborn, Alive
<1>11. ServingOK'
  BY <1>1, <1>2, <1>3, <1>4, MissedStays DEF ServingOK, Alive, Turned
<1>12. StartingOK'
  BY <1>1, <1>2, <1>3, <1>4, MissedStays DEF StartingOK, Turned, Missed
<1>13. SavingOK'
  BY <1>1, <1>2, <1>3, <1>4 DEF SavingOK, SettersOK, SavedOK, Turned
<1>14. IdsOK'
  BY <1>1, <1>2, <1>3, <1>4 DEF IdsOK, Turned, Makes, Closes, Cached
<1>15. MapOK'
  BY <1>1, <1>2, <1>3, <1>4 DEF MapOK, Turned, OpenHere, Known, Creators, Closes, Cached, Alive
<1>16. ApprovalsOK'
  BY <1>1, <1>2, <1>3, <1>4 DEF ApprovalsOK, Turned, Carried, Waiting, Cached
<1> QED
  BY <1>5, <1>6, <1>7, <1>8, <1>9, <1>10, <1>11, <1>12, <1>13, <1>14, <1>15, <1>16

LEMMA SpawnKeeps ==
  ASSUME IInv, NEW a \in Actors, Spawn(a)
  PROVE  IInv'
<1>1. Born \in Unborn /\ Born \in Procs /\ act[a].pc = "reading"
  BY TheBorn DEF Spawn, LockOK, Unborn
<1>2. /\ Turned(a) /\ act'[a].pc = "health"
      /\ act'[a].kind = act[a].kind /\ act'[a].conv = act[a].conv /\ act'[a].id = act[a].id
      /\ act'[a].method = act[a].method /\ act'[a].took = act[a].took
      /\ act'[a].port = Born /\ \A k \in Knobs : act'[a].cfg[k] = None
  BY <1>1, SpawnDoes
<1>3. /\ proc' = [proc EXCEPT ![Born].state = "up", ![Born].cfg = act[a].cfg]
      /\ \A k \in Knobs : act[a].cfg[k] # None
      /\ UNCHANGED <<setting, saved, sidecar, lock, sessions, pending, loose, drawn, granted, excused>>
  BY DEF Spawn, Born
<1>4. /\ act[a].kind # "set" /\ act[a].took = {} /\ lock = a /\ sidecar = None
      /\ act[a].cfg \in [Knobs -> Values \union {None}] 
  BY <1>1, ACall, NoneAssumption DEF CarriesRight, LockOK, Calls
<1>5. /\ Unborn' = Unborn \ {Born} /\ proc'[Born].state = "up" /\ proc'[Born].cfg = act[a].cfg
      /\ proc'[Born].open = {}
      /\ \A p \in Procs \ {Born} : proc'[p] = proc[p]
  BY <1>1, <1>3, <1>4 DEF Unborn, TypeOK, ProcsOK, Alive
<1>6. /\ \A p \in Procs \ {Born} : Alive(p)' <=> Alive(p)
      /\ \A b \in Actors \ {a} : act[b].pc \notin {"reading", "health", "clear", "ending"}
  BY <1>4, <1>5 DEF Alive, LockOK
<1>7. \E n \in 0..MaxProcs : Unborn \ {Born} = (n + 1)..MaxProcs
  BY <1>1, TheBorn
<1>8. \A b \in Actors : act[b].pc \in {"post", "wait"} => act[b].port \in Procs
  BY ACall DEF CarriesRight
<1>9. TypeOK'
  BY <1>1, <1>2, <1>3, <1>4, <1>5, <1>6, <1>7, <1>8 DEF TypeOK
<1>10. CallsOK'
  BY <1>1, <1>2, <1>3, <1>4, <1>5, <1>6, <1>7, <1>8, NoneAssumption DEF CallsOK, Turned
<1>11. LockOK'
  BY <1>1, <1>2, <1>3, <1>4, <1>5, <1>6, <1>7, <1>8, NoneAssumption DEF LockOK, Turned, Unborn
<1>12. NumbersOK'
  BY <1>5, <1>7 DEF NumbersOK
<1>13. ProcsOK'
  <2>1. \A p \in Procs : p # sidecar' \/ ~Alive(p)' => proc'[p].open = {}
    BY <1>3, <1>4, <1>5, <1>6 DEF ProcsOK, Alive
  <2>2. \A p \in Procs : Alive(p)' => p = Born \/ p \in excused.stray
    BY <1>4, <1>6, <1>1, NoneAssumption DEF ProcsOK
  <2>3. lock' = a /\ a # None /\ act'[a].pc = "health" /\ act'[a].port = Born
    BY <1>2, <1>3, <1>4, NoneAssumption
  <2>4. \A p \in Procs : Alive(p)' =>
          \/ p = sidecar' \/ p \in excused'.stray
          \/ lock' # None /\ act'[lock'].pc = "health" /\ act'[lock'].port = p
    BY <1>3, <2>2, <2>3
  <2>5. \A b \in Actors : act'[b].pc = "health" => act'[b].port \notin Unborn'
    BY <1>2, <1>5, <1>6 DEF Turned
  <2> QED
    BY <1>3, <1>4, <2>1, <2>4, <2>5 DEF ProcsOK
<1>14. PortsOK'
  <2>1. \A p \in Procs \ Unborn : p \notin Unborn' /\ (Alive(p)' <=> Alive(p))
    BY <1>1, <1>5, <1>6
  <2>2. \A b \in Actors : act'[b].pc \in {"post", "wait"} => b # a
    BY <1>2
  <2>3. \A r \in loose : r.port \in Procs
    BY DEF TypeOK
  <2> QED
    BY <1>2, <1>3, <1>8, <2>1, <2>2, <2>3 DEF PortsOK, Turned
<1>15. ServingOK'
  BY <1>1, <1>2, <1>3, <1>4, <1>5, <1>6, <1>7, <1>8, MissedStays DEF ServingOK, Alive, Turned
<1>16. StartingOK'
  <2> SUFFICES ASSUME NEW b \in Actors, NEW k \in Knobs, At(b, "health")'
               PROVE  Missed(proc[act[b].port].cfg[k], k)'
    BY <1>2, <1>6 DEF StartingOK, Turned
  <2>1. b = a /\ Missed(act[a].cfg[k], k)
    BY <1>1, <1>2, <1>3, <1>6 DEF StartingOK, Turned
  <2>2. \A v : v = act[a].cfg[k] => Missed(v, k)'
    BY <1>1, <1>2, <1>3, <2>1, MissedStays DEF Turned
  <2>3. proc'[act'[b].port].cfg[k] = act[a].cfg[k]
    BY <1>2, <1>5, <2>1
  <2> QED
    BY <2>2, <2>3 DEF Missed
<1>17. SavingOK'
  BY <1>1, <1>2, <1>3, <1>4, <1>5, <1>6, <1>7, <1>8 DEF SavingOK, SettersOK, SavedOK, Turned
<1>18. IdsOK'
  BY <1>1, <1>2, <1>3, <1>4, <1>5, <1>6, <1>7, <1>8 DEF IdsOK, Turned, Makes, Closes, Cached
<1>19. MapOK'
  BY <1>1, <1>2, <1>3, <1>4, <1>5, <1>6, <1>7, <1>8 DEF MapOK, Turned, OpenHere, Known, Creators,
     Closes, Cached, Alive
<1>20. ApprovalsOK'
  BY <1>1, <1>2, <1>3, <1>4, <1>5, <1>6, <1>7, <1>8 DEF ApprovalsOK, Turned, Carried, Waiting,
     Cached
<1> QED
  BY <1>9, <1>10, <1>11, <1>12, <1>13, <1>14, <1>15, <1>16, <1>17, <1>18, <1>19, <1>20

LEMMA SpawnFailsKeeps ==
  ASSUME IInv, NEW a \in Actors, SpawnFails(a)
  PROVE  IInv'
<1>1. Turned(a) /\ Free(a) /\ act[a].pc = "reading"
  BY FailedFrees DEF SpawnFails, Calling
<1>2. /\ lock' = None
      /\ UNCHANGED <<setting, saved, proc, sidecar, sessions, pending, loose, drawn, granted, excused>>
  BY DEF SpawnFails
<1>3. /\ lock = a /\ sidecar = None /\ act[a].kind # "set" /\ act[a].took = {}
      /\ \A b \in Actors \ {a} : act[b].pc \notin {"reading", "health", "clear", "ending"}
  BY <1>1, ACall, NoneAssumption DEF LockOK, CarriesRight
<1>4. Unborn' = Unborn /\ \A p \in Procs : Alive(p)' <=> Alive(p)
  BY <1>2 DEF Unborn, Alive
<1>5. /\ act'[a].pc \notin Calling \union {"insert", "pend", "clear", "ending", "kill"}
      /\ act'[a].method \notin {"create", "close"} /\ act'[a].kind # "set"
  BY <1>1, NoneIsNo DEF Free, Calling
<1>6. TypeOK'
  BY <1>1, <1>2, <1>3, <1>4, <1>5 DEF TypeOK, Calling
<1>7. CallsOK'
  BY <1>1, <1>2, <1>3, <1>4, <1>5, NoneAssumption DEF CallsOK, Turned, Calling
<1>8. LockOK'
  BY <1>1, <1>2, <1>3, <1>4, <1>5, NoneAssumption DEF LockOK, Turned, Unborn, Calling
<1>9. NumbersOK'
  BY <1>1, <1>2, <1>3, <1>4, <1>5 DEF NumbersOK, Unborn, Calling
<1>10. ProcsOK'
  BY <1>1, <1>2, <1>3, <1>4, <1>5 DEF ProcsOK, LockOK, Turned, Unborn, Alive, Calling
<1>11. PortsOK'
  BY <1>1, <1>2, <1>3, <1>4, <1>5 DEF PortsOK, Turned, Unborn, Alive, Calling
<1>12. ServingOK'
  BY <1>1, <1>2, <1>3, <1>4, <1>5, MissedStays DEF ServingOK, Alive, Turned, Calling
<1>13. StartingOK'
  BY <1>1, <1>2, <1>3, <1>4, <1>5, MissedStays DEF StartingOK, Turned, Calling
<1>14. SavingOK'
  BY <1>1, <1>2, <1>3, <1>4, <1>5 DEF SavingOK, SettersOK, SavedOK, Turned, Calling
<1>15. IdsOK'
  BY <1>1, <1>2, <1>3, <1>4, <1>5 DEF IdsOK, Turned, Makes, Closes, Cached, Calling
<1>16. MapOK'
  BY <1>1, <1>2, <1>3, <1>4, <1>5 DEF MapOK, Turned, OpenHere, Known, Creators, Closes, Cached,
     Alive, Calling
<1>17. ApprovalsOK'
  BY <1>1, <1>2, <1>3, <1>4, <1>5 DEF ApprovalsOK, Turned, Carried, Waiting, Cached, Calling
<1> QED
  BY <1>6, <1>7, <1>8, <1>9, <1>10, <1>11, <1>12, <1>13, <1>14, <1>15, <1>16, <1>17

LEMMA HealthyKeeps ==
  ASSUME IInv, NEW a \in Actors, Healthy(a)
  PROVE  IInv'
<1>1. /\ Turned(a) /\ SameWork(a) /\ act[a].pc = "health" /\ act'[a].pc = "post"
      /\ act'[a].port = act[a].port
  BY HealthyDoes DEF Healthy
<1>2. /\ lock' = None /\ sidecar' = act[a].port /\ Alive(act[a].port)
      /\ UNCHANGED <<setting, saved, proc, sessions, pending, loose, drawn, granted, excused>>
  BY DEF Healthy
<1>3. /\ lock = a /\ sidecar = None /\ act[a].kind # "set" /\ act[a].took = {}
      /\ \A b \in Actors \ {a} : act[b].pc \notin {"reading", "health", "clear", "ending"}
  BY <1>1, ACall, NoneAssumption DEF LockOK, CarriesRight
<1>4. Unborn' = Unborn /\ \A p \in Procs : Alive(p)' <=> Alive(p)
  BY <1>2 DEF Unborn, Alive
<1>5. /\ act[a].port \in Procs \ Unborn /\ proc[act[a].port].open = {}
      /\ act'[a].took = {} /\ act'[a].kind # "set"
  BY <1>1, <1>2, <1>3, ACall, NoneAssumption DEF CarriesRight, SameWork, ProcsOK
<1>6. TypeOK'
  BY <1>1, <1>2, <1>3, <1>4, <1>5 DEF TypeOK
<1>7. CallsOK'
  BY <1>1, <1>2, <1>3, <1>4, <1>5, NoneAssumption DEF CallsOK, Turned
<1>8. LockOK'
  BY <1>1, <1>2, <1>3, <1>4, <1>5, NoneAssumption DEF LockOK, Turned, Unborn
<1>9. NumbersOK'
  BY <1>1, <1>2, <1>3, <1>4, <1>5 DEF NumbersOK, Unborn
<1>10. ProcsOK'
  BY <1>1, <1>2, <1>3, <1>4, <1>5 DEF ProcsOK, LockOK, Turned, Unborn, Alive, SameWork
<1>11. PortsOK'
  BY <1>1, <1>2, <1>3, <1>4, <1>5 DEF PortsOK, Turned, Unborn, Alive, SameWork
<1>12. ServingOK'
  <2>1. \A k \in Knobs : \A v : v = proc[act[a].port].cfg[k] => Missed(v, k)'
    BY <1>1, <1>2, MissedStays DEF StartingOK, Turned
  <2> QED
    BY <1>2, <2>1 DEF ServingOK, Missed
<1>13. StartingOK'
  BY <1>1, <1>2, <1>3, <1>4, <1>5, MissedStays DEF StartingOK, Turned
<1>14. SavingOK'
  BY <1>1, <1>2, <1>3, <1>4, <1>5 DEF SavingOK, SettersOK, SavedOK, Turned, SameWork
<1>15. IdsOK'
  BY <1>1, <1>2, <1>3, <1>4, <1>5 DEF IdsOK, Turned, Makes, Closes, Cached, SameWork
<1>16. MapOK'
  BY <1>1, <1>2, <1>3, <1>4, <1>5 DEF MapOK, Turned, OpenHere, Known, Creators, Closes, Cached,
     Alive, SameWork
<1>17. ApprovalsOK'
  BY <1>1, <1>2, <1>3, <1>4, <1>5 DEF ApprovalsOK, Turned, Carried, Waiting, Cached
<1> QED
  BY <1>6, <1>7, <1>8, <1>9, <1>10, <1>11, <1>12, <1>13, <1>14, <1>15, <1>16, <1>17

LEMMA NeverHealthyKeeps ==
  ASSUME IInv, NEW a \in Actors, NeverHealthy(a)
  PROVE  IInv'
<1>1. Turned(a) /\ Free(a) /\ act[a].pc = "health" /\ act[a].port \in Procs
  BY FailedFrees, ACall DEF NeverHealthy, Calling, CarriesRight
<1>2. /\ lock' = None
      /\ UNCHANGED <<setting, saved, proc, sidecar, sessions, pending, loose, drawn, granted>>
  BY DEF NeverHealthy
<1>3. /\ lock = a /\ sidecar = None /\ act[a].kind # "set" /\ act[a].took = {}
      /\ \A b \in Actors \ {a} : act[b].pc \notin {"reading", "health", "clear", "ending"}
  BY <1>1, ACall, NoneAssumption DEF LockOK, CarriesRight
<1>4. Unborn' = Unborn /\ \A p \in Procs : Alive(p)' <=> Alive(p)
  BY <1>2 DEF Unborn, Alive
<1>5. /\ act'[a].pc \notin Calling \union {"insert", "pend", "clear", "ending", "kill"}
      /\ act'[a].method \notin {"create", "close"} /\ act'[a].kind # "set"
  BY <1>1, NoneIsNo DEF Free, Calling
<1>6. /\ excused' \in Excuses /\ excused'.stray = excused.stray \union {act[a].port}
      /\ excused'.leaked = excused.leaked /\ excused'.cutoff = excused.cutoff
      /\ excused'.raced = excused.raced /\ excused'.apart = excused.apart
  BY <1>1 DEF NeverHealthy, Excuse, TypeOK, Excuses
<1>7. TypeOK'
  BY <1>1, <1>2, <1>3, <1>4, <1>5, <1>6 DEF TypeOK, Calling
<1>8. CallsOK'
  BY <1>1, <1>2, <1>3, <1>4, <1>5, <1>6, NoneAssumption DEF CallsOK, Turned, Calling
<1>9. LockOK'
  BY <1>1, <1>2, <1>3, <1>4, <1>5, <1>6, NoneAssumption DEF LockOK, Turned, Unborn, Calling
<1>10. NumbersOK'
  BY <1>1, <1>2, <1>3, <1>4, <1>5, <1>6 DEF NumbersOK, Unborn, Calling
<1>11. ProcsOK'
  BY <1>1, <1>2, <1>3, <1>4, <1>5, <1>6 DEF ProcsOK, LockOK, Turned, Unborn, Alive, Calling
<1>12. PortsOK'
  BY <1>1, <1>2, <1>3, <1>4, <1>5, <1>6 DEF PortsOK, Turned, Unborn, Alive, Calling
<1>13. ServingOK'
  BY <1>1, <1>2, <1>3, <1>4, <1>5, <1>6, MissedStays DEF ServingOK, Alive, Turned, Calling
<1>14. StartingOK'
  BY <1>1, <1>2, <1>3, <1>4, <1>5, <1>6, MissedStays DEF StartingOK, Turned, Calling
<1>15. SavingOK'
  BY <1>1, <1>2, <1>3, <1>4, <1>5, <1>6 DEF SavingOK, SettersOK, SavedOK, Turned, Calling
<1>16. IdsOK'
  BY <1>1, <1>2, <1>3, <1>4, <1>5, <1>6 DEF IdsOK, Turned, Makes, Closes, Cached, Calling
<1>17. MapOK'
  BY <1>1, <1>2, <1>3, <1>4, <1>5, <1>6 DEF MapOK, Turned, OpenHere, Known, Creators, Closes,
     Cached, Alive, Calling
<1>18. ApprovalsOK'
  BY <1>1, <1>2, <1>3, <1>4, <1>5, <1>6 DEF ApprovalsOK, Turned, Carried, Waiting, Cached, Calling
<1> QED
  BY <1>7, <1>8, <1>9, <1>10, <1>11, <1>12, <1>13, <1>14, <1>15, <1>16, <1>17, <1>18

LEMMA ServeCreateKeeps ==
  ASSUME IInv, NEW a \in Actors, Serve(a), act[a].method = "create"
  PROVE  IInv'
<1>1. Turned(a) /\ SameWork(a) /\ act[a].pc = "wait" /\ act'[a].pc = "pend"
  BY ServeDoes DEF Serve
<1>2. /\ act[a].port \in Procs /\ act[a].port = sidecar /\ Alive(sidecar) /\ act[a].id \in Ids
      /\ act[a].kind # "set" /\ act[a].took = {}
  BY <1>1, ACall, NoneIsNo DEF Serve, PortsOK, CarriesRight
<1>3. UNCHANGED <<setting, saved, sidecar, lock, sessions, pending, loose, drawn, granted, excused>>
  BY DEF Serve
<1>4. /\ proc' \in [Procs -> Processes]
      /\ \A q \in Procs : proc'[q].state = proc[q].state /\ proc'[q].cfg = proc[q].cfg
      /\ \A q \in Procs \ {sidecar} : proc'[q].open = proc[q].open
      /\ proc'[sidecar].open = proc[sidecar].open \union {act[a].id}
      /\ Unborn' = Unborn /\ \A q \in Procs : Alive(q)' <=> Alive(q)
  BY <1>2, HandledDoes DEF Serve
<1>5. /\ lock # a /\ (lock # None => lock \in Actors /\ act'[lock] = act[lock])
  BY <1>1 DEF LockOK, Turned, TypeOK
<1>6. /\ act'[a].pc \notin Calling \union {"insert", "clear", "ending", "kill"} /\ act'[a].took = {}
      /\ act'[a].kind # "set"
  BY <1>1, <1>2, NoneIsNo DEF Free, SameWork, Calling
<1>7. \A b \in Actors : act[b].pc \in {"post", "wait"} => act[b].port \in Procs
  BY ACall DEF CarriesRight
<1>8. Alive(sidecar)'
  BY <1>2, <1>3, <1>4 DEF Alive
<1>9. \A b \in Actors : Closes(b) => act[b].id # act[a].id
  BY ACall DEF IdsOK, Makes, Closes, Creators, CarriesRight
<1>10. TypeOK'
  BY <1>1, <1>2, <1>3, <1>4, <1>5, <1>6, <1>7, <1>8, <1>9 DEF TypeOK, Processes
<1>11. CallsOK'
  BY <1>1, <1>2, <1>3, <1>4, <1>5, <1>6, <1>7, <1>8, <1>9, NoneAssumption DEF CallsOK, Turned
<1>12. LockOK'
  BY <1>1, <1>2, <1>3, <1>4, <1>5, <1>6, <1>7, <1>8, <1>9, NoneAssumption DEF LockOK, Turned,
     Unborn, Calling
<1>13. NumbersOK'
  BY <1>1, <1>2, <1>3, <1>4, <1>5, <1>6, <1>7, <1>8, <1>9 DEF NumbersOK, Unborn
<1>14. ProcsOK'
  BY <1>1, <1>2, <1>3, <1>4, <1>5, <1>6, <1>7, <1>8, <1>9 DEF ProcsOK, LockOK, Turned, Unborn,
     Alive, Calling
<1>15. PortsOK'
  BY <1>1, <1>2, <1>3, <1>4, <1>5, <1>6, <1>7, <1>8, <1>9, PortsStay DEF Calling, Turned
<1>16. ServingOK'
  BY <1>1, <1>2, <1>3, <1>4, <1>5, <1>6, <1>7, <1>8, <1>9, SettingsStay DEF Calling, Turned
<1>17. StartingOK'
  BY <1>1, <1>2, <1>3, <1>4, <1>5, <1>6, <1>7, <1>8, <1>9, SettingsStay DEF Calling, Turned
<1>18. SavingOK'
  BY <1>1, <1>2, <1>3, <1>4, <1>5, <1>6, <1>7, <1>8, <1>9 DEF SavingOK, SettersOK, SavedOK, Turned, SameWork, Free
<1>19. IdsOK'
  BY <1>1, <1>2, <1>3, <1>4, <1>5, <1>6, <1>7, <1>8, <1>9 DEF IdsOK, Turned, Makes, Closes, Cached,
     SameWork, Free
<1>20. MapOK'
  <2>1. (\A c \in Cached :
           sessions[c].id \in excused.cutoff \/ OpenHere(sessions[c].id) \/ \E b \in Actors : At(b, "clear"))'
    BY <1>1, <1>2, <1>3, <1>4, <1>5, <1>6, <1>7, <1>8, <1>9 DEF MapOK, Turned, OpenHere, Known,
       Creators, Closes, Cached, SameWork, Free
  <2>2. (\A b \in Creators : act[b].id \in excused.cutoff \/ OpenHere(act[b].id))'
    BY <1>1, <1>2, <1>3, <1>4, <1>5, <1>6, <1>7, <1>8, <1>9 DEF MapOK, Turned, OpenHere, Known,
       Creators, Closes, Cached, SameWork, Free
  <2>3. (Alive(sidecar) => \A id \in proc[sidecar].open : Known(id))'
    BY <1>1, <1>2, <1>3, <1>4, <1>5, <1>6, <1>7, <1>8, <1>9 DEF MapOK, Turned, OpenHere, Known,
       Creators, Closes, Cached, SameWork, Free
  <2>4. (\A b \in Actors : Closes(b) /\ (At(b, "post") \/ At(b, "wait")) /\ ~Alive(act[b].port)
                               /\ OpenHere(act[b].id) => act[b].id \in excused.leaked)'
    BY <1>1, <1>2, <1>3, <1>4, <1>5, <1>6, <1>7, <1>8, <1>9 DEF MapOK, Turned, OpenHere, Known,
       Creators, Closes, Cached, SameWork, Free
  <2> QED
    BY <2>1, <2>2, <2>3, <2>4 DEF MapOK
<1>21. ApprovalsOK'
  BY <1>1, <1>2, <1>3, <1>4, <1>5, <1>6, <1>7, <1>8, <1>9 DEF ApprovalsOK, Turned, Carried, Waiting,
     Cached
<1> QED
  BY <1>10, <1>11, <1>12, <1>13, <1>14, <1>15, <1>16, <1>17, <1>18, <1>19, <1>20, <1>21

LEMMA ServeDoKeeps ==
  ASSUME IInv, NEW a \in Actors, Serve(a), act[a].method = "do"
  PROVE  IInv'
<1>1. Turned(a) /\ SameWork(a) /\ act[a].pc = "wait" /\ act'[a].pc = "update"
  BY ServeDoes DEF Serve
<1>2. /\ act[a].port \in Procs /\ act[a].port = sidecar /\ Alive(sidecar) /\ act[a].id \in Ids
      /\ act[a].kind # "set" /\ act[a].took = {}
  BY <1>1, ACall, NoneIsNo DEF Serve, PortsOK, CarriesRight
<1>3. UNCHANGED <<setting, saved, sidecar, lock, sessions, pending, loose, drawn, granted, excused>>
  BY DEF Serve
<1>4. /\ proc' \in [Procs -> Processes]
      /\ \A q \in Procs : proc'[q].state = proc[q].state /\ proc'[q].cfg = proc[q].cfg
      /\ \A q \in Procs \ {sidecar} : proc'[q].open = proc[q].open
      /\ proc'[sidecar].open = proc[sidecar].open
      /\ Unborn' = Unborn /\ \A q \in Procs : Alive(q)' <=> Alive(q)
  BY <1>2, HandledDoes DEF Serve
<1>5. /\ lock # a /\ (lock # None => lock \in Actors /\ act'[lock] = act[lock])
  BY <1>1 DEF LockOK, Turned, TypeOK
<1>6. /\ act'[a].pc \notin Calling \union {"insert", "clear", "ending", "kill"} /\ act'[a].took = {}
      /\ act'[a].kind # "set"
  BY <1>1, <1>2, NoneIsNo DEF Free, SameWork, Calling
<1>7. \A b \in Actors : act[b].pc \in {"post", "wait"} => act[b].port \in Procs
  BY ACall DEF CarriesRight
<1>8. Alive(sidecar)'
  BY <1>2, <1>3, <1>4 DEF Alive
<1>9. TypeOK'
  BY <1>1, <1>2, <1>3, <1>4, <1>5, <1>6, <1>7, <1>8 DEF TypeOK, Processes
<1>10. CallsOK'
  BY <1>1, <1>2, <1>3, <1>4, <1>5, <1>6, <1>7, <1>8, NoneAssumption DEF CallsOK, Turned
<1>11. LockOK'
  BY <1>1, <1>2, <1>3, <1>4, <1>5, <1>6, <1>7, <1>8, NoneAssumption DEF LockOK, Turned, Unborn,
     Calling
<1>12. NumbersOK'
  BY <1>1, <1>2, <1>3, <1>4, <1>5, <1>6, <1>7, <1>8 DEF NumbersOK, Unborn
<1>13. ProcsOK'
  BY <1>1, <1>2, <1>3, <1>4, <1>5, <1>6, <1>7, <1>8 DEF ProcsOK, LockOK, Turned, Unborn, Alive,
     Calling
<1>14. PortsOK'
  BY <1>1, <1>2, <1>3, <1>4, <1>5, <1>6, <1>7, <1>8, PortsStay DEF Calling, Turned
<1>15. ServingOK'
  BY <1>1, <1>2, <1>3, <1>4, <1>5, <1>6, <1>7, <1>8, SettingsStay DEF Calling, Turned
<1>16. StartingOK'
  BY <1>1, <1>2, <1>3, <1>4, <1>5, <1>6, <1>7, <1>8, SettingsStay DEF Calling, Turned
<1>17. SavingOK'
  BY <1>1, <1>2, <1>3, <1>4, <1>5, <1>6, <1>7, <1>8 DEF SavingOK, SettersOK, SavedOK, Turned, SameWork, Free
<1>18. IdsOK'
  BY <1>1, <1>2, <1>3, <1>4, <1>5, <1>6, <1>7, <1>8 DEF IdsOK, Turned, Makes, Closes, Cached,
     SameWork, Free
<1>19. MapOK'
  <2>1. (\A c \in Cached :
           sessions[c].id \in excused.cutoff \/ OpenHere(sessions[c].id) \/ \E b \in Actors : At(b, "clear"))'
    BY <1>1, <1>2, <1>3, <1>4, <1>5, <1>6, <1>7, <1>8 DEF MapOK, Turned, OpenHere, Known, Creators,
       Closes, Cached, SameWork, Free
  <2>2. (\A b \in Creators : act[b].id \in excused.cutoff \/ OpenHere(act[b].id))'
    BY <1>1, <1>2, <1>3, <1>4, <1>5, <1>6, <1>7, <1>8 DEF MapOK, Turned, OpenHere, Known, Creators,
       Closes, Cached, SameWork, Free
  <2>3. (Alive(sidecar) => \A id \in proc[sidecar].open : Known(id))'
    BY <1>1, <1>2, <1>3, <1>4, <1>5, <1>6, <1>7, <1>8 DEF MapOK, Turned, OpenHere, Known, Creators,
       Closes, Cached, SameWork, Free
  <2>4. (\A b \in Actors : Closes(b) /\ (At(b, "post") \/ At(b, "wait")) /\ ~Alive(act[b].port)
                               /\ OpenHere(act[b].id) => act[b].id \in excused.leaked)'
    BY <1>1, <1>2, <1>3, <1>4, <1>5, <1>6, <1>7, <1>8 DEF MapOK, Turned, OpenHere, Known, Creators,
       Closes, Cached, SameWork, Free
  <2> QED
    BY <2>1, <2>2, <2>3, <2>4 DEF MapOK
<1>20. ApprovalsOK'
  BY <1>1, <1>2, <1>3, <1>4, <1>5, <1>6, <1>7, <1>8 DEF ApprovalsOK, Turned, Carried, Waiting,
     Cached
<1> QED
  BY <1>9, <1>10, <1>11, <1>12, <1>13, <1>14, <1>15, <1>16, <1>17, <1>18, <1>19, <1>20

LEMMA ServeCloseKeeps ==
  ASSUME IInv, NEW a \in Actors, Serve(a), act[a].method = "close"
  PROVE  IInv'
<1>1. Turned(a) /\ Free(a) /\ act[a].pc = "wait"
  BY ServeDoes DEF Serve
<1>2. /\ act[a].port \in Procs /\ act[a].port = sidecar /\ Alive(sidecar) /\ act[a].id \in Ids
      /\ act[a].kind # "set" /\ act[a].took = {}
  BY <1>1, ACall, NoneIsNo DEF Serve, PortsOK, CarriesRight
<1>3. UNCHANGED <<setting, saved, sidecar, lock, sessions, pending, loose, drawn, granted, excused>>
  BY DEF Serve
<1>4. /\ proc' \in [Procs -> Processes]
      /\ \A q \in Procs : proc'[q].state = proc[q].state /\ proc'[q].cfg = proc[q].cfg
      /\ \A q \in Procs \ {sidecar} : proc'[q].open = proc[q].open
      /\ proc'[sidecar].open = proc[sidecar].open \ {act[a].id}
      /\ Unborn' = Unborn /\ \A q \in Procs : Alive(q)' <=> Alive(q)
  BY <1>2, HandledDoes DEF Serve
<1>5. /\ lock # a /\ (lock # None => lock \in Actors /\ act'[lock] = act[lock])
  BY <1>1 DEF LockOK, Turned, TypeOK
<1>6. /\ act'[a].pc \notin Calling \union {"insert", "clear", "ending", "kill"} /\ act'[a].took = {}
      /\ act'[a].kind # "set" /\ act'[a].method \notin {"create", "close"}
  BY <1>1, <1>2, NoneIsNo DEF Free, SameWork, Calling
<1>7. \A b \in Actors : act[b].pc \in {"post", "wait"} => act[b].port \in Procs
  BY ACall DEF CarriesRight
<1>8. Alive(sidecar)'
  BY <1>2, <1>3, <1>4 DEF Alive
<1>9. /\ \A c \in Cached : sessions[c].id # act[a].id
      /\ \A b \in Creators : act[b].id # act[a].id
  BY ACall DEF IdsOK, Makes, Closes, Creators, CarriesRight
<1>10. TypeOK'
  BY <1>1, <1>2, <1>3, <1>4, <1>5, <1>6, <1>7, <1>8, <1>9 DEF TypeOK, Processes
<1>11. CallsOK'
  BY <1>1, <1>2, <1>3, <1>4, <1>5, <1>6, <1>7, <1>8, <1>9, NoneAssumption DEF CallsOK, Turned
<1>12. LockOK'
  BY <1>1, <1>2, <1>3, <1>4, <1>5, <1>6, <1>7, <1>8, <1>9, NoneAssumption DEF LockOK, Turned,
     Unborn, Calling
<1>13. NumbersOK'
  BY <1>1, <1>2, <1>3, <1>4, <1>5, <1>6, <1>7, <1>8, <1>9 DEF NumbersOK, Unborn
<1>14. ProcsOK'
  BY <1>1, <1>2, <1>3, <1>4, <1>5, <1>6, <1>7, <1>8, <1>9 DEF ProcsOK, LockOK, Turned, Unborn,
     Alive, Calling
<1>15. PortsOK'
  BY <1>1, <1>2, <1>3, <1>4, <1>5, <1>6, <1>7, <1>8, <1>9, PortsStay DEF Calling, Turned
<1>16. ServingOK'
  BY <1>1, <1>2, <1>3, <1>4, <1>5, <1>6, <1>7, <1>8, <1>9, SettingsStay DEF Calling, Turned
<1>17. StartingOK'
  BY <1>1, <1>2, <1>3, <1>4, <1>5, <1>6, <1>7, <1>8, <1>9, SettingsStay DEF Calling, Turned
<1>18. SavingOK'
  BY <1>1, <1>2, <1>3, <1>4, <1>5, <1>6, <1>7, <1>8, <1>9 DEF SavingOK, SettersOK, SavedOK, Turned, SameWork, Free
<1>19. IdsOK'
  BY <1>1, <1>2, <1>3, <1>4, <1>5, <1>6, <1>7, <1>8, <1>9 DEF IdsOK, Turned, Makes, Closes, Cached,
     SameWork, Free
<1>20. MapOK'
  <2>1. (\A c \in Cached :
           sessions[c].id \in excused.cutoff \/ OpenHere(sessions[c].id) \/ \E b \in Actors : At(b, "clear"))'
    BY <1>1, <1>2, <1>3, <1>4, <1>5, <1>6, <1>7, <1>8, <1>9 DEF MapOK, Turned, OpenHere, Known,
       Creators, Closes, Cached, SameWork, Free
  <2>2. (\A b \in Creators : act[b].id \in excused.cutoff \/ OpenHere(act[b].id))'
    BY <1>1, <1>2, <1>3, <1>4, <1>5, <1>6, <1>7, <1>8, <1>9 DEF MapOK, Turned, OpenHere, Known,
       Creators, Closes, Cached, SameWork, Free
  <2>3. (Alive(sidecar) => \A id \in proc[sidecar].open : Known(id))'
    BY <1>1, <1>2, <1>3, <1>4, <1>5, <1>6, <1>7, <1>8, <1>9 DEF MapOK, Turned, OpenHere, Known,
       Creators, Closes, Cached, SameWork, Free
  <2>4. (\A b \in Actors : Closes(b) /\ (At(b, "post") \/ At(b, "wait")) /\ ~Alive(act[b].port)
                               /\ OpenHere(act[b].id) => act[b].id \in excused.leaked)'
    BY <1>1, <1>2, <1>3, <1>4, <1>5, <1>6, <1>7, <1>8, <1>9 DEF MapOK, Turned, OpenHere, Known,
       Creators, Closes, Cached, SameWork, Free
  <2> QED
    BY <2>1, <2>2, <2>3, <2>4 DEF MapOK
<1>21. ApprovalsOK'
  BY <1>1, <1>2, <1>3, <1>4, <1>5, <1>6, <1>7, <1>8, <1>9 DEF ApprovalsOK, Turned, Carried, Waiting,
     Cached
<1> QED
  BY <1>10, <1>11, <1>12, <1>13, <1>14, <1>15, <1>16, <1>17, <1>18, <1>19, <1>20, <1>21

LEMMA CreateHalfDoneKeeps ==
  ASSUME IInv, NEW a \in Actors, CreateHalfDone(a)
  PROVE  IInv'
<1>1. Turned(a) /\ Free(a) /\ act[a].pc = "wait" /\ act[a].method = "create"
  BY FailedFrees DEF CreateHalfDone, Calling
<1>2. /\ act[a].port \in Procs /\ act[a].port = sidecar /\ Alive(sidecar) /\ act[a].id \in Ids
      /\ act[a].kind # "set" /\ act[a].took = {}
  BY <1>1, ACall, NoneIsNo DEF CreateHalfDone, PortsOK, CarriesRight
<1>3. UNCHANGED <<setting, saved, sidecar, lock, sessions, pending, loose, drawn, granted>>
  BY DEF CreateHalfDone
<1>4. /\ proc' \in [Procs -> Processes]
      /\ \A q \in Procs : proc'[q].state = proc[q].state /\ proc'[q].cfg = proc[q].cfg
      /\ \A q \in Procs \ {sidecar} : proc'[q].open = proc[q].open
      /\ proc'[sidecar].open = proc[sidecar].open \union {act[a].id}
      /\ Unborn' = Unborn /\ \A q \in Procs : Alive(q)' <=> Alive(q)
  BY <1>2, HandledDoes DEF CreateHalfDone
<1>5. /\ lock # a /\ (lock # None => lock \in Actors /\ act'[lock] = act[lock])
  BY <1>1 DEF LockOK, Turned, TypeOK
<1>6. /\ act'[a].pc \notin Calling \union {"insert", "clear", "ending", "kill"} /\ act'[a].took = {}
      /\ act'[a].kind # "set" /\ act'[a].method \notin {"create", "close"}
  BY <1>1, <1>2, NoneIsNo DEF Free, SameWork, Calling
<1>7. \A b \in Actors : act[b].pc \in {"post", "wait"} => act[b].port \in Procs
  BY ACall DEF CarriesRight
<1>8. Alive(sidecar)'
  BY <1>2, <1>3, <1>4 DEF Alive
<1>9. \A b \in Actors : Closes(b) => act[b].id # act[a].id
  BY <1>1 DEF IdsOK, Makes, Closes
<1>10. /\ excused' \in Excuses /\ excused'.leaked = excused.leaked \union {act[a].id}
       /\ excused'.stray = excused.stray /\ excused'.cutoff = excused.cutoff
       /\ excused'.raced = excused.raced /\ excused'.apart = excused.apart
  BY <1>1, <1>2 DEF CreateHalfDone, Excuse, TypeOK, Excuses
<1>11. TypeOK'
  BY <1>1, <1>2, <1>3, <1>4, <1>5, <1>6, <1>7, <1>8, <1>9, <1>10 DEF TypeOK, Processes
<1>12. CallsOK'
  BY <1>1, <1>2, <1>3, <1>4, <1>5, <1>6, <1>7, <1>8, <1>9, <1>10, NoneAssumption DEF CallsOK, Turned
<1>13. LockOK'
  BY <1>1, <1>2, <1>3, <1>4, <1>5, <1>6, <1>7, <1>8, <1>9, <1>10, NoneAssumption DEF LockOK, Turned,
     Unborn, Calling
<1>14. NumbersOK'
  BY <1>1, <1>2, <1>3, <1>4, <1>5, <1>6, <1>7, <1>8, <1>9, <1>10 DEF NumbersOK, Unborn
<1>15. ProcsOK'
  BY <1>1, <1>2, <1>3, <1>4, <1>5, <1>6, <1>7, <1>8, <1>9, <1>10 DEF ProcsOK, LockOK, Turned,
     Unborn, Alive, Calling
<1>16. PortsOK'
  BY <1>1, <1>2, <1>3, <1>4, <1>5, <1>6, <1>7, <1>8, <1>9, <1>10, PortsStay DEF Calling, Turned
<1>17. ServingOK'
  BY <1>1, <1>2, <1>3, <1>4, <1>5, <1>6, <1>7, <1>8, <1>9, <1>10, SettingsStay DEF Calling, Turned
<1>18. StartingOK'
  BY <1>1, <1>2, <1>3, <1>4, <1>5, <1>6, <1>7, <1>8, <1>9, <1>10, SettingsStay DEF Calling, Turned
<1>19. SavingOK'
  BY <1>1, <1>2, <1>3, <1>4, <1>5, <1>6, <1>7, <1>8, <1>9, <1>10 DEF SavingOK, SettersOK, SavedOK, Turned, SameWork,
     Free
<1>20. IdsOK'
  BY <1>1, <1>2, <1>3, <1>4, <1>5, <1>6, <1>7, <1>8, <1>9, <1>10 DEF IdsOK, Turned, Makes, Closes,
     Cached, SameWork, Free
<1>21. MapOK'
  <2>1. (\A c \in Cached :
           sessions[c].id \in excused.cutoff \/ OpenHere(sessions[c].id) \/ \E b \in Actors : At(b, "clear"))'
    BY <1>1, <1>2, <1>3, <1>4, <1>5, <1>6, <1>7, <1>8, <1>9, <1>10 DEF MapOK, Turned, OpenHere,
       Known, Creators, Closes, Cached, SameWork, Free
  <2>2. (\A b \in Creators : act[b].id \in excused.cutoff \/ OpenHere(act[b].id))'
    BY <1>1, <1>2, <1>3, <1>4, <1>5, <1>6, <1>7, <1>8, <1>9, <1>10 DEF MapOK, Turned, OpenHere,
       Known, Creators, Closes, Cached, SameWork, Free
  <2>3. (Alive(sidecar) => \A id \in proc[sidecar].open : Known(id))'
    BY <1>1, <1>2, <1>3, <1>4, <1>5, <1>6, <1>7, <1>8, <1>9, <1>10 DEF MapOK, Turned, OpenHere,
       Known, Creators, Closes, Cached, SameWork, Free
  <2>4. (\A b \in Actors : Closes(b) /\ (At(b, "post") \/ At(b, "wait")) /\ ~Alive(act[b].port)
                               /\ OpenHere(act[b].id) => act[b].id \in excused.leaked)'
    BY <1>1, <1>2, <1>3, <1>4, <1>5, <1>6, <1>7, <1>8, <1>9, <1>10 DEF MapOK, Turned, OpenHere,
       Known, Creators, Closes, Cached, SameWork, Free
  <2> QED
    BY <2>1, <2>2, <2>3, <2>4 DEF MapOK
<1>22. ApprovalsOK'
  BY <1>1, <1>2, <1>3, <1>4, <1>5, <1>6, <1>7, <1>8, <1>9, <1>10 DEF ApprovalsOK, Turned, Carried,
     Waiting, Cached
<1> QED
  BY <1>11, <1>12, <1>13, <1>14, <1>15, <1>16, <1>17, <1>18, <1>19, <1>20, <1>21, <1>22

LEMMA ServeLooseKeeps ==
  ASSUME IInv, NEW r \in loose, ServeLoose(r)
  PROVE  IInv'
<1>1. /\ UNCHANGED <<setting, saved, sidecar, lock, sessions, pending, act, drawn, granted, excused>>
      /\ loose' = loose \ {r} /\ Cached' = Cached
  BY DEF ServeLoose, Cached
<1>2. /\ r.port \in Procs /\ r.id \in Ids /\ r.method \in {"create", "do", "close"}
      /\ Alive(r.port) => r.port = sidecar
  BY DEF TypeOK, PortsOK
<1>3. /\ proc' \in [Procs -> Processes]
      /\ \A q \in Procs : proc'[q].state = proc[q].state /\ proc'[q].cfg = proc[q].cfg
      /\ \A q \in Procs \ {sidecar} : proc'[q].open = proc[q].open
      /\ Unborn' = Unborn /\ \A q \in Procs : Alive(q)' <=> Alive(q)
      /\ Alive(sidecar) \/ proc' = proc
  BY <1>2, HandledDoes DEF ServeLoose, TypeOK, Processes, Unborn, Alive
<1>4. Alive(sidecar) =>
        \/ proc'[sidecar].open = proc[sidecar].open
        \/ proc'[sidecar].open = proc[sidecar].open \union {r.id} /\ r.id \in excused.leaked
        \/ /\ proc'[sidecar].open = proc[sidecar].open \ {r.id}
           /\ \A c \in Cached : sessions[c].id # r.id
           /\ \A b \in Creators : act[b].id # r.id
  BY <1>2, HandledDoes, ACall DEF ServeLoose, IdsOK, Creators, CarriesRight, Makes
<1>5. sidecar # None => sidecar \in Procs
  BY DEF TypeOK
<1>6. Alive(sidecar)' <=> Alive(sidecar)
  BY <1>1, <1>3, <1>5 DEF Alive
<1>7. \A b \in Actors : act[b].pc \in {"post", "wait"} => act[b].port \in Procs
  BY ACall DEF CarriesRight
<1>8. TypeOK'
  BY <1>1, <1>2, <1>3, <1>4, <1>5, <1>6, <1>7 DEF TypeOK, Processes
<1>9. CallsOK'
  BY <1>1, <1>2, <1>3, <1>4, <1>5, <1>6, <1>7, NoneAssumption DEF CallsOK, Turned
<1>10. LockOK'
  BY <1>1, <1>2, <1>3, <1>4, <1>5, <1>6, <1>7, NoneAssumption DEF LockOK, Turned, Unborn
<1>11. NumbersOK'
  BY <1>1, <1>2, <1>3, <1>4, <1>5, <1>6, <1>7 DEF NumbersOK, Unborn
<1>12. ProcsOK'
  <2>1. (\A p \in Procs : p # sidecar \/ ~Alive(p) => proc[p].open = {})'
    BY <1>1, <1>2, <1>3, <1>4, <1>5, <1>6, <1>7 DEF ProcsOK
  <2>2. (sidecar # None => sidecar \notin Unborn)'
    BY <1>1, <1>2, <1>3, <1>4, <1>5, <1>6, <1>7 DEF ProcsOK
  <2>3. (\A p \in Procs : Alive(p) =>
           \/ p = sidecar \/ p \in excused.stray
           \/ lock # None /\ At(lock, "health") /\ act[lock].port = p)'
    BY <1>1, <1>2, <1>3, <1>4, <1>5, <1>6, <1>7 DEF ProcsOK
  <2>4. (\A b \in Actors : At(b, "health") => act[b].port \notin Unborn)'
    BY <1>1, <1>2, <1>3, <1>4, <1>5, <1>6, <1>7 DEF ProcsOK
  <2> QED
    BY <2>1, <2>2, <2>3, <2>4 DEF ProcsOK
<1>13. PortsOK'
  BY <1>1, <1>2, <1>3, <1>4, <1>5, <1>6, <1>7, PortsStay DEF TypeOK
<1>14. ServingOK'
  BY <1>1, <1>2, <1>3, <1>4, <1>5, <1>6, <1>7, SettingsStay DEF Calling, Turned
<1>15. StartingOK'
  BY <1>1, <1>2, <1>3, <1>4, <1>5, <1>6, <1>7, SettingsStay DEF Calling, Turned
<1>16. SavingOK'
  BY <1>1, <1>2, <1>3, <1>4, <1>5, <1>6, <1>7 DEF SavingOK, SettersOK, SavedOK, Turned
<1>17. IdsOK'
  BY <1>1, <1>2, <1>3, <1>4, <1>5, <1>6, <1>7 DEF IdsOK, Turned, Makes, Closes, Cached
<1>18. MapOK'
  <2>1. \A id : OpenHere(id) => \/ OpenHere(id)'
                                \/ /\ \A c \in Cached : sessions[c].id # id
                                   /\ \A b \in Creators : act[b].id # id
    BY <1>1, <1>4, <1>6 DEF OpenHere
  <2>2. \A id : OpenHere(id)' => OpenHere(id) \/ id \in excused'.leaked
    BY <1>1, <1>4, <1>6 DEF OpenHere
  <2> QED
    BY <1>1, <1>3, <1>7, <2>1, <2>2, MapStays, StandStill
<1>19. ApprovalsOK'
  BY <1>1, <1>2, <1>3, <1>4, <1>5, <1>6, <1>7 DEF ApprovalsOK, Turned, Carried, Waiting, Cached
<1> QED
  BY <1>8, <1>9, <1>10, <1>11, <1>12, <1>13, <1>14, <1>15, <1>16, <1>17, <1>18, <1>19

LEMMA CrashKeeps ==
  ASSUME IInv, NEW p \in Procs, Crash(p)
  PROVE  IInv'
<1>1. /\ UNCHANGED <<setting, saved, sidecar, lock, sessions, pending, act, loose, drawn, granted>>
      /\ Alive(p) /\ Cached' = Cached
  BY DEF Crash, Cached
<1>2. /\ excused' \in Excuses /\ excused'.cutoff = excused.cutoff \union proc[p].open
      /\ excused'.stray = excused.stray /\ excused'.leaked = excused.leaked
      /\ excused'.raced = excused.raced /\ excused'.apart = excused.apart
  BY DEF Crash, Excuse, TypeOK, Excuses
<1>3. /\ proc' \in [Procs -> Processes]
      /\ \A q \in Procs : proc'[q].cfg = proc[q].cfg
      /\ \A q \in Procs \ {p} : proc'[q] = proc[q]
      /\ proc'[p].state = "dead" /\ proc'[p].open = {}
  BY <1>1 DEF Crash, Die, TypeOK, Processes, Alive
<1>4. Unborn' = Unborn /\ \A q \in Procs : Alive(q)' <=> Alive(q) /\ q # p
  BY <1>1, <1>3 DEF Unborn, Alive
<1>5. (sidecar # None => sidecar \in Procs) /\ (Alive(sidecar) => sidecar \in Procs)
  BY DEF TypeOK, Alive
<1>6. Alive(sidecar)' <=> Alive(sidecar) /\ sidecar # p
  BY <1>1, <1>4, <1>5 DEF Alive
<1>7. \A b \in Actors : act[b].pc \in {"post", "wait"} => act[b].port \in Procs
  BY ACall DEF CarriesRight
<1>8. TypeOK'
  BY <1>1, <1>2, <1>3, <1>4, <1>5, <1>6, <1>7 DEF TypeOK, Processes
<1>9. CallsOK'
  BY <1>1, <1>2, <1>3, <1>4, <1>5, <1>6, <1>7, NoneAssumption DEF CallsOK, Turned
<1>10. LockOK'
  BY <1>1, <1>2, <1>3, <1>4, <1>5, <1>6, <1>7, NoneAssumption DEF LockOK, Turned, Unborn
<1>11. NumbersOK'
  BY <1>1, <1>2, <1>3, <1>4, <1>5, <1>6, <1>7 DEF NumbersOK, Unborn
<1>12. ProcsOK'
  <2>1. (\A q \in Procs : q # sidecar \/ ~Alive(q) => proc[q].open = {})'
    BY <1>1, <1>2, <1>3, <1>4, <1>5, <1>6, <1>7 DEF ProcsOK, Alive
  <2>2. (sidecar # None => sidecar \notin Unborn)'
    BY <1>1, <1>2, <1>3, <1>4, <1>5, <1>6, <1>7 DEF ProcsOK
  <2>3. (\A q \in Procs : Alive(q) =>
           \/ q = sidecar \/ q \in excused.stray
           \/ lock # None /\ At(lock, "health") /\ act[lock].port = q)'
    BY <1>1, <1>2, <1>3, <1>4, <1>5, <1>6, <1>7 DEF ProcsOK
  <2>4. (\A b \in Actors : At(b, "health") => act[b].port \notin Unborn)'
    BY <1>1, <1>2, <1>3, <1>4, <1>5, <1>6, <1>7 DEF ProcsOK
  <2> QED
    BY <2>1, <2>2, <2>3, <2>4 DEF ProcsOK
<1>13. PortsOK'
  BY <1>1, <1>2, <1>3, <1>4, <1>5, <1>6, <1>7, PortsStay DEF TypeOK
<1>14. ServingOK'
  BY <1>1, <1>2, <1>3, <1>4, <1>5, <1>6, <1>7, SettingsStay DEF Calling, Turned
<1>15. StartingOK'
  BY <1>1, <1>2, <1>3, <1>4, <1>5, <1>6, <1>7, SettingsStay DEF Calling, Turned
<1>16. SavingOK'
  BY <1>1, <1>2, <1>3, <1>4, <1>5, <1>6, <1>7 DEF SavingOK, SettersOK, SavedOK, Turned
<1>17. IdsOK'
  BY <1>1, <1>2, <1>3, <1>4, <1>5, <1>6, <1>7 DEF IdsOK, Turned, Makes, Closes, Cached
<1>18. MapOK'
  <2>1. \A id : OpenHere(id) => OpenHere(id)' \/ id \in excused'.cutoff
    BY <1>1, <1>2, <1>3, <1>5, <1>6 DEF OpenHere
  <2>2. \A id : OpenHere(id)' => OpenHere(id)
    BY <1>1, <1>3, <1>5, <1>6 DEF OpenHere
  <2>3. \A q \in Procs : Alive(q) => \/ Alive(q)' \/ ~Alive(sidecar)'
                                     \/ \A b \in Actors : At(b, "post") \/ At(b, "wait") =>
                                          act[b].port # q
    BY <1>1, <1>4, <1>6, <1>7 DEF PortsOK
  <2> QED
    BY <1>1, <1>2, <2>1, <2>2, <2>3, MapStays, StandStill
<1>19. ApprovalsOK'
  BY <1>1, <1>2, <1>3, <1>4, <1>5, <1>6, <1>7 DEF ApprovalsOK, Turned, Carried, Waiting, Cached
<1> QED
  BY <1>8, <1>9, <1>10, <1>11, <1>12, <1>13, <1>14, <1>15, <1>16, <1>17, <1>18, <1>19

LEMMA AgeKeeps ==
  ASSUME IInv, NEW c \in Conversations, Age(c)
  PROVE  IInv'
<1>1. /\ UNCHANGED <<setting, saved, proc, sidecar, lock, pending, act, loose, drawn, granted, excused>>
      /\ c \in Cached
  BY DEF Age
<1>2. /\ sessions' \in [Conversations -> Sessions \union {None}]
      /\ Cached' = Cached
      /\ \A d \in Cached : sessions'[d].id = sessions[d].id /\ sessions'[d].approved = sessions[d].approved
  BY <1>1, FreshDoes DEF Age
<1>3. /\ Unborn' = Unborn /\ \A q \in Procs : Alive(q)' <=> Alive(q)
      /\ \A id : OpenHere(id)' <=> OpenHere(id)
  BY <1>1 DEF Unborn, Alive, OpenHere
<1>4. \A b \in Actors : act[b].pc \in {"post", "wait"} => act[b].port \in Procs
  BY ACall DEF CarriesRight
<1>5. TypeOK'
  BY <1>1, <1>2, <1>3, <1>4 DEF TypeOK, Sessions
<1>6. CallsOK'
  BY <1>1, <1>2, <1>3, <1>4, NoneAssumption DEF CallsOK, Turned
<1>7. LockOK'
  BY <1>1, <1>2, <1>3, <1>4, NoneAssumption DEF LockOK, Turned, Unborn
<1>8. NumbersOK'
  BY <1>1, <1>2, <1>3, <1>4 DEF NumbersOK, Unborn
<1>9. ProcsOK'
  BY <1>1, <1>2, <1>3, <1>4 DEF ProcsOK, LockOK, Turned, Unborn, Alive
<1>10. PortsOK'
  BY <1>1, <1>2, <1>3, <1>4, PortsStay DEF TypeOK
<1>11. ServingOK'
  BY <1>1, <1>2, <1>3, <1>4, SettingsStay DEF Calling, Turned
<1>12. StartingOK'
  BY <1>1, <1>2, <1>3, <1>4, SettingsStay DEF Calling, Turned
<1>13. SavingOK'
  BY <1>1, <1>2, <1>3, <1>4 DEF SavingOK, SettersOK, SavedOK, Turned
<1>14. IdsOK'
  BY <1>1, <1>2 DEF IdsOK, Makes, Closes
<1>15. MapOK'
  BY <1>1, <1>2, <1>3, <1>4, MapStays, StandStill
<1>16. ApprovalsOK'
  BY <1>1, <1>2 DEF ApprovalsOK, Waiting, Carried
<1> QED
  BY <1>5, <1>6, <1>7, <1>8, <1>9, <1>10, <1>11, <1>12, <1>13, <1>14, <1>15, <1>16

(* What a command does with the session map. *)
LEMMA FindSessionKeeps ==
  ASSUME IInv, NEW a \in Actors, FindSession(a)
  PROVE  IInv'
<1>1. /\ Turned(a) /\ act[a].pc = "find" /\ act'[a].pc \in {"ensure", "check"}
      /\ act[a].kind # "set" /\ act'[a].kind # "set" /\ act[a].took = {} /\ act'[a].took = {}
      /\ act[a].method = None /\ act'[a].method = "do"
  BY FindSessionDoes, ACall, NoneIsNo DEF FindSession, CarriesRight, Calling
<1>2. /\ UNCHANGED <<setting, saved, proc, sidecar, lock, pending, loose, drawn, granted, excused>>
      /\ act[a].conv \in Cached
  BY DEF FindSession
<1>3. /\ sessions' \in [Conversations -> Sessions \union {None}]
      /\ Cached' = Cached
      /\ \A d \in Cached : sessions'[d].id = sessions[d].id /\ sessions'[d].approved = sessions[d].approved
  BY <1>2, FreshDoes DEF FindSession
<1>4. /\ LockOK' /\ NumbersOK' /\ ProcsOK' /\ PortsOK' /\ ServingOK' /\ StartingOK' /\ SavingOK'
      /\ \A id : OpenHere(id)' <=> OpenHere(id)
      /\ \A p : Alive(p)' <=> Alive(p)
  BY <1>1, <1>2, <1>3, SidecarStays
<1>5. TypeOK'
  BY <1>1, <1>2, <1>3 DEF TypeOK, Sessions
<1>6. CallsOK'
  BY <1>1, <1>2, <1>3, NoneAssumption DEF CallsOK, Turned
<1>7. IdsOK'
  BY <1>1, <1>2, <1>3, NoneIsNo DEF IdsOK, Makes, Closes, Turned
<1>8. MapOK'
  <2>1. \A b \in Actors : /\ At(b, "clear") => At(b, "clear")'
                          /\ (b \in Creators)' <=> b \in Creators
                          /\ Closes(b)' <=> Closes(b)
                          /\ b \in Creators \/ Closes(b) => act'[b].id = act[b].id
                          /\ Closes(b) /\ (At(b, "post") \/ At(b, "wait"))' => act'[b] = act[b]
    BY <1>1, NoneIsNo DEF Creators, Closes, Turned
  <2> QED
    BY <1>1, <1>2, <1>3, <1>4, <2>1, MapStays
<1>9. ApprovalsOK'
  BY <1>1, <1>2, <1>3 DEF ApprovalsOK, Waiting, Carried, Turned
<1> QED
  BY <1>4, <1>5, <1>6, <1>7, <1>8, <1>9

LEMMA NewSessionKeeps ==
  ASSUME IInv, NEW a \in Actors, NewSession(a)
  PROVE  IInv'
<1>1. /\ Turned(a) /\ act[a].pc = "find" /\ act'[a].pc = "ensure"
      /\ act[a].kind # "set" /\ act'[a].kind # "set" /\ act[a].took = {} /\ act'[a].took = {}
      /\ act[a].method = None /\ act'[a].method = "create" /\ act'[a].id = drawn + 1
  BY NewSessionDoes, ACall, NoneIsNo DEF NewSession, CarriesRight, Calling
<1>2. UNCHANGED <<setting, saved, proc, sidecar, lock, sessions, pending, loose, granted, excused>>
      /\ drawn' = drawn + 1 /\ drawn < MaxIds /\ Cached' = Cached
  BY DEF NewSession, Cached
<1>3. Ids \subseteq Nat /\ MaxIds \in Nat
  BY BoundAssumption DEF Ids
<1>4. drawn \in Nat /\ drawn' \in 0..MaxIds
  BY <1>2, <1>3 DEF CallsOK
<1>5. \A b \in Actors : Makes(b) \/ Closes(b) => act[b].id \in Nat
  BY <1>3, ACall, NoneIsNo DEF CarriesRight, Makes, Closes
<1>6. (\A c \in Cached : sessions[c].id \in Nat) /\ \A r \in loose : r.id \in Nat
  BY <1>3 DEF TypeOK, Cached
<1>7. /\ LockOK' /\ NumbersOK' /\ ProcsOK' /\ PortsOK' /\ ServingOK' /\ StartingOK' /\ SavingOK'
      /\ \A id : OpenHere(id)' <=> OpenHere(id)
      /\ \A p : Alive(p)' <=> Alive(p)
  BY <1>1, <1>2, <1>3, <1>4, <1>5, <1>6, SidecarStays
<1>8. TypeOK'
  BY <1>1, <1>2, <1>3, <1>4, <1>5, <1>6 DEF TypeOK
<1>9. CallsOK'
  BY <1>1, <1>4 DEF CallsOK, Turned
<1>10. IdsOK'
  <2>1. (\A b \in Actors : Makes(b) \/ Closes(b) => act[b].id <= drawn)'
    BY <1>1, <1>2, <1>3, <1>4, <1>5, <1>6 DEF IdsOK, Turned, Makes, Closes
  <2>2. (\A c \in Cached : sessions[c].id <= drawn)'
    BY <1>1, <1>2, <1>3, <1>4, <1>5, <1>6 DEF IdsOK, Turned, Makes, Closes
  <2>3. (\A b, g \in Actors : Makes(b) /\ (Makes(g) \/ Closes(g)) /\ act[b].id = act[g].id => b = g)'
    BY <1>1, <1>2, <1>3, <1>4, <1>5, <1>6 DEF IdsOK, Turned, Makes, Closes
  <2>4. (\A b \in Actors, c \in Cached : Makes(b) \/ Closes(b) => act[b].id # sessions[c].id)'
    BY <1>1, <1>2, <1>3, <1>4, <1>5, <1>6 DEF IdsOK, Turned, Makes, Closes
  <2>5. (\A c, d \in Cached : sessions[c].id = sessions[d].id => c = d)'
    BY <1>1, <1>2, <1>3, <1>4, <1>5, <1>6 DEF IdsOK, Turned, Makes, Closes
  <2>6. (\A r \in loose : r.method = "close" =>
           /\ r.id <= drawn
           /\ \A b \in Actors : Makes(b) => act[b].id # r.id
           /\ \A c \in Cached : sessions[c].id # r.id)'
    BY <1>1, <1>2, <1>3, <1>4, <1>5, <1>6 DEF IdsOK, Turned, Makes, Closes
  <2>7. (\A r \in loose : r.method = "create" => r.id \in excused.leaked)'
    BY <1>1, <1>2, <1>3, <1>4, <1>5, <1>6 DEF IdsOK, Turned, Makes, Closes
  <2> QED
    BY <2>1, <2>2, <2>3, <2>4, <2>5, <2>6, <2>7 DEF IdsOK
<1>11. MapOK'
  <2>1. \A b \in Actors : /\ At(b, "clear") => At(b, "clear")'
                          /\ (b \in Creators)' <=> b \in Creators
                          /\ Closes(b)' <=> Closes(b)
                          /\ b \in Creators \/ Closes(b) => act'[b].id = act[b].id
                          /\ Closes(b) /\ (At(b, "post") \/ At(b, "wait"))' => act'[b] = act[b]
    BY <1>1, NoneIsNo DEF Creators, Closes, Turned
  <2> QED
    BY <1>1, <1>2, <1>3, <1>4, <1>5, <1>6, <1>7, <2>1, MapStays
<1>12. ApprovalsOK'
  BY <1>1, <1>2 DEF ApprovalsOK, Waiting, Carried, Turned
<1> QED
  BY <1>7, <1>8, <1>9, <1>10, <1>11, <1>12

LEMMA TakePendingKeeps ==
  ASSUME IInv, NEW a \in Actors, TakePending(a)
  PROVE  IInv'
<1>1. /\ act[a].pc = "pend" /\ act[a].kind # "set" /\ act[a].took = {} /\ act[a].method = "create"
  BY ACall, NoneIsNo DEF TakePending, CarriesRight, Calling
<1>2. /\ Turned(a) /\ act'[a].pc = "insert"
      /\ act'[a].kind = act[a].kind
      /\ act'[a].method = act[a].method /\ act'[a].id = act[a].id
      /\ act'[a].conv = act[a].conv /\ act[a].conv \in Conversations
      /\ act'[a].took = pending[act[a].conv]
  BY TakePendingDoes
<1>3. UNCHANGED <<setting, saved, proc, sidecar, lock, sessions, loose, drawn, granted, excused>>
      /\ pending' = [pending EXCEPT ![act[a].conv] = {}] /\ Cached' = Cached
  BY DEF TakePending, Cached
<1>4. /\ LockOK' /\ NumbersOK' /\ ProcsOK' /\ PortsOK' /\ ServingOK' /\ StartingOK' /\ SavingOK'
      /\ \A id : OpenHere(id)' <=> OpenHere(id)
      /\ \A p : Alive(p)' <=> Alive(p)
  BY <1>1, <1>2, <1>3, SidecarStays
<1>5. TypeOK'
  BY <1>1, <1>2, <1>3 DEF TypeOK
<1>6. CallsOK'
  BY <1>1, <1>2, <1>3, NoneAssumption DEF CallsOK, Turned
<1>7. IdsOK'
  BY <1>1, <1>2, <1>3 DEF IdsOK, Makes, Closes, Turned
<1>8. MapOK'
  <2>1. \A b \in Actors : /\ At(b, "clear") => At(b, "clear")'
                          /\ (b \in Creators)' <=> b \in Creators
                          /\ Closes(b)' <=> Closes(b)
                          /\ b \in Creators \/ Closes(b) => act'[b].id = act[b].id
                          /\ Closes(b) /\ (At(b, "post") \/ At(b, "wait"))' => act'[b] = act[b]
    BY <1>1, <1>2, NoneIsNo DEF Creators, Closes, Turned
  <2> QED
    BY <1>1, <1>2, <1>3, <1>4, <2>1, MapStays
<1>9. ApprovalsOK'
  <2> SUFFICES ASSUME NEW c \in Conversations, NEW d \in granted[c]
               PROVE  (c \in Cached /\ d \in sessions[c].approved) \/ Waiting(c, d)' \/ Carried(c, d)'
    BY <1>3 DEF ApprovalsOK
  <2>1. CASE c \in Cached /\ d \in sessions[c].approved
    BY <2>1
  <2>2. CASE Waiting(c, d) /\ c = act[a].conv
    BY <1>2, <2>2 DEF Waiting, Carried
  <2>3. CASE Waiting(c, d) /\ c # act[a].conv
    BY <1>2, <1>3, <2>3 DEF Waiting, Turned, TypeOK
  <2>4. CASE Carried(c, d)
    BY <1>1, <1>2, <2>4 DEF Carried, Turned
  <2> QED
    BY <2>1, <2>2, <2>3, <2>4 DEF ApprovalsOK
<1> QED
  BY <1>4, <1>5, <1>6, <1>7, <1>8, <1>9

LEMMA InsertSessionKeeps ==
  ASSUME IInv, NEW a \in Actors, InsertSession(a)
  PROVE  IInv'
<1>1. /\ Turned(a) /\ act[a].pc = "insert" /\ act'[a].pc \in {"ensure", "check"}
      /\ act[a].kind # "set" /\ act'[a].kind # "set" /\ act'[a].took = {}
      /\ act[a].method = "create" /\ act'[a].method = "do" /\ act[a].id \in Ids
      /\ act[a].conv \in Conversations /\ act[a].took \in SUBSET Domains
  BY InsertSessionDoes, ACall, NoneIsNo DEF InsertSession, CarriesRight, Calling, Calls
<1>2. /\ UNCHANGED <<setting, saved, proc, sidecar, lock, pending, loose, drawn>>
      /\ sessions' = [sessions EXCEPT ![act[a].conv] = Session(act[a].id, act[a].took)]
  BY DEF InsertSession
<1>3. /\ sessions' \in [Conversations -> Sessions \union {None}]
      /\ Cached' = Cached \union {act[a].conv}
      /\ sessions'[act[a].conv].id = act[a].id /\ sessions'[act[a].conv].approved = act[a].took
      /\ \A c \in Conversations : c # act[a].conv => sessions'[c] = sessions[c]
  BY <1>1, <1>2, InsertedIs
<1>4. /\ granted' \in [Conversations -> SUBSET Domains]
      /\ \A c \in Conversations : granted'[c] \subseteq granted[c]
      /\ act[a].conv \in Cached =>
           granted'[act[a].conv] = granted[act[a].conv] \ sessions[act[a].conv].approved
  BY <1>1 DEF InsertSession, TypeOK
<1>5. /\ excused' \in Excuses
      /\ excused'.stray = excused.stray /\ excused'.cutoff = excused.cutoff
      /\ excused'.raced = excused.raced /\ excused'.apart = excused.apart
      /\ excused.leaked \subseteq excused'.leaked
      /\ act[a].conv \in Cached => sessions[act[a].conv].id \in excused'.leaked
  BY <1>1, NoneAssumption DEF InsertSession, Excuse, Excuses, TypeOK, Cached
<1>6. /\ LockOK' /\ NumbersOK' /\ ProcsOK' /\ PortsOK' /\ ServingOK' /\ StartingOK' /\ SavingOK'
      /\ \A id : OpenHere(id)' <=> OpenHere(id)
      /\ \A p : Alive(p)' <=> Alive(p)
  BY <1>1, <1>2, <1>3, <1>4, <1>5, SidecarStays
<1>7. TypeOK'
  BY <1>1, <1>2, <1>3, <1>4, <1>5 DEF TypeOK, Sessions
<1>8. CallsOK'
  BY <1>1, <1>2, <1>3, <1>4, <1>5, NoneAssumption DEF CallsOK, Turned
<1>9. IdsOK'
  <2>1. (\A b \in Actors : Makes(b) \/ Closes(b) => act[b].id <= drawn)'
    BY <1>1, <1>2, <1>3, <1>4, <1>5 DEF IdsOK, Turned, Makes, Closes
  <2>2. (\A c \in Cached : sessions[c].id <= drawn)'
    BY <1>1, <1>2, <1>3, <1>4, <1>5 DEF IdsOK, Turned, Makes, Closes
  <2>3. (\A b, g \in Actors : Makes(b) /\ (Makes(g) \/ Closes(g)) /\ act[b].id = act[g].id => b = g)'
    BY <1>1, <1>2, <1>3, <1>4, <1>5 DEF IdsOK, Turned, Makes, Closes
  <2>4. (\A b \in Actors, c \in Cached : Makes(b) \/ Closes(b) => act[b].id # sessions[c].id)'
    BY <1>1, <1>2, <1>3, <1>4, <1>5 DEF IdsOK, Turned, Makes, Closes
  <2>5. (\A c, d \in Cached : sessions[c].id = sessions[d].id => c = d)'
    BY <1>1, <1>2, <1>3, <1>4, <1>5 DEF IdsOK, Turned, Makes, Closes
  <2>6. (\A r \in loose : r.method = "close" =>
           /\ r.id <= drawn
           /\ \A b \in Actors : Makes(b) => act[b].id # r.id
           /\ \A c \in Cached : sessions[c].id # r.id)'
    BY <1>1, <1>2, <1>3, <1>4, <1>5 DEF IdsOK, Turned, Makes, Closes
  <2>7. (\A r \in loose : r.method = "create" => r.id \in excused.leaked)'
    BY <1>1, <1>2, <1>3, <1>4, <1>5 DEF IdsOK, Turned, Makes, Closes
  <2> QED
    BY <2>1, <2>2, <2>3, <2>4, <2>5, <2>6, <2>7 DEF IdsOK
<1>10. MapOK'
  <2>1. \A id : Known(id) => Known(id)'
    <3> SUFFICES ASSUME NEW id, Known(id)
                 PROVE  Known(id)'
      OBVIOUS
    <3>1. CASE \E c \in Cached : sessions[c].id = id
      <4>1. PICK c \in Cached : sessions[c].id = id
        BY <3>1
      <4>2. CASE c = act[a].conv
        BY <1>5, <4>1, <4>2 DEF Known
      <4>3. CASE c # act[a].conv
        <5>1. c \in Cached' /\ sessions'[c].id = id
          BY <1>3, <4>1, <4>3 DEF Cached
        <5> QED
          BY <5>1 DEF Known
      <4> QED
        BY <4>2, <4>3
    <3>2. CASE id = act[a].id
      BY <1>3, <3>2 DEF Known
    <3>3. CASE \E b \in Actors \ {a} : act[b].id = id /\ (b \in Creators \/ Closes(b))
      BY <1>1, <3>3 DEF Known, Turned, Creators, Closes
    <3>4. CASE id \in excused.leaked
      BY <1>5, <3>4 DEF Known
    <3> QED
      BY <3>1, <3>2, <3>3, <3>4 DEF Known
  <2>2. (Alive(sidecar) => \A id \in proc[sidecar].open : Known(id))'
    BY <1>2, <2>1, <1>6 DEF MapOK, Known
  <2>3. (\A c \in Cached : sessions[c].id \in excused.cutoff \/ OpenHere(sessions[c].id)
                             \/ \E b \in Actors : At(b, "clear"))'
    <3>1. \A id : OpenHere(id) => OpenHere(id)'
      BY <1>6
    <3>2. \A b \in Actors : At(b, "clear") => At(b, "clear")'
      BY <1>1 DEF Turned
    <3> SUFFICES ASSUME NEW c \in Cached'
                 PROVE  (sessions[c].id \in excused.cutoff \/ OpenHere(sessions[c].id)
                           \/ \E b \in Actors : At(b, "clear"))'
      OBVIOUS
    <3>3. CASE c = act[a].conv
      <4>1. \A id : id = act[a].id => id \in excused.cutoff \/ OpenHere(id)'
        BY <1>1, <3>1 DEF MapOK, Creators
      <4> QED
        BY <1>3, <1>5, <3>3, <4>1 DEF OpenHere
    <3>4. CASE c # act[a].conv
      <4>1. c \in Cached /\ sessions'[c] = sessions[c]
        BY <1>3, <3>4 DEF Cached
      <4>2. \A id : id = sessions[c].id => id \in excused.cutoff \/ OpenHere(id)' \/ \E b \in Actors : At(b, "clear")
        BY <3>1, <4>1 DEF MapOK
      <4> QED
        BY <1>5, <3>2, <4>1, <4>2 DEF OpenHere
    <3> QED
      BY <3>3, <3>4
  <2>4. (\A b \in Creators : act[b].id \in excused.cutoff \/ OpenHere(act[b].id))'
    <3> SUFFICES ASSUME NEW b \in Actors \ {a}, b \in Creators, act'[b] = act[b]
                 PROVE  (act[b].id \in excused.cutoff \/ OpenHere(act[b].id))'
      BY <1>1 DEF Creators, Turned
    <3>1. \A id : id = act[b].id => id \in excused.cutoff \/ OpenHere(id)'
      BY <1>6 DEF MapOK
    <3> QED
      BY <1>5, <3>1 DEF OpenHere
  <2>5. (\A b \in Actors : Closes(b) /\ (At(b, "post") \/ At(b, "wait")) /\ ~Alive(act[b].port)
                             /\ OpenHere(act[b].id) => act[b].id \in excused.leaked)'
    <3> SUFFICES ASSUME NEW b \in Actors, (Closes(b) /\ (At(b, "post") \/ At(b, "wait")))',
                        (~Alive(act[b].port))', OpenHere(act[b].id)'
                 PROVE  act'[b].id \in excused'.leaked
      OBVIOUS
    <3>1. b # a /\ act'[b] = act[b]
      BY <1>1 DEF Turned, Closes
    <3>2. ~Alive(act[b].port) /\ \A id : id = act[b].id => (OpenHere(id)' => OpenHere(id))
      BY <1>2, <3>1, <1>6 DEF Alive
    <3> QED
      BY <1>5, <3>1, <3>2 DEF MapOK, OpenHere, Closes
  <2> QED
    BY <2>2, <2>3, <2>4, <2>5 DEF MapOK
<1>11. ApprovalsOK'
  <2> SUFFICES ASSUME NEW c \in Conversations, NEW d \in granted'[c]
               PROVE  (c \in Cached /\ d \in sessions[c].approved)' \/ Waiting(c, d)' \/ Carried(c, d)'
    BY DEF ApprovalsOK
  <2>1. d \in granted[c]
    BY <1>4
  <2>2. CASE c = act[a].conv
    <3>1. Carried(c, d)
      BY <1>1, <1>4, <2>1, <2>2 DEF ApprovalsOK, Waiting
    <3>2. PICK b \in Actors : At(b, "insert") /\ act[b].conv = c /\ d \in act[b].took
      BY <3>1 DEF Carried
    <3>3. CASE b = a
      BY <1>3, <2>2, <3>2, <3>3
    <3>4. CASE b # a
      BY <1>1, <3>2, <3>4 DEF Carried, Turned
    <3> QED
      BY <3>3, <3>4
  <2>3. CASE c # act[a].conv
    BY <1>1, <1>2, <1>3, <2>1, <2>3 DEF ApprovalsOK, Waiting, Carried, Turned
  <2> QED
    BY <2>2, <2>3
<1> QED
  BY <1>6, <1>7, <1>8, <1>9, <1>10, <1>11

LEMMA UpdateSessionKeeps ==
  ASSUME IInv, NEW a \in Actors, UpdateSession(a)
  PROVE  IInv'
<1>1. /\ Turned(a) /\ Free(a) /\ act[a].pc = "update" /\ act[a].kind # "set" /\ act[a].method = "do"
      /\ act[a].took = {}
  BY RestFrees, ACall, NoneIsNo DEF UpdateSession, CarriesRight, Calling
<1>2. UNCHANGED <<setting, saved, proc, sidecar, lock, pending, loose, drawn, granted, excused>>
  BY DEF UpdateSession
<1>3. /\ sessions' \in [Conversations -> Sessions \union {None}]
      /\ Cached' = Cached
      /\ \A d \in Cached : sessions'[d].id = sessions[d].id /\ sessions'[d].approved = sessions[d].approved
  BY <1>2, FreshDoes DEF UpdateSession, TypeOK, Sessions, Cached
<1>4. /\ act'[a].pc \notin {"reading", "health", "clear", "ending", "post", "wait", "pend", "insert"}
      /\ act'[a].kind # "set" /\ act'[a].method = None
  BY <1>1 DEF Free
<1>5. /\ LockOK' /\ NumbersOK' /\ ProcsOK' /\ PortsOK' /\ ServingOK' /\ StartingOK' /\ SavingOK'
      /\ \A id : OpenHere(id)' <=> OpenHere(id)
      /\ \A p : Alive(p)' <=> Alive(p)
  BY <1>1, <1>2, <1>3, <1>4, SidecarStays
<1>6. TypeOK'
  BY <1>1, <1>2, <1>3, <1>4 DEF TypeOK, Sessions
<1>7. CallsOK'
  BY <1>1, <1>2, <1>3, <1>4, NoneAssumption DEF CallsOK, Turned
<1>8. IdsOK'
  BY <1>1, <1>2, <1>3, <1>4, NoneIsNo DEF IdsOK, Makes, Closes, Turned
<1>9. MapOK'
  <2>1. \A b \in Actors : /\ At(b, "clear") => At(b, "clear")'
                          /\ (b \in Creators)' <=> b \in Creators
                          /\ Closes(b)' <=> Closes(b)
                          /\ b \in Creators \/ Closes(b) => act'[b].id = act[b].id
                          /\ Closes(b) /\ (At(b, "post") \/ At(b, "wait"))' => act'[b] = act[b]
    BY <1>1, <1>4, NoneIsNo DEF Creators, Closes, Turned
  <2> QED
    BY <1>1, <1>2, <1>3, <1>4, <1>5, <2>1, MapStays
<1>10. ApprovalsOK'
  BY <1>1, <1>2, <1>3, <1>4 DEF ApprovalsOK, Waiting, Carried, Turned
<1> QED
  BY <1>5, <1>6, <1>7, <1>8, <1>9, <1>10

(* The approvals of the user. *)
LEMMA ApproveKeeps ==
  ASSUME IInv, NEW a \in Actors, NEW c \in Conversations, NEW d \in Domains, Approve(a, c, d)
  PROVE  IInv'
<1>1. Turned(a) /\ Free(a)
  BY ApproveDoes
<1>2. act[a].pc = "rest" /\ act[a].kind # "set" /\ act[a].method = None /\ act[a].took = {}
  BY ACall, NoneIsNo DEF Approve, CarriesRight, Calling
<1>3. /\ act'[a].pc \notin {"reading", "health", "clear", "ending", "post", "wait", "pend", "insert"}
      /\ act'[a].kind # "set"
      /\ act'[a].method = None /\ act'[a].took = {}
  BY <1>1 DEF Free
<1>4. UNCHANGED <<setting, saved, proc, sidecar, lock, pending, loose, drawn, excused>>
  BY DEF Approve
<1>5. /\ sessions' \in [Conversations -> Sessions \union {None}]
      /\ Cached' = Cached
      /\ \A e \in Cached : /\ sessions'[e].id = sessions[e].id
                           /\ sessions[e].approved \subseteq sessions'[e].approved
      /\ c \in Cached => d \in sessions'[c].approved
  BY ApprovedDoes DEF Approve
<1>6. /\ granted' \in [Conversations -> SUBSET Domains]
      /\ \A e \in Conversations : \A x \in granted'[e] :
           x \in granted[e] \/ (e \in Cached /\ x \in sessions'[e].approved)
  BY <1>5 DEF Approve, TypeOK
<1>7. /\ LockOK' /\ NumbersOK' /\ ProcsOK' /\ PortsOK' /\ ServingOK' /\ StartingOK' /\ SavingOK'
      /\ \A id : OpenHere(id)' <=> OpenHere(id)
      /\ \A p : Alive(p)' <=> Alive(p)
  BY <1>1, <1>2, <1>3, <1>4, <1>5, <1>6, SidecarStays
<1>8. TypeOK'
  BY <1>1, <1>2, <1>3, <1>4, <1>5, <1>6 DEF TypeOK, Sessions
<1>9. CallsOK'
  BY <1>1, <1>2, <1>3, <1>4, <1>5, <1>6, NoneAssumption DEF CallsOK, Turned
<1>10. IdsOK'
  BY <1>1, <1>2, <1>3, <1>4, <1>5, NoneIsNo DEF IdsOK, Makes, Closes, Turned
<1>11. MapOK'
  <2>1. \A b \in Actors : /\ At(b, "clear") => At(b, "clear")'
                          /\ (b \in Creators)' <=> b \in Creators
                          /\ Closes(b)' <=> Closes(b)
                          /\ b \in Creators \/ Closes(b) => act'[b].id = act[b].id
                          /\ Closes(b) /\ (At(b, "post") \/ At(b, "wait"))' => act'[b] = act[b]
    BY <1>1, <1>2, <1>3, NoneIsNo DEF Creators, Closes, Turned
  <2> QED
    BY <1>1, <1>2, <1>3, <1>4, <1>5, <1>6, <1>7, <2>1, MapStays
<1>12. ApprovalsOK'
  <2> SUFFICES ASSUME NEW e \in Conversations, NEW x \in granted'[e]
               PROVE  (e \in Cached /\ x \in sessions[e].approved)' \/ Waiting(e, x)' \/ Carried(e, x)'
    BY DEF ApprovalsOK
  <2>1. CASE e \in Cached /\ x \in sessions'[e].approved
    BY <1>5, <2>1
  <2>2. CASE x \in granted[e] /\ Waiting(e, x)
    BY <1>1, <1>2, <1>3, <1>4, <1>5, <2>2 DEF Waiting, Turned
  <2>3. CASE x \in granted[e] /\ Carried(e, x)
    BY <1>1, <1>2, <2>3 DEF Carried, Turned
  <2> QED
    BY <1>5, <1>6, <2>1, <2>2, <2>3 DEF ApprovalsOK
<1> QED
  BY <1>7, <1>8, <1>9, <1>10, <1>11, <1>12

LEMMA ParkKeeps ==
  ASSUME IInv, NEW a \in Actors, Park(a)
  PROVE  IInv'
<1>1. Turned(a) /\ Free(a)
  BY RestFrees DEF Park
<1>2. /\ act[a].pc = "park" /\ act[a].kind # "set" /\ act[a].method = None /\ act[a].took = {}
      /\ act[a].conv \in Conversations /\ act[a].dom \in Domains
  BY ACall, NoneIsNo DEF Park, CarriesRight, Calling
<1>3. /\ act'[a].pc \notin {"reading", "health", "clear", "ending", "post", "wait", "pend", "insert"}
      /\ act'[a].kind # "set"
      /\ act'[a].method = None /\ act'[a].took = {}
  BY <1>1 DEF Free
<1>4. /\ UNCHANGED <<setting, saved, proc, sidecar, lock, sessions, loose, drawn, excused>>
      /\ Cached' = Cached
  BY DEF Park, Cached
<1>5. /\ pending' \in [Conversations -> SUBSET Domains]
      /\ \A c \in Conversations : pending[c] \subseteq pending'[c]
      /\ act[a].dom \in pending'[act[a].conv]
  BY <1>2 DEF Park, TypeOK
<1>6. /\ granted' \in [Conversations -> SUBSET Domains]
      /\ \A c \in Conversations : \A d \in granted'[c] :
           d \in granted[c] \/ (c = act[a].conv /\ d = act[a].dom /\ ~Overtaken(c))
  BY <1>2 DEF Park, TypeOK
<1>7. /\ LockOK' /\ NumbersOK' /\ ProcsOK' /\ PortsOK' /\ ServingOK' /\ StartingOK' /\ SavingOK'
      /\ \A id : OpenHere(id)' <=> OpenHere(id)
      /\ \A p : Alive(p)' <=> Alive(p)
  BY <1>1, <1>2, <1>3, <1>4, <1>5, <1>6, SidecarStays
<1>8. TypeOK'
  BY <1>1, <1>2, <1>3, <1>4, <1>5, <1>6 DEF TypeOK
<1>9. CallsOK'
  BY <1>1, <1>2, <1>3, <1>4, <1>5, <1>6, NoneAssumption DEF CallsOK, Turned
<1>10. IdsOK'
  BY <1>1, <1>2, <1>3, <1>4, NoneIsNo DEF IdsOK, Makes, Closes, Turned
<1>11. MapOK'
  <2>1. \A b \in Actors : /\ At(b, "clear") => At(b, "clear")'
                          /\ (b \in Creators)' <=> b \in Creators
                          /\ Closes(b)' <=> Closes(b)
                          /\ b \in Creators \/ Closes(b) => act'[b].id = act[b].id
                          /\ Closes(b) /\ (At(b, "post") \/ At(b, "wait"))' => act'[b] = act[b]
    BY <1>1, <1>2, <1>3, NoneIsNo DEF Creators, Closes, Turned
  <2> QED
    BY <1>1, <1>2, <1>3, <1>4, <1>5, <1>6, <1>7, <2>1, MapStays
<1>12. ApprovalsOK'
  <2> SUFFICES ASSUME NEW c \in Conversations, NEW d \in granted'[c]
               PROVE  (c \in Cached /\ d \in sessions[c].approved)' \/ Waiting(c, d)' \/ Carried(c, d)'
    BY DEF ApprovalsOK
  <2>1. CASE d \in granted[c] /\ c \in Cached /\ d \in sessions[c].approved
    BY <1>4, <2>1
  <2>2. CASE d \in granted[c] /\ Waiting(c, d)
    BY <1>1, <1>3, <1>4, <1>5, <2>2 DEF Waiting, Turned
  <2>3. CASE d \in granted[c] /\ Carried(c, d)
    BY <1>1, <1>2, <2>3 DEF Carried, Turned
  <2>4. CASE c = act[a].conv /\ d = act[a].dom /\ ~Overtaken(c)
    BY <1>1, <1>3, <1>4, <1>5, <2>4 DEF Waiting, Turned, Overtaken, Creators
  <2> QED
    BY <1>6, <2>1, <2>2, <2>3, <2>4 DEF ApprovalsOK
<1> QED
  BY <1>7, <1>8, <1>9, <1>10, <1>11, <1>12

(* A session leaves the map. *)
LEMMA CloseOneKeeps ==
  ASSUME IInv, NEW a \in Actors, CloseNext(a), NEW c \in Cached, Turned(a),
         sessions' = [sessions EXCEPT ![c] = None],
         granted' = [granted EXCEPT ![c] = @ \ sessions[c].approved],
         act'[a].method = "close", act'[a].id = sessions[c].id, act'[a].pc = "ensure",
         act'[a].took = {}, act'[a].kind # "set"
  PROVE  IInv'
<1>1. /\ act[a].pc = "closing" /\ act[a].kind # "set" /\ act[a].method = None /\ act[a].took = {}
      /\ c \in Conversations
  BY ACall, NoneIsNo DEF CloseNext, CarriesRight, Calling, Closers, Cached
<1>2. UNCHANGED <<setting, saved, proc, sidecar, lock, pending, loose, drawn, excused>>
  BY DEF CloseNext
<1>3. /\ sessions' \in [Conversations -> Sessions \union {None}]
      /\ Cached' = Cached \ {c}
      /\ \A e \in Conversations : e # c => sessions'[e] = sessions[e]
  BY <1>1 DEF TypeOK, Sessions, Cached
<1>4. /\ granted' \in [Conversations -> SUBSET Domains]
      /\ granted'[c] = granted[c] \ sessions[c].approved
      /\ \A e \in Conversations : e # c => granted'[e] = granted[e]
  BY <1>1 DEF TypeOK
<1>5. /\ LockOK' /\ NumbersOK' /\ ProcsOK' /\ PortsOK' /\ ServingOK' /\ StartingOK' /\ SavingOK'
      /\ \A id : OpenHere(id)' <=> OpenHere(id)
      /\ \A p : Alive(p)' <=> Alive(p)
  BY <1>1, <1>2, <1>3, <1>4, SidecarStays
<1>6. TypeOK'
  BY <1>1, <1>2, <1>3, <1>4 DEF TypeOK, Sessions
<1>7. CallsOK'
  BY <1>1, <1>2, <1>3, <1>4, NoneAssumption DEF CallsOK, Turned
<1>8. IdsOK'
  <2>1. (\A b \in Actors : Makes(b) \/ Closes(b) => act[b].id <= drawn)'
    BY <1>1, <1>2, <1>3, <1>4 DEF IdsOK, Turned, Makes, Closes
  <2>2. (\A e \in Cached : sessions[e].id <= drawn)'
    BY <1>1, <1>2, <1>3, <1>4 DEF IdsOK, Turned, Makes, Closes
  <2>3. (\A b, g \in Actors : Makes(b) /\ (Makes(g) \/ Closes(g)) /\ act[b].id = act[g].id => b = g)'
    BY <1>1, <1>2, <1>3, <1>4 DEF IdsOK, Turned, Makes, Closes
  <2>4. (\A b \in Actors, e \in Cached : Makes(b) \/ Closes(b) => act[b].id # sessions[e].id)'
    BY <1>1, <1>2, <1>3, <1>4 DEF IdsOK, Turned, Makes, Closes
  <2>5. (\A e, g \in Cached : sessions[e].id = sessions[g].id => e = g)'
    BY <1>1, <1>2, <1>3, <1>4 DEF IdsOK, Turned, Makes, Closes
  <2>6. (\A r \in loose : r.method = "close" =>
           /\ r.id <= drawn
           /\ \A b \in Actors : Makes(b) => act[b].id # r.id
           /\ \A e \in Cached : sessions[e].id # r.id)'
    BY <1>1, <1>2, <1>3, <1>4 DEF IdsOK, Turned, Makes, Closes
  <2>7. (\A r \in loose : r.method = "create" => r.id \in excused.leaked)'
    BY <1>1, <1>2, <1>3, <1>4 DEF IdsOK, Turned, Makes, Closes
  <2> QED
    BY <2>1, <2>2, <2>3, <2>4, <2>5, <2>6, <2>7 DEF IdsOK
<1>9. MapOK'
  <2>1. \A id : Known(id) => Known(id)'
    <3> SUFFICES ASSUME NEW id, Known(id)
                 PROVE  Known(id)'
      OBVIOUS
    <3>1. CASE id = sessions[c].id
      BY <3>1 DEF Known, Closes
    <3>2. CASE \E e \in Cached \ {c} : sessions[e].id = id
      BY <1>3, <3>2 DEF Known, Cached
    <3>3. CASE \E b \in Actors : act[b].id = id /\ (b \in Creators \/ Closes(b))
      <4>1. PICK b \in Actors : act[b].id = id /\ (b \in Creators \/ Closes(b))
        BY <3>3
      <4>2. b # a
        BY <1>1, <4>1, NoneIsNo DEF Creators, Closes
      <4>3. act'[b].id = id /\ ((b \in Creators)' \/ Closes(b)')
        BY <4>1, <4>2 DEF Turned, Creators, Closes
      <4> QED
        BY <4>3 DEF Known
    <3>4. CASE id \in excused.leaked
      BY <1>2, <3>4 DEF Known
    <3> QED
      BY <3>1, <3>2, <3>3, <3>4 DEF Known
  <2>2. (Alive(sidecar) => \A id \in proc[sidecar].open : Known(id))'
    BY <1>2, <2>1, <1>5 DEF MapOK, Known
  <2>3. \A id : OpenHere(id) => OpenHere(id)'
    BY <1>5
  <2>4. (\A e \in Cached : sessions[e].id \in excused.cutoff \/ OpenHere(sessions[e].id)
                             \/ \E b \in Actors : At(b, "clear"))'
    <3> SUFFICES ASSUME NEW e \in Cached \ {c}
                 PROVE  (sessions[e].id \in excused.cutoff \/ OpenHere(sessions[e].id)
                           \/ \E b \in Actors : At(b, "clear"))'
      BY <1>3
    <3>1. sessions'[e] = sessions[e] /\ \A b \in Actors : At(b, "clear") => At(b, "clear")'
      BY <1>1, <1>3 DEF Cached, Turned
    <3>2. \A id : id = sessions[e].id => id \in excused.cutoff \/ OpenHere(id)' \/ \E b \in Actors : At(b, "clear")
      BY <2>3 DEF MapOK
    <3> QED
      BY <1>2, <3>1, <3>2 DEF OpenHere
  <2>5. (\A b \in Creators : act[b].id \in excused.cutoff \/ OpenHere(act[b].id))'
    <3> SUFFICES ASSUME NEW b \in Actors \ {a}, b \in Creators, act'[b] = act[b]
                 PROVE  (act[b].id \in excused.cutoff \/ OpenHere(act[b].id))'
      BY <1>1 DEF Creators, Turned
    <3>1. \A id : id = act[b].id => id \in excused.cutoff \/ OpenHere(id)'
      BY <2>3 DEF MapOK
    <3> QED
      BY <1>2, <3>1 DEF OpenHere
  <2>6. (\A b \in Actors : Closes(b) /\ (At(b, "post") \/ At(b, "wait")) /\ ~Alive(act[b].port)
                             /\ OpenHere(act[b].id) => act[b].id \in excused.leaked)'
    <3> SUFFICES ASSUME NEW b \in Actors, (Closes(b) /\ (At(b, "post") \/ At(b, "wait")))',
                        (~Alive(act[b].port))', OpenHere(act[b].id)'
                 PROVE  act'[b].id \in excused'.leaked
      OBVIOUS
    <3>1. b # a /\ act'[b] = act[b]
      BY <1>1 DEF Turned, Closes
    <3>2. ~Alive(act[b].port) /\ \A id : id = act[b].id => (OpenHere(id)' => OpenHere(id))
      BY <1>2, <3>1, <1>5 DEF Alive
    <3> QED
      BY <1>2, <3>1, <3>2 DEF MapOK, OpenHere, Closes
  <2> QED
    BY <2>2, <2>4, <2>5, <2>6 DEF MapOK
<1>10. ApprovalsOK'
  <2> SUFFICES ASSUME NEW e \in Conversations, NEW x \in granted'[e]
               PROVE  (e \in Cached /\ x \in sessions[e].approved)' \/ Waiting(e, x)' \/ Carried(e, x)'
    BY DEF ApprovalsOK
  <2>1. x \in granted[e] /\ (e = c => x \notin sessions[c].approved)
    BY <1>4
  <2>2. CASE Carried(e, x)
    BY <1>1, <2>2 DEF Carried, Turned
  <2>3. CASE Waiting(e, x)
    BY <1>2, <1>3, <2>3 DEF Waiting, Turned
  <2>4. CASE e # c /\ e \in Cached /\ x \in sessions[e].approved
    BY <1>3, <2>4
  <2> QED
    BY <2>1, <2>2, <2>3, <2>4 DEF ApprovalsOK
<1> QED
  BY <1>5, <1>6, <1>7, <1>8, <1>9, <1>10

(* The setters. *)
LEMMA SetKnobKeeps ==
  ASSUME IInv, NEW a \in Actors, NEW k \in Knobs, NEW v \in Values, SetKnob(a, k, v)
  PROVE  IInv'
<1>1. /\ act[a].pc = "rest" /\ act[a].kind # "set" /\ act[a].method = None /\ act[a].took = {}
      /\ \A m \in Knobs : act[a].cfg[m] = None
  BY ACall, NoneIsNo DEF SetKnob, CarriesRight, Calling
<1>2. /\ Turned(a) /\ act'[a].kind = "set" /\ act'[a].pc = "kill" /\ act'[a].method = None
      /\ act'[a].took = {} /\ act'[a].cfg[k] = v /\ v # None
      /\ \A m \in Knobs \ {k} : act'[a].cfg[m] = None
  BY SetKnobDoes, NoneAssumption
<1>3. /\ UNCHANGED <<saved, proc, sidecar, lock, sessions, pending, loose, drawn, granted>>
      /\ setting' \in [Knobs -> Values] /\ setting'[k] = v
      /\ \A m \in Knobs \ {k} : setting'[m] = setting[m]
      /\ Cached' = Cached
  BY DEF SetKnob, Cached, TypeOK
<1>4. /\ excused' \in Excuses
      /\ excused'.stray = excused.stray /\ excused'.cutoff = excused.cutoff
      /\ excused'.leaked = excused.leaked /\ excused.raced \subseteq excused'.raced /\ excused'.apart = excused.apart
  BY RacedDoes DEF SetKnob
<1>5. \A b \in Actors : act[b].kind = "set" /\ act[b].cfg[k] # None => k \in excused'.raced
  BY RacedDoes DEF SetKnob
<1>6. /\ Unborn' = Unborn /\ \A p : Alive(p)' <=> Alive(p)
      /\ \A id : OpenHere(id)' <=> OpenHere(id)
  BY <1>3 DEF Unborn, Alive, OpenHere
<1>7. lock # a /\ (lock # None => lock \in Actors /\ act'[lock] = act[lock])
  BY <1>1, <1>2 DEF LockOK, Turned, TypeOK
<1>8. TypeOK'
  BY <1>1, <1>2, <1>3, <1>4, <1>5, <1>6, <1>7 DEF TypeOK
<1>9. CallsOK'
  BY <1>1, <1>2, <1>3, <1>4, <1>5, <1>6, <1>7, NoneAssumption DEF CallsOK, Turned
<1>10. LockOK'
  BY <1>1, <1>2, <1>3, <1>4, <1>5, <1>6, <1>7, NoneAssumption DEF LockOK, Turned, Unborn
<1>11. NumbersOK'
  BY <1>6 DEF NumbersOK
<1>12. ProcsOK'
  <2>1. (\A p \in Procs : p # sidecar \/ ~Alive(p) => proc[p].open = {})'
    BY <1>1, <1>2, <1>3, <1>4, <1>5, <1>6, <1>7 DEF ProcsOK, Turned
  <2>2. (sidecar # None => sidecar \notin Unborn)'
    BY <1>1, <1>2, <1>3, <1>4, <1>5, <1>6, <1>7 DEF ProcsOK, Turned
  <2>3. (\A p \in Procs : Alive(p) =>
           \/ p = sidecar \/ p \in excused.stray
           \/ lock # None /\ At(lock, "health") /\ act[lock].port = p)'
    BY <1>1, <1>2, <1>3, <1>4, <1>5, <1>6, <1>7 DEF ProcsOK, Turned
  <2>4. (\A b \in Actors : At(b, "health") => act[b].port \notin Unborn)'
    BY <1>1, <1>2, <1>3, <1>4, <1>5, <1>6, <1>7 DEF ProcsOK, Turned
  <2> QED
    BY <2>1, <2>2, <2>3, <2>4 DEF ProcsOK
<1>13. PortsOK'
  BY <1>1, <1>2, <1>3, <1>4, <1>5, <1>6, <1>7, PortsStay DEF Turned
<1>14. ServingOK'
  <2>1. \A m \in Knobs : \A w : Missed(w, m) => Missed(w, m)'
    BY <1>1, <1>2, <1>3 DEF Missed, Turned
  <2> QED
    BY <1>3, <1>6, <2>1 DEF ServingOK, Missed
<1>15. StartingOK'
  <2>1. \A m \in Knobs : \A w : Missed(w, m) => Missed(w, m)'
    BY <1>1, <1>2, <1>3 DEF Missed, Turned
  <2> SUFFICES ASSUME NEW b \in Actors, NEW m \in Knobs
               PROVE  /\ (At(b, "reading") /\ act[b].cfg[m] # None => Missed(act[b].cfg[m], m))'
                      /\ (At(b, "health") => Missed(proc[act[b].port].cfg[m], m))'
    BY DEF StartingOK
  <2>2. CASE b = a
    BY <1>2, <2>2
  <2>3. CASE b # a
    <3>1. act'[b] = act[b]
      BY <1>2, <2>3 DEF Turned
    <3>2. \A w : At(b, "reading") /\ act[b].cfg[m] # None /\ w = act[b].cfg[m] => Missed(w, m)'
      BY <2>1 DEF StartingOK
    <3>3. \A w : At(b, "health") /\ w = proc[act[b].port].cfg[m] => Missed(w, m)'
      BY <2>1 DEF StartingOK
    <3> QED
      BY <1>3, <3>1, <3>2, <3>3 DEF Missed
  <2> QED
    BY <2>2, <2>3
<1>16. SavingOK'
  <2>1. SettersOK'
    <3> SUFFICES ASSUME NEW m \in Knobs, m \notin excused'.raced, NEW b \in Actors,
                        act'[b].kind = "set", act'[b].cfg[m] # None
                 PROVE  act'[b].cfg[m] = setting'[m]
      BY DEF SettersOK
    <3>1. CASE m = k
      BY <1>2, <1>3, <1>4, <1>5, <3>1 DEF Turned
    <3>2. CASE m # k
      BY <1>1, <1>2, <1>3, <1>4, <3>2 DEF Turned, SavingOK, SettersOK
    <3> QED
      BY <3>1, <3>2
  <2>2. SavedOK'
    <3> SUFFICES ASSUME NEW m \in Knobs, m \notin excused'.raced, m \notin excused'.apart,
                        saved'[m] # setting'[m]
                 PROVE  \E b \in Actors : act'[b].kind = "set" /\ act'[b].cfg[m] # None
      BY DEF SavedOK
    <3>1. CASE m = k
      BY <1>2, <3>1
    <3>2. CASE m # k
      <4>1. PICK b \in Actors : act[b].kind = "set" /\ act[b].cfg[m] # None
        BY <1>3, <1>4, <3>2 DEF SavingOK, SavedOK
      <4> QED
        BY <1>1, <1>2, <4>1 DEF Turned
    <3> QED
      BY <3>1, <3>2
  <2> QED
    BY <2>1, <2>2 DEF SavingOK
<1>17. IdsOK'
  BY <1>1, <1>2, <1>3, <1>4, NoneIsNo DEF IdsOK, Makes, Closes, Turned
<1>18. MapOK'
  <2>1. \A b \in Actors : /\ At(b, "clear") => At(b, "clear")'
                          /\ (b \in Creators)' <=> b \in Creators
                          /\ Closes(b)' <=> Closes(b)
                          /\ b \in Creators \/ Closes(b) => act'[b].id = act[b].id
                          /\ Closes(b) /\ (At(b, "post") \/ At(b, "wait"))' => act'[b] = act[b]
    BY <1>1, <1>2, NoneIsNo DEF Creators, Closes, Turned
  <2> QED
    BY <1>1, <1>2, <1>3, <1>4, <1>5, <1>6, <1>7, <2>1, MapStays
<1>19. ApprovalsOK'
  BY <1>1, <1>2, <1>3 DEF ApprovalsOK, Waiting, Carried, Turned
<1> QED
  BY <1>8, <1>9, <1>10, <1>11, <1>12, <1>13, <1>14, <1>15, <1>16, <1>17, <1>18, <1>19

(* The end of the sidecar, and its restart. *)
LEMMA AskToCloseKeeps ==
  ASSUME IInv, NEW a \in Actors, AskToClose(a)
  PROVE  IInv'
<1>1. /\ Turned(a) /\ SameWork(a) /\ act[a].pc = "closing" /\ act'[a].pc = "ending"
      /\ act[a].kind # "set" /\ act[a].method = None /\ act[a].took = {} /\ act'[a].took = {}
      /\ act'[a].kind # "set" /\ act'[a].method = None
  BY AskToCloseDoes, ACall, NoneIsNo DEF AskToClose, CarriesRight, Calling, SameWork, Closers
<1>2. /\ UNCHANGED <<setting, saved, proc, sidecar, sessions, pending, loose, drawn, granted, excused>>
      /\ lock = None /\ lock' = a /\ Cached' = Cached
  BY DEF AskToClose, Cached
<1>3. /\ Unborn' = Unborn /\ \A p : Alive(p)' <=> Alive(p)
      /\ \A id : OpenHere(id)' <=> OpenHere(id)
  BY <1>2 DEF Unborn, Alive, OpenHere
<1>4. \A b \in Actors : act[b].pc \notin {"reading", "health", "clear", "ending"}
  BY <1>2, NoneAssumption DEF LockOK
<1>5. TypeOK'
  BY <1>1, <1>2, <1>3, <1>4 DEF TypeOK
<1>6. CallsOK'
  BY <1>1, <1>2, <1>3, <1>4, NoneAssumption DEF CallsOK, Turned
<1>7. LockOK'
  BY <1>1, <1>2, <1>3, <1>4, NoneAssumption DEF LockOK, Turned
<1>8. NumbersOK'
  BY <1>3 DEF NumbersOK
<1>9. ProcsOK'
  BY <1>1, <1>2, <1>3, <1>4 DEF ProcsOK, Turned
<1>10. PortsOK'
  BY <1>1, <1>2, <1>3, <1>4, PortsStay DEF Turned
<1>11. ServingOK' /\ StartingOK'
  BY <1>1, <1>2, <1>3, <1>4, SettingsStay DEF Turned
<1>12. SavingOK'
  BY <1>1, <1>2, <1>3, <1>4 DEF SavingOK, SettersOK, SavedOK, Turned
<1>13. IdsOK'
  BY <1>1, <1>2, NoneIsNo DEF IdsOK, Makes, Closes, Turned
<1>14. MapOK'
  <2>1. \A b \in Actors : /\ At(b, "clear") => At(b, "clear")'
                          /\ (b \in Creators)' <=> b \in Creators
                          /\ Closes(b)' <=> Closes(b)
                          /\ b \in Creators \/ Closes(b) => act'[b].id = act[b].id
                          /\ Closes(b) /\ (At(b, "post") \/ At(b, "wait"))' => act'[b] = act[b]
    BY <1>1, NoneIsNo DEF Creators, Closes, Turned
  <2> QED
    BY <1>2, <1>3, <2>1, MapStays
<1>15. ApprovalsOK'
  BY <1>1, <1>2 DEF ApprovalsOK, Waiting, Carried, Turned
<1> QED
  BY <1>5, <1>6, <1>7, <1>8, <1>9, <1>10, <1>11, <1>12, <1>13, <1>14, <1>15

LEMMA CloseContextKeeps ==
  ASSUME IInv, NEW a \in Actors, CloseContext(a)
  PROVE  IInv'
<1>1. /\ UNCHANGED <<setting, saved, sidecar, lock, sessions, pending, act, loose, drawn, granted>>
      /\ Alive(sidecar) /\ sidecar \in Procs /\ Cached' = Cached
  BY DEF CloseContext, Cached, TypeOK, Alive
<1>2. PICK id \in proc[sidecar].open :
        proc' = [proc EXCEPT ![sidecar].open = @ \ {id}] /\ Excuse("cutoff", {id})
  BY DEF CloseContext
<1>3. /\ excused' \in Excuses /\ excused'.cutoff = excused.cutoff \union {id}
      /\ excused'.stray = excused.stray /\ excused'.leaked = excused.leaked
      /\ excused'.raced = excused.raced /\ excused'.apart = excused.apart
  BY <1>1, <1>2 DEF Excuse, TypeOK, Excuses
<1>4. /\ proc' \in [Procs -> Processes]
      /\ \A q \in Procs : proc'[q].cfg = proc[q].cfg /\ proc'[q].state = proc[q].state
      /\ \A q \in Procs \ {sidecar} : proc'[q] = proc[q]
      /\ proc'[sidecar].open = proc[sidecar].open \ {id}
  BY <1>1, <1>2 DEF TypeOK, Processes
<1>5. Unborn' = Unborn /\ \A q \in Procs : Alive(q)' <=> Alive(q)
  BY <1>4, NoneAssumption DEF Unborn, Alive
<1>6. Alive(sidecar)'
  BY <1>1, <1>5 DEF Alive
<1>7. \A b \in Actors : act[b].pc \in {"post", "wait"} => act[b].port \in Procs
  BY ACall DEF CarriesRight
<1>8. TypeOK' /\ CallsOK' /\ LockOK' /\ NumbersOK'
  <2>1. TypeOK'
    BY <1>1, <1>3, <1>4 DEF TypeOK, Processes
  <2>2. CallsOK'
    BY <1>1 DEF CallsOK
  <2>3. LockOK' /\ NumbersOK'
    BY <1>1, <1>5 DEF LockOK, NumbersOK
  <2> QED
    BY <2>1, <2>2, <2>3
<1>9. ProcsOK'
  BY <1>1, <1>3, <1>4, <1>5 DEF ProcsOK
<1>10. PortsOK'
  BY <1>1, <1>5, <1>7, PortsStay DEF TypeOK
<1>11. ServingOK' /\ StartingOK'
  BY <1>1, <1>4, <1>5, SettingsStay
<1>12. SavingOK'
  BY <1>1, <1>3 DEF SavingOK, SettersOK, SavedOK
<1>13. IdsOK'
  BY <1>1, <1>3 DEF IdsOK, Makes, Closes
<1>14. MapOK'
  <2>1. \A i : OpenHere(i) => OpenHere(i)' \/ i \in excused'.cutoff
    BY <1>1, <1>3, <1>4, <1>6 DEF OpenHere
  <2>2. \A i : OpenHere(i)' => OpenHere(i)
    BY <1>1, <1>4 DEF OpenHere
  <2> QED
    BY <1>1, <1>3, <1>5, <2>1, <2>2, MapStays, StandStill
<1>15. ApprovalsOK'
  BY <1>1 DEF ApprovalsOK, Waiting, Carried
<1> QED
  BY <1>8, <1>9, <1>10, <1>11, <1>12, <1>13, <1>14, <1>15

LEMMA EndSidecarKeeps ==
  ASSUME IInv, NEW a \in Actors, EndSidecar(a)
  PROVE  IInv'
<1>1. /\ Turned(a) /\ Free(a) /\ act[a].pc = "ending" /\ act[a].kind # "set"
      /\ act[a].method = None /\ act[a].took = {}
  BY RestFrees, ACall, NoneIsNo DEF EndSidecar, CarriesRight, Calling, Closers
<1>2. /\ UNCHANGED <<setting, saved, sessions, pending, loose, drawn, granted>>
      /\ lock' = None /\ sidecar' = None /\ Cached' = Cached
  BY DEF EndSidecar, Cached
<1>3. /\ proc' \in [Procs -> Processes]
      /\ \A p \in Procs : proc'[p].cfg = proc[p].cfg
      /\ \A p \in Procs : Alive(p) /\ p = sidecar => proc'[p].state = "dead" /\ proc'[p].open = {}
      /\ \A p \in Procs : ~(Alive(p) /\ p = sidecar) => proc'[p] = proc[p]
  BY DiesDoes DEF EndSidecar
<1>4. /\ Unborn' = Unborn /\ \A p \in Procs : Alive(p)' <=> Alive(p) /\ p # sidecar
      /\ ~Alive(sidecar)' /\ \A id : ~OpenHere(id)'
  BY <1>2, <1>3, NoneAssumption DEF Unborn, Alive, OpenHere
<1>5. /\ act'[a].pc \notin {"reading", "health", "clear", "ending", "post", "wait", "pend", "insert"}
      /\ act'[a].kind # "set"
      /\ act'[a].method = None /\ act'[a].took = {}
  BY <1>1 DEF Free
<1>6. /\ excused' \in Excuses
      /\ excused'.stray = excused.stray /\ excused'.leaked = excused.leaked
      /\ excused'.raced = excused.raced /\ excused'.apart = excused.apart /\ excused.cutoff \subseteq excused'.cutoff
      /\ \A id : OpenHere(id) => id \in excused'.cutoff
  BY DEF EndSidecar, Excuse, Excuses, TypeOK, OpenHere, Alive, Processes
<1>7. /\ lock = a
      /\ \A b \in Actors \ {a} : act[b].pc \notin {"reading", "health", "clear", "ending"}
  BY <1>1, NoneAssumption DEF LockOK
<1>8. TypeOK'
  BY <1>1, <1>2, <1>3, <1>4, <1>5, <1>6, <1>7 DEF TypeOK, Processes
<1>9. CallsOK'
  BY <1>1, <1>2, <1>3, <1>4, <1>5, <1>6, <1>7, NoneAssumption DEF CallsOK, Turned
<1>10. LockOK'
  BY <1>1, <1>2, <1>3, <1>4, <1>5, <1>6, <1>7, NoneAssumption DEF LockOK, Turned
<1>11. NumbersOK'
  BY <1>4 DEF NumbersOK
<1>12. ProcsOK'
  <2>1. (\A p \in Procs : p # sidecar \/ ~Alive(p) => proc[p].open = {})'
    BY <1>1, <1>2, <1>3, <1>4, <1>5, <1>6, <1>7 DEF ProcsOK
  <2>2. (sidecar # None => sidecar \notin Unborn)'
    BY <1>1, <1>2, <1>3, <1>4, <1>5, <1>6, <1>7 DEF ProcsOK
  <2>3. (\A p \in Procs : Alive(p) =>
           \/ p = sidecar \/ p \in excused.stray
           \/ lock # None /\ At(lock, "health") /\ act[lock].port = p)'
    BY <1>1, <1>2, <1>3, <1>4, <1>5, <1>6, <1>7 DEF ProcsOK, LockOK
  <2>4. (\A b \in Actors : At(b, "health") => act[b].port \notin Unborn)'
    BY <1>1, <1>2, <1>3, <1>4, <1>5, <1>6, <1>7 DEF ProcsOK, LockOK, Turned
  <2> QED
    BY <2>1, <2>2, <2>3, <2>4 DEF ProcsOK
<1>13. PortsOK'
  BY <1>1, <1>2, <1>3, <1>4, <1>5, <1>6, <1>7, PortsStay DEF Turned
<1>14. ServingOK'
  BY <1>4 DEF ServingOK
<1>15. StartingOK'
  BY <1>1, <1>5, <1>7 DEF StartingOK, Turned
<1>16. SavingOK'
  BY <1>1, <1>2, <1>3, <1>4, <1>5, <1>6, <1>7 DEF SavingOK, SettersOK, SavedOK, Turned
<1>17. IdsOK'
  BY <1>1, <1>2, <1>5, <1>6, NoneIsNo DEF IdsOK, Makes, Closes, Turned
<1>18. MapOK'
  <2>1. \A b \in Actors : /\ At(b, "clear") => At(b, "clear")'
                          /\ (b \in Creators)' <=> b \in Creators
                          /\ Closes(b)' <=> Closes(b)
                          /\ b \in Creators \/ Closes(b) => act'[b].id = act[b].id
                          /\ Closes(b) /\ (At(b, "post") \/ At(b, "wait"))' => act'[b] = act[b]
    BY <1>1, <1>5, NoneIsNo DEF Creators, Closes, Turned
  <2> QED
    BY <1>1, <1>2, <1>3, <1>4, <1>5, <1>6, <1>7, <2>1, MapStays
<1>19. ApprovalsOK'
  BY <1>1, <1>2, <1>5 DEF ApprovalsOK, Waiting, Carried, Turned
<1> QED
  BY <1>8, <1>9, <1>10, <1>11, <1>12, <1>13, <1>14, <1>15, <1>16, <1>17, <1>18, <1>19

LEMMA KillSidecarKeeps ==
  ASSUME IInv, NEW a \in Actors, KillSidecar(a)
  PROVE  IInv'
<1>1. /\ Turned(a) /\ SameWork(a) /\ act[a].pc = "kill" /\ act'[a].pc = "clear"
      /\ act[a].kind = "set" /\ act[a].method = None /\ act[a].took = {} /\ act'[a].took = {}
  BY KillSidecarDoes, ACall, NoneIsNo DEF KillSidecar, CarriesRight, Calling, SameWork
<1>2. /\ UNCHANGED <<setting, saved, sessions, pending, loose, drawn, granted>>
      /\ lock = None /\ lock' = a /\ sidecar' = None /\ Cached' = Cached
  BY DEF KillSidecar, Cached
<1>3. /\ proc' \in [Procs -> Processes]
      /\ \A p \in Procs : proc'[p].cfg = proc[p].cfg
      /\ \A p \in Procs : Alive(p) /\ p = sidecar => proc'[p].state = "dead" /\ proc'[p].open = {}
      /\ \A p \in Procs : ~(Alive(p) /\ p = sidecar) => proc'[p] = proc[p]
  BY DiesDoes DEF KillSidecar
<1>4. /\ Unborn' = Unborn /\ \A p \in Procs : Alive(p)' <=> Alive(p) /\ p # sidecar
      /\ ~Alive(sidecar)' /\ \A id : ~OpenHere(id)'
  BY <1>2, <1>3, NoneAssumption DEF Unborn, Alive, OpenHere
<1>5. act'[a].pc \notin {"reading", "health", "post", "wait", "pend", "insert"}
      /\ act'[a].kind = "set" /\ act'[a].method = None /\ act'[a].cfg = act[a].cfg
  BY <1>1 DEF SameWork
<1>6. \A b \in Creators : act[b].id \in Ids
  BY ACall, NoneIsNo DEF Creators, CarriesRight, Calling
<1>7. /\ excused' \in Excuses
      /\ excused'.stray = excused.stray /\ excused'.leaked = excused.leaked
      /\ excused'.raced = excused.raced /\ excused'.apart = excused.apart /\ excused.cutoff \subseteq excused'.cutoff
      /\ \A b \in Creators : act[b].id \in excused'.cutoff
  BY <1>6, CutOffDoes DEF KillSidecar
<1>8. \A b \in Actors : act[b].pc \notin {"reading", "health", "clear", "ending"}
  BY <1>2, NoneAssumption DEF LockOK
<1>9. TypeOK'
  BY <1>1, <1>2, <1>3, <1>4, <1>5, <1>6, <1>7, <1>8 DEF TypeOK, Processes
<1>10. CallsOK'
  BY <1>1, <1>2, <1>3, <1>4, <1>5, <1>6, <1>7, <1>8, NoneAssumption DEF CallsOK, Turned
<1>11. LockOK'
  BY <1>1, <1>2, <1>3, <1>4, <1>5, <1>6, <1>7, <1>8, NoneAssumption DEF LockOK, Turned
<1>12. NumbersOK'
  BY <1>4 DEF NumbersOK
<1>13. ProcsOK'
  <2>1. (\A p \in Procs : p # sidecar \/ ~Alive(p) => proc[p].open = {})'
    BY <1>1, <1>2, <1>3, <1>4, <1>5, <1>6, <1>7, <1>8 DEF ProcsOK
  <2>2. (sidecar # None => sidecar \notin Unborn)'
    BY <1>1, <1>2, <1>3, <1>4, <1>5, <1>6, <1>7, <1>8 DEF ProcsOK
  <2>3. (\A p \in Procs : Alive(p) =>
           \/ p = sidecar \/ p \in excused.stray
           \/ lock # None /\ At(lock, "health") /\ act[lock].port = p)'
    BY <1>1, <1>2, <1>3, <1>4, <1>5, <1>6, <1>7, <1>8 DEF ProcsOK, LockOK
  <2>4. (\A b \in Actors : At(b, "health") => act[b].port \notin Unborn)'
    BY <1>1, <1>2, <1>3, <1>4, <1>5, <1>6, <1>7, <1>8 DEF ProcsOK, LockOK, Turned
  <2> QED
    BY <2>1, <2>2, <2>3, <2>4 DEF ProcsOK
<1>14. PortsOK'
  BY <1>1, <1>2, <1>3, <1>4, <1>5, <1>6, <1>7, <1>8, PortsStay DEF Turned
<1>15. ServingOK'
  BY <1>4 DEF ServingOK
<1>16. StartingOK'
  BY <1>1, <1>5, <1>8 DEF StartingOK, Turned
<1>17. SavingOK'
  BY <1>1, <1>2, <1>5, <1>7 DEF SavingOK, SettersOK, SavedOK, Turned
<1>18. IdsOK'
  BY <1>1, <1>2, <1>5, <1>7, NoneIsNo DEF IdsOK, Makes, Closes, Turned
<1>19. MapOK'
  <2>1. At(a, "clear")'
    BY <1>1
  <2>2. (\A b \in Creators : act[b].id \in excused.cutoff)'
    BY <1>1, <1>7 DEF Creators, Turned
  <2> QED
    BY <1>4, <2>1, <2>2 DEF MapOK
<1>20. ApprovalsOK'
  BY <1>1, <1>2, <1>5 DEF ApprovalsOK, Waiting, Carried, Turned
<1> QED
  BY <1>9, <1>10, <1>11, <1>12, <1>13, <1>14, <1>15, <1>16, <1>17, <1>18, <1>19, <1>20

LEMMA PersistDoes ==
  ASSUME TypeOK, CallsOK, NEW a \in Actors, NEW ok \in BOOLEAN, Persist(a, ok)
  PROVE  /\ saved' \in [Knobs -> Values]
         /\ \A k \in Knobs : saved'[k] = IF ok /\ act[a].cfg[k] # None THEN act[a].cfg[k] ELSE saved[k]
         /\ excused' \in Excuses
         /\ excused'.stray = excused.stray /\ excused'.leaked = excused.leaked
         /\ excused'.cutoff = excused.cutoff /\ excused'.raced = excused.raced
         /\ \A k \in Knobs : k \in excused'.apart <=>
              IF act[a].cfg[k] # None THEN ~ok ELSE k \in excused.apart
<1> DEFINE mine == {k \in Knobs : act[a].cfg[k] # None}
<1>1. /\ saved' = [k \in Knobs |-> IF ok /\ k \in mine THEN act[a].cfg[k] ELSE saved[k]]
      /\ excused' = [excused EXCEPT !.apart = IF ok THEN excused.apart \ mine ELSE excused.apart \union mine]
      /\ excused \in Excuses /\ saved \in [Knobs -> Values]
  BY DEF Persist, TypeOK, Excuses
<1>2. act[a].cfg \in [Knobs -> Values \union {None}]
  BY ACall DEF Calls
<1>3. mine \subseteq Knobs /\ \A k \in Knobs : k \in mine <=> act[a].cfg[k] # None
  OBVIOUS
<1> HIDE DEF mine
<1>4. saved' \in [Knobs -> Values]
  BY <1>1, <1>2, <1>3
<1>5. \A k \in Knobs : saved'[k] = IF ok /\ act[a].cfg[k] # None THEN act[a].cfg[k] ELSE saved[k]
  BY <1>1, <1>3
<1>6. /\ excused' \in Excuses
      /\ excused'.apart = IF ok THEN excused.apart \ mine ELSE excused.apart \union mine
      /\ excused'.stray = excused.stray /\ excused'.leaked = excused.leaked
      /\ excused'.cutoff = excused.cutoff /\ excused'.raced = excused.raced
  BY <1>1, <1>3 DEF Excuses
<1> QED
  BY <1>3, <1>4, <1>5, <1>6

LEMMA ClearSessionsKeeps ==
  ASSUME IInv, NEW a \in Actors, NEW ok \in BOOLEAN, ClearSessions(a, ok)
  PROVE  IInv'
<1>1. /\ Turned(a) /\ Free(a) /\ act[a].pc = "clear" /\ act[a].kind = "set" /\ act[a].method = None
      /\ act[a].took = {}
  BY RestFrees, ACall, NoneIsNo DEF ClearSessions, CarriesRight, Calling
<1>2. /\ UNCHANGED <<setting, proc, sidecar, pending, loose, drawn>>
      /\ lock' = None /\ Cached' = {} /\ sessions' \in [Conversations -> Sessions \union {None}]
  BY DEF ClearSessions, Cached
<1>3. /\ saved' \in [Knobs -> Values]
      /\ \A k \in Knobs : saved'[k] = IF ok /\ act[a].cfg[k] # None THEN act[a].cfg[k] ELSE saved[k]
      /\ excused' \in Excuses
      /\ excused'.stray = excused.stray /\ excused'.leaked = excused.leaked
      /\ excused'.cutoff = excused.cutoff /\ excused'.raced = excused.raced
      /\ \A k \in Knobs : k \in excused'.apart <=>
           IF act[a].cfg[k] # None THEN ~ok ELSE k \in excused.apart
  BY ACall, PersistDoes DEF ClearSessions
<1>4. /\ granted' \in [Conversations -> SUBSET Domains]
      /\ \A c \in Conversations : granted'[c] \subseteq granted[c]
      /\ \A c \in Cached : granted'[c] = granted[c] \ sessions[c].approved
  BY DEF ClearSessions, TypeOK, Cached
<1>5. /\ act'[a].pc \notin {"reading", "health", "clear", "ending", "post", "wait", "pend", "insert"}
      /\ act'[a].kind # "set"
      /\ act'[a].method = None /\ act'[a].took = {} /\ \A k \in Knobs : act'[a].cfg[k] = None
  BY <1>1 DEF Free
<1>6. /\ Unborn' = Unborn /\ \A p : Alive(p)' <=> Alive(p)
      /\ \A id : OpenHere(id)' <=> OpenHere(id)
  BY <1>2 DEF Unborn, Alive, OpenHere
<1>7. /\ lock = a /\ sidecar = None /\ ~Alive(sidecar) /\ ~Alive(sidecar)'
      /\ \A b \in Actors \ {a} : act[b].pc \notin {"reading", "health", "clear", "ending"}
  BY <1>1, <1>2, NoneAssumption DEF LockOK, Alive
<1>8. TypeOK'
  BY <1>1, <1>2, <1>3, <1>4, <1>5, <1>6, <1>7 DEF TypeOK, Sessions
<1>9. CallsOK'
  BY <1>1, <1>2, <1>3, <1>4, <1>5, <1>6, <1>7, NoneAssumption DEF CallsOK, Turned
<1>10. LockOK'
  BY <1>1, <1>2, <1>3, <1>4, <1>5, <1>6, <1>7, NoneAssumption DEF LockOK, Turned
<1>11. NumbersOK'
  BY <1>6 DEF NumbersOK
<1>12. ProcsOK'
  BY <1>1, <1>2, <1>3, <1>4, <1>5, <1>6, <1>7 DEF ProcsOK, Turned
<1>13. PortsOK'
  BY <1>1, <1>2, <1>3, <1>4, <1>5, <1>6, <1>7, PortsStay DEF Turned
<1>14. ServingOK'
  BY <1>7 DEF ServingOK
<1>15. StartingOK'
  BY <1>1, <1>5, <1>7 DEF StartingOK, Turned
<1>16. SavingOK'
  <2>1. \A b \in Actors : act'[b].kind = "set" => b # a /\ act'[b] = act[b]
    BY <1>1, <1>5 DEF Turned
  <2>2. \A b \in Actors \ {a} : act'[b] = act[b]
    BY <1>1 DEF Turned
  <2>3. SettersOK'
    BY <1>2, <1>3, <2>1 DEF SettersOK, SavingOK
  <2>4. SavedOK'
    <3> SUFFICES ASSUME NEW k \in Knobs, k \notin excused'.raced, k \notin excused'.apart,
                        saved'[k] # setting'[k]
                 PROVE  \E b \in Actors : act'[b].kind = "set" /\ act'[b].cfg[k] # None
      BY DEF SavedOK
    <3>1. CASE act[a].cfg[k] # None
      <4>1. ok /\ saved'[k] = act[a].cfg[k]
        BY <1>3, <3>1
      <4>2. act[a].cfg[k] = setting[k]
        BY <1>1, <1>3, <3>1 DEF SavingOK, SettersOK
      <4> QED
        BY <1>2, <4>1, <4>2
    <3>2. CASE act[a].cfg[k] = None
      <4>1. saved'[k] = saved[k] /\ k \notin excused.apart /\ k \notin excused.raced
        BY <1>3, <3>2
      <4>2. PICK b \in Actors : act[b].kind = "set" /\ act[b].cfg[k] # None
        BY <1>2, <4>1 DEF SavingOK, SavedOK
      <4>3. act'[b] = act[b]
        BY <2>2, <3>2, <4>2
      <4> QED
        BY <4>2, <4>3
    <3> QED
      BY <3>1, <3>2
  <2> QED
    BY <2>3, <2>4 DEF SavingOK
<1>17. IdsOK'
  BY <1>1, <1>2, <1>3, <1>5, NoneIsNo DEF IdsOK, Makes, Closes, Turned
<1>18. MapOK'
  <2>1. (\A b \in Creators : act[b].id \in excused.cutoff \/ OpenHere(act[b].id))'
    <3> SUFFICES ASSUME NEW b \in Actors \ {a}, b \in Creators, act'[b] = act[b]
                 PROVE  (act[b].id \in excused.cutoff \/ OpenHere(act[b].id))'
      BY <1>1, <1>5 DEF Creators, Turned
    <3>1. \A id : id = act[b].id => id \in excused.cutoff \/ OpenHere(id)'
      BY <1>6 DEF MapOK
    <3> QED
      BY <1>2, <1>3, <3>1 DEF OpenHere
  <2>2. \A id : ~OpenHere(id)'
    BY <1>7 DEF OpenHere
  <2> QED
    BY <1>2, <1>3, <1>7, <2>1, <2>2 DEF MapOK
<1>19. ApprovalsOK'
  <2> SUFFICES ASSUME NEW c \in Conversations, NEW d \in granted'[c]
               PROVE  Waiting(c, d)' \/ Carried(c, d)'
    BY DEF ApprovalsOK
  <2>1. d \in granted[c] /\ (c \in Cached => d \notin sessions[c].approved)
    BY <1>4
  <2>2. CASE Carried(c, d)
    BY <1>1, <2>2 DEF Carried, Turned
  <2>3. CASE Waiting(c, d)
    BY <1>1, <1>2, <1>5, <2>3 DEF Waiting, Turned
  <2> QED
    BY <2>1, <2>2, <2>3 DEF ApprovalsOK
<1> QED
  BY <1>8, <1>9, <1>10, <1>11, <1>12, <1>13, <1>14, <1>15, <1>16, <1>17, <1>18, <1>19

LEMMA PatchKeeps ==
  ASSUME IInv, NEW k \in Knobs, NEW v \in Values, Patch(k, v)
  PROVE  IInv'
<1>1. /\ UNCHANGED <<setting, proc, sidecar, lock, sessions, pending, act, loose, drawn, granted>>
      /\ saved' \in [Knobs -> Values] /\ \A m \in Knobs \ {k} : saved'[m] = saved[m]
      /\ excused' = [excused EXCEPT !.apart = excused.apart \union {k}] /\ excused \in Excuses
  BY DEF Patch, Excuse, TypeOK
<1>2. /\ excused' \in Excuses /\ excused'.apart = excused.apart \union {k}
      /\ excused'.stray = excused.stray /\ excused'.leaked = excused.leaked
      /\ excused'.cutoff = excused.cutoff /\ excused'.raced = excused.raced
  BY <1>1 DEF Excuses
<1>3. Unborn' = Unborn /\ Cached' = Cached /\ \A p : Alive(p)' <=> Alive(p)
  BY <1>1 DEF Unborn, Cached, Alive
<1>4. TypeOK' /\ CallsOK' /\ LockOK' /\ NumbersOK'
  BY <1>1, <1>2, <1>3 DEF TypeOK, CallsOK, LockOK, NumbersOK
<1>5. ProcsOK'
  BY <1>1, <1>2, <1>3 DEF ProcsOK
<1>6. PortsOK'
  BY <1>1, <1>3, PortsStay
<1>7. ServingOK' /\ StartingOK'
  BY <1>1, <1>3, SettingsStay
<1>8. SavingOK'
  BY <1>1, <1>2 DEF SavingOK, SettersOK, SavedOK
<1>9. IdsOK'
  BY <1>1, <1>2, <1>3 DEF IdsOK, Makes, Closes
<1>10. MapOK'
  <2>1. \A id : OpenHere(id)' <=> OpenHere(id)
    BY <1>1 DEF OpenHere, Alive
  <2> QED
    BY <1>1, <1>2, <1>3, <2>1, StandStill, MapStays
<1>11. ApprovalsOK'
  BY <1>1, <1>3 DEF ApprovalsOK, Waiting, Carried
<1> QED
  BY <1>4, <1>5, <1>6, <1>7, <1>8, <1>9, <1>10, <1>11

(* Calls are dropped where they stand. *)
LEMMA DroppedDoes ==
  ASSUME TypeOK, CallsOK, NEW S \in SUBSET Actors, Dropped(S)
  PROVE  /\ loose' \subseteq [method : {"create", "do", "close"}, port : Procs, id : Ids]
         /\ \A r \in loose' : r \in loose \/ \E b \in S : /\ At(b, "wait") /\ r.method = act[b].method
                                                          /\ r.port = act[b].port
                                                          /\ r.id = act[b].id
         /\ lock' = IF lock \in S THEN None ELSE lock
         /\ granted' \in [Conversations -> SUBSET Domains]
         /\ \A c \in Conversations : \A d \in granted'[c] :
              /\ d \in granted[c]
              /\ \A b \in S : At(b, "insert") /\ act[b].conv = c => d \notin act[b].took
         /\ excused' \in Excuses
         /\ excused'.cutoff = excused.cutoff /\ excused'.raced = excused.raced /\ excused'.apart = excused.apart
         /\ excused.stray \subseteq excused'.stray /\ excused.leaked \subseteq excused'.leaked
         /\ \A b \in S : lock = b /\ At(b, "health") => act[b].port \in excused'.stray
         /\ \A b \in S : Makes(b) \/ Closes(b) => act[b].id \in excused'.leaked
<1> DEFINE sent   == {a \in S : At(a, "wait")}
           holds  == {a \in S : lock = a}
           losing == {a \in S : At(a, "insert")}
           more   == {[method |-> act[a].method, port |-> act[a].port, id |-> act[a].id] : a \in sent}
           lost   == {act[a].port : a \in {b \in holds : At(b, "health")}}
           leak   == {act[a].id : a \in {b \in S : act[b].method \in {"create", "close"}}}
<1>1. /\ loose' = loose \union more
      /\ lock' = IF holds = {} THEN lock ELSE None
      /\ granted' = [c \in Conversations |->
                       granted[c] \ UNION {act[a].took : a \in {b \in losing : act[b].conv = c}}]
      /\ excused' = [excused EXCEPT !.stray = @ \union lost, !.leaked = @ \union leak]
  BY DEF Dropped
<1>2. \A b \in Actors : /\ At(b, "wait") => /\ act[b].method \in {"create", "do", "close"}
                                            /\ act[b].port \in Procs /\ act[b].id \in Ids
                        /\ At(b, "health") => act[b].port \in Procs
                        /\ Makes(b) \/ Closes(b) => act[b].id \in Ids
  BY ACall, NoneIsNo DEF CarriesRight, Calling, Calls, Makes, Closes
<1>3. \A r \in more : /\ r \in [method : {"create", "do", "close"}, port : Procs, id : Ids]
                      /\ \E b \in S : /\ At(b, "wait") /\ r.method = act[b].method
                                      /\ r.port = act[b].port /\ r.id = act[b].id
  BY <1>2
<1>4. lost \subseteq Procs /\ leak \subseteq Ids
  BY <1>2 DEF Makes, Closes
<1>5. /\ \A b \in S : lock = b /\ At(b, "health") => act[b].port \in lost
      /\ \A b \in S : Makes(b) \/ Closes(b) => act[b].id \in leak
  BY DEF Makes, Closes
<1>6. holds = {} <=> lock \notin S
  OBVIOUS
<1>7. /\ granted' \in [Conversations -> SUBSET Domains]
      /\ \A c \in Conversations : \A d \in granted'[c] :
           /\ d \in granted[c]
           /\ \A b \in S : At(b, "insert") /\ act[b].conv = c => d \notin act[b].took
  BY <1>1 DEF TypeOK
<1> HIDE DEF sent, holds, losing, more, lost, leak
<1>8. /\ loose' \subseteq [method : {"create", "do", "close"}, port : Procs, id : Ids]
      /\ \A r \in loose' : r \in loose \/ \E b \in S : /\ At(b, "wait") /\ r.method = act[b].method
                                                       /\ r.port = act[b].port /\ r.id = act[b].id
  BY <1>1, <1>3 DEF TypeOK
<1>9. /\ excused' \in Excuses
      /\ excused'.cutoff = excused.cutoff /\ excused'.raced = excused.raced /\ excused'.apart = excused.apart
      /\ excused'.stray = excused.stray \union lost /\ excused'.leaked = excused.leaked \union leak
  BY <1>1, <1>4 DEF TypeOK, Excuses
<1> QED
  BY <1>1, <1>5, <1>6, <1>7, <1>8, <1>9

(* R are the calls that change: the dropped ones and one that starts. *)
LEMMA DroppedKeeps ==
  ASSUME IInv, NEW R \in SUBSET Actors, NEW S \in SUBSET R, Dropped(S),
         UNCHANGED <<setting, saved, proc, sidecar, sessions, pending, drawn>>,
         act' \in [Actors -> Calls],
         \A b \in R : CarriesRight(act'[b]) /\ Free(b),
         \A b \in Actors \ R : act'[b] = act[b],
         \A b \in R \ S : act[b].pc = "rest",
         \A b \in S : act[b].kind # "set"
  PROVE  IInv'
<1>1. /\ Unborn' = Unborn /\ Cached' = Cached
      /\ \A p : Alive(p)' <=> Alive(p)
      /\ \A id : OpenHere(id)' <=> OpenHere(id)
  BY DEF Unborn, Cached, Alive, OpenHere
<1>2. \A b \in R : /\ act'[b].pc \notin {"reading", "health", "clear", "ending", "post", "wait", "pend", "insert"}
                   /\ act'[b].kind # "set" /\ act'[b].method = None /\ act'[b].took = {}
  BY DEF Free
<1>3. \A b \in R : act[b].kind # "set" /\ act[b].pc \notin {"kill", "clear"}
  BY ACall, NoneIsNo DEF CarriesRight
<1>4. \A b \in R \ S : act[b].method = None /\ lock # b
  BY ACall DEF CarriesRight, Calling, LockOK
<1>5. S \in SUBSET Actors
  OBVIOUS
<1>6. /\ loose' \subseteq [method : {"create", "do", "close"}, port : Procs, id : Ids]
      /\ \A r \in loose' : r \in loose \/ \E b \in S : /\ At(b, "wait") /\ r.method = act[b].method
                                                       /\ r.port = act[b].port /\ r.id = act[b].id
  BY <1>5, DroppedDoes
<1>7. lock' = IF lock \in S THEN None ELSE lock
  BY <1>5, DroppedDoes
<1>8. /\ granted' \in [Conversations -> SUBSET Domains]
      /\ \A c \in Conversations : \A d \in granted'[c] :
           /\ d \in granted[c]
           /\ \A b \in S : At(b, "insert") /\ act[b].conv = c => d \notin act[b].took
  BY <1>5, DroppedDoes
<1>9. /\ excused' \in Excuses
      /\ excused'.cutoff = excused.cutoff /\ excused'.raced = excused.raced /\ excused'.apart = excused.apart
      /\ excused.stray \subseteq excused'.stray /\ excused.leaked \subseteq excused'.leaked
      /\ \A b \in S : lock = b /\ At(b, "health") => act[b].port \in excused'.stray
      /\ \A b \in S : Makes(b) \/ Closes(b) => act[b].id \in excused'.leaked
  BY <1>5, DroppedDoes
<1>10. TypeOK'
  BY <1>6, <1>7, <1>8, <1>9 DEF TypeOK
<1>11. CallsOK'
  BY DEF CallsOK
<1>12. LockOK'
  <2>1. \A b \in R : b \in S \/ lock # b
    BY <1>4
  <2>2. \A b \in Actors : lock' = b <=> lock = b /\ b \notin S
    BY <1>7, NoneAssumption
  <2>3. \A b \in S : b \in R
    OBVIOUS
  <2>4. \A b \in Actors : At(b, "reading")' \/ At(b, "health")' \/ At(b, "clear")' \/ At(b, "ending")'
                          <=> lock' = b
    <3> SUFFICES ASSUME NEW b \in Actors
                 PROVE  act'[b].pc \in {"reading", "health", "clear", "ending"} <=> lock' = b
      OBVIOUS
    <3>1. CASE b \in R
      BY <1>2, <2>1, <2>2, <3>1
    <3>2. CASE b \notin R
      BY <2>2, <2>3, <3>2 DEF LockOK
    <3> QED
      BY <3>1, <3>2
  <2>5. lock' # None => sidecar = None \/ At(lock, "ending")'
    <3> SUFFICES ASSUME lock' # None, sidecar # None
                 PROVE  At(lock, "ending")'
      OBVIOUS
    <3>1. lock' = lock /\ lock \notin S /\ lock \in Actors /\ act[lock].pc = "ending"
      BY <1>7 DEF LockOK, TypeOK
    <3>2. act'[lock] = act[lock]
      BY <2>1, <3>1
    <3> QED
      BY <3>1, <3>2
  <2>6. \A b \in Actors : At(b, "reading")' => Unborn # {}
    BY <1>2 DEF LockOK
  <2> QED
    BY <1>1, <2>4, <2>5, <2>6 DEF LockOK
<1>13. NumbersOK'
  BY <1>1 DEF NumbersOK
<1>14. ProcsOK'
  <2>1. lock # None /\ lock \notin S => lock \in Actors \ R /\ lock' = lock
    BY <1>4, <1>7 DEF TypeOK
  <2>2. (\A p \in Procs : Alive(p) =>
           \/ p = sidecar \/ p \in excused.stray
           \/ lock # None /\ At(lock, "health") /\ act[lock].port = p)'
    BY <1>1, <1>9, <2>1 DEF ProcsOK
  <2>3. (\A b \in Actors : At(b, "health") => act[b].port \notin Unborn)'
    BY <1>1, <1>2 DEF ProcsOK
  <2> QED
    BY <1>1, <2>2, <2>3 DEF ProcsOK
<1>15. PortsOK'
  <2>1. (\A b \in Actors : At(b, "post") \/ At(b, "wait") =>
           act[b].port \notin Unborn /\ (Alive(act[b].port) => act[b].port = sidecar))'
    <3> SUFFICES ASSUME NEW b \in Actors \ R, At(b, "post") \/ At(b, "wait"), act'[b] = act[b]
                 PROVE  (act[b].port \notin Unborn /\ (Alive(act[b].port) => act[b].port = sidecar))'
      BY <1>2
    <3>1. act[b].port \notin Unborn /\ (Alive(act[b].port) => act[b].port = sidecar)
      BY DEF PortsOK
    <3> QED
      BY <1>1, <3>1 DEF Alive
  <2>2. ASSUME NEW r \in loose'
        PROVE  r.port \notin Unborn /\ (Alive(r.port) => r.port = sidecar)
    BY <1>6 DEF PortsOK
  <2> QED
    BY <1>1, <2>1, <2>2 DEF PortsOK
<1>16. ServingOK' /\ StartingOK'
  BY <1>1, <1>2, <1>3, SettingsStay
<1>17. SavingOK'
  BY <1>2, <1>3, <1>9 DEF SavingOK, SettersOK, SavedOK
<1>18. IdsOK'
  <2>1. \A b \in Actors : (Makes(b) \/ Closes(b))' => b \notin R /\ act'[b] = act[b]
    BY <1>2, NoneIsNo DEF Makes, Closes
  <2>2. \A r \in loose' : r.method = "close" =>
          /\ r.id <= drawn
          /\ \A b \in Actors : Makes(b) => act[b].id # r.id
          /\ \A c \in Cached : sessions[c].id # r.id
    BY <1>6 DEF IdsOK, Makes, Closes
  <2>3. \A r \in loose' : r.method = "create" => r.id \in excused'.leaked
    BY <1>6, <1>9 DEF IdsOK, Makes
  <2> QED
    BY <1>1, <2>1, <2>2, <2>3 DEF IdsOK, Makes, Closes
<1>19. MapOK'
  <2>1. \A id : Known(id) => Known(id)'
    <3> SUFFICES ASSUME NEW id, Known(id)
                 PROVE  Known(id)'
      OBVIOUS
    <3>1. CASE (\E c \in Cached : sessions[c].id = id) \/ id \in excused.leaked
      BY <1>1, <1>9, <3>1 DEF Known
    <3>2. CASE \E b \in Actors : act[b].id = id /\ (b \in Creators \/ Closes(b))
      <4>1. PICK b \in Actors : act[b].id = id /\ (b \in Creators \/ Closes(b))
        BY <3>2
      <4>2. CASE b \in S
        <5>1. Makes(b) \/ Closes(b)
          BY <4>1, ACall DEF Creators, CarriesRight, Makes
        <5> QED
          BY <1>9, <4>1, <4>2, <5>1 DEF Known
      <4>3. CASE b \notin S
        <5>1. b \notin R
          BY <1>4, <4>1, <4>3, NoneIsNo DEF Creators, Closes
        <5>2. act'[b].id = id /\ ((b \in Creators)' \/ Closes(b)')
          BY <4>1, <5>1 DEF Creators, Closes
        <5> QED
          BY <5>2 DEF Known
      <4> QED
        BY <4>2, <4>3
    <3> QED
      BY <3>1, <3>2 DEF Known
  <2>2. (Alive(sidecar) => \A id \in proc[sidecar].open : Known(id))'
    BY <1>1, <2>1 DEF MapOK, Known
  <2>3. (\A c \in Cached : sessions[c].id \in excused.cutoff \/ OpenHere(sessions[c].id)
                             \/ \E b \in Actors : At(b, "clear"))'
    <3> SUFFICES ASSUME NEW c \in Cached
                 PROVE  (sessions[c].id \in excused.cutoff \/ OpenHere(sessions[c].id)
                           \/ \E b \in Actors : At(b, "clear"))'
      BY <1>1
    <3>1. \A b \in Actors : At(b, "clear") => At(b, "clear")'
      BY <1>3
    <3>2. \A id : id = sessions[c].id => id \in excused.cutoff \/ OpenHere(id)' \/ \E b \in Actors : At(b, "clear")
      BY <1>1 DEF MapOK
    <3> QED
      BY <1>9, <3>1, <3>2 DEF OpenHere
  <2>4. (\A b \in Creators : act[b].id \in excused.cutoff \/ OpenHere(act[b].id))'
    <3> SUFFICES ASSUME NEW b \in Actors \ R, b \in Creators, act'[b] = act[b]
                 PROVE  (act[b].id \in excused.cutoff \/ OpenHere(act[b].id))'
      BY <1>2 DEF Creators
    <3>1. \A id : id = act[b].id => id \in excused.cutoff \/ OpenHere(id)'
      BY <1>1 DEF MapOK
    <3> QED
      BY <1>9, <3>1 DEF OpenHere
  <2>5. (\A b \in Actors : Closes(b) /\ (At(b, "post") \/ At(b, "wait")) /\ ~Alive(act[b].port)
                             /\ OpenHere(act[b].id) => act[b].id \in excused.leaked)'
    <3> SUFFICES ASSUME NEW b \in Actors, (Closes(b) /\ (At(b, "post") \/ At(b, "wait")))',
                        (~Alive(act[b].port))', OpenHere(act[b].id)'
                 PROVE  act'[b].id \in excused'.leaked
      OBVIOUS
    <3>1. act'[b] = act[b]
      BY <1>2
    <3>2. ~Alive(act[b].port) /\ \A id : id = act[b].id => (OpenHere(id)' => OpenHere(id))
      BY <1>1, <3>1 DEF Alive
    <3> QED
      BY <1>9, <3>1, <3>2 DEF MapOK, OpenHere, Closes
  <2> QED
    BY <2>2, <2>3, <2>4, <2>5 DEF MapOK
<1>20. ApprovalsOK'
  <2> SUFFICES ASSUME NEW c \in Conversations, NEW d \in granted'[c]
               PROVE  (c \in Cached /\ d \in sessions[c].approved)' \/ Waiting(c, d)' \/ Carried(c, d)'
    BY DEF ApprovalsOK
  <2>1. CASE c \in Cached /\ d \in sessions[c].approved
    BY <1>1, <2>1
  <2>2. CASE Waiting(c, d)
    BY <1>1, <1>2, <2>2 DEF Waiting
  <2>3. CASE Carried(c, d)
    <3>1. PICK b \in Actors : At(b, "insert") /\ act[b].conv = c /\ d \in act[b].took
      BY <2>3 DEF Carried
    <3>2. b \notin R
      BY <1>8, <3>1
    <3> QED
      BY <3>1, <3>2 DEF Carried
  <2> QED
    BY <1>8, <2>1, <2>2, <2>3 DEF ApprovalsOK
<1> QED
  BY <1>10, <1>11, <1>12, <1>13, <1>14, <1>15, <1>16, <1>17, <1>18, <1>19, <1>20

LEMMA TimeOutKeeps ==
  ASSUME IInv, NEW a \in Actors, TimeOut(a)
  PROVE  IInv'
<1>1. Turned(a) /\ Free(a)
  BY RestFrees, BackDoes DEF TimeOut, Closers
<1>2. Dropped({a}) /\ act[a].kind # "set"
  BY DEF TimeOut
<1>3. UNCHANGED <<setting, saved, proc, sidecar, sessions, pending, drawn>>
  BY DEF TimeOut
<1> QED
  BY <1>1, <1>2, <1>3, DroppedKeeps DEF Turned

LEMMA ShutdownKeeps ==
  ASSUME IInv, NEW a \in Actors, Shutdown(a)
  PROVE  IInv'
<1> DEFINE idle == {b \in Actors : act[b].kind = "idle"}
           gone == [b \in Actors |-> IF b \in idle THEN Done ELSE act[b]]
           r    == [act[a] EXCEPT !.kind = "shutdown", !.pc = "closing", !.todo = Cached]
<1>1. /\ act' = [gone EXCEPT ![a].kind = "shutdown", ![a].pc = "closing", ![a].todo = Cached]
      /\ Dropped(idle) /\ UNCHANGED <<setting, saved, proc, sidecar, sessions, pending, drawn>>
      /\ act[a].pc = "rest"
  BY DEF Shutdown
<1>2. /\ act[a] \in Calls /\ CarriesRight(act[a]) /\ act[a].kind = None /\ act[a].method = None
      /\ act[a].took = {} /\ \A k \in Knobs : act[a].cfg[k] = None
  BY <1>1, ACall DEF CarriesRight, Calling
<1>3. a \notin idle
  BY <1>2, NoneIsNo
<1>4. r \in Calls
  BY <1>2, PcsAre, KindsAre DEF Calls, Cached
<1>5. /\ r.pc = "closing" /\ r.kind = "shutdown" /\ r.method = None /\ r.took = {}
      /\ r.cfg = act[a].cfg
      /\ r.conv = act[a].conv
  BY <1>2 DEF Calls
<1>6. /\ act'[a] = r
      /\ \A b \in idle : act'[b] = Done
      /\ \A b \in Actors \ (idle \union {a}) : act'[b] = act[b]
      /\ DOMAIN act' = Actors /\ act' = [b \in Actors |-> act'[b]]
  BY <1>1, <1>3
<1> HIDE DEF r
<1>7. CarriesRight(r)
  BY <1>2, <1>5, NoneIsNo DEF CarriesRight, Calling, Closers
<1>8. act' \in [Actors -> Calls]
  BY <1>4, <1>6, ACall, RestingIs
<1>9. \A b \in idle \union {a} : CarriesRight(act'[b]) /\ Free(b)
  BY <1>2, <1>5, <1>6, <1>7, RestingIs, NoneIsNo DEF Free
<1>10. idle \union {a} \in SUBSET Actors /\ idle \in SUBSET (idle \union {a})
  OBVIOUS
<1>11. \A b \in idle : act[b].kind # "set"
  OBVIOUS
<1> HIDE DEF idle
<1> QED
  BY <1>1, <1>6, <1>8, <1>9, <1>10, <1>11, DroppedKeeps

(* A call that is done with what it did, or starts. *)
LEMMA FreeKeeps ==
  ASSUME IInv, NEW a \in Actors, Turned(a), Free(a), UNCHANGED <<core, calls, excused>>,
         act[a].pc \in {"rest", "check", "closing"}
  PROVE  IInv'
<1>1. UNCHANGED <<setting, saved, proc, sidecar, lock, sessions, pending, loose, drawn, granted,
                  excused>>
  BY DEF core, calls
<1>2. ~Closes(a)
  BY ACall, NoneIsNo DEF CarriesRight, Calling, Closes
<1> QED
  BY <1>1, <1>2, CallKeeps

(* Requests are served by the sidecar or by nobody; the steps that change only a call. *)
LEMMA OnlyCalls ==
  ASSUME IInv, NEW a \in Actors,
         \/ FindSidecar(a) \/ Post(a) \/ Broken(a) \/ ServeFails(a) \/ CheckAddress(a)
         \/ ListDone(a) \/ IdleSweep(a)
         \/ \E c \in Conversations :
              \/ CloseTool(a, c) \/ DeleteConversation(a, c)
              \/ \E d \in Domains \union {None} : Command(a, c, d)
         \/ CloseNext(a) /\ Free(a) /\ UNCHANGED <<sessions, granted>>
  PROVE  IInv'
<1>1. CASE FindSidecar(a)
  BY <1>1, FindSidecarDoes, CallKeeps DEF FindSidecar, core, rest
<1>2. CASE Post(a)
  <2>1. Turned(a) /\ act[a].pc = "post" /\ act[a].port \in Procs
    BY <1>2, PostDoes, ACall DEF Post, CarriesRight
  <2>2. CASE SameWork(a) /\ act'[a].pc = "wait" /\ act'[a].port = act[a].port
    BY <1>2, <2>1, <2>2, CallKeeps DEF Post, core, rest
  <2>3. CASE ~Alive(act[a].port) /\ Free(a)
    <3>1. Closes(a) => ~OpenHere(act[a].id) \/ act[a].id \in excused.leaked
      BY <2>1, <2>3 DEF MapOK
    <3> QED
      BY <1>2, <2>1, <2>3, <3>1, CallKeeps DEF Post, core, rest
  <2> QED
    BY <1>2, <2>2, <2>3, PostDoes
<1>3. CASE Broken(a)
  <2>1. act[a].pc = "wait" /\ Turned(a) /\ Free(a)
    BY <1>3, FailedFrees DEF Broken, Calling
  <2>2. Closes(a) => ~OpenHere(act[a].id) \/ act[a].id \in excused.leaked
    BY <1>3, <2>1 DEF MapOK, Broken
  <2> QED
    BY <1>3, <2>1, <2>2, CallKeeps DEF Broken, core, rest
<1>4. CASE ServeFails(a)
  <2>1. act[a].pc = "wait" /\ Turned(a) /\ Free(a)
    BY <1>4, FailedFrees DEF ServeFails, Calling
  <2>2. Closes(a) => ~OpenHere(act[a].id)
    BY <1>4, <2>1 DEF ServeFails, PortsOK, Closes, OpenHere
  <2> QED
    BY <1>4, <2>1, <2>2, CallKeeps DEF ServeFails, core, rest
<1>5. CASE CheckAddress(a)
  <2>1. act[a].pc = "check" /\ act[a].method = "do"
    BY <1>5, ACall DEF CheckAddress, CarriesRight
  <2>2. Turned(a) /\ (Free(a) \/ (SameWork(a) /\ act'[a].pc = "ensure"))
    BY <1>5, CheckAddressDoes
  <2>3. UNCHANGED <<core, rest, excused>>
    BY <1>5 DEF CheckAddress
  <2>4. CASE Free(a)
    BY <2>1, <2>2, <2>3, <2>4, FreeKeeps
  <2>5. CASE SameWork(a) /\ act'[a].pc = "ensure"
    BY <2>1, <2>2, <2>3, <2>5, CallKeeps DEF core, rest
  <2> QED
    BY <2>2, <2>4, <2>5
<1>6. CASE ListDone(a)
  <2>1. Turned(a) /\ Free(a) /\ UNCHANGED <<core, rest, excused>> /\ act[a].pc = "closing"
    BY <1>6, RestFrees DEF ListDone
  <2> QED
    BY <2>1, FreeKeeps DEF calls, rest
<1>7. CASE IdleSweep(a)
  <2>1. Turned(a) /\ Free(a) /\ UNCHANGED <<core, calls, excused>> /\ act[a].pc = "rest"
    BY <1>7, StartClosingDoes DEF IdleSweep, Cached, Closers, StartClosing
  <2> QED
    BY <2>1, FreeKeeps
<1>8. ASSUME NEW c \in Conversations, CloseTool(a, c) \/ DeleteConversation(a, c)
      PROVE  IInv'
  <2>1. StartClosing(a, "tool", {c}) \/ StartClosing(a, "delete", {c})
    BY <1>8 DEF CloseTool, DeleteConversation
  <2>2. {"tool", "delete"} \subseteq Closers /\ {c} \in SUBSET Conversations
    BY DEF Closers
  <2>3. Turned(a) /\ Free(a)
    BY <2>1, <2>2, StartClosingDoes
  <2>4. UNCHANGED <<core, calls, excused>> /\ act[a].pc = "rest"
    BY <1>8, <2>1 DEF CloseTool, DeleteConversation, StartClosing
  <2> QED
    BY <2>3, <2>4, FreeKeeps
<1>9. ASSUME NEW c \in Conversations, NEW d \in Domains \union {None}, Command(a, c, d)
      PROVE  IInv'
  <2>1. Turned(a) /\ Free(a) /\ UNCHANGED <<core, calls, excused>> /\ act[a].pc = "rest"
    BY <1>9, CommandDoes DEF Command
  <2> QED
    BY <2>1, FreeKeeps
<1>10. CASE CloseNext(a) /\ Free(a) /\ UNCHANGED <<sessions, granted>>
  <2>1. Turned(a) /\ UNCHANGED <<core, calls, excused>> /\ act[a].pc = "closing"
    BY <1>10, CloseNextDoes DEF CloseNext, core, calls
  <2> QED
    BY <1>10, <2>1, FreeKeeps
<1> QED
  BY <1>1, <1>2, <1>3, <1>4, <1>5, <1>6, <1>7, <1>8, <1>9, <1>10

LEMMA CloseNextKeeps ==
  ASSUME IInv, NEW a \in Actors, CloseNext(a)
  PROVE  IInv'
<1>1. Turned(a)
  BY CloseNextDoes
<1>2. CASE Free(a) /\ UNCHANGED <<sessions, granted>>
  BY <1>2, OnlyCalls
<1>3. CASE \E c \in Cached :
             /\ sessions' = [sessions EXCEPT ![c] = None]
             /\ granted' = [granted EXCEPT ![c] = @ \ sessions[c].approved]
             /\ act'[a].method = "close" /\ act'[a].id = sessions[c].id
             /\ act'[a].pc = "ensure" /\ act'[a].took = {} /\ act'[a].kind # "set"
  BY <1>1, <1>3, CloseOneKeeps
<1> QED
  BY <1>2, <1>3, CloseNextDoes

LEMMA ServeKeeps ==
  ASSUME IInv, NEW a \in Actors, Serve(a)
  PROVE  IInv'
<1>1. act[a].method \in {"create", "do", "close"}
  BY ACall, NoneIsNo DEF Serve, CarriesRight, Calling, Calls
<1> QED
  BY <1>1, ServeCreateKeeps, ServeDoKeeps, ServeCloseKeeps

-----------------------------------------------------------------------------
(* The invariant, and what follows from it.                                    *)

LEMMA InitIInv ==
  ASSUME Init
  PROVE  IInv
<1>1. /\ Cached = {} /\ Unborn = Procs /\ ~Alive(sidecar) /\ \A p \in Procs : ~Alive(p)
      /\ lock = None /\ sidecar = None
  BY DEF Init, Cached, Unborn, Alive
<1>2. \A a \in Actors : act[a] = Resting
  BY DEF Init
<1>3. \A a \in Actors : /\ act[a].pc = "rest" /\ act[a].kind = None /\ act[a].method = None
                        /\ act[a].took = {} /\ act[a] \in Calls
                        /\ \A k \in Knobs : act[a].cfg[k] = None
  BY <1>2, RestingIs
<1>4. TypeOK
  BY StartAssumption DEF Init, TypeOK, Excuses
<1>5. CallsOK
  <2>1. \A a \in Actors : CarriesRight(act[a])
    BY <1>3, NoneIsNo DEF CarriesRight, Calling, Closers
  <2>2. act \in [Actors -> Calls] /\ drawn \in 0..MaxIds
    BY <1>2, RestingIs, BoundAssumption DEF Init
  <2> QED
    BY <2>1, <2>2 DEF CallsOK
<1>6. LockOK
  BY <1>1, <1>3, NoneAssumption DEF LockOK
<1>7. NumbersOK
  <2>1. 0 \in 0..MaxProcs /\ Unborn = (0 + 1)..MaxProcs
    BY <1>1, BoundAssumption DEF Procs
  <2> QED
    BY <2>1 DEF NumbersOK
<1>8. ProcsOK
  BY <1>1, <1>3 DEF ProcsOK, Init
<1>9. PortsOK
  BY <1>3 DEF PortsOK, Init
<1>10. ServingOK /\ StartingOK
  BY <1>1, <1>3 DEF ServingOK, StartingOK
<1>11. SavingOK
  <2>1. SettersOK
    BY <1>3, NoneIsNo DEF SettersOK
  <2>2. \A k \in Knobs : saved[k] # setting[k] => k \in excused.apart
    BY DEF Init
  <2> QED
    BY <2>1, <2>2 DEF SavingOK, SavedOK
<1>12. IdsOK
  BY <1>1, <1>3, NoneIsNo DEF IdsOK, Makes, Closes, Init
<1>13. MapOK
  BY <1>1, <1>3, NoneIsNo DEF MapOK, Creators, Closes, OpenHere
<1>14. ApprovalsOK
  BY DEF ApprovalsOK, Init
<1> QED
  BY <1>4, <1>5, <1>6, <1>7, <1>8, <1>9, <1>10, <1>11, <1>12, <1>13, <1>14

LEMMA StillKeeps ==
  ASSUME IInv, UNCHANGED vars
  PROVE  IInv'
<1>1. UNCHANGED <<setting, saved, proc, sidecar, lock, sessions, pending, act, loose, drawn, granted,
                  excused>>
  BY DEF vars, core, rest
<1>2. Unborn' = Unborn /\ Cached' = Cached /\ \A p : Alive(p)' <=> Alive(p)
  BY <1>1 DEF Unborn, Cached, Alive
<1>3. TypeOK' /\ CallsOK' /\ LockOK' /\ NumbersOK'
  BY <1>1, <1>2 DEF TypeOK, CallsOK, LockOK, NumbersOK
<1>4. ProcsOK' /\ SavingOK'
  BY <1>1, <1>2 DEF ProcsOK, SavingOK, SettersOK, SavedOK
<1>5. PortsOK'
  BY <1>1, <1>2, PortsStay
<1>6. ServingOK' /\ StartingOK'
  BY <1>1, <1>2, SettingsStay
<1>7. IdsOK'
  BY <1>1, <1>2 DEF IdsOK, Makes, Closes
<1>8. MapOK'
  <2>1. \A id : OpenHere(id)' <=> OpenHere(id)
    BY <1>1 DEF OpenHere, Alive
  <2> QED
    BY <1>1, <1>2, <2>1, StandStill, MapStays
<1>9. ApprovalsOK'
  BY <1>1, <1>2 DEF ApprovalsOK, Waiting, Carried
<1> QED
  BY <1>3, <1>4, <1>5, <1>6, <1>7, <1>8, <1>9

LEMMA StepIInv ==
  ASSUME IInv, [Next]_vars
  PROVE  IInv'
<1>1. ASSUME NEW a \in Actors,
             \/ StartSidecar(a) \/ Spawn(a) \/ SpawnFails(a) \/ Healthy(a) \/ NeverHealthy(a)
             \/ Serve(a) \/ CreateHalfDone(a)
      PROVE  IInv'
  BY <1>1, StartSidecarKeeps, SpawnKeeps, SpawnFailsKeeps, HealthyKeeps, NeverHealthyKeeps,
     ServeKeeps, CreateHalfDoneKeeps
<1>2. ASSUME NEW a \in Actors,
             \/ FindSession(a) \/ NewSession(a) \/ TakePending(a) \/ InsertSession(a)
             \/ UpdateSession(a) \/ CloseNext(a) \/ Park(a)
      PROVE  IInv'
  BY <1>2, FindSessionKeeps, NewSessionKeeps, TakePendingKeeps, InsertSessionKeeps,
     UpdateSessionKeeps, CloseNextKeeps, ParkKeeps
<1>3. ASSUME NEW a \in Actors,
             \/ AskToClose(a) \/ CloseContext(a) \/ EndSidecar(a) \/ KillSidecar(a)
             \/ TimeOut(a) \/ Shutdown(a) \/ \E ok \in BOOLEAN : ClearSessions(a, ok)
      PROVE  IInv'
  BY <1>3, AskToCloseKeeps, CloseContextKeeps, EndSidecarKeeps, KillSidecarKeeps,
     ClearSessionsKeeps, TimeOutKeeps, ShutdownKeeps
<1>4. ASSUME NEW a \in Actors, NEW k \in Knobs,
             ReadKnob(a, k) \/ \E v \in Values : SetKnob(a, k, v)
      PROVE  IInv'
  BY <1>4, ReadKnobKeeps, SetKnobKeeps
<1>5. ASSUME NEW a \in Actors, NEW c \in Conversations, NEW d \in Domains, Approve(a, c, d)
      PROVE  IInv'
  BY <1>5, ApproveKeeps
<1>6. ASSUME \/ \E r \in loose : ServeLoose(r)
             \/ \E p \in Procs : Crash(p)
             \/ \E k \in Knobs, v \in Values : Patch(k, v)
             \/ \E c \in Conversations : Age(c)
      PROVE  IInv'
  BY <1>6, ServeLooseKeeps, CrashKeeps, PatchKeeps, AgeKeeps
<1>7. CASE Next
  BY <1>1, <1>2, <1>3, <1>4, <1>5, <1>6, <1>7, OnlyCalls DEF Next
<1> QED
  BY <1>7, StillKeeps

THEOREM Inductive == Spec => []IInv
<1>1. Init => IInv
  BY InitIInv
<1>2. IInv /\ [Next]_vars => IInv'
  BY StepIInv
<1> QED
  BY <1>1, <1>2, PTL DEF Spec

(* Whatever settings are changed while whatever processes start, serve, crash  *)
(* or are given up: the serving one runs with the settings in force or is about *)
(* to be restarted.  What the last setter of a knob saved is in force, unless   *)
(* two were at work at once, the save failed, or set_app_settings came after    *)
(* it; before any setter the system's proxy may be in force with an empty file. *)
THEOREM SidecarRunsWithTheSettings == Spec => []SidecarFollowsSettings
<1>1. IInv => SidecarFollowsSettings
  BY DEF SidecarFollowsSettings, ServingOK, SavingOK, SavedOK, ProcsOK, Missed
<1> QED
  BY <1>1, Inductive, PTL

(* The session map and the sidecar agree, the listed exceptions apart. *)
THEOREM SessionsAreOpen == Spec => []MapMatchesSidecar
<1>1. IInv => MapMatchesSidecar
  BY DEF MapMatchesSidecar, MapOK, IdsOK, OpenHere, Known, Closes
<1> QED
  BY <1>1, Inductive, PTL

(* An approval the user was told is recorded is never lost on the way. *)
THEOREM ApprovalsAreKept == Spec => []ApprovalKept
<1>1. IInv => ApprovalKept
  BY DEF ApprovalKept, ApprovalsOK, Waiting, Carried, Creators
<1> QED
  BY <1>1, Inductive, PTL
=============================================================================
