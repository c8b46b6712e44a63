---------------------------- MODULE Conversation ----------------------------
(***************************************************************************)
(* The conversations of one agent: their rows, messages and attached       *)
(* files, the summary that replaces old messages in a prompt, and the      *)
(* consolidation of ended conversations into the memory of the agent.      *)
(*                                                                         *)
(* Code: commands/chat_commands.rs, db/operations/*_ops.rs, memory/mod.rs; *)
(* the window drives them from chatFlowStore.ts, conversationStore.ts,     *)
(* summaryStore.ts, consolidationService.ts and preCompactService.ts.      *)
(* Commands on the database that are not async take one step each, under   *)
(* the lock of the connection; a flow of the window waits between its      *)
(* commands, and any other flow may run there.                             *)
(***************************************************************************)
EXTENDS Integers, Sequences, SequencesExt, FiniteSets

CONSTANTS
  Convs,       \* conversation ids, all of one agent
  MinMessages, \* messages a conversation must have to be consolidated
  MaxIds,      \* bound on message ids, which number attached files too
  WithImage,   \* the messages a user attaches an image to
  MaxVisits,   \* bound on selections of a conversation and ends of the process
  MaxSummaries,\* bound on requests for a summary
  MaxMoves,    \* bound on visits and summaries together
  MaxDeletes,  \* bound on conversations deleted
  MaxFlows,    \* bound on flows of the window under way at once
  None, Gone   \* no row yet; no row any more: ids are not used twice

ASSUME ConversationAssumption ==
  /\ {MinMessages, MaxIds, MaxVisits, MaxSummaries, MaxMoves, MaxDeletes, MaxFlows} \subseteq Nat
  /\ MinMessages > 0

Ids == 1..MaxIds
Message == [id : Ids, file : Ids \cup {None}]
\* taint: the summary was made from messages that were deleted meanwhile or are
\* another conversation's, from the summary of another conversation, or from
\* fewer messages than the one before it.
Row == [upTo : Ids \cup {None}, covers : Seq(Ids), taint : BOOLEAN,
        digest : BOOLEAN, done : BOOLEAN]
Deletion == [at : {"collected", "deleted"}, paths : SUBSET Ids]
Merging  == [conv : Convs, mem : SUBSET Convs,
             at : {"begun", "digest", "written", "read", "merge", "merged", "failed"}]

ASSUME NoneAssumption ==
  /\ None # Gone /\ None \notin Convs /\ None \notin Ids
  /\ None \notin Row /\ Gone \notin Row
  /\ None \notin Deletion /\ None \notin Merging

VARIABLES
  conv,     \* table conversations
  msgs,     \* table messages, in the order of get_messages
  files,    \* images on disk
  deleting, \* where delete_conversation is: paths collected, row deleted
  run,      \* where a turn of a conversation is
  image,    \* the image saved for the message being sent
  next,     \* the next message id
  cur, loading, visits,    \* the selected conversation, its pending load
  shown,    \* ids of the messages the window holds
  win,      \* the summary the window holds, the last message it covers and,
            \* as history, the conversation it was made for
  jobId, sums, summaries,  \* the last summary requested, those under way
  digests, memory, snaps, torn, \* digests/, consolidated.md, snapshots/
  lock,     \* activeJobs: who consolidates
  job,      \* the consolidation of an ended conversation
  flush, flushed,          \* the one before a turn that nears the limit
  pending   \* whether recovery after a start is still to run

dbVars  == <<conv, msgs>>
runVars == <<run, image, next>>
winVars == <<cur, loading, visits, shown, win>>
sumVars == <<jobId, sums, summaries>>
memVars == <<digests, memory, snaps, torn>>
jobVars == <<lock, job, flush, flushed, pending>>
vars == <<dbVars, files, deleting, runVars, winVars, sumVars, memVars, jobVars>>

NoSummary == [upTo |-> None, covers |-> <<>>, of |-> None]
NewRow == [upTo |-> None, covers |-> <<>>, taint |-> FALSE, digest |-> FALSE, done |-> FALSE]
Exists(c) == conv[c] \notin {None, Gone}
IdsOf(c)   == [i \in DOMAIN msgs[c] |-> msgs[c][i].id]
FilesOf(c) == {m.file : m \in ToSet(msgs[c])} \ {None}

TypeOK ==
  /\ \A c \in Convs : Exists(c) => conv[c].upTo \in Ids \cup {None} /\ conv[c].covers \in Seq(Ids)
  /\ \A c \in Convs : /\ msgs[c] \in Seq(Message)
                      /\ ~Exists(c) => msgs[c] = <<>>
                      /\ IsInjective(IdsOf(c))
  /\ files \subseteq Ids
  /\ \A c \in Convs : deleting[c] # None => deleting[c].paths \subseteq Ids
  /\ run \in [Convs -> {"none", "sending", "streaming"}]
  /\ cur \in Convs \cup {None} /\ loading \in Convs \cup {None}
  /\ shown \in Seq(Ids) /\ IsInjective(shown)
  /\ digests \subseteq Convs /\ memory \subseteq Convs /\ \A s \in snaps : s \subseteq Convs
  /\ lock \in {"free", "job", "flush"}

FreshWindow ==
  /\ run = [c \in Convs |-> "none"] /\ image = [c \in Convs |-> None]
  /\ deleting = [c \in Convs |-> None]
  /\ cur = None /\ loading = None /\ shown = <<>> /\ win = NoSummary
  /\ jobId = 0 /\ sums = {}
  /\ lock = "free" /\ job = None /\ flush = None /\ flushed = {}
  /\ pending = TRUE

Init ==
  /\ conv = [c \in Convs |-> None] /\ msgs = [c \in Convs |-> <<>>]
  /\ files = {} /\ next = 1 /\ visits = 0 /\ summaries = 0
  /\ digests = {} /\ memory = {} /\ snaps = {} /\ torn = FALSE
  /\ FreshWindow

----------------------------------------------------------------------------
(* Consolidation of an ended conversation.                                 *)

\* consolidateConversation takes the lock of the agent before its first await,
\* and does nothing when another job has it.
StartJob(c) ==
  IF lock = "free"
  THEN /\ lock' = "job"
       /\ job' = [conv |-> c, at |-> "begun", mem |-> {}]
  ELSE UNCHANGED <<lock, job>>

JobStep(at) == job' = [job EXCEPT !.at = at]
Release     == job' = None /\ lock' = "free"
JobAt(at)   == job # None /\ job.at = at
SetRow(c, row) == conv' = IF Exists(c) THEN [conv EXCEPT ![c] = row] ELSE conv

\* Reads the row and the messages: nothing to do for a conversation that is
\* consolidated, short or gone; one with a digest goes on from there.
JobBegin ==
  /\ JobAt("begun")
  /\ LET c == job.conv IN
     IF ~Exists(c) \/ conv[c].done \/ Len(msgs[c]) < MinMessages THEN Release
     ELSE /\ UNCHANGED lock
          /\ IF ~conv[c].digest THEN JobStep("digest")
             ELSE IF c \in digests THEN JobStep("read") ELSE JobStep("failed")
  /\ UNCHANGED <<dbVars, files, deleting, runVars, winVars, sumVars, memVars, flush, flushed, pending>>

\* Mutant: the digest is marked before it is written.
MarkFirst ==
  /\ JobAt("digest") /\ JobStep("written")
  /\ SetRow(job.conv, [conv[job.conv] EXCEPT !.digest = TRUE])
  /\ UNCHANGED <<msgs, files, deleting, runVars, winVars, sumVars, memVars, lock, flush, flushed, pending>>

\* The model has answered; write_digest replaces the file.
WriteDigest ==
  /\ JobAt("digest") /\ JobStep("written")
  /\ digests' = digests \cup {job.conv}
  /\ UNCHANGED <<dbVars, files, deleting, runVars, winVars, sumVars, memory, snaps, torn, lock, flush, flushed, pending>>

MarkDigest ==
  /\ JobAt("written") /\ JobStep("read")
  /\ SetRow(job.conv, [conv[job.conv] EXCEPT !.digest = TRUE])
  /\ UNCHANGED <<msgs, files, deleting, runVars, winVars, sumVars, memVars, lock, flush, flushed, pending>>

ReadMemory ==
  /\ JobAt("read")
  /\ job' = [job EXCEPT !.at = "merge", !.mem = memory]
  /\ UNCHANGED <<dbVars, files, deleting, runVars, winVars, sumVars, memVars, lock, flush, flushed, pending>>

Archived == IF memory = {} THEN snaps ELSE snaps \cup {memory}

\* write_consolidated: the earlier version is copied, then replaced; the
\* process may end while it is being replaced (Crash).
WriteConsolidated(new) ==
  /\ snaps' = Archived
  /\ memory' = new
  /\ UNCHANGED <<digests, torn>>

Merge ==
  /\ JobAt("merge") /\ JobStep("merged")
  /\ WriteConsolidated(job.mem \cup {job.conv})
  /\ UNCHANGED <<dbVars, files, deleting, runVars, winVars, sumVars, lock, flush, flushed, pending>>

MarkConsolidated ==
  /\ JobAt("merged") /\ Release
  /\ SetRow(job.conv, [conv[job.conv] EXCEPT !.done = TRUE])
  /\ UNCHANGED <<msgs, files, deleting, runVars, winVars, sumVars, memVars, flush, flushed, pending>>

\* Any command or answer of the model may fail; the lock is released.
JobFails ==
  /\ job # None /\ job.at # "begun" /\ Release
  /\ UNCHANGED <<dbVars, files, deleting, runVars, winVars, sumVars, memVars, flush, flushed, pending>>

JobNext == JobBegin \/ WriteDigest \/ MarkDigest \/ ReadMemory \/ Merge \/ MarkConsolidated \/ JobFails

\* recoverPendingConsolidations starts all pending ones at once: the first gets
\* the lock, and the others of the agent end there.
IsPending(c) == Exists(c) /\ ~(conv[c].digest /\ conv[c].done) /\ Len(msgs[c]) >= MinMessages

Recover ==
  /\ pending /\ pending' = FALSE
  /\ \/ /\ \A c \in Convs : ~IsPending(c)
        /\ UNCHANGED <<lock, job>>
     \/ \E c \in Convs : IsPending(c) /\ StartJob(c)
  /\ UNCHANGED <<dbVars, files, deleting, runVars, winVars, sumVars, memVars, flush, flushed>>

----------------------------------------------------------------------------
(* The consolidation before a turn that nears the limit of the context.    *)

FlushBegin(c) ==
  /\ cur = c /\ run[c] = "streaming" /\ flush = None
  /\ c \notin flushed /\ Len(msgs[c]) >= MinMessages
  /\ flush' = [conv |-> c, at |-> "digest", mem |-> {}]
  /\ UNCHANGED <<dbVars, files, deleting, runVars, winVars, sumVars, memVars, lock, job, flushed, pending>>

\* Mutant: consolidateMemory is called without the lock.
FlushUnlocked ==
  /\ flush # None /\ flush.at = "digest"
  /\ flush' = [flush EXCEPT !.at = "merge", !.mem = memory]
  /\ UNCHANGED <<dbVars, files, deleting, runVars, winVars, sumVars, memVars, lock, job, flushed, pending>>

\* lockedConsolidateMemory: given up while another job has the lock.
FlushRead ==
  /\ flush # None /\ flush.at = "digest"
  /\ IF lock = "free" THEN /\ lock' = "flush"
                           /\ flush' = [flush EXCEPT !.at = "merge", !.mem = memory]
                      ELSE flush' = None /\ UNCHANGED lock
  /\ UNCHANGED <<dbVars, files, deleting, runVars, winVars, sumVars, memVars, job, flushed, pending>>

\* Mutant: a flush does not let go of the lock.
StillLocked == lock
Unlocked == IF lock = "flush" THEN "free" ELSE lock

\* What a flush adds to the memory is no digest the database speaks of.
FlushWrite ==
  /\ flush # None /\ flush.at = "merge"
  /\ WriteConsolidated(flush.mem)
  /\ flush' = None /\ lock' = Unlocked
  /\ flushed' = flushed \cup {flush.conv}
  /\ UNCHANGED <<dbVars, files, deleting, runVars, winVars, sumVars, job, pending>>

FlushFails ==
  /\ flush # None /\ flush.at = "merge"
  /\ flush' = None /\ lock' = Unlocked
  /\ UNCHANGED <<dbVars, files, deleting, runVars, winVars, sumVars, memVars, job, flushed, pending>>

FlushNext == FlushRead \/ FlushWrite \/ FlushFails

----------------------------------------------------------------------------
(* Turns.                                                                  *)

\* save_chat_image writes the image under a name of its own.
ImageOf(m) == {m} \cap WithImage

\* Sending in no conversation creates one; an image is written to disk before
\* the message that names it.
Send(c) ==
  /\ run[c] = "none" /\ next < MaxIds
  /\ \/ cur = c /\ UNCHANGED dbVars
     \/ /\ cur = None /\ conv[c] = None
        /\ conv' = [conv EXCEPT ![c] = NewRow] /\ UNCHANGED msgs
  /\ cur' = c
  /\ run' = [run EXCEPT ![c] = "sending"]
  /\ next' = next + 1
  /\ image' = [image EXCEPT ![c] = [id |-> next, file |-> IF ImageOf(next) = {} THEN None ELSE next]]
  /\ files' = files \cup ImageOf(next)
  /\ UNCHANGED <<deleting, loading, visits, shown, win, sumVars, memVars, jobVars>>

\* save_message fails when the conversation is gone.  The window appends the
\* message to what it shows, whatever is selected by now.  The load of a selection
\* is answered first: these commands are answered in the order they are called.
SaveUser(c) ==
  /\ run[c] = "sending" /\ loading = None
  /\ IF Exists(c)
     THEN /\ msgs' = [msgs EXCEPT ![c] = Append(@, image[c])]
          /\ shown' = Append(shown, image[c].id)
          /\ run' = [run EXCEPT ![c] = "streaming"]
     ELSE run' = [run EXCEPT ![c] = "none"] /\ UNCHANGED <<msgs, shown>>
  /\ image' = [image EXCEPT ![c] = None]
  /\ UNCHANGED <<conv, files, deleting, next, cur, loading, visits, win, sumVars, memVars, jobVars>>

PlaceOf(m, s) == IF m \in ToSet(s) THEN CHOOSE i \in DOMAIN s : s[i] = m ELSE 0

\* maybeGenerateSummary: the first k messages shown no longer fit the prompt;
\* those after the last one covered are added to the summary the window holds.
Summarise(c, k, held) ==
  LET i      == PlaceOf(win.upTo, SubSeq(held, 1, k))
      added  == SubSeq(held, i + 1, k)
  IN IF k = 0 \/ k >= Len(held) \/ added = <<>> THEN UNCHANGED sumVars
     ELSE /\ summaries < MaxSummaries /\ visits + summaries < MaxMoves
          /\ summaries' = summaries + 1
          /\ jobId' = summaries + 1
          /\ sums' = sums \cup
               {[id |-> summaries + 1, conv |-> c, at |-> "asked", expected |-> win.upTo,
                 upTo |-> held[k], covers |-> win.covers \o added,
                 taint |-> \/ win.upTo # None /\ (i = 0 \/ win.of # c)
                           \/ conv[c].taint
                           \/ ~(ToSet(held) \subseteq ToSet(IdsOf(c)) \cup {next})]}

\* The answer has come and is saved; the window shows it where it shows the turn.
Reply(c, k) ==
  /\ run[c] = "streaming" /\ (flush # None => flush.conv # c)
  /\ loading = None /\ next <= MaxIds
  /\ run' = [run EXCEPT ![c] = "none"]
  /\ IF Exists(c)
     THEN LET held == IF cur = c \/ ToSet(shown) \cap ToSet(IdsOf(c)) # {} THEN Append(shown, next) ELSE shown
          IN /\ msgs' = [msgs EXCEPT ![c] = Append(@, [id |-> next, file |-> None])]
             /\ next' = next + 1
             /\ shown' = held
             /\ Summarise(c, k, held)
     ELSE k = 0 /\ UNCHANGED <<msgs, next, shown, sumVars>>
  /\ UNCHANGED <<conv, files, deleting, image, cur, loading, visits, win, memVars, jobVars>>

\* An abort or an error ends the turn without a message.
TurnFails(c) ==
  /\ run[c] = "streaming" /\ (flush # None => flush.conv # c)
  /\ run' = [run EXCEPT ![c] = "none"]
  /\ UNCHANGED <<dbVars, files, deleting, image, next, winVars, sumVars, memVars, jobVars>>

\* Mutant: the summary survives the deletion of a message it covers.
KeepSummary(c, n) ==
  /\ msgs' = [msgs EXCEPT ![c] = SubSeq(@, 1, n - 1)]
  /\ UNCHANGED <<conv, win>>

\* delete_messages_and_maybe_reset_summary, in one transaction: the n-th message
\* and all later ones.
DeleteFrom(c, n) ==
  LET gone == {IdsOf(c)[i] : i \in n..Len(msgs[c])} IN
  /\ msgs' = [msgs EXCEPT ![c] = SubSeq(@, 1, n - 1)]
  /\ IF conv[c].upTo \in gone
     THEN /\ conv' = [conv EXCEPT ![c].upTo = None, ![c].covers = <<>>, ![c].taint = FALSE]
          /\ win' = NoSummary
     ELSE UNCHANGED <<conv, win>>

\* regenerateMessage: summaries under way are not cancelled, and files stay.
Regenerate(c, n) ==
  /\ cur = c /\ run[c] = "none" /\ Exists(c)
  /\ next <= MaxIds
  /\ n \in DOMAIN msgs[c] /\ n > 1 /\ shown = IdsOf(c)
  /\ LET gone == {IdsOf(c)[i] : i \in n..Len(msgs[c])}
     IN sums' = {[s EXCEPT !.taint = @ \/ (s.conv = c /\ ToSet(s.covers) \cap gone # {})] : s \in sums}
  /\ DeleteFrom(c, n)
  /\ shown' = SubSeq(shown, 1, n - 1)
  /\ run' = [run EXCEPT ![c] = "streaming"]
  /\ UNCHANGED <<files, deleting, image, next, cur, loading, visits, jobId, summaries, memVars, jobVars>>

----------------------------------------------------------------------------
(* Summaries.                                                              *)

\* The answer of the model is dropped when the window has moved on.
SummaryAnswer(s) ==
  /\ s.at = "asked"
  /\ sums' = (sums \ {s}) \cup (IF jobId = s.id /\ cur = s.conv THEN {[s EXCEPT !.at = "saving"]} ELSE {})
  /\ UNCHANGED <<dbVars, files, deleting, runVars, winVars, jobId, summaries, memVars, jobVars>>

\* update_conversation_summary_impl: the pointer must be the expected one.
SamePointer(s) == Exists(s.conv) /\ conv[s.conv].upTo = s.expected

\* The window takes the summary over without looking at its selection again.
SummarySave(s) ==
  /\ s.at = "saving"
  /\ sums' = sums \ {s}
  /\ IF SamePointer(s)
     THEN /\ conv' = [conv EXCEPT ![s.conv].upTo = s.upTo, ![s.conv].covers = s.covers,
                                  ![s.conv].taint = s.taint]
          /\ win' = [upTo |-> s.upTo, covers |-> s.covers, of |-> s.conv]
     ELSE UNCHANGED <<conv, win>>
  /\ UNCHANGED <<msgs, files, deleting, runVars, cur, loading, visits, shown, jobId, summaries, memVars, jobVars>>

SummaryFails(s) ==
  /\ sums' = sums \ {s}
  /\ UNCHANGED <<dbVars, files, deleting, runVars, winVars, jobId, summaries, memVars, jobVars>>

----------------------------------------------------------------------------
(* Selection and deletion.                                                 *)

Cleared == shown' = <<>> /\ win' = NoSummary /\ jobId' = 0

\* Leaving a conversation starts its consolidation.
Leave ==
  /\ flushed' = flushed \ {cur}
  /\ IF cur # None /\ Exists(cur) THEN StartJob(cur) ELSE UNCHANGED <<lock, job>>

\* selectConversation; None for a new conversation.
Select(c) ==
  /\ visits < MaxVisits /\ visits + summaries < MaxMoves /\ visits' = visits + 1
  /\ c # cur /\ (c # None => Exists(c))
  /\ Leave
  /\ cur' = c /\ loading' = c
  /\ Cleared
  /\ UNCHANGED <<dbVars, files, deleting, runVars, sums, summaries, memVars, flush, pending>>

\* onConversationSelected: dropped when another one is selected by now.
Load ==
  /\ loading # None /\ loading' = None
  /\ IF cur = loading /\ Exists(cur)
     THEN /\ shown' = IdsOf(cur)
          /\ win' = [upTo |-> conv[cur].upTo, covers |-> conv[cur].covers, of |-> cur]
     ELSE UNCHANGED <<shown, win>>
  /\ UNCHANGED <<dbVars, files, deleting, runVars, cur, visits, sumVars, memVars, jobVars>>

\* delete_conversation collects the paths of the attached files first.
DeleteBegin(c) ==
  /\ Exists(c) /\ deleting[c] = None
  /\ Cardinality({d \in Convs : conv[d] = Gone \/ deleting[d] # None}) < MaxDeletes
  /\ deleting' = [deleting EXCEPT ![c] = [at |-> "collected", paths |-> FilesOf(c)]]
  /\ IF cur = c THEN /\ cur' = None /\ flushed' = flushed \ {c} /\ Cleared
                ELSE UNCHANGED <<cur, shown, win, jobId, flushed>>
  /\ UNCHANGED <<dbVars, files, runVars, loading, visits, sums, summaries, memVars, lock, job, flush, pending>>

\* Mutant: the messages outlive the row.
DeleteRowOnly(c, ok) ==
  /\ deleting[c] # None /\ deleting[c].at = "collected"
  /\ conv' = IF ok THEN [conv EXCEPT ![c] = Gone] ELSE conv
  /\ deleting' = IF ok THEN [deleting EXCEPT ![c].at = "deleted"] ELSE [deleting EXCEPT ![c] = None]
  /\ UNCHANGED <<msgs, files, runVars, winVars, sumVars, memVars, jobVars>>

\* Mutant: the files are removed even when the row could not be deleted.
DeleteRowOrNot(c, ok) ==
  /\ deleting[c] # None /\ deleting[c].at = "collected"
  /\ conv' = IF ok THEN [conv EXCEPT ![c] = Gone] ELSE conv
  /\ msgs' = IF ok THEN [msgs EXCEPT ![c] = <<>>] ELSE msgs
  /\ deleting' = [deleting EXCEPT ![c].at = "deleted"]
  /\ UNCHANGED <<files, runVars, winVars, sumVars, memVars, jobVars>>

\* The row and, by its foreign keys, its messages; an error ends the command.
DeleteRow(c, ok) ==
  /\ deleting[c] # None /\ deleting[c].at = "collected"
  /\ IF ok THEN /\ conv' = [conv EXCEPT ![c] = Gone]
                /\ msgs' = [msgs EXCEPT ![c] = <<>>]
                /\ deleting' = [deleting EXCEPT ![c].at = "deleted"]
           ELSE deleting' = [deleting EXCEPT ![c] = None] /\ UNCHANGED dbVars
  /\ UNCHANGED <<files, runVars, winVars, sumVars, memVars, jobVars>>

DeleteFiles(c) ==
  /\ deleting[c] # None /\ deleting[c].at = "deleted"
  /\ files' = files \ deleting[c].paths
  /\ deleting' = [deleting EXCEPT ![c] = None]
  /\ UNCHANGED <<dbVars, runVars, winVars, sumVars, memVars, jobVars>>

\* The process ends and starts again; a file of the memory that was just being
\* written is left empty.
Crash ==
  /\ visits < MaxVisits /\ visits + summaries < MaxMoves /\ visits' = visits + 1
  /\ \/ UNCHANGED memVars
     \/ /\ JobAt("merge") \/ (flush # None /\ flush.at = "merge")
        /\ snaps' = Archived
        /\ memory' = {} /\ torn' = TRUE /\ UNCHANGED digests
  /\ run' = [c \in Convs |-> "none"] /\ image' = [c \in Convs |-> None]
  /\ deleting' = [c \in Convs |-> None]
  /\ cur' = None /\ loading' = None /\ shown' = <<>> /\ win' = NoSummary
  /\ jobId' = 0 /\ sums' = {}
  /\ lock' = "free" /\ job' = None /\ flush' = None /\ flushed' = {}
  /\ pending' = TRUE
  /\ UNCHANGED <<dbVars, files, next, summaries>>

----------------------------------------------------------------------------

\* A flush is part of the turn that waits for it.
Flows == Cardinality({c \in Convs : run[c] # "none"}) + Cardinality({c \in Convs : deleting[c] # None})
         + Cardinality(sums) + (IF job = None THEN 0 ELSE 1) + (IF loading = None THEN 0 ELSE 1)

Step ==
  \/ JobNext \/ Recover \/ FlushNext \/ Load \/ Crash
  \/ \E s \in sums : SummaryAnswer(s) \/ SummarySave(s) \/ SummaryFails(s)
  \/ \E c \in Convs :
       \/ Send(c)
       \/ SaveUser(c) \/ TurnFails(c) \/ FlushBegin(c)
       \/ \E k \in 0..MaxIds : Reply(c, k)
       \/ \E n \in 1..MaxIds : Regenerate(c, n)
       \/ DeleteBegin(c) \/ DeleteFiles(c)
       \/ \E ok \in BOOLEAN : DeleteRow(c, ok)
  \/ \E c \in Convs \cup {None} : Select(c)

Next == Step /\ Flows' <= MaxFlows

Spec == Init /\ [][Next]_vars

----------------------------------------------------------------------------
(* Properties.                                                             *)

\* The file a message names is on disk: delete_conversation removes files only
\* of rows it has deleted, whatever is saved and fails in between
\* (chat_commands.rs:59-90).
NoDanglingFile == TypeOK /\ \A c \in Convs : FilesOf(c) \subseteq files

Upto(c) == SubSeq(IdsOf(c), 1, PlaceOf(conv[c].upTo, IdsOf(c)))

\* A summary covers each message up to its pointer once, and no other, whatever
\* was regenerated since, but for the cases named at taint
\* (summary_ops.rs:23-73).
SummaryExact ==
  \A c \in Convs : Exists(c) => conv[c].taint \/ conv[c].upTo = None \/ conv[c].covers = Upto(c)

\* A conversation marked as digested has its digest on disk, from which a later
\* run goes on (consolidationService.ts:54-66).
DigestOnDisk == \A c \in Convs : Exists(c) /\ conv[c].digest => c \in digests

\* What a conversation marked as consolidated said is in the memory, whatever
\* else wrote there; after a write cut off by the end of the process it is in a
\* snapshot at least (memory/mod.rs:43-72, consolidationService.ts:145-153).
MemoryKeepsDigests ==
  \A c \in Convs : Exists(c) /\ conv[c].done =>
    c \in memory \/ (torn /\ c \in UNION snaps)

\* The lock of the agent is held by a consolidation under way and by no other:
\* none leaves it behind, and two never merge at once
\* (consolidationService.ts:31-79, 166-175).
LockOwned ==
  /\ lock = "job" <=> job # None
  /\ lock = "flush" <=> (IF flush = None THEN FALSE ELSE flush.at = "merge")

\* Consolidation loses nothing of what it counts as done, and is done by one at
\* a time.
ConsolidationSound == DigestOnDisk /\ MemoryKeepsDigests /\ LockOwned
=============================================================================
