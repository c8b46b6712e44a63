---------------------- MODULE ConversationVault_proofs ----------------------
(* Proofs about what a node keeps of the user's work: Conversation, for any    *)
(* conversations, images and bounds; Vault, for any agents, names, texts and   *)
(* paths, and any number of notes, commands, edits and crashes.                *)
EXTENDS Conversation, Vault, SequenceTheorems, FiniteSetTheorems, WellFoundedInduction, TLAPS

-----------------------------------------------------------------------------
(* Conversation: the inductive invariant, in four parts.                       *)

Summary == [id : Nat, conv : Convs, at : {"asked", "saving"}, expected : Ids \cup {None},
            upTo : Ids, covers : Seq(Ids), taint : BOOLEAN]
Held    == [upTo : Ids \cup {None}, covers : Seq(Ids), of : Convs \cup {None}]

TypeInv ==
  /\ conv \in [Convs -> Row \cup {None, Gone}]
  /\ msgs \in [Convs -> Seq(Message)]
  /\ files \subseteq Ids
  /\ deleting \in [Convs -> Deletion \cup {None}]
  /\ run \in [Convs -> {"none", "sending", "streaming"}]
  /\ image \in [Convs -> Message \cup {None}]
  /\ next \in 1..MaxIds + 1
  /\ cur \in Convs \cup {None} /\ loading \in Convs \cup {None}
  /\ shown \in Seq(Ids) /\ win \in Held
  /\ jobId \in Nat /\ summaries \in Nat /\ sums \subseteq Summary
  /\ digests \subseteq Convs /\ memory \subseteq Convs /\ snaps \subseteq SUBSET Convs
  /\ torn \in BOOLEAN
  /\ lock \in {"free", "job", "flush"}
  /\ job \in Merging \cup {None} /\ flush \in Merging \cup {None}

(* What a consolidation has read or written is what is on disk: nobody else    *)
(* writes while it has the lock.                                               *)
Merges ==
  /\ job # None =>
       /\ job.at \in {"written", "read", "merge", "merged"} => job.conv \in digests
       /\ job.at = "merge"  => job.mem = memory
       /\ job.at = "merged" => job.conv \in memory
  /\ flush # None => (flush.at = "merge" => flush.mem = memory)

(* The message being sent in c, which no other has the number of.              *)
Sent(c) == IF run[c] = "sending" THEN {image[c].id} ELSE {}
Has(c)  == {m.id : m \in ToSet(msgs[c])}
Own(c)  == \A m \in ToSet(msgs[c]) : m.file \in {m.id, None}
Used    == 1..next - 1

(* A number belongs to one conversation and is not used again; the paths a     *)
(* deletion has collected are of its own conversation.                         *)
Numbers ==
  /\ \A c \in Convs :
       /\ ~Exists(c) => msgs[c] = <<>>
       /\ IsInjective(IdsOf(c))
       /\ Has(c) \subseteq Used \ Sent(c) /\ Sent(c) \subseteq Used
       /\ Own(c) /\ FilesOf(c) \subseteq files
       /\ run[c] = "sending" =>
            image[c] \in Message /\ image[c].file \in ({image[c].id} \cap files) \cup {None}
       /\ \A d \in Convs : c # d => (Has(c) \cup Sent(c)) \cap (Has(d) \cup Sent(d)) = {}
       /\ ToSet(shown) \cap Sent(c) = {}
       /\ deleting[c] # None =>
            /\ deleting[c].paths \subseteq Used \ Sent(c)
            /\ \A d \in Convs : c # d => deleting[c].paths \cap (Has(d) \cup Sent(d)) = {}
            /\ deleting[c].at = "deleted" => conv[c] = Gone
  /\ ToSet(shown) \subseteq Used /\ IsInjective(shown)

(* A summary up to a message of ids covers all of ids up to there.             *)
Upon(ids, upTo, covers) == \E k \in 1..Len(ids) : upTo = ids[k] /\ covers = SubSeq(ids, 1, k)

(* A summary that may still be saved is exact, or tainted.                     *)
MaySave(s) == s.at = "saving" \/ (jobId = s.id /\ cur = s.conv)

SumExact(s) ==
  /\ s.id \in 1..summaries /\ conv[s.conv] # None
  /\ MaySave(s) /\ Exists(s.conv) => s.taint \/ Upon(IdsOf(s.conv), s.upTo, s.covers)

RowExact(c) ==
  Exists(c) =>
    /\ conv[c].upTo = None => conv[c].covers = <<>>
    /\ conv[c].taint \/ conv[c].upTo = None \/ Upon(IdsOf(c), conv[c].upTo, conv[c].covers)

(* What the window holds is what the row of its conversation holds; the window *)
(* shows the messages of the selected one, or some of another.                 *)
WinExact ==
  /\ win.upTo = None => win.covers = <<>>
  /\ win.upTo # None => win.of # None /\ conv[win.of] # None
  /\ win.upTo # None /\ Exists(win.of) =>
       conv[win.of].upTo = win.upTo /\ conv[win.of].covers = win.covers

ShownExact ==
  cur # None /\ loading # cur /\ Exists(cur) =>
    shown = IdsOf(cur) \/ ~(ToSet(shown) \subseteq Has(cur))

Exact ==
  /\ \A c \in Convs : RowExact(c)
  /\ \A s \in sums : SumExact(s)
  /\ WinExact /\ ShownExact
  /\ loading # None => conv[loading] # None
  /\ jobId \leq summaries

IInv == TypeInv /\ Merges /\ ConsolidationSound /\ Numbers /\ Exact

-----------------------------------------------------------------------------
(* Sequences of messages and of their numbers.                                 *)

IdsIn(q)   == [i \in DOMAIN q |-> q[i].id]
HasIn(q)   == {m.id : m \in ToSet(q)}
FilesIn(q) == {m.file : m \in ToSet(q)} \ {None}

LEMMA InSequence ==
  ASSUME NEW c
  PROVE  /\ IdsOf(c) = IdsIn(msgs[c]) /\ Has(c) = HasIn(msgs[c]) /\ FilesOf(c) = FilesIn(msgs[c])
         /\ IdsOf(c)' = IdsIn(msgs[c]') /\ Has(c)' = HasIn(msgs[c]')
         /\ FilesOf(c)' = FilesIn(msgs[c]')
  BY DEF IdsOf, Has, FilesOf, IdsIn, HasIn, FilesIn

LEMMA AppendIs ==
  ASSUME NEW S, NEW s \in Seq(S), NEW x \in S
  PROVE  /\ Append(s, x) \in Seq(S)
         /\ Len(Append(s, x)) = Len(s) + 1
         /\ DOMAIN s = 1..Len(s) /\ Len(s) \in Nat
         /\ DOMAIN Append(s, x) = DOMAIN s \union {Len(s) + 1}
         /\ Append(s, x)[Len(s) + 1] = x
         /\ \A n \in DOMAIN s : n \in Nat /\ n < Len(s) + 1 /\ Append(s, x)[n] = s[n]
         /\ ToSet(Append(s, x)) = ToSet(s) \cup {x}
<1>1. /\ Append(s, x) \in Seq(S)
      /\ Len(Append(s, x)) = Len(s) + 1
      /\ DOMAIN s = 1..Len(s) /\ Len(s) \in Nat
      /\ DOMAIN Append(s, x) = DOMAIN s \union {Len(s) + 1}
      /\ Append(s, x)[Len(s) + 1] = x
      /\ \A n \in DOMAIN s : n \in Nat /\ n < Len(s) + 1 /\ Append(s, x)[n] = s[n]
  OBVIOUS
<1>2. ToSet(Append(s, x)) = ToSet(s) \cup {x}
  BY <1>1, Zenon DEF ToSet
<1> QED
  BY <1>1, <1>2

LEMMA PrefixIs ==
  ASSUME NEW S, NEW s \in Seq(S), NEW n \in 1..Len(s) + 1
  PROVE  /\ SubSeq(s, 1, n - 1) \in Seq(S)
         /\ Len(SubSeq(s, 1, n - 1)) = n - 1
         /\ DOMAIN SubSeq(s, 1, n - 1) = 1..n - 1 /\ DOMAIN s = 1..Len(s)
         /\ \A i \in 1..n - 1 : i \in 1..Len(s) /\ SubSeq(s, 1, n - 1)[i] = s[i]
         /\ ToSet(SubSeq(s, 1, n - 1)) \subseteq ToSet(s)
<1>1. /\ SubSeq(s, 1, n - 1) \in Seq(S)
      /\ Len(SubSeq(s, 1, n - 1)) = n - 1
      /\ DOMAIN SubSeq(s, 1, n - 1) = 1..n - 1 /\ DOMAIN s = 1..Len(s)
      /\ \A i \in 1..n - 1 : i \in 1..Len(s) /\ SubSeq(s, 1, n - 1)[i] = s[i]
  <2>1. \A i \in 1..n - 1 : s[i] \in S
    OBVIOUS
  <2>2. /\ SubSeq(s, 1, n - 1) \in Seq(S)
        /\ Len(SubSeq(s, 1, n - 1)) = n - 1
        /\ \A i \in 1..n - 1 : SubSeq(s, 1, n - 1)[i] = s[i]
    OBVIOUS
  <2> QED
    BY <2>2
<1>2. ToSet(SubSeq(s, 1, n - 1)) \subseteq ToSet(s)
  BY <1>1, Zenon DEF ToSet
<1> QED
  BY <1>1, <1>2

LEMMA IdsAre ==
  ASSUME NEW q \in Seq(Message)
  PROVE  /\ IdsIn(q) \in Seq(Ids) /\ Len(IdsIn(q)) = Len(q) /\ Len(q) \in Nat
         /\ DOMAIN q = 1..Len(q) /\ DOMAIN IdsIn(q) = 1..Len(q)
         /\ \A i \in 1..Len(q) : IdsIn(q)[i] = q[i].id /\ q[i] \in Message
         /\ ToSet(IdsIn(q)) = HasIn(q) /\ HasIn(q) \subseteq Ids
<1>1. /\ DOMAIN q = 1..Len(q) /\ Len(q) \in Nat /\ \A i \in 1..Len(q) : q[i] \in Message
  OBVIOUS
<1>2. \A m \in Message : m.id \in Ids
  BY DEF Message
<1>3. IdsIn(q) \in [1..Len(q) -> Ids] /\ \A i \in 1..Len(q) : IdsIn(q)[i] = q[i].id
  BY <1>1, <1>2 DEF IdsIn
<1>4. IdsIn(q) \in Seq(Ids) /\ Len(IdsIn(q)) = Len(q)
  BY <1>1, <1>3
<1>5. ToSet(IdsIn(q)) = HasIn(q)
  BY <1>1, <1>3, Zenon DEF ToSet, HasIn
<1>6. HasIn(q) \subseteq Ids
  BY <1>1, <1>2 DEF ToSet, HasIn
<1> QED
  BY <1>1, <1>3, <1>4, <1>5, <1>6

LEMMA OwnFiles ==
  ASSUME NEW c, Own(c)
  PROVE  FilesOf(c) \subseteq Has(c)
  BY DEF Own, FilesOf, Has

LEMMA NothingIn ==
  /\ IdsIn(<<>>) = <<>> /\ HasIn(<<>>) = {} /\ FilesIn(<<>>) = {}
  /\ ToSet(<<>>) = {} /\ IsInjective(<<>>) /\ IsInjective(IdsIn(<<>>))
  BY DEF IdsIn, HasIn, FilesIn, ToSet, IsInjective

LEMMA InjectiveAppend ==
  ASSUME NEW S, NEW s \in Seq(S), NEW x \in S, IsInjective(s), x \notin ToSet(s)
  PROVE  IsInjective(Append(s, x))
<1>1. \A i \in DOMAIN s : s[i] # x
  BY DEF ToSet
<1>2. SUFFICES ASSUME NEW a \in DOMAIN Append(s, x), NEW b \in DOMAIN Append(s, x),
                      Append(s, x)[a] = Append(s, x)[b]
               PROVE  a = b
  BY DEF IsInjective
<1> QED
  BY <1>1, <1>2, AppendIs DEF IsInjective

LEMMA InjectivePrefix ==
  ASSUME NEW S, NEW s \in Seq(S), IsInjective(s), NEW n \in 1..Len(s) + 1
  PROVE  IsInjective(SubSeq(s, 1, n - 1))
  BY PrefixIs DEF IsInjective

LEMMA AppendMessage ==
  ASSUME NEW q \in Seq(Message), NEW m \in Message
  PROVE  /\ Append(q, m) \in Seq(Message)
         /\ IdsIn(Append(q, m)) = Append(IdsIn(q), m.id)
         /\ HasIn(Append(q, m)) = HasIn(q) \cup {m.id}
         /\ FilesIn(Append(q, m)) = FilesIn(q) \cup ({m.file} \ {None})
<1> DEFINE t == Append(q, m)
<1>1. /\ t \in Seq(Message) /\ Len(t) = Len(q) + 1 /\ DOMAIN q = 1..Len(q) /\ Len(q) \in Nat
      /\ ToSet(t) = ToSet(q) \cup {m} /\ t[Len(q) + 1] = m
      /\ \A i \in 1..Len(q) : t[i] = q[i]
  BY AppendIs
<1>2. m.id \in Ids
  BY DEF Message
<1> HIDE DEF t
<1> DEFINE a == IdsIn(t)
           b == Append(IdsIn(q), m.id)
<1>3. /\ a \in Seq(Ids) /\ Len(a) = Len(q) + 1
      /\ \A i \in 1..Len(q) + 1 : a[i] = t[i].id
  BY <1>1, IdsAre
<1>4. /\ IdsIn(q) \in Seq(Ids) /\ Len(IdsIn(q)) = Len(q)
      /\ \A i \in 1..Len(q) : IdsIn(q)[i] = q[i].id
  BY <1>1, IdsAre
<1>5. /\ b \in Seq(Ids) /\ Len(b) = Len(q) + 1 /\ b[Len(q) + 1] = m.id
      /\ \A i \in 1..Len(q) : b[i] = q[i].id
  BY <1>2, <1>4, AppendIs
<1>6. \A i \in 1..Len(a) : a[i] = b[i]
  BY <1>1, <1>3, <1>5
<1> HIDE DEF a, b
<1>7. a = b
  BY <1>3, <1>5, <1>6, SeqEqual
<1>8. HasIn(t) = HasIn(q) \cup {m.id} /\ FilesIn(t) = FilesIn(q) \cup ({m.file} \ {None})
  BY <1>1 DEF HasIn, FilesIn
<1> QED
  BY <1>1, <1>7, <1>8 DEF t, a, b

LEMMA PrefixOfMessages ==
  ASSUME NEW q \in Seq(Message), NEW n \in 1..Len(q) + 1
  PROVE  /\ SubSeq(q, 1, n - 1) \in Seq(Message)
         /\ IdsIn(SubSeq(q, 1, n - 1)) = SubSeq(IdsIn(q), 1, n - 1)
         /\ HasIn(SubSeq(q, 1, n - 1)) \subseteq HasIn(q)
         /\ FilesIn(SubSeq(q, 1, n - 1)) \subseteq FilesIn(q)
<1> DEFINE t == SubSeq(q, 1, n - 1)
<1>1. /\ t \in Seq(Message) /\ Len(t) = n - 1 /\ ToSet(t) \subseteq ToSet(q)
      /\ \A i \in 1..n - 1 : i \in 1..Len(q) /\ t[i] = q[i]
  BY PrefixIs
<1> HIDE DEF t
<1> DEFINE a == IdsIn(t)
           b == SubSeq(IdsIn(q), 1, n - 1)
<1>2. /\ a \in Seq(Ids) /\ Len(a) = n - 1
      /\ \A i \in 1..n - 1 : a[i] = t[i].id
  BY <1>1, IdsAre
<1>3. /\ IdsIn(q) \in Seq(Ids) /\ Len(IdsIn(q)) = Len(q)
      /\ \A i \in 1..Len(q) : IdsIn(q)[i] = q[i].id
  BY IdsAre
<1>4. /\ b \in Seq(Ids) /\ Len(b) = n - 1
      /\ \A i \in 1..n - 1 : b[i] = IdsIn(q)[i]
  BY <1>3, PrefixIs
<1>5. \A i \in 1..Len(a) : a[i] = b[i]
  BY <1>1, <1>2, <1>3, <1>4
<1> HIDE DEF a, b
<1>6. a = b
  BY <1>2, <1>4, <1>5, SeqEqual
<1>7. HasIn(t) \subseteq HasIn(q) /\ FilesIn(t) \subseteq FilesIn(q)
  BY <1>1 DEF HasIn, FilesIn
<1> QED
  BY <1>1, <1>6, <1>7 DEF t, a, b

-----------------------------------------------------------------------------
(* Records.                                                                    *)

LEMMA RowsAre ==
  ASSUME NEW r \in Row
  PROVE  /\ r # None /\ r # Gone
         /\ r.upTo \in Ids \cup {None} /\ r.covers \in Seq(Ids)
         /\ r.taint \in BOOLEAN /\ r.digest \in BOOLEAN /\ r.done \in BOOLEAN
  BY NoneAssumption DEF Row

LEMMA MarkedRows ==
  ASSUME NEW r \in Row
  PROVE  /\ [r EXCEPT !.digest = TRUE] \in Row /\ [r EXCEPT !.done = TRUE] \in Row
         /\ \A w \in {[r EXCEPT !.digest = TRUE], [r EXCEPT !.done = TRUE]} :
              w.upTo = r.upTo /\ w.covers = r.covers /\ w.taint = r.taint
         /\ [r EXCEPT !.digest = TRUE].digest = TRUE /\ [r EXCEPT !.digest = TRUE].done = r.done
         /\ [r EXCEPT !.done = TRUE].done = TRUE /\ [r EXCEPT !.done = TRUE].digest = r.digest
  BY DEF Row

LEMMA NewRowIs ==
  /\ NewRow \in Row /\ NewRow.upTo = None /\ NewRow.covers = <<>>
  /\ NewRow.digest = FALSE /\ NewRow.done = FALSE
  BY EmptySeq DEF NewRow, Row

LEMMA NoSummaryIs ==
  /\ NoSummary \in Held /\ NoSummary.upTo = None /\ NoSummary.covers = <<>>
  BY EmptySeq DEF NoSummary, Held

LEMMA MergingsAre ==
  ASSUME NEW j \in Merging
  PROVE  /\ j # None /\ j.conv \in Convs /\ j.mem \subseteq Convs
         /\ j.at \in {"begun", "digest", "written", "read", "merge", "merged", "failed"}
         /\ j = [conv |-> j.conv, at |-> j.at, mem |-> j.mem]
  BY NoneAssumption DEF Merging

LEMMA MergingStep ==
  ASSUME NEW j \in Merging,
         NEW at \in {"begun", "digest", "written", "read", "merge", "merged", "failed"}
  PROVE  /\ [j EXCEPT !.at = at] \in Merging
         /\ [j EXCEPT !.at = at].at = at /\ [j EXCEPT !.at = at].conv = j.conv
         /\ [j EXCEPT !.at = at].mem = j.mem
  BY DEF Merging

LEMMA MergingReads ==
  ASSUME NEW j \in Merging, NEW M \in SUBSET Convs
  PROVE  LET r == [j EXCEPT !.at = "merge", !.mem = M]
         IN  r \in Merging /\ r.at = "merge" /\ r.mem = M /\ r.conv = j.conv
  BY DEF Merging

LEMMA ExistsIs ==
  ASSUME TypeInv, NEW c \in Convs
  PROVE  /\ Exists(c) <=> conv[c] \in Row
         /\ Exists(c) <=> (conv[c] # None /\ conv[c] # Gone)
  BY RowsAre DEF TypeInv, Exists

-----------------------------------------------------------------------------
(* Steps that touch only part of the state.                                    *)

SameLives ==
  \A c \in Convs : (conv'[c] = None <=> conv[c] = None) /\ (conv'[c] = Gone <=> conv[c] = Gone)

SameRows ==
  /\ SameLives
  /\ \A c \in Convs : Exists(c) => /\ conv'[c].upTo = conv[c].upTo
                                   /\ conv'[c].covers = conv[c].covers
                                   /\ conv'[c].taint = conv[c].taint

LEMMA SameIsSame ==
  ASSUME UNCHANGED conv
  PROVE  SameRows
  BY DEF SameRows, SameLives

LEMMA NumbersStay ==
  ASSUME Numbers, UNCHANGED <<msgs, files, deleting, run, image, next, shown>>, SameLives
  PROVE  Numbers'
<1>1. \A c \in Convs : Exists(c)' <=> Exists(c)
  BY DEF SameLives, Exists
<1>2. \A c \in Convs : conv[c] = Gone => conv'[c] = Gone
  BY DEF SameLives
<1>3. \A c \in Convs : /\ IdsOf(c)' = IdsOf(c) /\ Has(c)' = Has(c) /\ FilesOf(c)' = FilesOf(c)
                       /\ Sent(c)' = Sent(c) /\ (Own(c)' <=> Own(c))
  BY DEF IdsOf, Has, FilesOf, Sent, Own
<1>4. Used' = Used
  BY DEF Used
<1> QED
  BY <1>1, <1>2, <1>3, <1>4 DEF Numbers

LEMMA ExactStays ==
  ASSUME TypeInv, Exact, SameRows,
         UNCHANGED <<msgs, cur, loading, shown, win, jobId, sums, summaries>>
  PROVE  Exact'
<1>1. \A c \in Convs : Exists(c)' <=> Exists(c)
  BY DEF SameRows, SameLives, Exists
<1>2. \A c \in Convs : IdsOf(c)' = IdsOf(c) /\ Has(c)' = Has(c)
  BY DEF IdsOf, Has
<1>3. \A s : MaySave(s)' <=> MaySave(s)
  BY DEF MaySave
<1>4. /\ \A s \in sums : s.conv \in Convs
      /\ win.of \in Convs \cup {None} /\ cur \in Convs \cup {None} /\ loading \in Convs \cup {None}
  BY DEF TypeInv, Summary, Held
<1>5. \A c \in Convs : Exists(c)' =>
        /\ conv'[c].upTo = None => conv'[c].covers = <<>>
        /\ conv'[c].taint \/ conv'[c].upTo = None
             \/ Upon(IdsOf(c)', conv'[c].upTo, conv'[c].covers)
  BY <1>1, <1>2 DEF Exact, RowExact, SameRows
<1>6. \A s \in sums' :
        /\ s.id \in 1..summaries' /\ conv'[s.conv] # None
        /\ MaySave(s)' /\ Exists(s.conv)' => s.taint \/ Upon(IdsOf(s.conv)', s.upTo, s.covers)
  BY <1>1, <1>2, <1>3, <1>4 DEF Exact, SumExact, SameRows, SameLives
<1>7. /\ win'.upTo = None => win'.covers = <<>>
      /\ win'.upTo # None => win'.of # None /\ conv'[win'.of] # None
      /\ win'.upTo # None /\ Exists(win.of)' =>
           conv'[win'.of].upTo = win'.upTo /\ conv'[win'.of].covers = win'.covers
  BY <1>1, <1>4 DEF Exact, WinExact, SameRows, SameLives
<1>8. /\ cur' # None /\ loading' # cur' /\ Exists(cur)' =>
           shown' = IdsOf(cur)' \/ ~(ToSet(shown)' \subseteq Has(cur)')
      /\ loading' # None => conv'[loading'] # None
      /\ jobId' \leq summaries'
  BY <1>1, <1>2, <1>4 DEF Exact, ShownExact, SameRows, SameLives
<1> QED
  BY <1>5, <1>6, <1>7, <1>8 DEF Exact, RowExact, SumExact, WinExact, ShownExact, Upon

(* Rows may be added or go, but nothing is marked.                             *)
NoMarks ==
  \A c \in Convs : Exists(c)' =>
    \/ Exists(c) /\ conv'[c].digest = conv[c].digest /\ conv'[c].done = conv[c].done
    \/ ~conv'[c].digest /\ ~conv'[c].done

LEMMA MergesStay ==
  ASSUME Merges, ConsolidationSound, NoMarks, UNCHANGED <<memVars, lock, job, flush>>
  PROVE  Merges' /\ ConsolidationSound'
<1>1. Merges'
  BY DEF Merges, memVars
<1>2. DigestOnDisk' /\ MemoryKeepsDigests'
  BY DEF ConsolidationSound, DigestOnDisk, MemoryKeepsDigests, NoMarks, memVars
<1>3. LockOwned'
  BY DEF ConsolidationSound, LockOwned
<1> QED
  BY <1>1, <1>2, <1>3 DEF ConsolidationSound

-----------------------------------------------------------------------------
(* Consolidation.                                                              *)

(* Only the rows and the consolidation change.                                 *)
Consolidates == UNCHANGED <<msgs, files, deleting, runVars, winVars, sumVars>>

LEMMA MergeTypes ==
  ASSUME TypeInv, Consolidates,
         conv' \in [Convs -> Row \cup {None, Gone}],
         digests' \subseteq Convs, memory' \subseteq Convs, snaps' \subseteq SUBSET Convs,
         torn' \in BOOLEAN, lock' \in {"free", "job", "flush"},
         job' \in Merging \cup {None}, flush' \in Merging \cup {None}
  PROVE  TypeInv'
  BY DEF TypeInv, Consolidates, runVars, winVars, sumVars

(* A mark on one row.                                                          *)
LEMMA MarkOne ==
  ASSUME TypeInv, NEW c \in Convs, NEW row,
         Exists(c) => /\ row \in Row
                      /\ row.upTo = conv[c].upTo /\ row.covers = conv[c].covers
                      /\ row.taint = conv[c].taint,
         SetRow(c, row)
  PROVE  /\ conv' \in [Convs -> Row \cup {None, Gone}] /\ SameRows
         /\ \A d \in Convs : Exists(d)' <=> Exists(d)
         /\ \A d \in Convs : d # c => conv'[d] = conv[d]
         /\ Exists(c) => conv'[c] = row
<1>1. conv \in [Convs -> Row \cup {None, Gone}]
  BY DEF TypeInv
<1>2. Exists(c) => row # None /\ row # Gone
  BY RowsAre
<1>3. CASE Exists(c)
  <2>1. conv' = [conv EXCEPT ![c] = row]
    BY <1>3 DEF SetRow
  <2>2. /\ conv' \in [Convs -> Row \cup {None, Gone}]
        /\ \A d \in Convs : d # c => conv'[d] = conv[d]
        /\ conv'[c] = row
    BY <1>1, <1>3, <2>1
  <2>3. SameRows
    BY <1>2, <1>3, <2>2 DEF SameRows, SameLives, Exists
  <2>4. \A d \in Convs : Exists(d)' <=> Exists(d)
    BY <1>2, <1>3, <2>2 DEF Exists
  <2> QED
    BY <2>2, <2>3, <2>4
<1>4. CASE ~Exists(c)
  <2>1. conv' = conv
    BY <1>4 DEF SetRow
  <2> QED
    BY <1>1, <1>4, <2>1 DEF SameRows, SameLives, Exists
<1> QED
  BY <1>3, <1>4

LEMMA Starts ==
  ASSUME TypeInv, Merges, ConsolidationSound, NEW c \in Convs, StartJob(c),
         UNCHANGED <<memVars, flush>>, NoMarks
  PROVE  /\ lock' \in {"free", "job", "flush"} /\ job' \in Merging \cup {None}
         /\ Merges' /\ ConsolidationSound'
<1>1. CASE lock = "free"
  <2> DEFINE j == [conv |-> c, at |-> "begun", mem |-> {}]
  <2>1. j \in Merging /\ j.at = "begun" /\ j # None
    BY NoneAssumption DEF Merging
  <2>2. lock' = "job" /\ job' = j
    BY <1>1 DEF StartJob
  <2> HIDE DEF j
  <2>3. Merges'
    BY <2>1, <2>2 DEF Merges, memVars
  <2>4. LockOwned'
    BY <1>1, <2>1, <2>2 DEF ConsolidationSound, LockOwned
  <2>5. DigestOnDisk' /\ MemoryKeepsDigests'
    BY DEF ConsolidationSound, DigestOnDisk, MemoryKeepsDigests, NoMarks, memVars
  <2> QED
    BY <2>1, <2>2, <2>3, <2>4, <2>5 DEF ConsolidationSound
<1>2. CASE lock # "free"
  <2>1. UNCHANGED <<memVars, lock, job, flush>>
    BY <1>2 DEF StartJob
  <2>2. lock \in {"free", "job", "flush"} /\ job \in Merging \cup {None}
    BY DEF TypeInv
  <2> QED
    BY <2>1, <2>2, MergesStay
<1> QED
  BY <1>1, <1>2

LEMMA NothingMarked ==
  ASSUME UNCHANGED conv
  PROVE  NoMarks
  BY DEF NoMarks, Exists

(* The job moves on, in a way that Merges speaks of.                           *)
LEMMA JobMoves ==
  ASSUME TypeInv, Merges, ConsolidationSound, NoMarks, job # None,
         NEW j \in Merging, job' = j, lock' = lock, flush' = flush,
         digests \subseteq digests', UNCHANGED <<memory, snaps, torn>>,
         j.at \in {"written", "read", "merge", "merged"} => j.conv \in digests',
         j.at = "merge" => j.mem = memory,
         j.at = "merged" => j.conv \in memory
  PROVE  Merges' /\ ConsolidationSound'
<1>1. j # None
  BY MergingsAre
<1>2. Merges'
  BY <1>1 DEF Merges
<1>3. LockOwned'
  BY <1>1 DEF ConsolidationSound, LockOwned
<1>4. DigestOnDisk' /\ MemoryKeepsDigests'
  BY DEF ConsolidationSound, DigestOnDisk, MemoryKeepsDigests, NoMarks
<1> QED
  BY <1>2, <1>3, <1>4 DEF ConsolidationSound

LEMMA JobEnds ==
  ASSUME TypeInv, Merges, ConsolidationSound, NoMarks, job # None,
         Release, flush' = flush, UNCHANGED memVars
  PROVE  Merges' /\ ConsolidationSound'
<1>1. job' = None /\ lock' = "free" /\ lock = "job"
  BY DEF Release, ConsolidationSound, LockOwned
<1>2. Merges'
  BY <1>1 DEF Merges, memVars
<1>3. LockOwned'
  BY <1>1 DEF ConsolidationSound, LockOwned
<1>4. DigestOnDisk' /\ MemoryKeepsDigests'
  BY DEF ConsolidationSound, DigestOnDisk, MemoryKeepsDigests, NoMarks, memVars
<1> QED
  BY <1>2, <1>3, <1>4 DEF ConsolidationSound

LEMMA JobSteps ==
  ASSUME TypeInv, Merges, ConsolidationSound, JobNext
  PROVE  TypeInv' /\ Merges' /\ ConsolidationSound' /\ SameRows
<1>1. /\ conv \in [Convs -> Row \cup {None, Gone}] /\ lock \in {"free", "job", "flush"}
      /\ digests \subseteq Convs /\ memory \subseteq Convs /\ snaps \subseteq SUBSET Convs
      /\ torn \in BOOLEAN /\ flush \in Merging \cup {None} /\ job \in Merging \cup {None}
  BY DEF TypeInv
<1>2. job # None /\ job \in Merging /\ lock = "job" /\ flush' = flush /\ Consolidates
  <2>1. job # None
    BY DEF JobNext, JobBegin, WriteDigest, MarkDigest, ReadMemory, Merge, MarkConsolidated,
           JobFails, JobAt
  <2>2. flush' = flush /\ Consolidates
    BY DEF JobNext, JobBegin, WriteDigest, MarkDigest, ReadMemory, Merge, MarkConsolidated,
           JobFails, Consolidates, dbVars, runVars, winVars, sumVars
  <2> QED
    BY <1>1, <2>1, <2>2 DEF ConsolidationSound, LockOwned
<1>3. /\ job.conv \in Convs /\ job.mem \subseteq Convs
      /\ \A at \in {"begun", "digest", "written", "read", "merge", "merged", "failed"} :
           [job EXCEPT !.at = at] \in Merging /\ [job EXCEPT !.at = at].at = at
           /\ [job EXCEPT !.at = at].conv = job.conv /\ [job EXCEPT !.at = at].mem = job.mem
  <2>1. job.conv \in Convs /\ job.mem \subseteq Convs
    BY <1>2, MergingsAre
  <2>2. ASSUME NEW at \in {"begun", "digest", "written", "read", "merge", "merged", "failed"}
        PROVE  [job EXCEPT !.at = at] \in Merging /\ [job EXCEPT !.at = at].at = at
           /\ [job EXCEPT !.at = at].conv = job.conv /\ [job EXCEPT !.at = at].mem = job.mem
    BY <1>2, MergingStep
  <2> QED
    BY <2>1, <2>2
<1>4. ASSUME Release, UNCHANGED <<conv, memVars>>
      PROVE  TypeInv' /\ Merges' /\ ConsolidationSound' /\ SameRows
  <2>1. job' = None /\ lock' = "free" /\ UNCHANGED <<conv, digests, memory, snaps, torn>>
    BY <1>4 DEF Release, memVars
  <2>2. TypeInv'
    BY <1>1, <1>2, <2>1, MergeTypes
  <2> QED
    BY <1>2, <1>4, <2>2, JobEnds, NothingMarked, SameIsSame
<1>5. ASSUME NEW j \in Merging, job' = j, UNCHANGED <<conv, lock, memVars>>,
             j.at \in {"written", "read", "merge", "merged"} => j.conv \in digests,
             j.at = "merge" => j.mem = memory,
             j.at = "merged" => j.conv \in memory
      PROVE  TypeInv' /\ Merges' /\ ConsolidationSound' /\ SameRows
  <2>1. UNCHANGED <<digests, memory, snaps, torn, lock, conv>>
    BY <1>5 DEF memVars
  <2>2. TypeInv'
    BY <1>1, <1>2, <1>5, <2>1, MergeTypes
  <2>3. Merges' /\ ConsolidationSound'
    BY <1>2, <1>5, <2>1, JobMoves, NothingMarked
  <2> QED
    BY <2>1, <2>2, <2>3, SameIsSame
<1>6. CASE JobBegin
  <2>1. UNCHANGED <<conv, memVars>>
    BY <1>6 DEF JobBegin, dbVars
  <2>2. CASE Release
    BY <1>4, <2>1, <2>2
  <2>3. CASE /\ UNCHANGED lock
             /\ \/ JobStep("digest") \/ JobStep("failed")
                \/ job.conv \in digests /\ JobStep("read")
    <3>1. PICK at \in {"digest", "failed", "read"} :
            job' = [job EXCEPT !.at = at] /\ (at = "read" => job.conv \in digests)
      BY <2>3 DEF JobStep
    <3> QED
      BY <1>3, <1>5, <2>1, <2>3, <3>1
  <2> QED
    BY <1>6, <2>2, <2>3 DEF JobBegin
<1>7. CASE WriteDigest
  <2> DEFINE j == [job EXCEPT !.at = "written"]
  <2>1. /\ job' = j /\ digests' = digests \cup {job.conv}
        /\ UNCHANGED <<conv, lock, memory, snaps, torn>>
    BY <1>7 DEF WriteDigest, JobStep, dbVars
  <2>2. j \in Merging /\ j.at = "written" /\ j.conv = job.conv
    BY <1>3
  <2> HIDE DEF j
  <2>3. Merges' /\ ConsolidationSound'
    BY <1>2, <2>1, <2>2, JobMoves, NothingMarked
  <2>4. TypeInv'
    BY <1>1, <1>2, <1>3, <2>1, <2>2, MergeTypes
  <2> QED
    BY <2>1, <2>3, <2>4, SameIsSame
<1>8. CASE MarkDigest
  <2> DEFINE j == [job EXCEPT !.at = "read"]
             row == [conv[job.conv] EXCEPT !.digest = TRUE]
  <2>1. /\ job' = j /\ job.at = "written" /\ SetRow(job.conv, row)
        /\ UNCHANGED <<lock, digests, memory, snaps, torn>>
    BY <1>8 DEF MarkDigest, JobStep, JobAt, memVars
  <2>2. j \in Merging /\ j.at = "read" /\ j.conv = job.conv
    BY <1>3
  <2>3. job.conv \in digests
    BY <1>2, <2>1 DEF Merges
  <2>4. Exists(job.conv) =>
          /\ row \in Row /\ row.done = conv[job.conv].done
          /\ row.upTo = conv[job.conv].upTo /\ row.covers = conv[job.conv].covers
          /\ row.taint = conv[job.conv].taint
    BY <1>3, ExistsIs, MarkedRows
  <2> HIDE DEF j, row
  <2>5. /\ conv' \in [Convs -> Row \cup {None, Gone}] /\ SameRows
        /\ \A d \in Convs : Exists(d)' <=> Exists(d)
        /\ \A d \in Convs : d # job.conv => conv'[d] = conv[d]
        /\ Exists(job.conv) => conv'[job.conv] = row
    BY <1>3, <2>1, <2>4, MarkOne
  <2>6. TypeInv'
    BY <1>1, <1>2, <2>1, <2>2, <2>5, MergeTypes
  <2>7. Merges'
    BY <1>2, <2>1, <2>2, <2>3 DEF Merges
  <2>8. LockOwned'
    BY <1>2, <2>1, <2>2, MergingsAre DEF ConsolidationSound, LockOwned
  <2>9. DigestOnDisk' /\ MemoryKeepsDigests'
    BY <2>1, <2>3, <2>4, <2>5 DEF ConsolidationSound, DigestOnDisk, MemoryKeepsDigests
  <2> QED
    BY <2>5, <2>6, <2>7, <2>8, <2>9 DEF ConsolidationSound
<1>9. CASE ReadMemory
  <2> DEFINE j == [job EXCEPT !.at = "merge", !.mem = memory]
  <2>1. job' = j /\ job.at = "read" /\ UNCHANGED <<conv, lock, memVars>>
    BY <1>9 DEF ReadMemory, JobAt, dbVars
  <2>2. j \in Merging /\ j.at = "merge" /\ j.conv = job.conv /\ j.mem = memory
    BY <1>1, <1>2, MergingReads
  <2>3. job.conv \in digests
    BY <1>2, <2>1 DEF Merges
  <2> HIDE DEF j
  <2> QED
    BY <1>5, <2>1, <2>2, <2>3
<1>10. CASE Merge
  <2> DEFINE j == [job EXCEPT !.at = "merged"]
  <2>1. /\ job' = j /\ job.at = "merge" /\ UNCHANGED <<conv, lock, digests, torn>>
        /\ snaps' = Archived /\ memory' = job.mem \cup {job.conv}
    BY <1>10 DEF Merge, JobStep, JobAt, WriteConsolidated, dbVars
  <2>2. j \in Merging /\ j.at = "merged" /\ j.conv = job.conv /\ j # None
    BY <1>3, NoneAssumption
  <2>3. memory' = memory \cup {job.conv} /\ job.conv \in digests
    BY <1>2, <2>1 DEF Merges
  <2>4. snaps \subseteq snaps' /\ snaps' \subseteq SUBSET Convs
    BY <1>1, <2>1 DEF Archived
  <2> HIDE DEF j
  <2>5. TypeInv'
    BY <1>1, <1>2, <1>3, <2>1, <2>2, <2>3, <2>4, MergeTypes
  <2>6. Merges'
    BY <1>2, <2>1, <2>2, <2>3, MergingsAre DEF Merges, ConsolidationSound, LockOwned
  <2>7. LockOwned'
    BY <1>2, <2>1, <2>2 DEF ConsolidationSound, LockOwned
  <2>8. DigestOnDisk' /\ MemoryKeepsDigests'
    BY <2>1, <2>3, <2>4 DEF ConsolidationSound, DigestOnDisk, MemoryKeepsDigests, Exists
  <2> QED
    BY <2>1, <2>5, <2>6, <2>7, <2>8, SameIsSame DEF ConsolidationSound
<1>11. CASE MarkConsolidated
  <2> DEFINE row == [conv[job.conv] EXCEPT !.done = TRUE]
  <2>1. /\ job' = None /\ lock' = "free" /\ job.at = "merged" /\ SetRow(job.conv, row)
        /\ UNCHANGED <<digests, memory, snaps, torn>>
    BY <1>11 DEF MarkConsolidated, Release, JobAt, memVars
  <2>2. job.conv \in memory
    BY <1>2, <2>1 DEF Merges
  <2>3. Exists(job.conv) =>
          /\ row \in Row /\ row.digest = conv[job.conv].digest
          /\ row.upTo = conv[job.conv].upTo /\ row.covers = conv[job.conv].covers
          /\ row.taint = conv[job.conv].taint
    BY <1>3, ExistsIs, MarkedRows
  <2> HIDE DEF row
  <2>4. /\ conv' \in [Convs -> Row \cup {None, Gone}] /\ SameRows
        /\ \A d \in Convs : Exists(d)' <=> Exists(d)
        /\ \A d \in Convs : d # job.conv => conv'[d] = conv[d]
        /\ Exists(job.conv) => conv'[job.conv] = row
    BY <1>3, <2>1, <2>3, MarkOne
  <2>5. TypeInv'
    BY <1>1, <1>2, <2>1, <2>4, MergeTypes
  <2>6. Merges'
    BY <1>2, <2>1 DEF Merges
  <2>7. LockOwned'
    BY <1>2, <2>1 DEF ConsolidationSound, LockOwned
  <2>8. DigestOnDisk' /\ MemoryKeepsDigests'
    BY <2>1, <2>2, <2>3, <2>4 DEF ConsolidationSound, DigestOnDisk, MemoryKeepsDigests
  <2> QED
    BY <2>4, <2>5, <2>6, <2>7, <2>8 DEF ConsolidationSound
<1>12. CASE JobFails
  BY <1>4, <1>12 DEF JobFails, dbVars
<1> QED
  BY <1>6, <1>7, <1>8, <1>9, <1>10, <1>11, <1>12 DEF JobNext

LEMMA RecoverSteps ==
  ASSUME TypeInv, Merges, ConsolidationSound, Recover
  PROVE  TypeInv' /\ Merges' /\ ConsolidationSound' /\ SameRows
<1>1. /\ conv' = conv /\ flush' = flush /\ UNCHANGED memVars /\ Consolidates
      /\ UNCHANGED <<digests, memory, snaps, torn>>
  BY DEF Recover, Consolidates, dbVars, memVars, runVars, winVars, sumVars
<1>2. SameRows /\ NoMarks
  BY <1>1, SameIsSame, NothingMarked
<1>3. Merges' /\ ConsolidationSound'
      /\ lock' \in {"free", "job", "flush"} /\ job' \in Merging \cup {None}
  <2>1. CASE UNCHANGED <<lock, job>>
    BY <1>1, <1>2, <2>1, MergesStay DEF TypeInv
  <2>2. CASE \E c \in Convs : StartJob(c)
    BY <1>1, <1>2, <2>2, Starts
  <2> QED
    BY <2>1, <2>2 DEF Recover
<1>4. TypeInv'
  <2>1. /\ conv \in [Convs -> Row \cup {None, Gone}]
        /\ digests \subseteq Convs /\ memory \subseteq Convs /\ snaps \subseteq SUBSET Convs
        /\ torn \in BOOLEAN /\ flush \in Merging \cup {None}
    BY DEF TypeInv
  <2> QED
    BY <1>1, <1>3, <2>1, MergeTypes
<1> QED
  BY <1>2, <1>3, <1>4

(* A flush moves on, or ends: what it writes is the memory it read.            *)
LEMMA FlushMoves ==
  ASSUME TypeInv, Merges, ConsolidationSound, Consolidates, UNCHANGED <<conv, digests, torn, job>>,
         flush' \in Merging \cup {None}, lock' \in {"free", "job", "flush"},
         lock' = "job" <=> lock = "job",
         lock' = "flush" <=> (IF flush' = None THEN FALSE ELSE flush'.at = "merge"),
         memory' = memory, snaps \subseteq snaps', snaps' \subseteq SUBSET Convs,
         flush' # None => (flush'.at = "merge" => flush'.mem = memory)
  PROVE  TypeInv' /\ Merges' /\ ConsolidationSound' /\ SameRows
<1>1. TypeInv'
  <2>1. /\ conv \in [Convs -> Row \cup {None, Gone}]
        /\ digests \subseteq Convs /\ memory \subseteq Convs
        /\ torn \in BOOLEAN /\ job \in Merging \cup {None}
    BY DEF TypeInv
  <2> QED
    BY <2>1, MergeTypes
<1>2. Merges'
  BY DEF Merges
<1>3. LockOwned'
  BY DEF ConsolidationSound, LockOwned
<1>4. DigestOnDisk' /\ MemoryKeepsDigests'
  BY DEF ConsolidationSound, DigestOnDisk, MemoryKeepsDigests, Exists
<1> QED
  BY <1>1, <1>2, <1>3, <1>4, SameIsSame DEF ConsolidationSound

LEMMA FlushSteps ==
  ASSUME TypeInv, Merges, ConsolidationSound, FlushNext \/ \E c \in Convs : FlushBegin(c)
  PROVE  TypeInv' /\ Merges' /\ ConsolidationSound' /\ SameRows
<1>1. /\ lock \in {"free", "job", "flush"} /\ flush \in Merging \cup {None}
      /\ memory \subseteq Convs /\ snaps \subseteq SUBSET Convs
      /\ lock = "flush" <=> (IF flush = None THEN FALSE ELSE flush.at = "merge")
  BY DEF TypeInv, ConsolidationSound, LockOwned
<1>2. UNCHANGED <<conv, digests, torn, job>> /\ Consolidates
  BY DEF FlushNext, FlushBegin, FlushRead, FlushWrite, FlushFails, WriteConsolidated,
         Consolidates, dbVars, runVars, winVars, sumVars, memVars
<1>3. ASSUME NEW c \in Convs, FlushBegin(c)
      PROVE  TypeInv' /\ Merges' /\ ConsolidationSound' /\ SameRows
  <2> DEFINE f == [conv |-> c, at |-> "digest", mem |-> {}]
  <2>1. f \in Merging /\ f # None /\ f.at = "digest"
    BY NoneAssumption DEF Merging
  <2>2. /\ flush = None /\ flush' = f /\ UNCHANGED <<lock, memory, snaps>>
    BY <1>3 DEF FlushBegin, memVars
  <2> HIDE DEF f
  <2> QED
    BY <1>1, <1>2, <2>1, <2>2, FlushMoves
<1>4. CASE FlushRead
  <2>1. flush # None /\ flush \in Merging /\ flush.at = "digest" /\ UNCHANGED <<memory, snaps>>
    BY <1>1, <1>4 DEF FlushRead, memVars
  <2>2. CASE lock = "free"
    <3> DEFINE f == [flush EXCEPT !.at = "merge", !.mem = memory]
    <3>1. f \in Merging /\ f.at = "merge" /\ f.mem = memory
      BY <1>1, <2>1, MergingReads
    <3>2. f # None
      BY <3>1, NoneAssumption
    <3>3. lock' = "flush" /\ flush' = f
      BY <1>4, <2>2 DEF FlushRead
    <3> HIDE DEF f
    <3> QED
      BY <1>1, <1>2, <2>1, <2>2, <3>1, <3>2, <3>3, FlushMoves
  <2>3. CASE lock # "free"
    <3>1. flush' = None /\ lock' = lock
      BY <1>4, <2>3 DEF FlushRead
    <3> QED
      BY <1>1, <1>2, <2>1, <3>1, FlushMoves
  <2> QED
    BY <2>2, <2>3
<1>5. CASE FlushWrite
  <2>1. /\ flush # None /\ flush.at = "merge" /\ flush' = None /\ lock = "flush" /\ lock' = "free"
        /\ memory' = flush.mem /\ snaps' = Archived
    BY <1>1, <1>5 DEF FlushWrite, Unlocked, WriteConsolidated
  <2>2. memory' = memory
    BY <2>1 DEF Merges
  <2>3. snaps \subseteq snaps' /\ snaps' \subseteq SUBSET Convs
    BY <1>1, <2>1 DEF Archived
  <2> QED
    BY <1>1, <1>2, <2>1, <2>2, <2>3, FlushMoves
<1>6. CASE FlushFails
  <2>1. /\ flush # None /\ flush.at = "merge" /\ flush' = None /\ lock = "flush" /\ lock' = "free"
        /\ UNCHANGED <<memory, snaps>>
    BY <1>1, <1>6 DEF FlushFails, Unlocked, memVars
  <2> QED
    BY <1>1, <1>2, <2>1, FlushMoves
<1> QED
  BY <1>3, <1>4, <1>5, <1>6 DEF FlushNext

(* What a consolidation does leaves numbers and summaries alone.               *)
LEMMA ConsolidationKeeps ==
  ASSUME IInv, JobNext \/ Recover \/ FlushNext \/ \E c \in Convs : FlushBegin(c)
  PROVE  IInv'
<1>1. TypeInv' /\ Merges' /\ ConsolidationSound' /\ SameRows
  BY JobSteps, RecoverSteps, FlushSteps DEF IInv
<1>2. Consolidates
  BY DEF JobNext, JobBegin, WriteDigest, MarkDigest, ReadMemory, Merge, MarkConsolidated,
         JobFails, Recover, FlushNext, FlushBegin, FlushRead, FlushWrite, FlushFails,
         Consolidates, dbVars, runVars, winVars, sumVars
<1>3. Numbers'
  BY <1>1, <1>2, NumbersStay DEF IInv, SameRows, Consolidates, runVars, winVars
<1>4. Exact'
  BY <1>1, <1>2, ExactStays DEF IInv, Consolidates, winVars, sumVars
<1> QED
  BY <1>1, <1>3, <1>4 DEF IInv

-----------------------------------------------------------------------------
(* Turns.                                                                      *)

LEMMA Numbered ==
  ASSUME TypeInv
  PROVE  /\ MaxIds \in Nat /\ next \in Nat /\ next \geq 1 /\ next \leq MaxIds + 1
         /\ Used \subseteq Ids /\ next \notin Used
         /\ \A c \in Convs : msgs[c] \in Seq(Message)
  BY ConversationAssumption DEF TypeInv, Used, Ids

LEMMA UsedGrows ==
  ASSUME TypeInv, next' = next + 1
  PROVE  Used' = Used \cup {next} /\ next \notin Used
  BY ConversationAssumption DEF TypeInv, Used

LEMMA SendKeeps ==
  ASSUME IInv, NEW c \in Convs, Send(c)
  PROVE  IInv'
<1> DEFINE m == [id |-> next, file |-> IF ImageOf(next) = {} THEN None ELSE next]
<1> USE DEF IInv
<1>1. /\ run[c] = "none" /\ next < MaxIds /\ cur' = c
      /\ run' = [run EXCEPT ![c] = "sending"]
      /\ next' = next + 1
      /\ image' = [image EXCEPT ![c] = m]
      /\ files' = files \cup ImageOf(next)
      /\ UNCHANGED <<msgs, deleting, loading, shown, win, jobId, sums, summaries>>
      /\ UNCHANGED <<memVars, lock, job, flush>>
      /\ \/ cur = c /\ conv' = conv
         \/ cur = None /\ conv[c] = None /\ conv' = [conv EXCEPT ![c] = NewRow]
  BY DEF Send, dbVars, sumVars, jobVars
<1>2. next \in Ids /\ ImageOf(next) \subseteq {next}
  BY <1>1, Numbered DEF ImageOf, Ids
<1>3. m \in Message /\ m.id = next /\ m.file \in ({m.id} \cap files') \cup {None}
  BY <1>1, <1>2 DEF Message
<1> HIDE DEF m
<1>4. TypeInv'
  <2>1. /\ conv' \in [Convs -> Row \cup {None, Gone}] /\ files' \subseteq Ids
        /\ run' \in [Convs -> {"none", "sending", "streaming"}]
        /\ image' \in [Convs -> Message \cup {None}] /\ next' \in 1..MaxIds + 1
    <3>1. conv \in [Convs -> Row \cup {None, Gone}] /\ files \subseteq Ids
      BY DEF TypeInv
    <3>2. conv' \in [Convs -> Row \cup {None, Gone}]
      BY <1>1, <3>1, NewRowIs
    <3>3. files' \subseteq Ids
      BY <1>1, <1>2, <3>1
    <3>4. run' \in [Convs -> {"none", "sending", "streaming"}]
      BY <1>1 DEF TypeInv
    <3>5. image' \in [Convs -> Message \cup {None}]
      BY <1>1, <1>3 DEF TypeInv
    <3>6. next' \in 1..MaxIds + 1
      BY <1>1, Numbered
    <3> QED
      BY <3>2, <3>3, <3>4, <3>5, <3>6
  <2> QED
    BY <1>1, <2>1 DEF TypeInv, memVars
<1>5. Merges' /\ ConsolidationSound'
  <2>1. NoMarks
    BY <1>1, NewRowIs DEF NoMarks, Exists, TypeInv
  <2> QED
    BY <1>1, <2>1, MergesStay
<1>6. Numbers'
  <2>1. Used' = Used \cup {next} /\ next \notin Used
    BY <1>1, UsedGrows
  <2>2. /\ Sent(c) = {} /\ Sent(c)' = {next}
        /\ \A d \in Convs : d # c => Sent(d)' = Sent(d) /\ image'[d] = image[d] /\ run'[d] = run[d]
        /\ image'[c] = m
    BY <1>1, <1>3 DEF Sent, TypeInv
  <2>3. \A d \in Convs : /\ IdsOf(d)' = IdsOf(d) /\ Has(d)' = Has(d) /\ FilesOf(d)' = FilesOf(d)
                         /\ Own(d)' <=> Own(d)
    BY <1>1 DEF IdsOf, Has, FilesOf, Own
  <2>4. \A d \in Convs : ~Exists(d)' => ~Exists(d)
    BY <1>1, NewRowIs, NoneAssumption DEF TypeInv, Exists
  <2>5. \A d \in Convs : conv[d] = Gone => conv'[d] = Gone
    BY <1>1, NoneAssumption DEF TypeInv
  <2>6. \A d \in Convs : Sent(d) \subseteq Used /\ Has(d) \subseteq Used
    BY DEF Numbers
  <2>7. ToSet(shown)' = ToSet(shown) /\ IsInjective(shown)' = IsInjective(shown)
    BY <1>1
  <2>8. ASSUME NEW d \in Convs
        PROVE  /\ ~Exists(d)' => msgs'[d] = <<>>
               /\ IsInjective(IdsOf(d)')
               /\ Has(d)' \subseteq Used' \ Sent(d)' /\ Sent(d)' \subseteq Used'
               /\ Own(d)' /\ FilesOf(d)' \subseteq files'
               /\ run'[d] = "sending" =>
                    /\ image'[d] \in Message
                    /\ image'[d].file \in ({image'[d].id} \cap files') \cup {None}
               /\ ToSet(shown)' \cap Sent(d)' = {}
    BY <1>1, <1>3, <2>1, <2>2, <2>3, <2>4, <2>6, <2>7 DEF Numbers
  <2>9. ASSUME NEW d \in Convs, NEW e \in Convs, d # e
        PROVE  (Has(d)' \cup Sent(d)') \cap (Has(e)' \cup Sent(e)') = {}
    BY <2>1, <2>2, <2>3, <2>6, <2>9 DEF Numbers
  <2>10. ASSUME NEW d \in Convs, deleting'[d] # None
         PROVE  /\ deleting'[d].paths \subseteq Used' \ Sent(d)'
                /\ \A e \in Convs : d # e => deleting'[d].paths \cap (Has(e)' \cup Sent(e)') = {}
                /\ deleting'[d].at = "deleted" => conv'[d] = Gone
    <3>1. deleting'[d] = deleting[d] /\ deleting[d].paths \subseteq Used
      BY <1>1, <2>10 DEF Numbers
    <3> QED
      BY <2>1, <2>2, <2>3, <2>5, <2>10, <3>1 DEF Numbers
  <2>11. ToSet(shown)' \subseteq Used' /\ IsInjective(shown)'
    BY <2>1, <2>7 DEF Numbers
  <2> QED
    BY <2>8, <2>9, <2>10, <2>11 DEF Numbers
<1>7. Exact'
  <2>1. CASE cur = c /\ conv' = conv
    BY <1>1, <2>1, SameIsSame, ExactStays
  <2>2. CASE cur = None /\ conv[c] = None /\ conv' = [conv EXCEPT ![c] = NewRow]
    <3>1. /\ conv'[c] = NewRow /\ \A d \in Convs : d # c => conv'[d] = conv[d]
      BY <2>2 DEF TypeInv
    <3>2. /\ \A d \in Convs : d # c => (Exists(d)' <=> Exists(d))
          /\ \A d : IdsOf(d)' = IdsOf(d) /\ Has(d)' = Has(d)
      BY <1>1, <3>1 DEF Exists, IdsOf, Has
    <3>3. /\ \A s \in sums : s.conv \in Convs /\ s.conv # c
          /\ win.of \in Convs \cup {None} /\ loading \in Convs \cup {None} /\ loading # c
          /\ win.upTo # None => win.of # c
      BY <2>2, NoneAssumption DEF TypeInv, Summary, Held, Exact, RowExact, SumExact, WinExact,
         ShownExact
    <3>4. \A s \in sums : MaySave(s)' => MaySave(s)
      BY <1>1, <2>2, <3>3 DEF MaySave
    <3>5. msgs[c] = <<>>
      BY <2>2 DEF Numbers, Exists
    <3>6. IdsOf(c)' = <<>> /\ Has(c)' = {}
      BY <1>1, <3>5, InSequence, NothingIn
    <3>7. shown = <<>> \/ ~(ToSet(shown) \subseteq {})
      <4>1. shown \in Seq(Ids)
        BY DEF TypeInv
      <4>2. ASSUME shown # <<>> PROVE shown[1] \in ToSet(shown)
        BY <4>1, <4>2 DEF ToSet
      <4> QED
        BY <4>2
    <3>8. \A d \in Convs : Exists(d)' =>
        /\ conv'[d].upTo = None => conv'[d].covers = <<>>
        /\ conv'[d].taint \/ conv'[d].upTo = None
             \/ Upon(IdsOf(d)', conv'[d].upTo, conv'[d].covers)
      BY <3>1, <3>2, NewRowIs DEF Exact, RowExact
    <3>9. \A s \in sums' :
        /\ s.id \in 1..summaries' /\ conv'[s.conv] # None
        /\ MaySave(s)' /\ Exists(s.conv)' => s.taint \/ Upon(IdsOf(s.conv)', s.upTo, s.covers)
      BY <1>1, <3>1, <3>2, <3>3, <3>4 DEF Exact, SumExact
    <3>10. /\ win'.upTo = None => win'.covers = <<>>
           /\ win'.upTo # None => win'.of # None /\ conv'[win'.of] # None
           /\ win'.upTo # None /\ Exists(win.of)' =>
                conv'[win'.of].upTo = win'.upTo /\ conv'[win'.of].covers = win'.covers
      BY <1>1, <3>1, <3>2, <3>3 DEF Exact, WinExact
    <3>11. /\ cur' # None /\ loading' # cur' /\ Exists(cur)' =>
                shown' = IdsOf(cur)' \/ ~(ToSet(shown)' \subseteq Has(cur)')
           /\ loading' # None => conv'[loading'] # None
           /\ jobId' \leq summaries'
      <4>1. IdsOf(cur)' = <<>> /\ Has(cur)' = {}
        BY <1>1, <3>6 DEF IdsOf, Has
      <4> QED
        BY <1>1, <3>1, <3>3, <3>7, <4>1 DEF Exact, ShownExact
    <3> QED
      BY <3>8, <3>9, <3>10, <3>11 DEF Exact, RowExact, SumExact, WinExact, ShownExact, Upon
  <2> QED
    BY <1>1, <2>1, <2>2
<1> QED
  BY <1>4, <1>5, <1>6, <1>7

(* A message with a number of its own is added to a conversation.              *)
LEMMA NumbersTake ==
  ASSUME TypeInv, Numbers, NEW c \in Convs, Exists(c), NEW m \in Message,
         msgs' = [msgs EXCEPT ![c] = Append(@, m)],
         m.file \in ({m.id} \cap files) \cup {None},
         UNCHANGED <<conv, files, deleting>>,
         shown' = shown \/ shown' = Append(shown, m.id),
         Used' = Used \cup {m.id},
         m.id \notin ToSet(shown), m.id \notin Sent(c)', Sent(c)' \subseteq Sent(c),
         \A d \in Convs : m.id \notin Has(d),
         \A d \in Convs : d # c => m.id \notin Sent(d) /\ Sent(d)' = Sent(d),
         \A d \in Convs : d # c /\ deleting[d] # None => m.id \notin deleting[d].paths,
         \A d \in Convs : run'[d] = "sending" => run[d] = "sending" /\ image'[d] = image[d]
  PROVE  Numbers'
<1>1. /\ msgs[c] \in Seq(Message) /\ shown \in Seq(Ids) /\ m.id \in Ids
      /\ msgs'[c] = Append(msgs[c], m)
      /\ \A d \in Convs : d # c => msgs'[d] = msgs[d]
  BY DEF TypeInv, Message
<1>2. /\ Has(c)' = Has(c) \cup {m.id}
      /\ FilesOf(c)' = FilesOf(c) \cup ({m.file} \ {None})
      /\ IdsOf(c)' = Append(IdsOf(c), m.id)
      /\ IdsOf(c) \in Seq(Ids) /\ ToSet(IdsOf(c)) = Has(c)
  BY <1>1, InSequence, AppendMessage, IdsAre
<1>3. \A d \in Convs : d # c => Has(d)' = Has(d) /\ FilesOf(d)' = FilesOf(d) /\ IdsOf(d)' = IdsOf(d)
  BY <1>1 DEF Has, FilesOf, IdsOf
<1>4. \A d \in Convs : Exists(d)' <=> Exists(d)
  BY DEF Exists
<1>5. \A d \in Convs : /\ Sent(d)' \subseteq Sent(d) /\ Sent(d) \subseteq Used
                       /\ m.id \notin Sent(d)'
  BY DEF Numbers
<1>6. ASSUME NEW d \in Convs
      PROVE  /\ ~Exists(d)' => msgs'[d] = <<>>
             /\ IsInjective(IdsOf(d)')
             /\ Has(d)' \subseteq Used' \ Sent(d)' /\ Sent(d)' \subseteq Used'
             /\ Own(d)' /\ FilesOf(d)' \subseteq files'
             /\ run'[d] = "sending" =>
                  /\ image'[d] \in Message
                  /\ image'[d].file \in ({image'[d].id} \cap files') \cup {None}
  <2>1. ~Exists(d)' => msgs'[d] = <<>>
    BY <1>1, <1>4 DEF Numbers
  <2>2. IsInjective(IdsOf(d)')
    <3>1. IsInjective(IdsOf(d))
      BY DEF Numbers
    <3>2. IsInjective(Append(IdsOf(c), m.id))
      <4>1. IsInjective(IdsOf(c)) /\ m.id \notin ToSet(IdsOf(c))
        BY <1>2 DEF Numbers
      <4> QED
        BY <1>1, <1>2, <4>1, InjectiveAppend
    <3> QED
      BY <1>2, <1>3, <3>1, <3>2
  <2>3. Has(d)' \subseteq Used' \ Sent(d)' /\ Sent(d)' \subseteq Used'
    BY <1>2, <1>3, <1>5 DEF Numbers
  <2>4. FilesOf(d)' \subseteq files'
    BY <1>2, <1>3 DEF Numbers
  <2>5. Own(d)'
    <3>1. Own(d)
      BY DEF Numbers
    <3>2. ToSet(msgs'[c]) = ToSet(msgs[c]) \cup {m}
      BY <1>1, AppendIs
    <3> QED
      BY <1>1, <3>1, <3>2 DEF Own
  <2> QED
    BY <2>1, <2>2, <2>3, <2>4, <2>5 DEF Numbers
<1>7. ASSUME NEW d \in Convs, NEW e \in Convs, d # e
      PROVE  (Has(d)' \cup Sent(d)') \cap (Has(e)' \cup Sent(e)') = {}
  BY <1>2, <1>3, <1>5, <1>7 DEF Numbers
<1>8. ASSUME NEW d \in Convs, deleting'[d] # None
      PROVE  /\ deleting'[d].paths \subseteq Used' \ Sent(d)'
             /\ \A e \in Convs : d # e => deleting'[d].paths \cap (Has(e)' \cup Sent(e)') = {}
             /\ deleting'[d].at = "deleted" => conv'[d] = Gone
  <2>1. deleting'[d] = deleting[d] /\ conv'[d] = conv[d]
    OBVIOUS
  <2>2. /\ deleting[d].paths \subseteq Used \ Sent(d)
        /\ \A e \in Convs : d # e => deleting[d].paths \cap (Has(e) \cup Sent(e)) = {}
        /\ deleting[d].at = "deleted" => conv[d] = Gone
    BY <1>8, <2>1 DEF Numbers
  <2>3. deleting[d].paths \subseteq Used' \ Sent(d)'
    BY <1>5, <2>2
  <2>4. ASSUME NEW e \in Convs, d # e
        PROVE  deleting[d].paths \cap (Has(e)' \cup Sent(e)') = {}
    BY <1>2, <1>3, <1>5, <1>8, <2>1, <2>2, <2>4
  <2> QED
    BY <2>1, <2>2, <2>3, <2>4
<1>9. /\ ToSet(shown)' \subseteq Used' /\ IsInjective(shown)'
      /\ \A d \in Convs : ToSet(shown)' \cap Sent(d)' = {}
  <2>1. /\ ToSet(shown) \subseteq Used /\ IsInjective(shown)
        /\ \A d \in Convs : ToSet(shown) \cap Sent(d) = {}
    BY DEF Numbers
  <2>2. CASE shown' = shown
    BY <1>5, <2>1, <2>2
  <2>3. CASE shown' = Append(shown, m.id)
    <3>1. ToSet(shown') = ToSet(shown) \cup {m.id} /\ IsInjective(shown')
      BY <1>1, <2>1, <2>3, AppendIs, InjectiveAppend
    <3> QED
      BY <1>5, <2>1, <3>1
  <2> QED
    BY <2>2, <2>3
<1> QED
  BY <1>6, <1>7, <1>8, <1>9 DEF Numbers

LEMMA UponAppend ==
  ASSUME NEW ids \in Seq(Ids), NEW x \in Ids, NEW upTo, NEW covers, Upon(ids, upTo, covers)
  PROVE  Upon(Append(ids, x), upTo, covers)
<1>1. PICK k \in 1..Len(ids) : upTo = ids[k] /\ covers = SubSeq(ids, 1, k)
  BY DEF Upon
<1> DEFINE t == Append(ids, x)
<1>2. /\ t \in Seq(Ids) /\ Len(t) = Len(ids) + 1 /\ Len(ids) \in Nat
      /\ \A i \in 1..Len(ids) : t[i] = ids[i]
  BY AppendIs
<1> HIDE DEF t
<1>3. k + 1 \in 1..Len(ids) + 1 /\ k + 1 \in 1..Len(t) + 1 /\ k + 1 - 1 = k
  BY <1>2
<1>4. SubSeq(t, 1, k) = SubSeq(ids, 1, k)
  <2>1. /\ SubSeq(t, 1, k) \in Seq(Ids) /\ Len(SubSeq(t, 1, k)) = k
        /\ \A i \in 1..k : SubSeq(t, 1, k)[i] = t[i]
    BY <1>2, <1>3, PrefixIs
  <2>2. /\ SubSeq(ids, 1, k) \in Seq(Ids) /\ Len(SubSeq(ids, 1, k)) = k
        /\ \A i \in 1..k : i \in 1..Len(ids) /\ SubSeq(ids, 1, k)[i] = ids[i]
    BY <1>2, <1>3, PrefixIs
  <2>3. \A i \in 1..k : SubSeq(t, 1, k)[i] = SubSeq(ids, 1, k)[i]
    BY <1>2, <2>1, <2>2
  <2> QED
    BY <2>1, <2>2, <2>3, SeqEqual
<1>5. k \in 1..Len(t) /\ t[k] = upTo
  BY <1>1, <1>2
<1>6. Upon(t, upTo, covers)
  BY <1>1, <1>4, <1>5 DEF Upon
<1> QED
  BY <1>6 DEF t

LEMMA ExactTake ==
  ASSUME TypeInv, Numbers, Exact, NEW c \in Convs, Exists(c), NEW m \in Message,
         msgs' = [msgs EXCEPT ![c] = Append(@, m)],
         UNCHANGED <<conv, cur, loading, win>>,
         m.id \notin ToSet(shown), \A d \in Convs : m.id \notin Has(d),
         shown' = Append(shown, m.id) \/ (cur # c /\ shown' = shown),
         \A s \in sums' : SumExact(s)' \/ (s \in sums /\ (MaySave(s)' => MaySave(s))),
         summaries' \in Nat, summaries' \geq summaries, jobId' \leq summaries'
  PROVE  Exact'
<1>1. /\ msgs[c] \in Seq(Message) /\ shown \in Seq(Ids) /\ m.id \in Ids
      /\ msgs'[c] = Append(msgs[c], m)
      /\ \A d \in Convs : d # c => msgs'[d] = msgs[d]
      /\ summaries \in Nat
  BY DEF TypeInv, Message
<1>2. /\ Has(c)' = Has(c) \cup {m.id}
      /\ IdsOf(c)' = Append(IdsOf(c), m.id)
      /\ IdsOf(c) \in Seq(Ids) /\ ToSet(IdsOf(c)) = Has(c)
  BY <1>1, InSequence, AppendMessage, IdsAre
<1>3. \A d \in Convs : d # c => Has(d)' = Has(d) /\ IdsOf(d)' = IdsOf(d)
  BY <1>1 DEF Has, IdsOf
<1>4. \A d : Exists(d)' <=> Exists(d)
  BY DEF Exists
<1>5. ASSUME NEW d \in Convs, NEW u, NEW v, Upon(IdsOf(d), u, v)
      PROVE  Upon(IdsOf(d)', u, v)
  <2>1. CASE d = c
    <3>1. Upon(Append(IdsOf(c), m.id), u, v)
      BY <1>1, <1>2, <1>5, <2>1, UponAppend
    <3> QED
      BY <1>2, <2>1, <3>1 DEF Upon
  <2>2. CASE d # c
    BY <1>3, <1>5, <2>2 DEF Upon
  <2> QED
    BY <2>1, <2>2
<1>6. ASSUME NEW d \in Convs PROVE RowExact(d)'
  <2>1. Exists(d) =>
          /\ conv[d].upTo = None => conv[d].covers = <<>>
          /\ conv[d].taint \/ conv[d].upTo = None
               \/ Upon(IdsOf(d), conv[d].upTo, conv[d].covers)
    BY DEF Exact, RowExact
  <2>2. Exists(d) =>
          /\ conv[d].upTo = None => conv[d].covers = <<>>
          /\ conv[d].taint \/ conv[d].upTo = None
               \/ Upon(IdsOf(d)', conv[d].upTo, conv[d].covers)
    BY <1>5, <2>1
  <2> QED
    BY <1>4, <2>2 DEF RowExact, Upon
<1>7. ASSUME NEW s \in sums' PROVE SumExact(s)'
  <2>1. CASE SumExact(s)'
    BY <2>1
  <2>2. CASE s \in sums /\ (MaySave(s)' => MaySave(s))
    <3>1. s.conv \in Convs /\ SumExact(s) /\ s.id \in Nat
      BY <2>2 DEF TypeInv, Summary, Exact
    <3>2. s.id \in 1..summaries'
      BY <1>1, <3>1 DEF SumExact
    <3>3. MaySave(s)' /\ Exists(s.conv)' => s.taint \/ Upon(IdsOf(s.conv)', s.upTo, s.covers)
      BY <1>4, <1>5, <2>2, <3>1 DEF SumExact
    <3> QED
      BY <3>1, <3>2, <3>3 DEF SumExact, Upon
  <2> QED
    BY <1>7, <2>1, <2>2
<1>8. WinExact'
  BY <1>4 DEF Exact, WinExact
<1>9. ShownExact'
  <2>1. SUFFICES ASSUME cur # None, loading # cur, Exists(cur)
                 PROVE  shown' = IdsOf(cur)' \/ ~(ToSet(shown') \subseteq Has(cur)')
    BY <1>4 DEF ShownExact
  <2>2. cur \in Convs /\ (shown = IdsOf(cur) \/ ~(ToSet(shown) \subseteq Has(cur)))
    BY <2>1 DEF TypeInv, Exact, ShownExact
  <2>3. ToSet(Append(shown, m.id)) = ToSet(shown) \cup {m.id}
    BY <1>1, AppendIs
  <2>4. CASE cur = c
    BY <1>2, <2>2, <2>3, <2>4
  <2>5. CASE cur # c
    BY <1>3, <2>2, <2>3, <2>5
  <2> QED
    BY <2>4, <2>5
<1> QED
  BY <1>6, <1>7, <1>8, <1>9 DEF Exact

(* Nothing is added: messages, files and turns may go, paths are collected.    *)
LEMMA NumbersLess ==
  ASSUME Numbers, next' = next,
         \A d \in Convs : ~Exists(d)' => msgs'[d] = <<>>,
         \A d \in Convs : Has(d)' \subseteq Has(d) /\ IsInjective(IdsOf(d)'),
         \A d \in Convs : Own(d)' /\ FilesOf(d)' \subseteq files',
         \A d \in Convs : run'[d] = "sending" =>
           /\ run[d] = "sending" /\ image'[d] = image[d]
           /\ image[d].file \in files => image[d].file \in files',
         \A d \in Convs : deleting'[d] # None =>
           \/ /\ deleting[d] # None /\ deleting'[d].paths = deleting[d].paths
              /\ deleting'[d].at = "deleted" => conv'[d] = Gone
           \/ deleting'[d].paths = FilesOf(d) /\ deleting'[d].at = "collected",
         ToSet(shown)' \subseteq Used, IsInjective(shown)',
         \A d \in Convs : ToSet(shown)' \cap Sent(d)' = {}
  PROVE  Numbers'
<1>1. Used' = Used
  BY DEF Used
<1>2. \A d \in Convs : Sent(d)' \subseteq Sent(d)
  BY DEF Sent
<1>0. \A d \in Convs : FilesOf(d) \subseteq Has(d)
  BY OwnFiles DEF Numbers
<1>3. ASSUME NEW d \in Convs
      PROVE  /\ Has(d)' \subseteq Used' \ Sent(d)' /\ Sent(d)' \subseteq Used'
             /\ run'[d] = "sending" =>
                  /\ image'[d] \in Message
                  /\ image'[d].file \in ({image'[d].id} \cap files') \cup {None}
  BY <1>1, <1>2 DEF Numbers
<1>4. ASSUME NEW d \in Convs, NEW e \in Convs, d # e
      PROVE  (Has(d)' \cup Sent(d)') \cap (Has(e)' \cup Sent(e)') = {}
  BY <1>2, <1>4 DEF Numbers
<1>5. ASSUME NEW d \in Convs, deleting'[d] # None
      PROVE  /\ deleting'[d].paths \subseteq Used' \ Sent(d)'
             /\ \A e \in Convs : d # e => deleting'[d].paths \cap (Has(e)' \cup Sent(e)') = {}
             /\ deleting'[d].at = "deleted" => conv'[d] = Gone
  <2>1. deleting'[d].paths \subseteq Used \ Sent(d)
    BY <1>0, <1>5 DEF Numbers
  <2>2. \A e \in Convs : d # e => deleting'[d].paths \cap (Has(e) \cup Sent(e)) = {}
    BY <1>0, <1>5 DEF Numbers
  <2>3. deleting'[d].at = "deleted" => conv'[d] = Gone
    BY <1>5
  <2> QED
    BY <1>1, <1>2, <2>1, <2>2, <2>3
<1> QED
  BY <1>1, <1>3, <1>4, <1>5 DEF Numbers

LEMMA TurnEnds ==
  ASSUME IInv, NEW c \in Convs,
         run' = [run EXCEPT ![c] = "none"],
         UNCHANGED <<conv, msgs, files, deleting, image, next, cur, loading, shown, win>>,
         UNCHANGED <<jobId, sums, summaries, memVars, lock, job, flush>>
  PROVE  IInv'
<1> USE DEF IInv
<1>1. /\ run' = [run EXCEPT ![c] = "none"]
      /\ UNCHANGED <<conv, msgs, files, deleting, image, next, cur, loading, shown, win>>
      /\ UNCHANGED <<jobId, sums, summaries, memVars, lock, job, flush>>
  OBVIOUS
<1>2. TypeInv'
  BY <1>1 DEF TypeInv, memVars
<1>3. Merges' /\ ConsolidationSound'
  BY <1>1, NothingMarked, MergesStay
<1>4. Numbers'
  <2>1. \A d \in Convs : /\ Has(d)' = Has(d) /\ FilesOf(d)' = FilesOf(d) /\ IdsOf(d)' = IdsOf(d)
                         /\ (Exists(d)' <=> Exists(d)) /\ (Own(d)' <=> Own(d))
    BY <1>1 DEF Has, FilesOf, IdsOf, Exists, Own
  <2>2. \A d \in Convs : run'[d] = "sending" => run[d] = "sending"
    BY <1>1 DEF TypeInv
  <2>3. \A d \in Convs : Sent(d)' \subseteq Sent(d)
    BY <1>1, <2>2 DEF Sent
  <2>4. shown' = shown
    BY <1>1
  <2> QED
    BY <1>1, <2>1, <2>2, <2>3, <2>4, NumbersLess DEF Numbers
<1>5. Exact'
  BY <1>1, SameIsSame, ExactStays
<1> QED
  BY <1>2, <1>3, <1>4, <1>5

LEMMA SaveUserKeeps ==
  ASSUME IInv, NEW c \in Convs, SaveUser(c)
  PROVE  IInv'
<1> USE DEF IInv
<1>1. /\ run[c] = "sending" /\ loading = None
      /\ image' = [image EXCEPT ![c] = None]
      /\ UNCHANGED <<conv, files, deleting, next, cur, loading, win>>
      /\ UNCHANGED <<jobId, sums, summaries, memVars, lock, job, flush>>
  BY DEF SaveUser, sumVars, jobVars
<1>2. Merges' /\ ConsolidationSound'
  BY <1>1, NothingMarked, MergesStay
<1>3. /\ image[c] \in Message /\ image[c].file \in ({image[c].id} \cap files) \cup {None}
      /\ Sent(c) = {image[c].id} /\ image[c].id \in Ids
  BY <1>1 DEF Numbers, Sent, Message
<1>4. CASE Exists(c)
  <2> DEFINE m == image[c]
  <2>1. /\ msgs' = [msgs EXCEPT ![c] = Append(@, m)]
        /\ shown' = Append(shown, m.id)
        /\ run' = [run EXCEPT ![c] = "streaming"]
    BY <1>4 DEF SaveUser
  <2> HIDE DEF m
  <2>2. m = image[c]
    BY DEF m
  <2>3. TypeInv'
    <3>1. msgs' \in [Convs -> Seq(Message)]
      BY <1>3, <2>1, <2>2, AppendMessage DEF TypeInv
    <3>2. shown' \in Seq(Ids)
      BY <1>3, <2>1, <2>2, AppendIs DEF TypeInv
    <3>3. /\ run' \in [Convs -> {"none", "sending", "streaming"}]
          /\ image' \in [Convs -> Message \cup {None}]
      BY <1>1, <2>1 DEF TypeInv
    <3> QED
      BY <1>1, <3>1, <3>2, <3>3 DEF TypeInv, memVars
  <2>4. /\ Sent(c)' = {} /\ Used' = Used /\ m.id \in Used
        /\ \A d \in Convs : d # c => Sent(d)' = Sent(d)
        /\ \A d \in Convs : run'[d] = "sending" => run[d] = "sending" /\ image'[d] = image[d]
    BY <1>1, <1>3, <2>1, <2>2 DEF Numbers, Sent, Used, TypeInv
  <2>5. /\ m.id \notin ToSet(shown)
        /\ \A d \in Convs : m.id \notin Has(d)
        /\ \A d \in Convs : d # c => m.id \notin Sent(d)
    BY <1>3, <2>2 DEF Numbers
  <2>6. \A d \in Convs : d # c /\ deleting[d] # None => m.id \notin deleting[d].paths
    BY <1>3, <2>2 DEF Numbers
  <2>7. Used' = Used \cup {m.id}
    BY <2>4
  <2>8. Numbers'
    <3>1. /\ m \in Message /\ m.file \in ({m.id} \cap files) \cup {None}
          /\ UNCHANGED <<conv, files, deleting>>
          /\ shown' = shown \/ shown' = Append(shown, m.id)
          /\ m.id \notin Sent(c)' /\ Sent(c)' \subseteq Sent(c)
      BY <1>1, <1>3, <2>1, <2>2, <2>4
    <3>2. \A d \in Convs : d # c => m.id \notin Sent(d) /\ Sent(d)' = Sent(d)
      BY <2>4, <2>5
    <3>3. \A d \in Convs : run'[d] = "sending" => run[d] = "sending" /\ image'[d] = image[d]
      BY <2>4
    <3>4. msgs' = [msgs EXCEPT ![c] = Append(@, m)]
      BY <2>1
    <3>5. m.id \notin ToSet(shown) /\ \A d \in Convs : m.id \notin Has(d)
      BY <2>5
    <3> QED
      BY <1>4, <2>6, <2>7, <3>1, <3>2, <3>3, <3>4, <3>5, NumbersTake
  <2>9. Exact'
    <3>1. \A s \in sums' : s \in sums /\ (MaySave(s)' => MaySave(s))
      BY <1>1 DEF MaySave
    <3>2. summaries' \in Nat /\ summaries' \geq summaries /\ jobId' \leq summaries'
      BY <1>1 DEF TypeInv, Exact
    <3> QED
      BY <1>1, <1>3, <1>4, <2>1, <2>2, <2>5, <3>1, <3>2, ExactTake
  <2> QED
    BY <1>2, <2>3, <2>8, <2>9
<1>5. CASE ~Exists(c)
  <2>1. run' = [run EXCEPT ![c] = "none"] /\ UNCHANGED <<msgs, shown>>
    BY <1>5 DEF SaveUser
  <2>2. TypeInv'
    <3>1. /\ run' \in [Convs -> {"none", "sending", "streaming"}]
          /\ image' \in [Convs -> Message \cup {None}]
      BY <1>1, <2>1 DEF TypeInv
    <3> QED
      BY <1>1, <2>1, <3>1 DEF TypeInv, memVars
  <2>3. Numbers'
    <3>1. \A d \in Convs : /\ Has(d)' = Has(d) /\ FilesOf(d)' = FilesOf(d) /\ IdsOf(d)' = IdsOf(d)
                           /\ (Exists(d)' <=> Exists(d)) /\ (Own(d)' <=> Own(d))
      BY <1>1, <2>1 DEF Has, FilesOf, IdsOf, Exists, Own
    <3>2. \A d \in Convs : run'[d] = "sending" => run[d] = "sending" /\ image'[d] = image[d]
      BY <1>1, <2>1 DEF TypeInv
    <3>3. \A d \in Convs : Sent(d)' \subseteq Sent(d)
      BY <3>2 DEF Sent
    <3> QED
      BY <1>1, <2>1, <3>1, <3>2, <3>3, NumbersLess DEF Numbers
  <2>4. Exact'
    BY <1>1, <2>1, SameIsSame, ExactStays
  <2> QED
    BY <1>2, <2>2, <2>3, <2>4
<1> QED
  BY <1>4, <1>5

-----------------------------------------------------------------------------
(* Summaries.                                                                  *)

LEMMA PlaceIs ==
  ASSUME NEW s \in Seq(Ids), NEW m
  PROVE  /\ PlaceOf(m, s) \in Nat /\ PlaceOf(m, s) \leq Len(s)
         /\ PlaceOf(m, s) # 0 => PlaceOf(m, s) \in 1..Len(s) /\ s[PlaceOf(m, s)] = m
         /\ m \notin Ids => PlaceOf(m, s) = 0
<1>1. DOMAIN s = 1..Len(s) /\ Len(s) \in Nat /\ \A i \in 1..Len(s) : s[i] \in Ids
  OBVIOUS
<1>2. CASE m \in ToSet(s)
  <2>1. \E i \in DOMAIN s : s[i] = m
    BY <1>2 DEF ToSet
  <2>2. PlaceOf(m, s) = CHOOSE i \in DOMAIN s : s[i] = m
    BY <1>2 DEF PlaceOf
  <2>3. PlaceOf(m, s) \in DOMAIN s /\ s[PlaceOf(m, s)] = m
    BY <2>1, <2>2
  <2> QED
    BY <1>1, <2>3
<1>3. CASE m \notin ToSet(s)
  BY <1>1, <1>3 DEF PlaceOf
<1> QED
  BY <1>2, <1>3

(* What is added to a summary that is exact, or to none, makes one that is.    *)
LEMMA UponExtends ==
  ASSUME NEW held \in Seq(Ids), IsInjective(held), NEW k \in 1..Len(held),
         NEW upTo, NEW covers, NEW i, i = PlaceOf(upTo, SubSeq(held, 1, k)),
         \/ upTo = None /\ covers = <<>>
         \/ i # 0 /\ Upon(held, upTo, covers)
  PROVE  Upon(held, held[k], covers \o SubSeq(held, i + 1, k))
<1> DEFINE head == SubSeq(held, 1, k)
<1>1. Len(held) \in Nat /\ DOMAIN held = 1..Len(held) /\ k \in Nat /\ k + 1 \in 1..Len(held) + 1
      /\ k + 1 - 1 = k
  OBVIOUS
<1>2. /\ head \in Seq(Ids) /\ Len(head) = k
      /\ \A n \in 1..k : n \in 1..Len(held) /\ head[n] = held[n]
  BY <1>1, PrefixIs
<1> HIDE DEF head
<1>3. i = PlaceOf(upTo, head)
  BY DEF head
<1>4. covers \o SubSeq(held, i + 1, k) = head
  <2>1. CASE upTo = None /\ covers = <<>>
    <3>1. i = 0
      BY <1>2, <1>3, <2>1, PlaceIs, NoneAssumption
    <3>2. SubSeq(held, i + 1, k) = head
      BY <3>1 DEF head
    <3> QED
      BY <1>2, <2>1, <3>2, ConcatEmptySeq
  <2>2. CASE i # 0 /\ Upon(held, upTo, covers)
    <3>1. PICK j \in 1..Len(held) : upTo = held[j] /\ covers = SubSeq(held, 1, j)
      BY <2>2 DEF Upon
    <3>2. i \in 1..k /\ head[i] = upTo
      BY <1>2, <1>3, <2>2, PlaceIs
    <3>3. i = j
      BY <1>1, <1>2, <3>1, <3>2 DEF IsInjective
    <3>4. SubSeq(held, 1, i) \o SubSeq(held, i + 1, k) = SubSeq(held, 1, k)
      <4>1. 1 \in 1..Len(held) + 1 /\ i \in 1 - 1..Len(held) /\ k \in i..Len(held)
        BY <1>1, <3>2
      <4> QED
        BY <4>1, ConcatAdjacentSubSeq
    <3> QED
      BY <3>1, <3>3, <3>4 DEF head
  <2> QED
    BY <2>1, <2>2
<1> QED
  BY <1>4 DEF Upon, head

(* What maybeGenerateSummary asks for is exact, or tainted.                    *)
LEMMA Asked ==
  ASSUME TypeInv, Numbers, Exact, NEW c \in Convs, Exists(c), loading = None, next \in Ids,
         NEW k \in 0..MaxIds, NEW held \in Seq(Ids), Summarise(c, k, held),
         held = shown \/ held = Append(shown, next),
         cur = c => held = Append(shown, next),
         IdsOf(c)' = Append(IdsOf(c), next), conv' = conv, cur' = cur
  PROVE  /\ jobId' \in Nat /\ summaries' \in Nat /\ sums' \subseteq Summary
         /\ summaries' \geq summaries /\ jobId' \leq summaries'
         /\ \A s \in sums' : SumExact(s)' \/ (s \in sums /\ (MaySave(s)' => MaySave(s)))
<1>1. /\ jobId \in Nat /\ summaries \in Nat /\ sums \subseteq Summary /\ jobId \leq summaries
      /\ win \in Held /\ conv[c] \in Row /\ shown \in Seq(Ids)
      /\ IdsOf(c) \in Seq(Ids) /\ ToSet(IdsOf(c)) = Has(c)
  BY ExistsIs, InSequence, IdsAre DEF TypeInv, Exact
<1> DEFINE i     == PlaceOf(win.upTo, SubSeq(held, 1, k))
           added == SubSeq(held, i + 1, k)
           t     == \/ win.upTo # None /\ (i = 0 \/ win.of # c)
                    \/ conv[c].taint
                    \/ ~(ToSet(held) \subseteq ToSet(IdsOf(c)) \cup {next})
           s0    == [id |-> summaries + 1, conv |-> c, at |-> "asked", expected |-> win.upTo,
                     upTo |-> held[k], covers |-> win.covers \o added, taint |-> t]
<1>2. CASE UNCHANGED sumVars
  <2>1. jobId' = jobId /\ sums' = sums /\ summaries' = summaries
    BY <1>2 DEF sumVars
  <2>2. \A s \in sums' : s \in sums /\ (MaySave(s)' => MaySave(s))
    BY <2>1 DEF MaySave
  <2> QED
    BY <1>1, <2>1, <2>2
<1>3. CASE /\ ~(k = 0 \/ k >= Len(held) \/ added = <<>>)
           /\ summaries' = summaries + 1 /\ jobId' = summaries + 1
           /\ sums' = sums \cup {s0}
  <2>1. k \in 1..Len(held) /\ Len(held) \in Nat /\ k + 1 \in 1..Len(held) + 1 /\ k + 1 - 1 = k
    BY <1>3, ConversationAssumption
  <2>2. SubSeq(held, 1, k) \in Seq(Ids) /\ Len(SubSeq(held, 1, k)) = k
    BY <2>1, PrefixIs
  <2>3. i \in Nat /\ i \leq k
    BY <2>2, PlaceIs
  <2>4. held[k] \in Ids /\ added \in Seq(Ids)
    <3>1. \A n \in i + 1..k : held[n] \in Ids
      BY <2>1, <2>3
    <3> HIDE DEF i
    <3>2. added \in Seq(Ids)
      BY <2>1, <2>3, <3>1, SubSeqProperties
    <3> QED
      BY <2>1, <3>2
  <2>5. win.upTo \in Ids \cup {None} /\ win.covers \in Seq(Ids)
    BY <1>1 DEF Held
  <2> HIDE DEF i, added
  <2>6. s0 \in Summary
    <3>1. win.covers \o added \in Seq(Ids)
      BY <2>4, <2>5, ConcatProperties
    <3>2. t \in BOOLEAN
      BY <1>1, RowsAre
    <3> HIDE DEF t
    <3> QED
      BY <1>1, <2>4, <2>5, <3>1, <3>2 DEF Summary
  <2>7. \A s \in sums : MaySave(s)' => MaySave(s)
    BY <1>1, <1>3 DEF Exact, SumExact, MaySave
  <2>8. PICK z \in Summary : z = s0
    BY <2>6
  <2>9. SumExact(z)'
    <3>1. z.id = summaries + 1 /\ z.conv = c /\ z.at = "asked" /\ z.upTo = held[k]
          /\ z.covers = win.covers \o added /\ z.taint = t
      BY <2>8
    <3>2. z.id \in 1..summaries' /\ conv'[c] # None
      BY <1>1, <1>3, <3>1, RowsAre
    <3> HIDE DEF s0
    <3>3. ASSUME cur = c, ~t PROVE Upon(IdsOf(c)', held[k], win.covers \o added)
      <4>1. held = Append(shown, next) /\ ToSet(held) = ToSet(shown) \cup {next}
        <5>1. held = Append(shown, next)
          BY <3>3
        <5>2. ToSet(Append(shown, next)) = ToSet(shown) \cup {next}
          BY <1>1, AppendIs
        <5> QED
          BY <5>1, <5>2
      <4>2. ToSet(held) \subseteq Has(c) \cup {next}
        BY <1>1, <3>3
      <4>3. ToSet(shown) \subseteq Has(c)
        <5>1. ToSet(shown) \subseteq Used
          BY DEF Numbers
        <5> QED
          BY <4>1, <4>2, <5>1, Numbered
      <4>4. shown = IdsOf(c)
        BY <3>3, <4>3, NoneAssumption DEF Exact, ShownExact
      <4>5. held = IdsOf(c)'
        BY <4>1, <4>4
      <4>6. IsInjective(held)
        <5>1. IsInjective(shown) /\ ToSet(shown) \subseteq Used
          BY DEF Numbers
        <5> QED
          BY <1>1, <4>1, <5>1, Numbered, InjectiveAppend
      <4>7. \/ win.upTo = None /\ win.covers = <<>>
            \/ i # 0 /\ Upon(held, win.upTo, win.covers)
        <5>1. CASE win.upTo = None
          BY <5>1 DEF Exact, WinExact
        <5>2. CASE win.upTo # None
          <6>1. i # 0 /\ win.of = c /\ ~conv[c].taint
            BY <3>3, <5>2
          <6>2. conv[c].upTo = win.upTo /\ conv[c].covers = win.covers
            BY <5>2, <6>1 DEF Exact, WinExact
          <6>3. Upon(IdsOf(c), win.upTo, win.covers)
            BY <5>2, <6>1, <6>2 DEF Exact, RowExact
          <6>4. Upon(Append(IdsOf(c), next), win.upTo, win.covers)
            BY <1>1, <6>3, UponAppend
          <6> QED
            BY <4>1, <4>4, <6>1, <6>4
        <5> QED
          BY <5>1, <5>2
      <4>8. Upon(held, held[k], win.covers \o SubSeq(held, i + 1, k))
        <5>1. i = PlaceOf(win.upTo, SubSeq(held, 1, k))
          BY DEF i
        <5> QED
          BY <2>1, <4>6, <4>7, <5>1, UponExtends
      <4> QED
        BY <4>5, <4>8 DEF added
    <3>4. MaySave(z)' => cur = c
      BY <3>1 DEF MaySave
    <3> QED
      BY <3>1, <3>2, <3>3, <3>4 DEF SumExact
  <2> HIDE DEF s0
  <2>10. sums' = sums \cup {z}
    BY <1>3, <2>8
  <2> QED
    BY <1>1, <1>3, <2>7, <2>9, <2>10
<1> QED
  BY <1>2, <1>3 DEF Summarise

LEMMA TurnFailsKeeps ==
  ASSUME IInv, NEW c \in Convs, TurnFails(c)
  PROVE  IInv'
<1>1. /\ run' = [run EXCEPT ![c] = "none"]
      /\ UNCHANGED <<conv, msgs, files, deleting, image, next, cur, loading, shown, win>>
      /\ UNCHANGED <<jobId, sums, summaries, memVars, lock, job, flush>>
  BY DEF TurnFails, dbVars, winVars, sumVars, jobVars
<1> QED
  BY <1>1, TurnEnds

LEMMA ReplyKeeps ==
  ASSUME IInv, NEW c \in Convs, NEW k \in 0..MaxIds, Reply(c, k)
  PROVE  IInv'
<1> USE DEF IInv
<1>1. /\ run[c] = "streaming" /\ loading = None /\ next \leq MaxIds
      /\ run' = [run EXCEPT ![c] = "none"]
      /\ UNCHANGED <<conv, files, deleting, image, cur, loading, win>>
      /\ UNCHANGED <<memVars, lock, job, flush>>
  BY DEF Reply, jobVars
<1>2. Merges' /\ ConsolidationSound'
  BY <1>1, NothingMarked, MergesStay
<1>3. next \in Ids /\ next \notin Used
  BY <1>1, Numbered DEF Ids
<1>4. CASE Exists(c)
  <2> DEFINE m    == [id |-> next, file |-> None]
             held == IF cur = c \/ ToSet(shown) \cap ToSet(IdsOf(c)) # {}
                     THEN Append(shown, next) ELSE shown
  <2>1. /\ msgs' = [msgs EXCEPT ![c] = Append(@, m)]
        /\ next' = next + 1 /\ shown' = held /\ Summarise(c, k, held)
    BY <1>4 DEF Reply
  <2>2. m \in Message /\ m.id = next /\ m.file = None
    BY <1>3 DEF Message
  <2> HIDE DEF m
  <2>3. /\ held = shown \/ held = Append(shown, next)
        /\ cur = c => held = Append(shown, next)
    OBVIOUS
  <2> HIDE DEF held
  <2>4. shown \in Seq(Ids) /\ held \in Seq(Ids) /\ msgs[c] \in Seq(Message)
    <3>1. shown \in Seq(Ids) /\ msgs[c] \in Seq(Message)
      BY DEF TypeInv
    <3>2. Append(shown, next) \in Seq(Ids)
      BY <1>3, <3>1, AppendIs
    <3> QED
      BY <2>3, <3>1, <3>2
  <2>5. IdsOf(c)' = Append(IdsOf(c), next)
    <3>1. msgs'[c] = Append(msgs[c], m)
      BY <2>1 DEF TypeInv
    <3>2. IdsIn(Append(msgs[c], m)) = Append(IdsIn(msgs[c]), next)
      BY <2>2, <2>4, AppendMessage
    <3> QED
      BY <3>1, <3>2, InSequence
  <2>6. /\ jobId' \in Nat /\ summaries' \in Nat /\ sums' \subseteq Summary
        /\ summaries' \geq summaries /\ jobId' \leq summaries'
        /\ \A s \in sums' : SumExact(s)' \/ (s \in sums /\ (MaySave(s)' => MaySave(s)))
    BY <1>1, <1>3, <1>4, <2>1, <2>3, <2>4, <2>5, Asked
  <2>7. TypeInv'
    <3>1. msgs' \in [Convs -> Seq(Message)]
      BY <2>1, <2>2, <2>4, AppendMessage DEF TypeInv
    <3>2. run' \in [Convs -> {"none", "sending", "streaming"}]
      BY <1>1 DEF TypeInv
    <3>3. next' \in 1..MaxIds + 1
      BY <1>1, <2>1, Numbered
    <3> QED
      BY <1>1, <2>1, <2>4, <2>6, <3>1, <3>2, <3>3 DEF TypeInv, memVars
  <2>8. Used' = Used \cup {m.id}
    BY <2>1, <2>2, UsedGrows
  <2>9. /\ m.id \notin ToSet(shown)
        /\ \A d \in Convs : m.id \notin Has(d)
        /\ \A d \in Convs : m.id \notin Sent(d)
        /\ \A d \in Convs : deleting[d] # None => m.id \notin deleting[d].paths
    BY <1>3, <2>2 DEF Numbers
  <2>10. /\ \A d \in Convs : Sent(d)' = Sent(d)
         /\ \A d \in Convs : run'[d] = "sending" => run[d] = "sending" /\ image'[d] = image[d]
    BY <1>1 DEF Sent, TypeInv
  <2>11. /\ shown' = shown \/ shown' = Append(shown, m.id)
         /\ shown' = Append(shown, m.id) \/ (cur # c /\ shown' = shown)
         /\ m.file \in ({m.id} \cap files) \cup {None}
    BY <2>1, <2>2, <2>3
  <2>12. Numbers'
    <3>1. /\ UNCHANGED <<conv, files, deleting>>
          /\ m.id \notin Sent(c)' /\ Sent(c)' \subseteq Sent(c)
      BY <1>1, <2>9, <2>10
    <3>2. \A d \in Convs : d # c => m.id \notin Sent(d) /\ Sent(d)' = Sent(d)
      BY <2>9, <2>10
    <3>3. \A d \in Convs : run'[d] = "sending" => run[d] = "sending" /\ image'[d] = image[d]
      BY <2>10
    <3>4. msgs' = [msgs EXCEPT ![c] = Append(@, m)]
      BY <2>1
    <3>5. /\ m.id \notin ToSet(shown) /\ \A d \in Convs : m.id \notin Has(d)
          /\ \A d \in Convs : d # c /\ deleting[d] # None => m.id \notin deleting[d].paths
      BY <2>9
    <3> QED
      BY <1>4, <2>2, <2>8, <2>11, <3>1, <3>2, <3>3, <3>4, <3>5, NumbersTake
  <2>13. Exact'
    BY <1>1, <1>4, <2>1, <2>2, <2>6, <2>9, <2>11, ExactTake
  <2> QED
    BY <1>2, <2>7, <2>12, <2>13
<1>5. CASE ~Exists(c)
  <2>1. UNCHANGED <<msgs, next, shown, jobId, sums, summaries>>
    BY <1>5 DEF Reply, sumVars
  <2> QED
    BY <1>1, <2>1, TurnEnds
<1> QED
  BY <1>4, <1>5

LEMMA UponPrefix ==
  ASSUME NEW ids \in Seq(Ids), NEW n \in 1..Len(ids) + 1, NEW upTo, NEW covers,
         Upon(ids, upTo, covers), \A i \in n..Len(ids) : upTo # ids[i]
  PROVE  Upon(SubSeq(ids, 1, n - 1), upTo, covers)
<1>1. PICK k \in 1..Len(ids) : upTo = ids[k] /\ covers = SubSeq(ids, 1, k)
  BY DEF Upon
<1> DEFINE t == SubSeq(ids, 1, n - 1)
<1>2. /\ Len(ids) \in Nat /\ t \in Seq(Ids) /\ Len(t) = n - 1
      /\ \A i \in 1..n - 1 : i \in 1..Len(ids) /\ t[i] = ids[i]
  BY PrefixIs
<1> HIDE DEF t
<1>3. k \in 1..n - 1
  BY <1>1, <1>2
<1>4. /\ k + 1 \in 1..Len(ids) + 1 /\ k + 1 \in 1..Len(t) + 1 /\ k + 1 - 1 = k
  BY <1>2, <1>3
<1>5. SubSeq(t, 1, k) = SubSeq(ids, 1, k)
  <2>1. /\ SubSeq(t, 1, k) \in Seq(Ids) /\ Len(SubSeq(t, 1, k)) = k
        /\ \A i \in 1..k : i \in 1..Len(t) /\ SubSeq(t, 1, k)[i] = t[i]
    BY <1>2, <1>4, PrefixIs
  <2>2. /\ SubSeq(ids, 1, k) \in Seq(Ids) /\ Len(SubSeq(ids, 1, k)) = k
        /\ \A i \in 1..k : SubSeq(ids, 1, k)[i] = ids[i]
    BY <1>2, <1>4, PrefixIs
  <2>3. \A i \in 1..k : SubSeq(t, 1, k)[i] = SubSeq(ids, 1, k)[i]
    BY <1>2, <2>1, <2>2
  <2> QED
    BY <2>1, <2>2, <2>3, SeqEqual
<1>6. Upon(t, upTo, covers)
  BY <1>1, <1>2, <1>3, <1>5 DEF Upon
<1> QED
  BY <1>6 DEF t

LEMMA CoveredLast ==
  ASSUME NEW ids \in Seq(Ids), NEW upTo, NEW covers, Upon(ids, upTo, covers)
  PROVE  upTo \in ToSet(covers)
<1>1. PICK k \in 1..Len(ids) : upTo = ids[k] /\ covers = SubSeq(ids, 1, k)
  BY DEF Upon
<1>2. k + 1 \in 1..Len(ids) + 1 /\ k + 1 - 1 = k /\ k \in 1..k
  OBVIOUS
<1>3. DOMAIN covers = 1..k /\ covers[k] = ids[k]
  BY <1>1, <1>2, PrefixIs
<1> QED
  BY <1>1, <1>2, <1>3, Zenon DEF ToSet

LEMMA TaintsOne ==
  ASSUME NEW s \in Summary, NEW b \in BOOLEAN
  PROVE  LET t == [s EXCEPT !.taint = @ \/ b]
         IN  /\ t \in Summary /\ t.id = s.id /\ t.conv = s.conv /\ t.at = s.at
             /\ t.upTo = s.upTo /\ t.covers = s.covers
             /\ t.taint <=> (s.taint \/ b)
<1> DEFINE t == [s EXCEPT !.taint = @ \/ b]
<1>1. s.taint \in BOOLEAN
  BY DEF Summary
<1>2. (s.taint \/ b) \in BOOLEAN
  BY <1>1
<1>3. t = [s EXCEPT !.taint = s.taint \/ b]
  OBVIOUS
<1> HIDE DEF t
<1>4. /\ t \in Summary /\ t.id = s.id /\ t.conv = s.conv /\ t.at = s.at
      /\ t.upTo = s.upTo /\ t.covers = s.covers
      /\ t.taint = (s.taint \/ b)
  BY <1>2, <1>3 DEF Summary
<1> QED
  BY <1>4 DEF t

LEMMA RowReset ==
  ASSUME NEW r \in Row
  PROVE  LET w == [r EXCEPT !.upTo = None, !.covers = <<>>, !.taint = FALSE]
         IN  /\ w \in Row /\ w.upTo = None /\ w.covers = <<>>
             /\ w.digest = r.digest /\ w.done = r.done
  BY EmptySeq DEF Row

LEMMA RegenerateKeeps ==
  ASSUME IInv, NEW c \in Convs, NEW n \in 1..MaxIds, Regenerate(c, n)
  PROVE  IInv'
<1> USE DEF IInv
<1> DEFINE gone == {IdsOf(c)[i] : i \in n..Len(msgs[c])}
           hit(s) == s.conv = c /\ ToSet(s.covers) \cap gone # {}
           w == [conv[c] EXCEPT !.upTo = None, !.covers = <<>>, !.taint = FALSE]
<1>1. /\ cur = c /\ run[c] = "none" /\ Exists(c) /\ n \in DOMAIN msgs[c] /\ shown = IdsOf(c)
      /\ sums' = {[s EXCEPT !.taint = @ \/ hit(s)] : s \in sums}
      /\ msgs' = [msgs EXCEPT ![c] = SubSeq(@, 1, n - 1)]
      /\ shown' = SubSeq(shown, 1, n - 1)
      /\ run' = [run EXCEPT ![c] = "streaming"]
      /\ UNCHANGED <<files, deleting, image, next, cur, loading, jobId, summaries>>
      /\ UNCHANGED <<memVars, lock, job, flush>>
  BY DEF Regenerate, DeleteFrom, jobVars
<1>2. IF conv[c].upTo \in gone
      THEN conv' = [conv EXCEPT ![c].upTo = None, ![c].covers = <<>>, ![c].taint = FALSE]
           /\ win' = NoSummary
      ELSE conv' = conv /\ win' = win
  BY DEF Regenerate, DeleteFrom
<1>3. conv[c] \in Row /\ msgs[c] \in Seq(Message) /\ shown \in Seq(Ids)
  BY <1>1, ExistsIs DEF TypeInv
<1>4. /\ IdsOf(c) \in Seq(Ids) /\ Len(IdsOf(c)) = Len(msgs[c]) /\ Len(msgs[c]) \in Nat
      /\ n \in 1..Len(msgs[c]) + 1 /\ msgs'[c] = SubSeq(msgs[c], 1, n - 1)
      /\ \A d \in Convs : d # c => msgs'[d] = msgs[d]
  <2>1. IdsOf(c) \in Seq(Ids) /\ Len(IdsOf(c)) = Len(msgs[c]) /\ Len(msgs[c]) \in Nat
    BY <1>3, InSequence, IdsAre
  <2>2. n \in 1..Len(msgs[c]) + 1
    BY <1>1, <1>3
  <2> QED
    BY <1>1, <2>1, <2>2 DEF TypeInv
<1>5. /\ IdsOf(c)' = SubSeq(IdsOf(c), 1, n - 1)
      /\ Has(c)' \subseteq Has(c) /\ FilesOf(c)' \subseteq FilesOf(c)
      /\ msgs'[c] \in Seq(Message) /\ Own(c)'
  <2> DEFINE q == SubSeq(msgs[c], 1, n - 1)
  <2>1. /\ q \in Seq(Message) /\ ToSet(q) \subseteq ToSet(msgs[c])
        /\ IdsIn(q) = SubSeq(IdsIn(msgs[c]), 1, n - 1)
        /\ HasIn(q) \subseteq HasIn(msgs[c]) /\ FilesIn(q) \subseteq FilesIn(msgs[c])
    BY <1>3, <1>4, PrefixOfMessages, PrefixIs
  <2>2. msgs'[c] = q
    BY <1>4
  <2> HIDE DEF q
  <2>3. Own(c)'
    BY <1>1, <2>1, <2>2 DEF Numbers, Own
  <2> QED
    BY <2>1, <2>2, <2>3, InSequence
<1>6. \A d \in Convs : d # c => /\ Has(d)' = Has(d) /\ FilesOf(d)' = FilesOf(d)
                                /\ IdsOf(d)' = IdsOf(d) /\ (Own(d)' <=> Own(d))
  BY <1>4 DEF Has, FilesOf, IdsOf, Own
<1>7. /\ w \in Row /\ w.upTo = None /\ w.covers = <<>>
      /\ w.digest = conv[c].digest /\ w.done = conv[c].done
  BY <1>3, RowReset
<1>8. \/ conv' = [conv EXCEPT ![c] = w] /\ win' = NoSummary
      \/ conv' = conv /\ win' = win /\ conv[c].upTo \notin gone
  BY <1>2
<1> HIDE DEF w
<1>9. TypeInv'
  <2>1. /\ msgs' \in [Convs -> Seq(Message)] /\ run' \in [Convs -> {"none", "sending", "streaming"}]
    BY <1>1, <1>4, <1>5 DEF TypeInv
  <2>2. shown' \in Seq(Ids)
    BY <1>1, <1>4, PrefixIs
  <2>3. conv' \in [Convs -> Row \cup {None, Gone}] /\ win' \in Held
    <3>1. conv \in [Convs -> Row \cup {None, Gone}] /\ win \in Held
      BY DEF TypeInv
    <3> QED
      BY <1>7, <1>8, <3>1, NoSummaryIs
  <2>4. sums' \subseteq Summary
    <3>1. ASSUME NEW s \in sums PROVE [s EXCEPT !.taint = @ \/ hit(s)] \in Summary
      <4>1. s \in Summary /\ hit(s) \in BOOLEAN
        BY DEF TypeInv
      <4> QED
        BY <4>1, TaintsOne
    <3> QED
      BY <1>1, <3>1
  <2> QED
    BY <1>1, <2>1, <2>2, <2>3, <2>4 DEF TypeInv, memVars
<1>10. Merges' /\ ConsolidationSound'
  <2>1. NoMarks
    BY <1>1, <1>7, <1>8 DEF TypeInv, NoMarks, Exists
  <2> QED
    BY <1>1, <2>1, MergesStay
<1>11. \A d \in Convs : (Exists(d)' <=> Exists(d)) /\ (d # c => conv'[d] = conv[d])
  BY <1>1, <1>7, <1>8, RowsAre DEF TypeInv, Exists
<1>12. \A d \in Convs : (conv'[d] = None <=> conv[d] = None) /\ (conv[d] = Gone => conv'[d] = Gone)
  BY <1>1, <1>7, <1>8, RowsAre DEF TypeInv, Exists
<1>13. Numbers'
  <2>1. \A d \in Convs : run'[d] = "sending" => run[d] = "sending" /\ image'[d] = image[d]
    BY <1>1 DEF TypeInv
  <2>2. \A d \in Convs : Sent(d)' \subseteq Sent(d)
    BY <2>1 DEF Sent
  <2>3. ToSet(shown)' \subseteq ToSet(shown) /\ IsInjective(shown)'
    <3>1. IsInjective(shown) /\ n \in 1..Len(shown) + 1
      BY <1>1, <1>4 DEF Numbers
    <3> QED
      BY <1>1, <1>3, <3>1, PrefixIs, InjectivePrefix
  <2>4. IsInjective(IdsOf(c)')
    <3>1. IsInjective(IdsOf(c))
      BY DEF Numbers
    <3> QED
      BY <1>4, <1>5, <3>1, InjectivePrefix
  <2>5. \A d \in Convs : ~Exists(d)' => msgs'[d] = <<>>
    BY <1>1, <1>4, <1>11 DEF Numbers
  <2>6. \A d \in Convs : Has(d)' \subseteq Has(d) /\ IsInjective(IdsOf(d)')
    BY <1>5, <1>6, <2>4 DEF Numbers
  <2>7. \A d \in Convs : Own(d)' /\ FilesOf(d)' \subseteq files'
    BY <1>1, <1>5, <1>6 DEF Numbers
  <2>8. \A d \in Convs : deleting'[d] # None =>
          /\ deleting[d] # None /\ deleting'[d].paths = deleting[d].paths
          /\ deleting'[d].at = "deleted" => conv'[d] = Gone
    BY <1>1, <1>12 DEF Numbers
  <2>9. /\ ToSet(shown)' \subseteq Used /\ \A d \in Convs : ToSet(shown)' \cap Sent(d)' = {}
    BY <2>2, <2>3 DEF Numbers
  <2> QED
    BY <1>1, <2>1, <2>3, <2>5, <2>6, <2>7, <2>8, <2>9, NumbersLess
<1>14. Exact'
  <2>1. ASSUME NEW u, NEW v, Upon(IdsOf(c), u, v), u \notin gone
        PROVE  Upon(IdsOf(c)', u, v)
    <3>1. \A i \in n..Len(IdsOf(c)) : u # IdsOf(c)[i]
      BY <1>4, <2>1
    <3>2. Upon(SubSeq(IdsOf(c), 1, n - 1), u, v)
      BY <1>4, <2>1, <3>1, UponPrefix
    <3> QED
      BY <1>5, <3>2
  <2>2. ASSUME NEW d \in Convs PROVE RowExact(d)'
    <3>1. CASE d # c
      <4>1. conv'[d] = conv[d] /\ IdsOf(d)' = IdsOf(d) /\ (Exists(d)' <=> Exists(d)) /\ RowExact(d)
        BY <1>6, <1>11, <3>1 DEF Exact
      <4> QED
        BY <4>1 DEF RowExact, Upon
    <3>2. CASE d = c /\ conv' = [conv EXCEPT ![c] = w]
      <4>1. conv'[c] = w
        BY <3>2 DEF TypeInv
      <4> QED
        BY <1>7, <3>2, <4>1 DEF RowExact
    <3>3. CASE d = c /\ conv' = conv /\ conv[c].upTo \notin gone
      <4>1. RowExact(c)
        BY DEF Exact
      <4>2. /\ conv[c].upTo = None => conv[c].covers = <<>>
            /\ conv[c].taint \/ conv[c].upTo = None
                 \/ Upon(IdsOf(c)', conv[c].upTo, conv[c].covers)
        BY <1>1, <2>1, <3>3, <4>1 DEF RowExact
      <4> QED
        BY <3>3, <4>2 DEF RowExact, Upon
    <3> QED
      BY <1>8, <3>1, <3>2, <3>3
  <2>3. ASSUME NEW z \in sums' PROVE SumExact(z)'
    <3>1. PICK s \in sums : z = [s EXCEPT !.taint = @ \/ hit(s)]
      BY <1>1
    <3>2. s \in Summary /\ hit(s) \in BOOLEAN /\ s.conv \in Convs /\ SumExact(s)
      BY DEF TypeInv, Summary, Exact
    <3>3. /\ z.id = s.id /\ z.conv = s.conv /\ z.at = s.at
          /\ z.upTo = s.upTo /\ z.covers = s.covers
          /\ z.taint <=> (s.taint \/ hit(s))
      <4>1. PICK b \in BOOLEAN : b = hit(s)
        BY <3>2
      <4>2. z = [s EXCEPT !.taint = @ \/ b]
        BY <3>1, <4>1
      <4> HIDE DEF hit
      <4> QED
        BY <3>2, <4>1, <4>2, TaintsOne
    <3>4. MaySave(z)' => MaySave(s)
      BY <1>1, <3>3 DEF MaySave
    <3>5. z.id \in 1..summaries' /\ conv'[z.conv] # None
      BY <1>1, <1>12, <3>2, <3>3 DEF SumExact
    <3>6. ASSUME MaySave(z)', Exists(z.conv)', ~z.taint
          PROVE  Upon(IdsOf(z.conv)', z.upTo, z.covers)
      <4>1. Upon(IdsOf(s.conv), s.upTo, s.covers) /\ ~hit(s)
        BY <1>11, <3>2, <3>3, <3>4, <3>6 DEF SumExact
      <4>2. CASE s.conv = c
        <5>1. s.upTo \in ToSet(s.covers)
          BY <1>4, <4>1, <4>2, CoveredLast
        <5>2. s.upTo \notin gone
          BY <4>1, <4>2, <5>1
        <5>3. Upon(IdsOf(c)', s.upTo, s.covers)
          BY <2>1, <4>1, <4>2, <5>2
        <5> QED
          BY <3>3, <4>2, <5>3
      <4>3. CASE s.conv # c
        <5>1. IdsOf(s.conv)' = IdsOf(s.conv)
          BY <1>6, <3>2, <4>3
        <5> QED
          BY <3>3, <4>1, <5>1
      <4> QED
        BY <4>2, <4>3
    <3> QED
      BY <3>5, <3>6 DEF SumExact, Upon
  <2>4. WinExact'
    <3>1. CASE win' = NoSummary
      BY <3>1, NoSummaryIs DEF WinExact
    <3>2. CASE conv' = conv /\ win' = win
      BY <3>2 DEF Exact, WinExact, Exists
    <3> QED
      BY <1>8, <3>1, <3>2
  <2>5. ShownExact'
    <3>1. shown' = IdsOf(c)'
      BY <1>1, <1>5
    <3> QED
      BY <1>1, <3>1 DEF ShownExact, IdsOf
  <2>6. (loading' # None => conv'[loading'] # None) /\ jobId' \leq summaries'
    BY <1>1, <1>12 DEF TypeInv, Exact
  <2> QED
    BY <2>2, <2>3, <2>4, <2>5, <2>6 DEF Exact
<1> QED
  BY <1>9, <1>10, <1>13, <1>14

(* Rows and messages stay as they are, and no summary under way gains the      *)
(* right to be saved.                                                          *)
LEMMA ExactSums ==
  ASSUME TypeInv, Exact, UNCHANGED <<conv, msgs, cur, loading, shown, win, summaries>>,
         jobId' = jobId,
         \A z \in sums' : z \in sums \/ SumExact(z)'
  PROVE  Exact'
<1>1. /\ \A d : (Exists(d)' <=> Exists(d)) /\ IdsOf(d)' = IdsOf(d) /\ Has(d)' = Has(d)
      /\ \A s : MaySave(s)' <=> MaySave(s)
  BY DEF Exists, IdsOf, Has, MaySave
<1>2. \A s \in sums : SumExact(s)'
  BY <1>1 DEF Exact, SumExact, Upon
<1>3. \A d \in Convs : RowExact(d)'
  BY <1>1 DEF Exact, RowExact, Upon
<1>4. WinExact' /\ ShownExact'
  BY <1>1 DEF Exact, WinExact, ShownExact
<1> QED
  BY <1>2, <1>3, <1>4 DEF Exact

LEMMA AnswerKeeps ==
  ASSUME IInv, NEW s \in sums, SummaryAnswer(s) \/ SummaryFails(s)
  PROVE  IInv'
<1> USE DEF IInv
<1> DEFINE r == [s EXCEPT !.at = "saving"]
<1>1. /\ UNCHANGED <<conv, msgs, files, deleting, run, image, next, cur, loading, shown, win>>
      /\ UNCHANGED <<jobId, summaries, memVars, lock, job, flush>>
      /\ sums' \subseteq sums \cup {r}
      /\ r \in sums' => r \in sums \/ (jobId = s.id /\ cur = s.conv)
  BY DEF SummaryAnswer, SummaryFails, dbVars, runVars, winVars, sumVars, jobVars
<1>2. s \in Summary /\ s.conv \in Convs /\ SumExact(s)
  BY DEF TypeInv, Summary, Exact
<1>3. r \in Summary /\ r.id = s.id /\ r.conv = s.conv /\ r.upTo = s.upTo
      /\ r.covers = s.covers /\ r.taint = s.taint
  BY <1>2 DEF Summary
<1> HIDE DEF r
<1>4. TypeInv'
  BY <1>1, <1>3 DEF TypeInv, memVars
<1>5. Merges' /\ ConsolidationSound'
  BY <1>1, NothingMarked, MergesStay
<1>6. Numbers'
  BY <1>1, SameIsSame, NumbersStay DEF SameRows
<1>7. Exact'
  <2>1. ASSUME NEW z \in sums' PROVE z \in sums \/ SumExact(z)'
    <3>1. CASE z = r /\ jobId = s.id /\ cur = s.conv
      <4>1. \A d : (Exists(d)' <=> Exists(d)) /\ IdsOf(d)' = IdsOf(d)
        BY <1>1 DEF Exists, IdsOf
      <4>2. MaySave(s)
        BY <3>1 DEF MaySave
      <4>3. /\ z.id \in 1..summaries' /\ conv'[z.conv] # None
            /\ Exists(z.conv) => z.taint \/ Upon(IdsOf(z.conv), z.upTo, z.covers)
        BY <1>1, <1>2, <1>3, <3>1, <4>2 DEF SumExact
      <4> QED
        BY <4>1, <4>3 DEF SumExact, Upon
    <3> QED
      BY <1>1, <3>1
  <2> QED
    BY <1>1, <2>1, ExactSums
<1> QED
  BY <1>4, <1>5, <1>6, <1>7

LEMMA SaveKeeps ==
  ASSUME IInv, NEW s \in sums, SummarySave(s)
  PROVE  IInv'
<1> USE DEF IInv
<1> DEFINE w == [conv[s.conv] EXCEPT !.upTo = s.upTo, !.covers = s.covers, !.taint = s.taint]
           h == [upTo |-> s.upTo, covers |-> s.covers, of |-> s.conv]
<1>1. /\ s.at = "saving" /\ sums' = sums \ {s}
      /\ UNCHANGED <<msgs, files, deleting, run, image, next, cur, loading, shown>>
      /\ UNCHANGED <<jobId, summaries, memVars, lock, job, flush>>
  BY DEF SummarySave, runVars, jobVars
<1>2. s \in Summary /\ s.conv \in Convs /\ SumExact(s)
  BY DEF TypeInv, Summary, Exact
<1>3. CASE ~SamePointer(s)
  <2>1. conv' = conv /\ win' = win
    BY <1>3 DEF SummarySave
  <2>2. TypeInv'
    BY <1>1, <2>1 DEF TypeInv, memVars
  <2>3. Merges' /\ ConsolidationSound'
    BY <1>1, <2>1, NothingMarked, MergesStay
  <2>4. Numbers'
    BY <1>1, <2>1, SameIsSame, NumbersStay DEF SameRows
  <2>5. Exact'
    BY <1>1, <2>1, ExactSums
  <2> QED
    BY <2>2, <2>3, <2>4, <2>5
<1>4. CASE SamePointer(s)
  <2>1. Exists(s.conv) /\ conv[s.conv] \in Row
    BY <1>2, <1>4, ExistsIs DEF SamePointer
  <2>2. conv' = [conv EXCEPT ![s.conv] = w] /\ win' = h
    BY <1>4 DEF SummarySave
  <2>3. /\ w \in Row /\ w.upTo = s.upTo /\ w.covers = s.covers /\ w.taint = s.taint
        /\ w.digest = conv[s.conv].digest /\ w.done = conv[s.conv].done
        /\ s.upTo \in Ids /\ s.upTo # None
    BY <1>2, <2>1, NoneAssumption DEF Row, Summary
  <2>4. h \in Held /\ h.upTo = s.upTo /\ h.covers = s.covers /\ h.of = s.conv
    BY <1>2 DEF Held, Summary
  <2> HIDE DEF w, h
  <2>5. conv'[s.conv] = w /\ \A d \in Convs : d # s.conv => conv'[d] = conv[d]
    BY <1>2, <2>2 DEF TypeInv
  <2>6. /\ \A d \in Convs : Exists(d)' <=> Exists(d)
        /\ SameLives /\ NoMarks
    BY <2>1, <2>3, <2>5, RowsAre DEF Exists, SameLives, NoMarks
  <2>7. TypeInv'
    <3>1. conv' \in [Convs -> Row \cup {None, Gone}]
      BY <2>2, <2>3 DEF TypeInv
    <3> QED
      BY <1>1, <2>2, <2>4, <3>1 DEF TypeInv, memVars
  <2>8. Merges' /\ ConsolidationSound'
    BY <1>1, <2>6, MergesStay
  <2>9. Numbers'
    BY <1>1, <2>6, NumbersStay
  <2>10. Exact'
    <3>1. \A d : IdsOf(d)' = IdsOf(d) /\ Has(d)' = Has(d)
      BY <1>1 DEF IdsOf, Has
    <3>2. \A z : MaySave(z)' <=> MaySave(z)
      BY <1>1 DEF MaySave
    <3>3. ASSUME NEW d \in Convs PROVE RowExact(d)'
      <4>1. CASE d = s.conv
        <5>1. s.taint \/ Upon(IdsOf(s.conv), s.upTo, s.covers)
          BY <1>1, <1>2, <2>1 DEF SumExact, MaySave
        <5>2. w.taint \/ Upon(IdsOf(s.conv), w.upTo, w.covers)
          BY <2>3, <5>1
        <5> QED
          BY <2>3, <2>5, <3>1, <4>1, <5>2 DEF RowExact, Upon
      <4>2. CASE d # s.conv
        <5>1. RowExact(d)
          BY DEF Exact
        <5> QED
          BY <2>5, <2>6, <3>1, <4>2, <5>1 DEF RowExact, Upon
      <4> QED
        BY <4>1, <4>2
    <3>4. ASSUME NEW z \in sums' PROVE SumExact(z)'
      <4>1. z \in sums /\ z.conv \in Convs /\ SumExact(z)
        BY <1>1 DEF TypeInv, Summary, Exact
      <4> QED
        BY <1>1, <2>6, <3>1, <3>2, <4>1 DEF SumExact, SameLives, Upon
    <3>5. WinExact'
      BY <1>2, <2>2, <2>3, <2>4, <2>5, RowsAre, NoneAssumption DEF WinExact
    <3>6. ShownExact'
      BY <1>1, <2>6, <3>1 DEF TypeInv, Exact, ShownExact
    <3>7. (loading' # None => conv'[loading'] # None) /\ jobId' \leq summaries'
      BY <1>1, <2>6 DEF TypeInv, Exact, SameLives
    <3> QED
      BY <3>3, <3>4, <3>5, <3>6, <3>7 DEF Exact
  <2> QED
    BY <2>7, <2>8, <2>9, <2>10
<1> QED
  BY <1>3, <1>4

-----------------------------------------------------------------------------
(* Selection, deletion and the end of the process.                             *)

(* The window forgets what it shows: no summary asked for will be saved.       *)
LEMMA ExactCleared ==
  ASSUME TypeInv, Exact, UNCHANGED <<conv, msgs, summaries>>,
         sums' \subseteq sums, jobId' = 0, win' = NoSummary,
         cur' = None \/ loading' = cur',
         loading' # None => conv[loading'] # None
  PROVE  Exact'
<1>1. \A d : (Exists(d)' <=> Exists(d)) /\ IdsOf(d)' = IdsOf(d)
  BY DEF Exists, IdsOf
<1>2. \A d \in Convs : RowExact(d)'
  BY <1>1 DEF Exact, RowExact, Upon
<1>3. ASSUME NEW s \in sums' PROVE SumExact(s)'
  <2>1. SumExact(s) /\ s.id # 0 /\ summaries \in Nat
    BY DEF TypeInv, Exact, SumExact
  <2>2. MaySave(s)' => MaySave(s)
    BY <2>1 DEF MaySave
  <2> QED
    BY <1>1, <2>1, <2>2 DEF SumExact, Upon
<1>4. WinExact' /\ ShownExact'
  BY NoSummaryIs DEF WinExact, ShownExact
<1>5. (loading' # None => conv'[loading'] # None) /\ jobId' \leq summaries'
  BY DEF TypeInv
<1> QED
  BY <1>2, <1>3, <1>4, <1>5 DEF Exact

(* What the window shows goes, or is what it was, or one conversation's.       *)
LEMMA NumbersShow ==
  ASSUME TypeInv, Numbers, UNCHANGED <<conv, msgs, files, run, image, next>>,
         \/ shown' = shown
         \/ shown' = <<>>
         \/ \E d \in Convs : shown' = IdsOf(d),
         \A d \in Convs : deleting'[d] # None =>
           \/ /\ deleting[d] # None /\ deleting'[d].paths = deleting[d].paths
              /\ deleting'[d].at = "deleted" => conv'[d] = Gone
           \/ deleting'[d].paths = FilesOf(d) /\ deleting'[d].at = "collected"
  PROVE  Numbers'
<1>1. \A d \in Convs : /\ Has(d)' = Has(d) /\ FilesOf(d)' = FilesOf(d) /\ IdsOf(d)' = IdsOf(d)
                       /\ (Exists(d)' <=> Exists(d)) /\ (Own(d)' <=> Own(d)) /\ Sent(d)' = Sent(d)
  BY DEF Has, FilesOf, IdsOf, Exists, Own, Sent
<1>2. /\ ToSet(shown)' \subseteq Used /\ IsInjective(shown)'
      /\ \A d \in Convs : ToSet(shown)' \cap Sent(d)' = {}
  <2>1. CASE shown' = shown
    BY <1>1, <2>1 DEF Numbers
  <2>2. CASE shown' = <<>>
    BY <2>2, NothingIn
  <2>3. CASE \E d \in Convs : shown' = IdsOf(d)
    <3>1. PICK d \in Convs : shown' = IdsOf(d)
      BY <2>3
    <3>2. msgs[d] \in Seq(Message)
      BY DEF TypeInv
    <3>3. ToSet(shown') = Has(d)
      BY <3>1, <3>2, InSequence, IdsAre
    <3>4. IsInjective(shown')
      BY <3>1 DEF Numbers
    <3>5. \A e \in Convs : Has(d) \cap Sent(e) = {}
      BY DEF Numbers
    <3> QED
      BY <1>1, <3>3, <3>4, <3>5 DEF Numbers
  <2> QED
    BY <2>1, <2>2, <2>3
<1> QED
  BY <1>1, <1>2, NumbersLess DEF Numbers

LEMMA SelectKeeps ==
  ASSUME IInv, NEW c \in Convs \cup {None}, Select(c)
  PROVE  IInv'
<1> USE DEF IInv
<1>1. /\ c # None => Exists(c)
      /\ cur' = c /\ loading' = c /\ shown' = <<>> /\ win' = NoSummary /\ jobId' = 0
      /\ UNCHANGED <<conv, msgs, files, deleting, run, image, next, sums, summaries>>
      /\ UNCHANGED <<memVars, flush>>
      /\ UNCHANGED <<lock, job>> \/ \E d \in Convs : StartJob(d)
  BY DEF Select, Leave, Cleared, dbVars, runVars, TypeInv
<1>2. /\ Merges' /\ ConsolidationSound' /\ lock' \in {"free", "job", "flush"}
      /\ job' \in Merging \cup {None}
  <2>1. CASE UNCHANGED <<lock, job>>
    BY <1>1, <2>1, NothingMarked, MergesStay DEF TypeInv
  <2>2. CASE \E d \in Convs : StartJob(d)
    BY <1>1, <2>2, NothingMarked, Starts
  <2> QED
    BY <1>1, <2>1, <2>2
<1>3. TypeInv'
  <2>1. shown' \in Seq(Ids) /\ win' \in Held
    BY <1>1, EmptySeq, NoSummaryIs
  <2> QED
    BY <1>1, <1>2, <2>1 DEF TypeInv, memVars
<1>4. Numbers'
  <2>1. \A d \in Convs : deleting'[d] # None =>
           /\ deleting[d] # None /\ deleting'[d].paths = deleting[d].paths
           /\ deleting'[d].at = "deleted" => conv'[d] = Gone
    BY <1>1 DEF Numbers
  <2> QED
    BY <1>1, <2>1, NumbersShow
<1>5. Exact'
  BY <1>1, ExactCleared DEF Exists
<1> QED
  BY <1>2, <1>3, <1>4, <1>5

LEMMA LoadKeeps ==
  ASSUME IInv, Load
  PROVE  IInv'
<1> USE DEF IInv
<1>1. /\ loading # None /\ loading' = None
      /\ UNCHANGED <<conv, msgs, files, deleting, run, image, next, cur, jobId, sums, summaries>>
      /\ UNCHANGED <<memVars, lock, job, flush>>
      /\ IF cur = loading /\ Exists(cur)
         THEN /\ shown' = IdsOf(cur)
              /\ win' = [upTo |-> conv[cur].upTo, covers |-> conv[cur].covers, of |-> cur]
         ELSE UNCHANGED <<shown, win>>
  BY DEF Load, dbVars, runVars, sumVars, jobVars
<1>2. Merges' /\ ConsolidationSound'
  BY <1>1, NothingMarked, MergesStay
<1>3. /\ \A d : (Exists(d)' <=> Exists(d)) /\ IdsOf(d)' = IdsOf(d) /\ Has(d)' = Has(d)
      /\ \A s : MaySave(s)' <=> MaySave(s)
  BY <1>1 DEF Exists, IdsOf, Has, MaySave
<1>4. (\A d \in Convs : RowExact(d)') /\ (\A s \in sums' : SumExact(s)')
  BY <1>1, <1>3 DEF Exact, RowExact, SumExact, Upon
<1>5. \A d \in Convs : deleting'[d] # None =>
         /\ deleting[d] # None /\ deleting'[d].paths = deleting[d].paths
         /\ deleting'[d].at = "deleted" => conv'[d] = Gone
  BY <1>1 DEF Numbers
<1>6. CASE cur = loading /\ Exists(cur)
  <2> DEFINE h == [upTo |-> conv[cur].upTo, covers |-> conv[cur].covers, of |-> cur]
  <2>1. shown' = IdsOf(cur) /\ win' = h /\ cur \in Convs /\ conv[cur] \in Row
    BY <1>1, <1>6, ExistsIs DEF TypeInv
  <2>2. /\ h \in Held /\ h.upTo = conv[cur].upTo /\ h.covers = conv[cur].covers /\ h.of = cur
    BY <2>1, RowsAre DEF Held
  <2> HIDE DEF h
  <2>3. TypeInv'
    <3>1. IdsOf(cur) \in Seq(Ids)
      BY <2>1, InSequence, IdsAre DEF TypeInv
    <3> QED
      BY <1>1, <2>1, <2>2, <3>1 DEF TypeInv, memVars
  <2>4. Numbers'
    BY <1>1, <1>5, <2>1, NumbersShow
  <2>5. WinExact'
    <3>1. RowExact(cur)
      BY <2>1 DEF Exact
    <3> QED
      BY <1>1, <1>3, <1>6, <2>1, <2>2, <3>1, RowsAre, NoneAssumption DEF WinExact, RowExact
  <2>6. ShownExact'
    BY <1>1, <1>3, <2>1 DEF ShownExact
  <2> QED
    BY <1>1, <1>2, <1>4, <2>3, <2>4, <2>5, <2>6 DEF Exact
<1>7. CASE ~(cur = loading /\ Exists(cur))
  <2>1. UNCHANGED <<shown, win>>
    BY <1>1, <1>7
  <2>2. TypeInv'
    BY <1>1, <2>1 DEF TypeInv, memVars
  <2>3. Numbers'
    BY <1>1, <1>5, <2>1, NumbersShow
  <2>4. WinExact' /\ ShownExact'
    BY <1>1, <1>3, <1>7, <2>1 DEF Exact, WinExact, ShownExact
  <2> QED
    BY <1>1, <1>2, <1>4, <2>2, <2>3, <2>4 DEF Exact
<1> QED
  BY <1>6, <1>7

LEMMA DeleteBeginKeeps ==
  ASSUME IInv, NEW c \in Convs, DeleteBegin(c)
  PROVE  IInv'
<1> USE DEF IInv
<1> DEFINE r == [at |-> "collected", paths |-> FilesOf(c)]
<1>1. /\ deleting[c] = None /\ deleting' = [deleting EXCEPT ![c] = r]
      /\ UNCHANGED <<conv, msgs, files, run, image, next, loading, sums, summaries>>
      /\ UNCHANGED <<memVars, lock, job, flush>>
      /\ \/ cur' = None /\ shown' = <<>> /\ win' = NoSummary /\ jobId' = 0
         \/ UNCHANGED <<cur, shown, win, jobId>>
  BY DEF DeleteBegin, Cleared, dbVars, runVars
<1>2. r \in Deletion /\ r.at = "collected" /\ r.paths = FilesOf(c)
  <2>1. FilesOf(c) \subseteq Ids
    BY DEF TypeInv, Numbers
  <2> QED
    BY <2>1 DEF Deletion
<1> HIDE DEF r
<1>3. deleting'[c] = r /\ \A d \in Convs : d # c => deleting'[d] = deleting[d]
  BY <1>1 DEF TypeInv
<1>4. TypeInv'
  <2>1. deleting' \in [Convs -> Deletion \cup {None}]
    BY <1>1, <1>2 DEF TypeInv
  <2>2. cur' \in Convs \cup {None} /\ shown' \in Seq(Ids) /\ win' \in Held /\ jobId' \in Nat
    <3>1. cur \in Convs \cup {None} /\ shown \in Seq(Ids) /\ win \in Held /\ jobId \in Nat
      BY DEF TypeInv
    <3>2. <<>> \in Seq(Ids)
      BY EmptySeq
    <3>3. CASE UNCHANGED <<cur, shown, win, jobId>>
      BY <3>1, <3>3
    <3>4. CASE cur' = None /\ shown' = <<>> /\ win' = NoSummary /\ jobId' = 0
      BY <3>2, <3>4, NoSummaryIs
    <3> QED
      BY <1>1, <3>3, <3>4
  <2> QED
    BY <1>1, <2>1, <2>2 DEF TypeInv, memVars
<1>5. Merges' /\ ConsolidationSound'
  BY <1>1, NothingMarked, MergesStay
<1>6. Numbers'
  <2>1. \A d \in Convs : deleting'[d] # None =>
           \/ /\ deleting[d] # None /\ deleting'[d].paths = deleting[d].paths
              /\ deleting'[d].at = "deleted" => conv'[d] = Gone
           \/ deleting'[d].paths = FilesOf(d) /\ deleting'[d].at = "collected"
    BY <1>1, <1>2, <1>3 DEF Numbers
  <2>2. shown' = shown \/ shown' = <<>>
    BY <1>1
  <2> QED
    BY <1>1, <2>1, <2>2, NumbersShow
<1>7. Exact'
  <2>1. CASE UNCHANGED <<cur, shown, win, jobId>>
    BY <1>1, <2>1, SameIsSame, ExactStays
  <2>2. CASE cur' = None /\ win' = NoSummary /\ jobId' = 0
    <3>1. loading' # None => conv[loading'] # None
      BY <1>1 DEF Exact
    <3> QED
      BY <1>1, <2>2, <3>1, ExactCleared
  <2> QED
    BY <1>1, <2>1, <2>2
<1> QED
  BY <1>4, <1>5, <1>6, <1>7

LEMMA DeleteRowKeeps ==
  ASSUME IInv, NEW c \in Convs, NEW ok \in BOOLEAN, DeleteRow(c, ok)
  PROVE  IInv'
<1> USE DEF IInv
<1>1. /\ deleting[c] # None /\ deleting[c].at = "collected"
      /\ UNCHANGED <<files, run, image, next, cur, loading, shown, win, jobId, sums, summaries>>
      /\ UNCHANGED <<memVars, lock, job, flush>>
      /\ IF ok THEN /\ conv' = [conv EXCEPT ![c] = Gone]
                    /\ msgs' = [msgs EXCEPT ![c] = <<>>]
                    /\ deleting' = [deleting EXCEPT ![c].at = "deleted"]
               ELSE deleting' = [deleting EXCEPT ![c] = None] /\ UNCHANGED <<conv, msgs>>
  BY DEF DeleteRow, dbVars, runVars, winVars, sumVars, jobVars
<1>2. CASE ok
  <2> DEFINE r == [deleting[c] EXCEPT !.at = "deleted"]
  <2>1. /\ conv' = [conv EXCEPT ![c] = Gone] /\ msgs' = [msgs EXCEPT ![c] = <<>>]
        /\ deleting' = [deleting EXCEPT ![c] = r]
    BY <1>1, <1>2
  <2>2. deleting[c] \in Deletion
    BY <1>1 DEF TypeInv
  <2>3. r \in Deletion /\ r.paths = deleting[c].paths
    BY <2>2 DEF Deletion
  <2> HIDE DEF r
  <2>4. /\ conv'[c] = Gone /\ msgs'[c] = <<>> /\ deleting'[c] = r
        /\ \A d \in Convs : d # c =>
             conv'[d] = conv[d] /\ msgs'[d] = msgs[d] /\ deleting'[d] = deleting[d]
    BY <2>1 DEF TypeInv
  <2>5. /\ IdsOf(c)' = <<>> /\ Has(c)' = {} /\ FilesOf(c)' = {} /\ Own(c)' /\ IsInjective(IdsOf(c)')
    BY <2>4, InSequence, NothingIn DEF Own
  <2>6. \A d \in Convs : d # c =>
          /\ Has(d)' = Has(d) /\ FilesOf(d)' = FilesOf(d) /\ IdsOf(d)' = IdsOf(d)
          /\ (Exists(d)' <=> Exists(d)) /\ (Own(d)' <=> Own(d))
    BY <2>4 DEF Has, FilesOf, IdsOf, Exists, Own
  <2>7. ~Exists(c)'
    BY <2>4 DEF Exists
  <2>8. TypeInv'
    <3>1. /\ conv' \in [Convs -> Row \cup {None, Gone}] /\ msgs' \in [Convs -> Seq(Message)]
          /\ deleting' \in [Convs -> Deletion \cup {None}]
      BY <2>1, <2>3, EmptySeq DEF TypeInv
    <3> QED
      BY <1>1, <3>1 DEF TypeInv, memVars
  <2>9. Merges' /\ ConsolidationSound'
    <3>1. NoMarks
      BY <2>4, <2>6, <2>7 DEF NoMarks
    <3> QED
      BY <1>1, <3>1, MergesStay
  <2>10. Numbers'
    <3>1. \A d \in Convs : ~Exists(d)' => msgs'[d] = <<>>
      BY <2>4, <2>6 DEF Numbers
    <3>2. \A d \in Convs : Has(d)' \subseteq Has(d) /\ IsInjective(IdsOf(d)')
      BY <2>5, <2>6 DEF Numbers
    <3>3. \A d \in Convs : Own(d)' /\ FilesOf(d)' \subseteq files'
      BY <1>1, <2>5, <2>6 DEF Numbers
    <3>4. \A d \in Convs : deleting'[d] # None =>
            /\ deleting[d] # None /\ deleting'[d].paths = deleting[d].paths
            /\ deleting'[d].at = "deleted" => conv'[d] = Gone
      BY <1>1, <2>3, <2>4 DEF Numbers
    <3>5. \A d \in Convs : Sent(d)' = Sent(d)
      BY <1>1 DEF Sent
    <3>6. shown' = shown
      BY <1>1
    <3> QED
      BY <1>1, <3>1, <3>2, <3>3, <3>4, <3>5, <3>6, NumbersLess DEF Numbers
  <2>11. Exact'
    <3>1. \A s : MaySave(s)' <=> MaySave(s)
      BY <1>1 DEF MaySave
    <3>2. ASSUME NEW d \in Convs PROVE RowExact(d)'
      <4>1. CASE d = c
        BY <2>7, <4>1 DEF RowExact
      <4>2. CASE d # c
        <5>1. RowExact(d)
          BY DEF Exact
        <5> QED
          BY <2>4, <2>6, <4>2, <5>1 DEF RowExact, Upon
      <4> QED
        BY <4>1, <4>2
    <3>3. ASSUME NEW s \in sums' PROVE SumExact(s)'
      <4>1. s \in sums /\ s.conv \in Convs /\ SumExact(s)
        BY <1>1 DEF TypeInv, Summary, Exact
      <4>2. CASE s.conv = c
        BY <1>1, <2>4, <2>7, <4>1, <4>2, NoneAssumption DEF SumExact
      <4>3. CASE s.conv # c
        BY <1>1, <2>4, <2>6, <3>1, <4>1, <4>3 DEF SumExact, Upon
      <4> QED
        BY <4>2, <4>3
    <3>4. WinExact'
      <4>1. win.of \in Convs \cup {None} /\ WinExact
        BY DEF TypeInv, Held, Exact
      <4>2. CASE win.of = c
        BY <1>1, <2>4, <2>7, <4>1, <4>2, NoneAssumption DEF WinExact, Exists
      <4>3. CASE win.of # c
        BY <1>1, <2>4, <2>6, <4>1, <4>3 DEF WinExact
      <4> QED
        BY <4>2, <4>3
    <3>5. ShownExact'
      <4>1. cur \in Convs \cup {None} /\ ShownExact
        BY DEF TypeInv, Exact
      <4>2. CASE cur = c
        BY <1>1, <2>4, <4>2 DEF ShownExact, Exists
      <4>3. CASE cur # c
        BY <1>1, <2>6, <4>1, <4>3 DEF ShownExact
      <4> QED
        BY <4>2, <4>3
    <3>6. (loading' # None => conv'[loading'] # None) /\ jobId' \leq summaries'
      BY <1>1, <2>4, NoneAssumption DEF TypeInv, Exact
    <3> QED
      BY <3>2, <3>3, <3>4, <3>5, <3>6 DEF Exact
  <2> QED
    BY <2>8, <2>9, <2>10, <2>11
<1>3. CASE ~ok
  <2>1. deleting' = [deleting EXCEPT ![c] = None] /\ UNCHANGED <<conv, msgs>>
    BY <1>1, <1>3
  <2>2. TypeInv'
    BY <1>1, <2>1 DEF TypeInv, memVars
  <2>3. Merges' /\ ConsolidationSound'
    BY <1>1, <2>1, NothingMarked, MergesStay
  <2>4. Numbers'
    <3>1. \A d \in Convs : deleting'[d] # None =>
            /\ deleting[d] # None /\ deleting'[d].paths = deleting[d].paths
            /\ deleting'[d].at = "deleted" => conv'[d] = Gone
      BY <2>1 DEF TypeInv, Numbers
    <3> QED
      BY <1>1, <2>1, <3>1, NumbersShow
  <2>5. Exact'
    BY <1>1, <2>1, SameIsSame, ExactStays
  <2> QED
    BY <2>2, <2>3, <2>4, <2>5
<1> QED
  BY <1>2, <1>3

LEMMA DeleteFilesKeeps ==
  ASSUME IInv, NEW c \in Convs, DeleteFiles(c)
  PROVE  IInv'
<1> USE DEF IInv
<1>1. /\ deleting[c] # None /\ deleting[c].at = "deleted"
      /\ files' = files \ deleting[c].paths
      /\ deleting' = [deleting EXCEPT ![c] = None]
      /\ UNCHANGED <<conv, msgs, run, image, next, cur, loading, shown, win>>
      /\ UNCHANGED <<jobId, sums, summaries, memVars, lock, job, flush>>
  BY DEF DeleteFiles, dbVars, runVars, winVars, sumVars, jobVars
<1>2. TypeInv'
  BY <1>1 DEF TypeInv, memVars
<1>3. Merges' /\ ConsolidationSound'
  BY <1>1, NothingMarked, MergesStay
<1>4. Numbers'
  <2>1. \A d \in Convs : /\ Has(d)' = Has(d) /\ FilesOf(d)' = FilesOf(d) /\ IdsOf(d)' = IdsOf(d)
                         /\ (Exists(d)' <=> Exists(d)) /\ (Own(d)' <=> Own(d)) /\ Sent(d)' = Sent(d)
    BY <1>1 DEF Has, FilesOf, IdsOf, Exists, Own, Sent
  <2>2. msgs[c] = <<>>
    BY <1>1 DEF Numbers, Exists
  <2>3. FilesOf(c) = {}
    BY <2>2, InSequence, NothingIn
  <2>4. ASSUME NEW d \in Convs PROVE FilesOf(d) \subseteq files'
    <3>1. CASE d = c
      BY <2>3, <3>1
    <3>2. CASE d # c
      <4>1. deleting[c].paths \cap Has(d) = {} /\ FilesOf(d) \subseteq files /\ Own(d)
        BY <1>1, <3>2 DEF Numbers
      <4>2. FilesOf(d) \subseteq Has(d)
        BY <4>1, OwnFiles
      <4> QED
        BY <1>1, <4>1, <4>2
    <3> QED
      BY <3>1, <3>2
  <2>5. ASSUME NEW d \in Convs, run[d] = "sending", image[d].file \in files
        PROVE  image[d].file \in files'
    <3>1. image[d].id \in Sent(d)
      BY <2>5 DEF Sent
    <3>2. deleting[c].paths \cap Sent(d) = {}
      BY <1>1 DEF Numbers
    <3>3. image[d].file = image[d].id
      BY <2>5, NoneAssumption DEF TypeInv, Numbers
    <3> QED
      BY <1>1, <2>5, <3>1, <3>2, <3>3
  <2>6. \A d \in Convs : deleting'[d] # None =>
          /\ deleting[d] # None /\ deleting'[d].paths = deleting[d].paths
          /\ deleting'[d].at = "deleted" => conv'[d] = Gone
    BY <1>1 DEF TypeInv, Numbers
  <2>7. shown' = shown
    BY <1>1
  <2> QED
    BY <1>1, <2>1, <2>4, <2>5, <2>6, <2>7, NumbersLess DEF Numbers
<1>5. Exact'
  BY <1>1, SameIsSame, ExactStays
<1> QED
  BY <1>2, <1>3, <1>4, <1>5

LEMMA CrashKeeps ==
  ASSUME IInv, Crash
  PROVE  IInv'
<1> USE DEF IInv
<1>1. /\ run' = [c \in Convs |-> "none"] /\ image' = [c \in Convs |-> None]
      /\ deleting' = [c \in Convs |-> None]
      /\ cur' = None /\ loading' = None /\ shown' = <<>> /\ win' = NoSummary
      /\ jobId' = 0 /\ sums' = {}
      /\ lock' = "free" /\ job' = None /\ flush' = None
      /\ UNCHANGED <<conv, msgs, files, next, summaries, digests>>
      /\ \/ UNCHANGED <<memory, snaps, torn>>
         \/ snaps' = Archived /\ memory' = {} /\ torn' = TRUE
  BY DEF Crash, dbVars, memVars
<1>2. TypeInv'
  <2>1. memory' \subseteq Convs /\ snaps' \subseteq SUBSET Convs /\ torn' \in BOOLEAN
    BY <1>1 DEF TypeInv, Archived
  <2>2. shown' \in Seq(Ids) /\ win' \in Held
    BY <1>1, EmptySeq, NoSummaryIs
  <2> QED
    BY <1>1, <2>1, <2>2 DEF TypeInv
<1>3. Merges'
  BY <1>1 DEF Merges
<1>4. ConsolidationSound'
  <2>1. DigestOnDisk' /\ LockOwned'
    BY <1>1 DEF ConsolidationSound, DigestOnDisk, LockOwned, Exists
  <2>2. MemoryKeepsDigests'
    <3>1. CASE UNCHANGED <<memory, snaps, torn>>
      BY <1>1, <3>1 DEF ConsolidationSound, MemoryKeepsDigests, Exists
    <3>2. CASE snaps' = Archived /\ memory' = {} /\ torn' = TRUE
      <4>1. SUFFICES ASSUME NEW c \in Convs, Exists(c), conv[c].done
                     PROVE  c \in UNION snaps'
        BY <1>1, <3>2 DEF MemoryKeepsDigests, Exists
      <4>2. c \in memory \/ c \in UNION snaps
        BY <4>1 DEF ConsolidationSound, MemoryKeepsDigests
      <4> QED
        BY <3>2, <4>2 DEF Archived
    <3> QED
      BY <1>1, <3>1, <3>2
  <2> QED
    BY <2>1, <2>2 DEF ConsolidationSound
<1>5. Numbers'
  <2>1. \A d \in Convs : /\ Has(d)' = Has(d) /\ FilesOf(d)' = FilesOf(d) /\ IdsOf(d)' = IdsOf(d)
                         /\ (Exists(d)' <=> Exists(d)) /\ (Own(d)' <=> Own(d))
    BY <1>1 DEF Has, FilesOf, IdsOf, Exists, Own
  <2>2. \A d \in Convs : run'[d] # "sending" /\ deleting'[d] = None
    BY <1>1
  <2>3. ToSet(shown)' = {} /\ IsInjective(shown)'
    BY <1>1, NothingIn
  <2> QED
    BY <1>1, <2>1, <2>2, <2>3, NumbersLess DEF Numbers
<1>6. Exact'
  BY <1>1, ExactCleared
<1> QED
  BY <1>2, <1>3, <1>4, <1>5, <1>6

-----------------------------------------------------------------------------
(* The theorems.                                                               *)

LEMMA InitIs ==
  ASSUME Init
  PROVE  IInv
<1>1. /\ conv = [c \in Convs |-> None] /\ msgs = [c \in Convs |-> <<>>]
      /\ files = {} /\ next = 1 /\ summaries = 0
      /\ digests = {} /\ memory = {} /\ snaps = {} /\ torn = FALSE
      /\ run = [c \in Convs |-> "none"] /\ image = [c \in Convs |-> None]
      /\ deleting = [c \in Convs |-> None]
      /\ cur = None /\ loading = None /\ shown = <<>> /\ win = NoSummary
      /\ jobId = 0 /\ sums = {} /\ lock = "free" /\ job = None /\ flush = None
  BY DEF Init, FreshWindow
<1>2. TypeInv
  <2>1. \A S : <<>> \in Seq(S)
    BY EmptySeq
  <2>2. msgs \in [Convs -> Seq(Message)]
    BY <1>1, <2>1
  <2>3. shown \in Seq(Ids) /\ win \in Held /\ next \in 1..MaxIds + 1
    BY <1>1, <2>1, NoSummaryIs, ConversationAssumption
  <2> QED
    BY <1>1, <2>2, <2>3 DEF TypeInv
<1>3. \A c \in Convs : ~Exists(c) /\ msgs[c] = <<>>
  BY <1>1 DEF Exists
<1>4. Merges /\ ConsolidationSound
  BY <1>1, <1>3 DEF Merges, ConsolidationSound, DigestOnDisk, MemoryKeepsDigests, LockOwned
<1>5. Numbers
  <2>1. \A c \in Convs : /\ IsInjective(IdsOf(c)) /\ Has(c) = {} /\ FilesOf(c) = {}
                         /\ Own(c) /\ Sent(c) = {}
    BY <1>1, <1>3, InSequence, NothingIn DEF Own, Sent
  <2>2. ToSet(shown) = {} /\ IsInjective(shown)
    BY <1>1, NothingIn
  <2> QED
    BY <1>1, <1>3, <2>1, <2>2 DEF Numbers
<1>6. Exact
  BY <1>1, <1>3, NoSummaryIs DEF Exact, RowExact, WinExact, ShownExact
<1> QED
  BY <1>2, <1>4, <1>5, <1>6 DEF IInv

LEMMA StutterKeeps ==
  ASSUME IInv, UNCHANGED vars
  PROVE  IInv'
<1> USE DEF IInv
<1>1. /\ UNCHANGED <<conv, msgs, files, deleting, run, image, next, cur, loading, shown, win>>
      /\ UNCHANGED <<jobId, sums, summaries, memVars, lock, job, flush>>
  BY DEF vars, dbVars, runVars, winVars, sumVars, jobVars
<1>2. TypeInv'
  BY <1>1 DEF TypeInv, memVars
<1>3. Merges' /\ ConsolidationSound'
  BY <1>1, NothingMarked, MergesStay
<1>4. Numbers' /\ Exact'
  BY <1>1, SameIsSame, NumbersStay, ExactStays DEF SameRows
<1> QED
  BY <1>2, <1>3, <1>4

(* Every step of the window, of a consolidation and of the process keeps the   *)
(* invariant.                                                                  *)
THEOREM Inductive == Spec => []IInv
<1>1. IInv /\ [Next]_vars => IInv'
  <2>1. SUFFICES ASSUME IInv, [Next]_vars PROVE IInv'
    OBVIOUS
  <2>2. CASE JobNext \/ Recover \/ FlushNext
    BY <2>1, <2>2, ConsolidationKeeps
  <2>3. CASE Load \/ Crash
    BY <2>1, <2>3, LoadKeeps, CrashKeeps
  <2>4. CASE \E s \in sums : SummaryAnswer(s) \/ SummarySave(s) \/ SummaryFails(s)
    BY <2>1, <2>4, AnswerKeeps, SaveKeeps
  <2>5. ASSUME NEW c \in Convs, Send(c) \/ SaveUser(c) \/ TurnFails(c) \/ FlushBegin(c)
        PROVE  IInv'
    BY <2>1, <2>5, SendKeeps, SaveUserKeeps, TurnFailsKeeps, ConsolidationKeeps
  <2>6. ASSUME NEW c \in Convs, NEW k \in 0..MaxIds, Reply(c, k) PROVE IInv'
    BY <2>1, <2>6, ReplyKeeps
  <2>7. ASSUME NEW c \in Convs, NEW n \in 1..MaxIds, Regenerate(c, n) PROVE IInv'
    BY <2>1, <2>7, RegenerateKeeps
  <2>8. ASSUME NEW c \in Convs, DeleteBegin(c) \/ DeleteFiles(c) PROVE IInv'
    BY <2>1, <2>8, DeleteBeginKeeps, DeleteFilesKeeps
  <2>9. ASSUME NEW c \in Convs, NEW ok \in BOOLEAN, DeleteRow(c, ok) PROVE IInv'
    BY <2>1, <2>9, DeleteRowKeeps
  <2>10. ASSUME NEW c \in Convs \cup {None}, Select(c) PROVE IInv'
    BY <2>1, <2>10, SelectKeeps
  <2>11. CASE UNCHANGED vars
    BY <2>1, <2>11, StutterKeeps
  <2> QED
    BY <2>1, <2>2, <2>3, <2>4, <2>5, <2>6, <2>7, <2>8, <2>9, <2>10, <2>11 DEF Next, Step
<1> QED
  BY <1>1, InitIs, PTL DEF Spec

(* What counts as digested and consolidated is on disk and in the memory, and  *)
(* one consolidation at a time has the lock (consolidationService.ts:31-175).  *)
THEOREM ConsolidationLosesNothing == Spec => []ConsolidationSound
<1>1. IInv => ConsolidationSound
  BY DEF IInv
<1> QED
  BY <1>1, Inductive, PTL

(* The file a message names is on disk, whatever is deleted in between         *)
(* (chat_commands.rs:59-90).                                                   *)
THEOREM FilesAreThere == Spec => []NoDanglingFile
<1>1. IInv => NoDanglingFile
  <2>1. SUFFICES ASSUME IInv PROVE NoDanglingFile
    OBVIOUS
  <2>2. TypeInv /\ Numbers
    BY <2>1 DEF IInv
  <2>3. \A c \in Convs :
          Exists(c) => conv[c].upTo \in Ids \cup {None} /\ conv[c].covers \in Seq(Ids)
    BY <2>2, ExistsIs, RowsAre
  <2>4. \A c \in Convs : deleting[c] # None => deleting[c].paths \subseteq Ids
    <3>1. \A r \in Deletion : r.paths \subseteq Ids
      BY DEF Deletion
    <3> QED
      BY <2>2, <3>1 DEF TypeInv
  <2>5. TypeOK
    BY <2>2, <2>3, <2>4 DEF TypeInv, Numbers, TypeOK
  <2> QED
    BY <2>2, <2>5 DEF Numbers, NoDanglingFile
<1> QED
  BY <1>1, Inductive, PTL

(* A summary covers each message up to its pointer once and no other, unless   *)
(* it is tainted (summary_ops.rs:23-73).                                       *)
THEOREM SummariesAreExact == Spec => []SummaryExact
<1>1. IInv => SummaryExact
  <2>1. SUFFICES ASSUME IInv, NEW c \in Convs, Exists(c), ~conv[c].taint, conv[c].upTo # None
                 PROVE  conv[c].covers = Upto(c)
    BY DEF SummaryExact
  <2>2. Upon(IdsOf(c), conv[c].upTo, conv[c].covers)
    BY <2>1 DEF IInv, Exact, RowExact
  <2> DEFINE ids == IdsOf(c)
  <2>3. ids \in Seq(Ids) /\ IsInjective(ids)
    BY <2>1, InSequence, IdsAre DEF IInv, TypeInv, Numbers
  <2>4. PICK k \in 1..Len(ids) : conv[c].upTo = ids[k] /\ conv[c].covers = SubSeq(ids, 1, k)
    BY <2>2 DEF Upon
  <2> HIDE DEF ids
  <2>5. DOMAIN ids = 1..Len(ids)
    BY <2>3
  <2>6. ids[k] \in ToSet(ids)
    BY <2>4, <2>5 DEF ToSet
  <2>7. PlaceOf(ids[k], ids) = k
    <3>1. PlaceOf(ids[k], ids) = CHOOSE i \in DOMAIN ids : ids[i] = ids[k]
      BY <2>6 DEF PlaceOf
    <3> QED
      BY <2>3, <2>4, <2>5, <3>1 DEF IsInjective
  <2> QED
    BY <2>4, <2>7 DEF Upto, ids
<1> QED
  BY <1>1, Inductive, PTL

-----------------------------------------------------------------------------
(* Vault: numbers.                                                             *)

(* A set that has 0 and with each number the next has every number.           *)
LEMMA FromZeroUp ==
  ASSUME NEW S, 0 \in S, \A n \in Nat : n \in S => n + 1 \in S
  PROVE  Nat \subseteq S
<1> DEFINE T == Nat \ S
<1>1. SUFFICES ASSUME T # {} PROVE FALSE
  OBVIOUS
<1>2. PICK x \in T : \A y \in T : ~(<<y, x>> \in OpToRel(<, Nat))
  BY <1>1, NatLessThanWellFounded, WFMin
<1>3. \A y \in T : ~(y < x)
  <2>1. \A y \in T : y \in Nat /\ x \in Nat /\ (y < x => <<y, x>> \in OpToRel(<, Nat))
    BY DEF OpToRel
  <2> QED BY <1>2, <2>1
<1> QED BY <1>3

(* Of some notes one was changed last.                                         *)
LEMMA OneIsLatest ==
  ASSUME NEW N \in Nat, NEW u \in [1..N -> Nat], NEW S \in SUBSET (1..N), S # {}
  PROVE  \E i \in S : \A j \in S : u[j] <= u[i]
<1> DEFINE Top(P) == \E i \in P : \A j \in P : u[j] <= u[i]
           T == {n \in Nat : n <= N => \A P \in SUBSET (1..n) : P # {} => Top(P)}
<1>1. 0 \in T
  <2>1. 1..0 = {}
    OBVIOUS
  <2> QED BY <2>1
<1>2. ASSUME NEW n \in Nat, n \in T
      PROVE  n + 1 \in T
  <2> SUFFICES ASSUME n + 1 <= N, NEW P \in SUBSET (1..n + 1), P # {}
               PROVE  Top(P)
    OBVIOUS
  <2> DEFINE Q == P \ {n + 1}
  <2>1. Q \in SUBSET (1..n)
    OBVIOUS
  <2>2. CASE Q = {}
    <3>1. P = {n + 1}
      BY <2>2
    <3>2. n + 1 \in 1..N
      BY <1>2
    <3>3. u[n + 1] \in Nat
      BY <3>2
    <3> QED BY <3>1, <3>3
  <2>3. CASE Q # {}
    <3>0. \A R \in SUBSET (1..n) : R # {} => Top(R)
      BY <1>2
    <3>1. PICK i \in Q : \A j \in Q : u[j] <= u[i]
      BY <3>0, <2>1, <2>3
    <3>2. CASE n + 1 \notin P \/ u[n + 1] <= u[i]
      BY <3>1, <3>2
    <3>3. CASE n + 1 \in P /\ ~(u[n + 1] <= u[i])
      <4>1. \A j \in P : u[j] <= u[n + 1]
        <5> TAKE j \in P
        <5>1. j \in 1..N /\ i \in 1..N /\ n + 1 \in 1..N
          BY <2>1
        <5>2. u[j] \in Nat /\ u[i] \in Nat /\ u[n + 1] \in Nat
          BY <5>1
        <5>3. j = n + 1 \/ u[j] <= u[i]
          BY <3>1
        <5> QED BY <3>3, <5>2, <5>3
      <4> QED BY <3>3, <4>1
    <3> QED BY <3>2, <3>3
  <2> QED BY <2>2, <2>3
<1>3. N \in T
  <2> HIDE DEF T
  <2> QED BY <1>1, <1>2, FromZeroUp
<1> QED BY <1>3

-----------------------------------------------------------------------------
(* Vault: what the links of an index are, for the notes S of the index.        *)

Links == [out : [NoteIds -> SUBSET (Raws \X (NoteIds \cup {Nil}))],
          in  : [NoteIds -> SUBSET (NoteIds \X Raws)]]

Mirrored(l) ==
  \A s, t \in NoteIds, raw \in Raws : <<raw, t>> \in l.out[s] <=> <<s, raw>> \in l.in[t]

LinksOK(l, S) ==
  /\ l \in Links /\ Mirrored(l)
  /\ \A i \in NoteIds : /\ Targets(l, i) \subseteq S \cup {Nil}
                        /\ i \notin S => l.out[i] = {}

Registry == [path : [NoteIds -> Paths \cup {Nil}], at : [Paths -> NoteIds \cup {Nil}],
             named : [NoteIds -> SUBSET Stems], agent : [NoteIds -> Agents \cup {Nil}],
             updated : [NoteIds -> Nat]]

RegistryOK(r) ==
  /\ r \in Registry
  /\ \A i \in NoteIds : r.named[i] # {} <=> i \in Registered(r)

LEMMA NotesAre == NoteIds \subseteq Nat /\ Nil \notin NoteIds /\ Nil \notin Paths /\ MaxNotes \in Nat
  BY VaultAssumption, FileAssumption DEF NoteIds

LEMMA LatestIn ==
  ASSUME NEW r, RegistryOK(r), NEW S \in SUBSET NoteIds, S # {}
  PROVE  Latest(r, S) \in S
<1>1. r.updated \in [1..MaxNotes -> Nat] /\ MaxNotes \in Nat
  BY NotesAre DEF RegistryOK, Registry, NoteIds
<1>2. \E i \in S : \A j \in S : r.updated[j] <= r.updated[i]
  BY <1>1, OneIsLatest DEF NoteIds
<1> QED BY <1>2 DEF Latest

(* A link leads to a note of the index, or it is broken.                       *)
LEMMA ResolveIn ==
  ASSUME NEW r, RegistryOK(r), NEW raw \in Raws, NEW agent
  PROVE  Resolve(r, raw, agent) \in Registered(r) \cup {Nil}
<1> DEFINE named == {i \in NoteIds : raw[1] = "name" /\ <<raw[2], 0>> \in r.named[i]}
           own   == {i \in named : r.agent[i] = agent}
<1>1. named \subseteq Registered(r) /\ named \in SUBSET NoteIds /\ own \in SUBSET named
  BY DEF RegistryOK
<1>2. CASE raw[1] = "id" /\ raw[2] \in Registered(r)
  BY <1>2 DEF Resolve
<1>3. CASE ~(raw[1] = "id" /\ raw[2] \in Registered(r)) /\ named = {}
  BY <1>3 DEF Resolve
<1>4. CASE ~(raw[1] = "id" /\ raw[2] \in Registered(r)) /\ own # {}
  <2>1. Latest(r, own) \in own
    BY <1>1, <1>4, LatestIn
  <2>2. Resolve(r, raw, agent) = Latest(r, own)
    BY <1>4 DEF Resolve
  <2> QED BY <1>1, <2>1, <2>2
<1>5. CASE ~(raw[1] = "id" /\ raw[2] \in Registered(r)) /\ named # {} /\ own = {}
  <2>1. Latest(r, named) \in named
    BY <1>1, <1>5, LatestIn
  <2>2. Resolve(r, raw, agent) = Latest(r, named)
    BY <1>5 DEF Resolve
  <2> QED BY <1>1, <2>1, <2>2
<1> QED BY <1>2, <1>3, <1>4, <1>5
-----------------------------------------------------------------------------
(* Vault: the operations of the link index.                                    *)

(* Every entry of in[t] is that of a link.                                     *)
LEMMA EntriesAre ==
  ASSUME NEW l \in Links, NEW i \in NoteIds
  PROVE  /\ \A x \in l.out[i] : x = <<x[1], x[2]>> /\ x[1] \in Raws /\ x[2] \in NoteIds \cup {Nil}
         /\ \A e \in l.in[i] : e = <<e[1], e[2]>> /\ e[1] \in NoteIds /\ e[2] \in Raws
  BY DEF Links

LEMMA DropIs ==
  ASSUME NEW l, NEW S, LinksOK(l, S), NEW i \in NoteIds
  PROVE  /\ DropOutgoing(l, i) \in Links
         /\ \A s \in NoteIds : DropOutgoing(l, i).out[s] = IF s = i THEN {} ELSE l.out[s]
         /\ \A s, t \in NoteIds, raw \in Raws :
              <<s, raw>> \in DropOutgoing(l, i).in[t] <=> <<s, raw>> \in l.in[t] /\ s # i
<1> DEFINE d == DropOutgoing(l, i)
<1>1. l \in Links /\ Mirrored(l)
  BY DEF LinksOK
<1>2. \A s \in NoteIds : d.out[s] = IF s = i THEN {} ELSE l.out[s]
  BY <1>1 DEF DropOutgoing, Links
<1>3. \A t \in NoteIds : d.in[t] = IF t \in Targets(l, i) THEN {e \in l.in[t] : e[1] # i} ELSE l.in[t]
  BY DEF DropOutgoing
<1>4. ASSUME NEW t \in NoteIds, NEW s \in NoteIds, NEW raw \in Raws
      PROVE  <<s, raw>> \in d.in[t] <=> <<s, raw>> \in l.in[t] /\ s # i
  <2>1. CASE t \in Targets(l, i)
    <3>1. d.in[t] = {e \in l.in[t] : e[1] # i}
      BY <1>3, <2>1
    <3> HIDE DEF d
    <3> QED BY <3>1
  <2>2. CASE t \notin Targets(l, i)
    <3>1. <<raw, t>> \notin l.out[i]
      BY <2>2 DEF Targets
    <3>2. <<i, raw>> \notin l.in[t]
      BY <1>1, <3>1 DEF Mirrored
    <3> QED BY <1>3, <2>2, <3>2
  <2> QED BY <2>1, <2>2
<1>5. d \in Links
  <2>1. l.out \in [NoteIds -> SUBSET (Raws \X (NoteIds \cup {Nil}))]
        /\ l.in \in [NoteIds -> SUBSET (NoteIds \X Raws)]
    BY <1>1 DEF Links
  <2>2. [l.out EXCEPT ![i] = {}] \in [NoteIds -> SUBSET (Raws \X (NoteIds \cup {Nil}))]
    BY <2>1
  <2>3. \A t \in NoteIds : {e \in l.in[t] : e[1] # i} \in SUBSET (NoteIds \X Raws)
    BY <2>1
  <2>4. [t \in NoteIds |-> IF t \in Targets(l, i) THEN {e \in l.in[t] : e[1] # i} ELSE l.in[t]]
          \in [NoteIds -> SUBSET (NoteIds \X Raws)]
    BY <2>1, <2>3
  <2> QED BY <2>2, <2>4 DEF DropOutgoing, Links
<1> QED BY <1>2, <1>4, <1>5

(* u is l with links from i to what the index r resolves them to.               *)
Added(u, l, r, i, body, agent) ==
  /\ u \in Links
  /\ \A s \in NoteIds \ {i} : u.out[s] = l.out[s]
  /\ \A raw \in Raws, t \in NoteIds \cup {Nil} :
       <<raw, t>> \in u.out[i] <=>
         <<raw, t>> \in l.out[i] \/ (raw \in body /\ t = Resolve(r, raw, agent))
  /\ \A s, t \in NoteIds, raw \in Raws :
       <<s, raw>> \in u.in[t] <=>
         <<s, raw>> \in l.in[t] \/ (s = i /\ raw \in body /\ t = Resolve(r, raw, agent))

LEMMA AddIs ==
  ASSUME NEW l \in Links, NEW r, RegistryOK(r), NEW i \in NoteIds, NEW body \in SUBSET Raws,
         NEW agent
  PROVE  Added(AddLinks(l, r, i, body, agent), l, r, i, body, agent)
<1> DEFINE a == AddLinks(l, r, i, body, agent)
           new == {<<raw, Resolve(r, raw, agent)>> : raw \in body}
           into(t) == {<<i, x[1]>> : x \in {y \in new : y[2] = t}}
<1>1. l.out \in [NoteIds -> SUBSET (Raws \X (NoteIds \cup {Nil}))]
      /\ l.in \in [NoteIds -> SUBSET (NoteIds \X Raws)]
  BY DEF Links
<1>2. \A raw \in Raws : Resolve(r, raw, agent) \in NoteIds \cup {Nil}
  BY ResolveIn DEF Registered
<1>3. a = [out |-> [l.out EXCEPT ![i] = @ \cup new], in |-> [t \in NoteIds |-> l.in[t] \cup into(t)]]
  BY DEF AddLinks
<1>4. new \in SUBSET (Raws \X (NoteIds \cup {Nil}))
  BY <1>2
<1>5. \A t, raw : <<i, raw>> \in into(t) <=> raw \in body /\ t = Resolve(r, raw, agent)
  <2> TAKE t, raw
  <2>1. ASSUME <<i, raw>> \in into(t)
        PROVE  raw \in body /\ t = Resolve(r, raw, agent)
    <3>1. PICK x \in new : x[2] = t /\ <<i, raw>> = <<i, x[1]>>
      BY <2>1
    <3>2. PICK w \in body : x = <<w, Resolve(r, w, agent)>>
      BY <3>1
    <3> QED BY <3>1, <3>2
  <2>2. ASSUME raw \in body, t = Resolve(r, raw, agent)
        PROVE  <<i, raw>> \in into(t)
    <3>1. <<raw, t>> \in {y \in new : y[2] = t}
      BY <2>2
    <3> QED BY <3>1
  <2> QED BY <2>1, <2>2
<1>6. \A t : into(t) \in SUBSET (NoteIds \X Raws)
  OBVIOUS
<1>7. \A t, s, raw : <<s, raw>> \in into(t) => s = i
  OBVIOUS
<1>8. a \in Links
  <2>1. [l.out EXCEPT ![i] = @ \cup new] \in [NoteIds -> SUBSET (Raws \X (NoteIds \cup {Nil}))]
    BY <1>1, <1>4
  <2>2. [t \in NoteIds |-> l.in[t] \cup into(t)] \in [NoteIds -> SUBSET (NoteIds \X Raws)]
    BY <1>1, <1>6
  <2> QED BY <1>3, <2>1, <2>2 DEF Links
<1>9. /\ \A s \in NoteIds \ {i} : a.out[s] = l.out[s]
      /\ a.out[i] = l.out[i] \cup new
  BY <1>1, <1>3
<1>10. \A raw, t : <<raw, t>> \in new <=> raw \in body /\ t = Resolve(r, raw, agent)
  OBVIOUS
<1>11. \A t \in NoteIds : a.in[t] = l.in[t] \cup into(t)
  BY <1>3
<1> HIDE DEF a, new, into
<1>12. \A raw \in Raws, t \in NoteIds \cup {Nil} :
         <<raw, t>> \in a.out[i] <=>
           <<raw, t>> \in l.out[i] \/ (raw \in body /\ t = Resolve(r, raw, agent))
  BY <1>9, <1>10
<1>13. \A s, t \in NoteIds, raw \in Raws :
         <<s, raw>> \in a.in[t] <=>
           <<s, raw>> \in l.in[t] \/ (s = i /\ raw \in body /\ t = Resolve(r, raw, agent))
  BY <1>5, <1>7, <1>11
<1>14. Added(a, l, r, i, body, agent)
  BY <1>8, <1>9, <1>12, <1>13 DEF Added
<1> QED BY <1>14 DEF a

(* u is l with the links of i replaced by those of a text.                     *)
Updated(u, l, r, i, body, agent) ==
  /\ u \in Links
  /\ \A s \in NoteIds \ {i} : u.out[s] = l.out[s]
  /\ \A raw \in Raws, t \in NoteIds \cup {Nil} :
       <<raw, t>> \in u.out[i] <=> raw \in body /\ t = Resolve(r, raw, agent)

LEMMA UpdateLinksOK ==
  ASSUME NEW l, NEW S, LinksOK(l, S), NEW r, RegistryOK(r), NEW i \in NoteIds,
         NEW body \in SUBSET Raws, NEW agent
  PROVE  /\ S \subseteq Registered(r) /\ i \in Registered(r) =>
              LinksOK(UpdateLinks(l, r, i, body, agent), Registered(r))
         /\ Updated(UpdateLinks(l, r, i, body, agent), l, r, i, body, agent)
<1> DEFINE d == DropOutgoing(l, i)
           u == AddLinks(d, r, i, body, agent)
<1>1. /\ d \in Links
      /\ \A s \in NoteIds : d.out[s] = IF s = i THEN {} ELSE l.out[s]
      /\ \A s, t \in NoteIds, raw \in Raws :
           <<s, raw>> \in d.in[t] <=> <<s, raw>> \in l.in[t] /\ s # i
  BY DropIs
<1>2. Added(u, d, r, i, body, agent)
  <2> HIDE DEF d
  <2> QED BY <1>1, AddIs
<1> HIDE DEF d, u
<1>3. l \in Links /\ Mirrored(l)
  BY DEF LinksOK
<1>4. \A s \in NoteIds \ {i} : u.out[s] = l.out[s]
  BY <1>1, <1>2 DEF Added
<1>5. \A raw \in Raws, t \in NoteIds \cup {Nil} :
        <<raw, t>> \in u.out[i] <=> raw \in body /\ t = Resolve(r, raw, agent)
  BY <1>1, <1>2 DEF Added
<1>6. Mirrored(u)
  <2> SUFFICES ASSUME NEW s \in NoteIds, NEW t \in NoteIds, NEW raw \in Raws
               PROVE  <<raw, t>> \in u.out[s] <=> <<s, raw>> \in u.in[t]
    BY DEF Mirrored
  <2>1. CASE s = i
    BY <1>1, <1>2, <1>5, <2>1 DEF Added
  <2>2. CASE s # i
    BY <1>1, <1>2, <1>3, <1>4, <2>2 DEF Mirrored, Added
  <2> QED BY <2>1, <2>2
<1>7. ASSUME S \subseteq Registered(r), i \in Registered(r), NEW s \in NoteIds
      PROVE  /\ Targets(u, s) \subseteq Registered(r) \cup {Nil}
             /\ s \notin Registered(r) => u.out[s] = {}
  <2>1. CASE s = i
    <3>1. ASSUME NEW x \in u.out[i]
          PROVE  x[2] \in Registered(r) \cup {Nil}
      <4>1. x = <<x[1], x[2]>> /\ x[1] \in Raws /\ x[2] \in NoteIds \cup {Nil}
        BY <1>2, <3>1, EntriesAre DEF Added
      <4>2. x[2] = Resolve(r, x[1], agent)
        BY <1>5, <3>1, <4>1
      <4> QED BY <4>1, <4>2, ResolveIn
    <3> QED BY <1>7, <2>1, <3>1 DEF Targets
  <2>2. CASE s # i
    <3>1. u.out[s] = l.out[s]
      BY <1>4, <2>2
    <3> QED BY <1>7, <3>1 DEF LinksOK, Targets
  <2> QED BY <2>1, <2>2
<1>8. u \in Links /\ UpdateLinks(l, r, i, body, agent) = u
  BY <1>2 DEF Added, UpdateLinks, d, u
<1>9. Updated(u, l, r, i, body, agent)
  BY <1>4, <1>5, <1>8 DEF Updated
<1> QED BY <1>6, <1>7, <1>8, <1>9 DEF LinksOK

(* Y is X with the links of F leading to to.                                  *)
Relinked(Y, X, to, F) ==
  /\ Y \in SUBSET (Raws \X (NoteIds \cup {Nil}))
  /\ \A raw, t : <<raw, t>> \in Y <=>
       \/ <<raw, t>> \in X /\ <<raw, t>> \notin F
       \/ t = to /\ \E v \in NoteIds \cup {Nil} : <<raw, v>> \in X /\ <<raw, v>> \in F

LEMMA RelinkedIn ==
  ASSUME NEW X \in SUBSET (Raws \X (NoteIds \cup {Nil})), NEW to \in NoteIds \cup {Nil}, NEW F
  PROVE  Relinked({IF x \in F THEN <<x[1], to>> ELSE x : x \in X}, X, to, F)
<1> DEFINE Y == {IF x \in F THEN <<x[1], to>> ELSE x : x \in X}
<1>1. \A x \in X : x = <<x[1], x[2]>> /\ x[1] \in Raws /\ x[2] \in NoteIds \cup {Nil}
  OBVIOUS
<1>2. Y \in SUBSET (Raws \X (NoteIds \cup {Nil}))
  BY <1>1
<1>3. ASSUME NEW raw, NEW t, <<raw, t>> \in Y
      PROVE  \/ <<raw, t>> \in X /\ <<raw, t>> \notin F
             \/ t = to /\ \E v \in NoteIds \cup {Nil} : <<raw, v>> \in X /\ <<raw, v>> \in F
  <2>1. PICK x \in X : <<raw, t>> = IF x \in F THEN <<x[1], to>> ELSE x
    BY <1>3
  <2>2. CASE x \in F
    <3>1. x = <<raw, x[2]>> /\ t = to
      BY <1>1, <2>1, <2>2
    <3> QED BY <1>1, <2>2, <3>1
  <2>3. CASE x \notin F
    BY <2>1, <2>3
  <2> QED BY <2>2, <2>3
<1>4. ASSUME NEW raw, NEW t, <<raw, t>> \in X, <<raw, t>> \notin F
      PROVE  <<raw, t>> \in Y
  BY <1>4
<1>5. ASSUME NEW raw, NEW v \in NoteIds \cup {Nil}, <<raw, v>> \in X, <<raw, v>> \in F
      PROVE  <<raw, to>> \in Y
  <2>1. <<raw, to>> = IF <<raw, v>> \in F THEN <<(<<raw, v>>)[1], to>> ELSE <<raw, v>>
    BY <1>5
  <2> QED BY <1>5, <2>1
<1> HIDE DEF Y
<1>6. \A raw, t : <<raw, t>> \in Y <=>
        \/ <<raw, t>> \in X /\ <<raw, t>> \notin F
        \/ t = to /\ \E v \in NoteIds \cup {Nil} : <<raw, v>> \in X /\ <<raw, v>> \in F
  BY <1>3, <1>4, <1>5
<1>7. Relinked(Y, X, to, F)
  BY <1>2, <1>6 DEF Relinked
<1> QED BY <1>7 DEF Y

(* The broken links that a note i of a name can mend.                          *)
Mends(raw, stem, i) == raw = <<"id", i>> \/ (raw = <<"name", stem[1]>> /\ stem[2] = 0)
Mended(stem, i) == {x \in Raws \X {Nil} : Mends(x[1], stem, i)}

LEMMA TryResolveOut ==
  ASSUME NEW l \in Links, NEW stem, NEW i \in NoteIds, NEW s \in NoteIds
  PROVE  TryResolve(l, stem, i).out[s] =
           {IF x \in Mended(stem, i) THEN <<x[1], i>> ELSE x : x \in l.out[s]}
<1>1. \A x \in l.out[s] : x = <<x[1], x[2]>> /\ x[1] \in Raws
  BY EntriesAre
<1>2. \A x \in l.out[s] :
        x \in Mended(stem, i) <=>
          x[2] = Nil /\ (x[1] = <<"id", i>> \/ (x[1] = <<"name", stem[1]>> /\ stem[2] = 0))
  BY <1>1 DEF Mended, Mends
<1>3. TryResolve(l, stem, i).out[s] =
        {IF x[2] = Nil /\ (x[1] = <<"id", i>> \/ (x[1] = <<"name", stem[1]>> /\ stem[2] = 0))
         THEN <<x[1], i>> ELSE x : x \in l.out[s]}
  BY DEF TryResolve
<1> QED BY <1>2, <1>3

LEMMA TryResolveIn ==
  ASSUME NEW l \in Links, NEW stem, NEW i \in NoteIds
  PROVE  /\ TryResolve(l, stem, i).in \in [NoteIds -> SUBSET (NoteIds \X Raws)]
         /\ \A s, t \in NoteIds, raw \in Raws :
              <<s, raw>> \in TryResolve(l, stem, i).in[t] <=>
                <<s, raw>> \in l.in[t] \/ (t = i /\ <<raw, Nil>> \in l.out[s] /\ Mends(raw, stem, i))
<1> DEFINE fits(x) == x[2] = Nil /\ (x[1] = <<"id", i>> \/ (x[1] = <<"name", stem[1]>> /\ stem[2] = 0))
           of(s) == {<<s, x[1]>> : x \in {y \in l.out[s] : fits(y)}}
           more == UNION {of(s) : s \in NoteIds}
<1>1. TryResolve(l, stem, i).in = [l.in EXCEPT ![i] = @ \cup more]
  BY DEF TryResolve
<1>2. \A s \in NoteIds, raw \in Raws : <<s, raw>> \in more <=> <<raw, Nil>> \in l.out[s] /\ Mends(raw, stem, i)
  <2> TAKE s \in NoteIds, raw \in Raws
  <2>1. ASSUME <<s, raw>> \in more
        PROVE  <<raw, Nil>> \in l.out[s] /\ Mends(raw, stem, i)
    <3>1. PICK u \in NoteIds : <<s, raw>> \in of(u)
      BY <2>1
    <3>2. PICK x \in l.out[u] : fits(x) /\ <<s, raw>> = <<u, x[1]>>
      BY <3>1
    <3>3. x = <<x[1], x[2]>>
      BY EntriesAre
    <3>4. s = u /\ x = <<raw, Nil>>
      BY <3>2, <3>3
    <3> QED BY <3>2, <3>4 DEF Mends
  <2>2. ASSUME <<raw, Nil>> \in l.out[s], Mends(raw, stem, i)
        PROVE  <<s, raw>> \in more
    <3>1. fits(<<raw, Nil>>)
      BY <2>2 DEF Mends
    <3>2. <<raw, Nil>> \in {y \in l.out[s] : fits(y)}
      BY <2>2, <3>1
    <3>3. <<s, raw>> \in of(s)
      BY <3>2
    <3> QED BY <3>3
  <2> QED BY <2>1, <2>2
<1>3. more \in SUBSET (NoteIds \X Raws)
  BY EntriesAre
<1>4. l.in \in [NoteIds -> SUBSET (NoteIds \X Raws)]
  BY DEF Links
<1> HIDE DEF more
<1> QED BY <1>1, <1>2, <1>3, <1>4

LEMMA TryResolveOK ==
  ASSUME NEW l, NEW S, LinksOK(l, S), NEW stem, NEW i \in NoteIds, i \in S
  PROVE  LinksOK(TryResolve(l, stem, i), S)
<1> DEFINE u == TryResolve(l, stem, i)
<1>1. l \in Links /\ Mirrored(l) /\ Nil \notin NoteIds
  BY NotesAre DEF LinksOK
<1>2. \A s \in NoteIds : l.out[s] \in SUBSET (Raws \X (NoteIds \cup {Nil}))
  BY <1>1 DEF Links
<1>3. ASSUME NEW s \in NoteIds
      PROVE  Relinked(u.out[s], l.out[s], i, Mended(stem, i))
  <2>1. u.out[s] = {IF x \in Mended(stem, i) THEN <<x[1], i>> ELSE x : x \in l.out[s]}
    BY <1>1, TryResolveOut
  <2>2. l.out[s] \in SUBSET (Raws \X (NoteIds \cup {Nil})) /\ i \in NoteIds \cup {Nil}
    BY <1>2
  <2> HIDE DEF u
  <2> QED BY <2>1, <2>2, RelinkedIn
<1>4. /\ u.in \in [NoteIds -> SUBSET (NoteIds \X Raws)]
      /\ \A s, t \in NoteIds, raw \in Raws :
           <<s, raw>> \in u.in[t] <=>
             <<s, raw>> \in l.in[t] \/ (t = i /\ <<raw, Nil>> \in l.out[s] /\ Mends(raw, stem, i))
  BY <1>1, TryResolveIn
<1>5. u \in Links
  <2>1. u = [out |-> u.out, in |-> u.in] /\ u.out = [s \in NoteIds |-> u.out[s]]
    BY DEF TryResolve
  <2> QED BY <1>3, <1>4, <2>1 DEF Links, Relinked
<1> HIDE DEF u
<1>6. \A raw \in Raws : \A v : <<raw, v>> \in Mended(stem, i) <=> v = Nil /\ Mends(raw, stem, i)
  BY DEF Mended
<1>7. ASSUME NEW s \in NoteIds, NEW t \in NoteIds \cup {Nil}, NEW raw \in Raws
      PROVE  <<raw, t>> \in u.out[s] <=>
               \/ <<raw, t>> \in l.out[s] /\ ~(t = Nil /\ Mends(raw, stem, i))
               \/ t = i /\ <<raw, Nil>> \in l.out[s] /\ Mends(raw, stem, i)
  BY <1>3, <1>6 DEF Relinked
<1>8. Mirrored(u)
  BY <1>1, <1>4, <1>7 DEF Mirrored
<1>9. ASSUME NEW s \in NoteIds
      PROVE  Targets(u, s) \subseteq S \cup {Nil} /\ (s \notin S => u.out[s] = {})
  <2>1. \A x \in u.out[s] : x = <<x[1], x[2]>> /\ x[1] \in Raws /\ x[2] \in NoteIds \cup {Nil}
    BY <1>5, EntriesAre
  <2>2. ASSUME NEW x \in u.out[s]
        PROVE  \E y \in l.out[s] : x[2] = y[2] \/ x[2] = i
    <3>1. <<x[1], x[2]>> \in u.out[s] /\ x[1] \in Raws /\ x[2] \in NoteIds \cup {Nil}
      BY <2>1
    <3>2. CASE <<x[1], x[2]>> \in l.out[s]
      BY <3>2
    <3>3. CASE x[2] = i /\ <<x[1], Nil>> \in l.out[s]
      BY <3>3
    <3> QED BY <1>7, <3>1, <3>2, <3>3
  <2>3. \A y \in l.out[s] : y[2] \in S \cup {Nil}
    BY DEF LinksOK, Targets
  <2>4. Targets(u, s) \subseteq S \cup {Nil}
    BY <2>2, <2>3 DEF Targets
  <2>5. s \notin S => u.out[s] = {}
    BY <2>2 DEF LinksOK
  <2> QED BY <2>4, <2>5
<1> QED BY <1>5, <1>8, <1>9 DEF LinksOK, u

(* The links to notes by a name, which breaking the name breaks.               *)
ByName(stem) == {x \in Raws \X NoteIds : x[1] = <<"name", stem[1]>> /\ stem[2] = 0}

LEMMA InvalidateNameOK ==
  ASSUME NEW l, NEW S, LinksOK(l, S), NEW stem
  PROVE  LinksOK(InvalidateName(l, stem), S)
<1> DEFINE u == InvalidateName(l, stem)
           F == ByName(stem)
<1>1. l \in Links /\ Mirrored(l) /\ Nil \notin NoteIds
  BY NotesAre DEF LinksOK
<1>2. \A s \in NoteIds : l.out[s] \in SUBSET (Raws \X (NoteIds \cup {Nil}))
                         /\ l.in[s] \in SUBSET (NoteIds \X Raws)
  BY <1>1 DEF Links
<1>3. ASSUME NEW s \in NoteIds
      PROVE  Relinked(u.out[s], l.out[s], Nil, F)
  <2>1. \A x \in l.out[s] : x \in F <=> x[2] # Nil /\ x[1] = <<"name", stem[1]>> /\ stem[2] = 0
    BY <1>1, EntriesAre DEF ByName
  <2>2. u.out[s] = {IF x[2] # Nil /\ x[1] = <<"name", stem[1]>> /\ stem[2] = 0
                    THEN <<x[1], Nil>> ELSE x : x \in l.out[s]}
    BY DEF InvalidateName
  <2> HIDE DEF u, F
  <2>3. u.out[s] = {IF x \in F THEN <<x[1], Nil>> ELSE x : x \in l.out[s]}
    BY <2>1, <2>2
  <2> QED BY <1>2, <2>3, RelinkedIn
<1>4. ASSUME NEW t \in NoteIds
      PROVE  /\ u.in[t] \in SUBSET (NoteIds \X Raws)
             /\ \A s \in NoteIds, raw \in Raws :
                  <<s, raw>> \in u.in[t] <=> <<s, raw>> \in l.in[t] /\ <<raw, t>> \notin F
  <2>1. u.in[t] = {e \in l.in[t] : ~(t # Nil /\ e[2] = <<"name", stem[1]>> /\ stem[2] = 0)}
    BY DEF InvalidateName
  <2>2. \A raw \in Raws : <<raw, t>> \in F <=> t # Nil /\ raw = <<"name", stem[1]>> /\ stem[2] = 0
    BY <1>1 DEF ByName
  <2> HIDE DEF u, F
  <2> QED BY <1>2, <2>1, <2>2
<1>5. u \in Links
  <2>1. u = [out |-> u.out, in |-> u.in] /\ u.out = [s \in NoteIds |-> u.out[s]]
        /\ u.in = [t \in NoteIds |-> u.in[t]]
    BY DEF InvalidateName
  <2> HIDE DEF u, F
  <2> QED BY <1>3, <1>4, <2>1 DEF Links, Relinked
<1>6. ASSUME NEW s \in NoteIds, NEW t \in NoteIds, NEW raw \in Raws
      PROVE  <<raw, t>> \in u.out[s] <=> <<raw, t>> \in l.out[s] /\ <<raw, t>> \notin F
  <2> HIDE DEF u, F
  <2> QED BY <1>1, <1>3 DEF Relinked
<1> HIDE DEF u, F
<1>7. Mirrored(u)
  BY <1>1, <1>4, <1>6 DEF Mirrored
<1>8. ASSUME NEW s \in NoteIds
      PROVE  Targets(u, s) \subseteq S \cup {Nil} /\ (s \notin S => u.out[s] = {})
  <2>1. ASSUME NEW x \in u.out[s]
        PROVE  \E y \in l.out[s] : x[2] = y[2] \/ x[2] = Nil
    <3>1. <<x[1], x[2]>> \in u.out[s]
      BY <1>5, EntriesAre
    <3>2. \/ <<x[1], x[2]>> \in l.out[s]
          \/ x[2] = Nil /\ \E v \in NoteIds \cup {Nil} : <<x[1], v>> \in l.out[s]
      BY <1>3, <3>1 DEF Relinked
    <3>3. CASE <<x[1], x[2]>> \in l.out[s]
      BY <3>3
    <3> QED BY <3>2, <3>3
  <2>2. \A y \in l.out[s] : y[2] \in S \cup {Nil}
    BY DEF LinksOK, Targets
  <2> QED BY <2>1, <2>2 DEF LinksOK, Targets
<1> QED BY <1>5, <1>7, <1>8 DEF LinksOK, u

LEMMA RemoveLinksOK ==
  ASSUME NEW l, NEW S, LinksOK(l, S), NEW i \in NoteIds
  PROVE  LinksOK(RemoveLinks(l, i), S \ {i})
<1> DEFINE d == DropOutgoing(l, i)
           u == RemoveLinks(l, i)
           F == Raws \X {i}
<1>1. /\ d \in Links
      /\ \A s \in NoteIds : d.out[s] = IF s = i THEN {} ELSE l.out[s]
      /\ \A s, t \in NoteIds, raw \in Raws :
           <<s, raw>> \in d.in[t] <=> <<s, raw>> \in l.in[t] /\ s # i
  BY DropIs
<1>2. l \in Links /\ Mirrored(l) /\ Nil \notin NoteIds
  BY NotesAre DEF LinksOK
<1>3. /\ u.in = [d.in EXCEPT ![i] = {}]
      /\ u.out = [s \in NoteIds |-> {IF x[2] = i THEN <<x[1], Nil>> ELSE x : x \in d.out[s]}]
      /\ u = [out |-> u.out, in |-> u.in]
  BY DEF RemoveLinks
<1> HIDE DEF d, u
<1>4. \A s \in NoteIds : d.out[s] \in SUBSET (Raws \X (NoteIds \cup {Nil}))
                         /\ d.in[s] \in SUBSET (NoteIds \X Raws)
  BY <1>1 DEF Links
<1>5. ASSUME NEW s \in NoteIds
      PROVE  Relinked(u.out[s], d.out[s], Nil, F)
  <2>1. \A x \in d.out[s] : x \in F <=> x[2] = i
    BY <1>1, EntriesAre
  <2> HIDE DEF F
  <2>2. u.out[s] = {IF x \in F THEN <<x[1], Nil>> ELSE x : x \in d.out[s]}
    BY <1>3, <2>1
  <2> QED BY <1>4, <2>2, RelinkedIn
<1>6. u.in \in [NoteIds -> SUBSET (NoteIds \X Raws)]
      /\ \A t \in NoteIds : u.in[t] = IF t = i THEN {} ELSE d.in[t]
  BY <1>1, <1>3 DEF Links
<1>7. u \in Links
  <2>1. u.out = [s \in NoteIds |-> u.out[s]]
    BY <1>3
  <2> QED BY <1>3, <1>5, <1>6, <2>1 DEF Links, Relinked
<1>8. \A raw \in Raws : \A t : <<raw, t>> \in F <=> t = i
  OBVIOUS
<1> HIDE DEF F
<1>9. ASSUME NEW s \in NoteIds, NEW t \in NoteIds, NEW raw \in Raws
      PROVE  <<raw, t>> \in u.out[s] <=> <<raw, t>> \in d.out[s] /\ t # i
  BY <1>2, <1>5, <1>8 DEF Relinked
<1>10. Mirrored(u)
  <2> SUFFICES ASSUME NEW s \in NoteIds, NEW t \in NoteIds, NEW raw \in Raws
               PROVE  <<raw, t>> \in u.out[s] <=> <<s, raw>> \in u.in[t]
    BY DEF Mirrored
  <2>1. <<raw, t>> \in l.out[s] <=> <<s, raw>> \in l.in[t]
    BY <1>2 DEF Mirrored
  <2>2. <<raw, t>> \in d.out[s] <=> <<raw, t>> \in l.out[s] /\ s # i
    BY <1>1
  <2>3. <<s, raw>> \in u.in[t] <=> t # i /\ <<s, raw>> \in d.in[t]
    BY <1>6
  <2> QED BY <1>1, <1>9, <2>1, <2>2, <2>3
<1>11. ASSUME NEW s \in NoteIds
       PROVE  Targets(u, s) \subseteq (S \ {i}) \cup {Nil} /\ (s \notin S \ {i} => u.out[s] = {})
  <2>1. ASSUME NEW x \in u.out[s]
        PROVE  x[2] \in (S \ {i}) \cup {Nil} /\ \E y \in d.out[s] : TRUE
    <3>1. x = <<x[1], x[2]>> /\ x[1] \in Raws
      BY <1>7, EntriesAre
    <3>2. CASE x[2] = Nil
      <4>1. \/ <<x[1], x[2]>> \in d.out[s]
            \/ \E v \in NoteIds \cup {Nil} : <<x[1], v>> \in d.out[s]
        BY <1>5, <3>1 DEF Relinked
      <4> QED BY <3>2, <4>1
    <3>3. CASE x[2] # Nil
      <4>1. <<x[1], x[2]>> \in d.out[s] /\ x[2] # i
        BY <1>5, <1>8, <3>1, <3>3 DEF Relinked
      <4>2. <<x[1], x[2]>> \in l.out[s]
        BY <1>1, <4>1
      <4> QED BY <4>1, <4>2 DEF LinksOK, Targets
    <3> QED BY <3>2, <3>3
  <2>2. s \notin S \ {i} => d.out[s] = {}
    BY <1>1 DEF LinksOK
  <2> QED BY <2>1, <2>2 DEF Targets
<1> QED BY <1>7, <1>10, <1>11 DEF LinksOK, u

-----------------------------------------------------------------------------
(* Vault: the operations of the registry.                                      *)

LEMMA RegisterOK ==
  ASSUME NEW r, RegistryOK(r), NEW i \in NoteIds, NEW p \in Paths, NEW agent \in Agents,
         NEW stem \in Stems, NEW at \in Nat
  PROVE  /\ RegistryOK(Register(r, i, p, agent, stem, at))
         /\ Registered(Register(r, i, p, agent, stem, at)) = Registered(r) \cup {i}
<1> DEFINE q == Register(r, i, p, agent, stem, at)
<1>1. r \in Registry /\ Nil \notin Paths
  BY NotesAre DEF RegistryOK
<1>2. q \in Registry
  BY <1>1 DEF Register, Registry
<1>3. \A j \in NoteIds : /\ q.path[j] = IF j = i THEN p ELSE r.path[j]
                         /\ q.named[j] = IF j = i THEN r.named[i] \cup {stem} ELSE r.named[j]
  BY <1>1 DEF Register, Registry
<1> HIDE DEF q
<1>4. Registered(q) = Registered(r) \cup {i}
  BY <1>1, <1>3 DEF Registered
<1>5. \A j \in NoteIds : q.named[j] # {} <=> j \in Registered(q)
  BY <1>3, <1>4 DEF RegistryOK
<1>6. RegistryOK(q)
  BY <1>2, <1>5 DEF RegistryOK
<1> QED BY <1>4, <1>6 DEF q

LEMMA UnregisterOK ==
  ASSUME NEW r, RegistryOK(r), NEW i \in NoteIds
  PROVE  /\ RegistryOK(Unregister(r, i))
         /\ Registered(Unregister(r, i)) = Registered(r) \ {i}
<1> DEFINE q == Unregister(r, i)
<1>1. r \in Registry
  BY DEF RegistryOK
<1>2. q \in Registry
  <2>1. [p \in Paths |-> IF p = r.path[i] THEN Nil ELSE r.at[p]] \in [Paths -> NoteIds \cup {Nil}]
    BY <1>1 DEF Registry
  <2>2. [r.updated EXCEPT ![i] = 0] \in [NoteIds -> Nat]
    BY <1>1 DEF Registry
  <2> QED BY <1>1, <2>1, <2>2 DEF Unregister, Registry
<1>3. \A j \in NoteIds : /\ q.path[j] = IF j = i THEN Nil ELSE r.path[j]
                         /\ q.named[j] = IF j = i THEN {} ELSE r.named[j]
  BY <1>1 DEF Unregister, Registry
<1> HIDE DEF q
<1>4. Registered(q) = Registered(r) \ {i}
  BY <1>3 DEF Registered
<1>5. \A j \in NoteIds : q.named[j] # {} <=> j \in Registered(q)
  BY <1>3, <1>4 DEF RegistryOK
<1>6. RegistryOK(q)
  BY <1>2, <1>5 DEF RegistryOK
<1> QED BY <1>4, <1>6 DEF q

(* What moving the path of a note makes of the registry.                       *)
MovedTo(q, r, i, p) ==
  /\ q \in Registry
  /\ q.path = [r.path EXCEPT ![i] = p]
  /\ \A x \in Paths : q.at[x] = IF x = p THEN i ELSE IF x = r.path[i] THEN Nil ELSE r.at[x]
  /\ q.named = r.named /\ q.agent = r.agent /\ q.updated = r.updated

LEMMA MovePathIs ==
  ASSUME NEW r, RegistryOK(r), NEW i \in NoteIds, NEW p \in Paths
  PROVE  MovedTo(MovePath(r, i, p), r, i, p)
<1>1. r \in Registry
  BY DEF RegistryOK
<1>2. [q \in Paths |-> IF q = p THEN i ELSE IF q = r.path[i] THEN Nil ELSE r.at[q]]
        \in [Paths -> NoteIds \cup {Nil}]
  BY <1>1 DEF Registry
<1> DEFINE A == [q \in Paths |-> IF q = p THEN i ELSE IF q = r.path[i] THEN Nil ELSE r.at[q]]
           q == [r EXCEPT !.path[i] = p, !.at = A]
<1>3. MovePath(r, i, p) = q
  BY DEF MovePath
<1>4. \A x \in Paths : A[x] = IF x = p THEN i ELSE IF x = r.path[i] THEN Nil ELSE r.at[x]
  OBVIOUS
<1>7. A \in [Paths -> NoteIds \cup {Nil}]
  BY <1>2
<1> HIDE DEF A
<1>5. q \in Registry
  BY <1>1, <1>7 DEF Registry
<1>6. q.path = [r.path EXCEPT ![i] = p] /\ q.at = A
      /\ q.named = r.named /\ q.agent = r.agent /\ q.updated = r.updated
  BY <1>1 DEF Registry
<1> HIDE DEF q
<1> QED BY <1>3, <1>4, <1>5, <1>6 DEF MovedTo

LEMMA MovePathOK ==
  ASSUME NEW r, RegistryOK(r), NEW i \in Registered(r), NEW p \in Paths
  PROVE  /\ RegistryOK(MovePath(r, i, p)) /\ Registered(MovePath(r, i, p)) = Registered(r)
         /\ MovedTo(MovePath(r, i, p), r, i, p)
<1> DEFINE q == MovePath(r, i, p)
<1>1. i \in NoteIds /\ Nil \notin Paths /\ r \in Registry
  BY NotesAre DEF Registered, RegistryOK
<1>2. MovedTo(q, r, i, p)
  BY <1>1, MovePathIs
<1> HIDE DEF q
<1>3. \A j \in NoteIds : q.path[j] = IF j = i THEN p ELSE r.path[j]
  BY <1>1, <1>2 DEF MovedTo, Registry
<1>4. Registered(q) = Registered(r)
  BY <1>1, <1>3 DEF Registered
<1>5. RegistryOK(q)
  BY <1>2, <1>4 DEF RegistryOK, MovedTo
<1> QED BY <1>2, <1>4, <1>5 DEF q

(* q is the registry r but for the agent and the time of note i.               *)
Dated(q, r, i, agent, at) ==
  /\ RegistryOK(q) /\ Registered(q) = Registered(r) /\ q.path = r.path
  /\ q.agent = [r.agent EXCEPT ![i] = agent] /\ q.updated = [r.updated EXCEPT ![i] = at]

LEMMA TimeOK ==
  ASSUME NEW r, RegistryOK(r), NEW i \in Registered(r), NEW at \in Nat
  PROVE  Dated([r EXCEPT !.updated[i] = at], r, i, r.agent[i], at)
<1>1. i \in NoteIds /\ r \in Registry
  BY DEF Registered, RegistryOK
<1>2. [r EXCEPT !.updated[i] = at] \in Registry
  BY <1>1 DEF Registry
<1> QED BY <1>1, <1>2 DEF Dated, RegistryOK, Registered, Registry

LEMMA OwnerOK ==
  ASSUME NEW r, RegistryOK(r), NEW i \in Registered(r), NEW at \in Nat, NEW agent \in Agents
  PROVE  Dated([r EXCEPT !.agent[i] = agent, !.updated[i] = at], r, i, agent, at)
<1>1. i \in NoteIds /\ r \in Registry
  BY DEF Registered, RegistryOK
<1>2. [r EXCEPT !.agent[i] = agent, !.updated[i] = at] \in Registry
  BY <1>1 DEF Registry
<1> QED BY <1>1, <1>2 DEF Dated, RegistryOK, Registered, Registry

LEMMA NameOK ==
  ASSUME NEW r, RegistryOK(r), NEW i \in Registered(r), NEW stem \in Stems
  PROVE  /\ RegistryOK(UpdateName(r, i, stem)) /\ Registered(UpdateName(r, i, stem)) = Registered(r)
         /\ UpdateName(r, i, stem).path = r.path /\ UpdateName(r, i, stem).agent = r.agent
         /\ UpdateName(r, i, stem).updated = r.updated
<1>1. i \in NoteIds /\ r \in Registry
  BY DEF Registered, RegistryOK
<1>4. UpdateName(r, i, stem) \in Registry
  BY <1>1 DEF Registry, UpdateName
<1>7. \A j \in NoteIds : UpdateName(r, i, stem).named[j] = IF j = i THEN {stem} ELSE r.named[j]
  BY <1>1 DEF UpdateName, Registry
<1>8. /\ Registered(UpdateName(r, i, stem)) = Registered(r) /\ UpdateName(r, i, stem).path = r.path
      /\ UpdateName(r, i, stem).agent = r.agent /\ UpdateName(r, i, stem).updated = r.updated
  BY <1>1 DEF UpdateName, Registry, Registered
<1>9. RegistryOK(UpdateName(r, i, stem))
  BY <1>4, <1>7, <1>8 DEF RegistryOK
<1> QED BY <1>8, <1>9

LEMMA EmptyOK == RegistryOK(EmptyRegistry) /\ LinksOK(NoLinks, {}) /\ Registered(EmptyRegistry) = {}
<1>1. EmptyRegistry \in Registry /\ Registered(EmptyRegistry) = {}
  BY DEF EmptyRegistry, Registry, Registered
<1>2. RegistryOK(EmptyRegistry)
  BY <1>1 DEF RegistryOK, EmptyRegistry
<1>3. NoLinks \in Links /\ \A i \in NoteIds : NoLinks.out[i] = {} /\ NoLinks.in[i] = {}
  BY DEF NoLinks, Links
<1> QED BY <1>1, <1>2, <1>3 DEF LinksOK, Mirrored, Targets

-----------------------------------------------------------------------------
(* Vault: what a rebuild makes of the files.                                   *)

Disks == [Paths -> Note \cup {Nil, Broken}]


LEMMA FilesAre ==
  ASSUME NEW d \in Disks
  PROVE  /\ \A p \in Files(d) : p \in Paths /\ d[p] \in Note /\ d[p].id \in NoteIds /\ d[p].id \in OnDisk(d)
                                /\ d[p].agent \in Agents /\ d[p].at \in Nat /\ d[p].links \in SUBSET Raws
         /\ OnDisk(d) \subseteq NoteIds
         /\ \A p \in Paths : d[p] \in Note => p \in Files(d)
<1>1. \A p \in Files(d) : p \in Paths /\ d[p] \in Note /\ d[p].id \in OnDisk(d)
  BY DEF Files, IsNote, Disks, OnDisk
<1>2. \A m \in Note : m.id \in NoteIds /\ m.agent \in Agents /\ m.at \in Nat /\ m.links \in SUBSET Raws
  BY DEF Note
<1>3. \A p \in Paths : d[p] \in Note => p \in Files(d)
  BY FileAssumption DEF Files, IsNote
<1> QED BY <1>1, <1>2, <1>3 DEF OnDisk

(* r knows every note of d, at one of its files.                               *)
Knows(r, d) ==
  /\ RegistryOK(r) /\ Registered(r) = OnDisk(d)
  /\ \A i \in OnDisk(d) : /\ r.path[i] \in Files(d) /\ d[r.path[i]].id = i
                          /\ r.agent[i] = d[r.path[i]].agent
                          /\ r.updated[i] = d[r.path[i]].at
  /\ \A p \in Paths : r.at[p] = IF p \in Files(d) THEN d[p].id ELSE Nil
  /\ \A i \in NoteIds : r.named[i] = {p[2] : p \in FilesOfNote(d, i)}

LEMMA RegistryOfKnows ==
  ASSUME NEW d \in Disks, NEW W \in Walks(d)
  PROVE  Knows(RegistryOf(d, W), d)
<1> DEFINE r == RegistryOf(d, W)
           loc == [i \in OnDisk(d) |-> CHOOSE p \in W : d[p].id = i]
<1>1. W \in SUBSET Files(d) /\ \A i \in OnDisk(d) : Cardinality(W \cap FilesOfNote(d, i)) = 1
  BY DEF Walks
<1>2. ASSUME NEW i \in OnDisk(d)
      PROVE  loc[i] \in Files(d) /\ d[loc[i]].id = i
  <2>1. W \cap FilesOfNote(d, i) # {}
    BY <1>1, FS_EmptySet
  <2>2. \E p \in W : d[p].id = i
    BY <2>1 DEF FilesOfNote
  <2>3. loc[i] = CHOOSE p \in W : d[p].id = i
    OBVIOUS
  <2> HIDE DEF loc
  <2>4. loc[i] \in W /\ d[loc[i]].id = i
    BY <2>2, <2>3
  <2> QED BY <1>1, <2>4
<1>3. r = [path |-> [i \in NoteIds |-> IF i \in OnDisk(d) THEN loc[i] ELSE Nil],
           at |-> [p \in Paths |-> IF p \in Files(d) THEN d[p].id ELSE Nil],
           named |-> [i \in NoteIds |-> {p[2] : p \in {q \in Files(d) : d[q].id = i}}],
           agent |-> [i \in NoteIds |-> IF i \in OnDisk(d) THEN d[loc[i]].agent ELSE Nil],
           updated |-> [i \in NoteIds |-> IF i \in OnDisk(d) THEN d[loc[i]].at ELSE 0]]
  BY DEF RegistryOf
<1> HIDE DEF loc, r
<1>4. \A i \in NoteIds : r.named[i] = {p[2] : p \in FilesOfNote(d, i)}
  BY <1>3 DEF FilesOfNote
<1>5. OnDisk(d) \subseteq NoteIds /\ Nil \notin Paths
  BY FilesAre, NotesAre
<1>6. r \in Registry
  <2>1. r.path \in [NoteIds -> Paths \cup {Nil}]
    BY <1>2, <1>3, FilesAre
  <2>2. r.at \in [Paths -> NoteIds \cup {Nil}]
    BY <1>3, FilesAre
  <2>3. r.named \in [NoteIds -> SUBSET Stems]
    <3>1. \A p \in Files(d) : p[2] \in Stems
      BY FilesAre DEF Paths
    <3>2. \A i \in NoteIds : {p[2] : p \in {q \in Files(d) : d[q].id = i}} \in SUBSET Stems
      BY <3>1
    <3> QED BY <1>3, <3>2
  <2>4. r.agent \in [NoteIds -> Agents \cup {Nil}]
    BY <1>2, <1>3, FilesAre
  <2>5. r.updated \in [NoteIds -> Nat]
    BY <1>2, <1>3, FilesAre
  <2>6. r = [path |-> r.path, at |-> r.at, named |-> r.named, agent |-> r.agent, updated |-> r.updated]
    BY <1>3
  <2> QED BY <2>1, <2>2, <2>3, <2>4, <2>5, <2>6 DEF Registry
<1>7. \A i \in NoteIds : r.path[i] = IF i \in OnDisk(d) THEN loc[i] ELSE Nil
  BY <1>3
<1>8. Registered(r) = OnDisk(d)
  BY <1>2, <1>5, <1>7, FilesAre DEF Registered
<1>9. \A i \in OnDisk(d) : /\ r.path[i] \in Files(d) /\ d[r.path[i]].id = i
                          /\ r.agent[i] = d[r.path[i]].agent
                          /\ r.updated[i] = d[r.path[i]].at
  BY <1>2, <1>3, <1>5, <1>7
<1>10. \A i \in NoteIds : r.named[i] # {} <=> i \in Registered(r)
  <2>1. \A i \in NoteIds : i \in OnDisk(d) <=> FilesOfNote(d, i) # {}
    BY DEF OnDisk, FilesOfNote
  <2> QED BY <1>4, <1>8, <2>1
<1>11. \A p \in Paths : r.at[p] = IF p \in Files(d) THEN d[p].id ELSE Nil
  BY <1>3
<1>12. Knows(r, d)
  BY <1>4, <1>6, <1>8, <1>9, <1>10, <1>11 DEF Knows, RegistryOK
<1> QED BY <1>12 DEF r

(* l has the links of the files d, resolved by the index r.                    *)
LinksFrom(l, d, r) ==
  \A i \in NoteIds, raw \in Raws : \A t :
     <<raw, t>> \in l.out[i] <=>
       \E p \in FilesOfNote(d, i) : raw \in d[p].links /\ t = Resolve(r, raw, d[p].agent)

LEMMA LinksOfIs ==
  ASSUME NEW d \in Disks, NEW r, Knows(r, d)
  PROVE  /\ LinksOK(LinksOf(d, r), Registered(r))
         /\ LinksFrom(LinksOf(d, r), d, r)
<1> DEFINE l == LinksOf(d, r)
           of(p) == {<<raw, Resolve(r, raw, d[p].agent)>> : raw \in d[p].links}
           into(s, t) == {<<s, x[1]>> : x \in {y \in l.out[s] : y[2] = t}}
<1>1. RegistryOK(r) /\ Registered(r) = OnDisk(d) /\ Registered(r) \subseteq NoteIds
  BY FilesAre DEF Knows
<1>2. /\ \A i \in NoteIds : l.out[i] = UNION {of(p) : p \in FilesOfNote(d, i)}
      /\ l.out = [i \in NoteIds |-> l.out[i]]
      /\ l.in = [t \in NoteIds |-> UNION {into(s, t) : s \in NoteIds}]
      /\ l = [out |-> l.out, in |-> l.in]
  BY DEF LinksOf, FilesOfNote
<1>3. \A i \in NoteIds : \A p \in FilesOfNote(d, i) :
         p \in Files(d) /\ d[p].id = i /\ d[p].links \in SUBSET Raws
  BY FilesAre DEF FilesOfNote
<1>4. \A p \in Files(d) : of(p) \in SUBSET (Raws \X (Registered(r) \cup {Nil}))
  BY <1>1, FilesAre, ResolveIn
<1>5. \A p, raw, t : <<raw, t>> \in of(p) <=> raw \in d[p].links /\ t = Resolve(r, raw, d[p].agent)
  OBVIOUS
<1> HIDE DEF l, of
<1>6. \A i \in NoteIds : l.out[i] \in SUBSET (Raws \X (Registered(r) \cup {Nil}))
  BY <1>2, <1>3, <1>4
<1>7. \A i \in NoteIds : \A raw, t :
         <<raw, t>> \in l.out[i] <=>
           \E p \in FilesOfNote(d, i) : raw \in d[p].links /\ t = Resolve(r, raw, d[p].agent)
  <2>1. \A i \in NoteIds : \A x : x \in l.out[i] <=> \E p \in FilesOfNote(d, i) : x \in of(p)
    BY <1>2
  <2> TAKE i \in NoteIds
  <2> TAKE raw, t
  <2>2. <<raw, t>> \in l.out[i] <=> \E p \in FilesOfNote(d, i) : <<raw, t>> \in of(p)
    BY <2>1
  <2> QED BY <1>5, <2>2
<1>8. \A s, t \in NoteIds : into(s, t) \in SUBSET (NoteIds \X Raws)
  BY <1>6
<1>9. \A s, t, u \in NoteIds, raw \in Raws : <<s, raw>> \in into(u, t) <=> s = u /\ <<raw, t>> \in l.out[s]
  <2> TAKE s, t, u \in NoteIds, raw \in Raws
  <2>1. ASSUME <<s, raw>> \in into(u, t)
        PROVE  s = u /\ <<raw, t>> \in l.out[s]
    <3>1. PICK x \in l.out[u] : x[2] = t /\ <<s, raw>> = <<u, x[1]>>
      BY <2>1
    <3>2. x = <<x[1], x[2]>>
      BY <1>6
    <3> QED BY <3>1, <3>2
  <2>2. ASSUME s = u, <<raw, t>> \in l.out[s]
        PROVE  <<s, raw>> \in into(u, t)
    <3>1. <<raw, t>> \in {y \in l.out[u] : y[2] = t}
      BY <2>2
    <3> QED BY <2>2, <3>1
  <2> QED BY <2>1, <2>2
<1> HIDE DEF into
<1>10. l.in \in [NoteIds -> SUBSET (NoteIds \X Raws)]
  BY <1>2, <1>8
<1>11. l.out \in [NoteIds -> SUBSET (Raws \X (NoteIds \cup {Nil}))]
  BY <1>1, <1>2, <1>6
<1>12. Mirrored(l)
  <2> SUFFICES ASSUME NEW s \in NoteIds, NEW t \in NoteIds, NEW raw \in Raws
               PROVE  <<raw, t>> \in l.out[s] <=> <<s, raw>> \in l.in[t]
    BY DEF Mirrored
  <2>1. l.in[t] = UNION {into(u, t) : u \in NoteIds}
    BY <1>2
  <2> QED BY <1>9, <2>1
<1>13. \A i \in NoteIds : Targets(l, i) \subseteq Registered(r) \cup {Nil}
  BY <1>6 DEF Targets
<1>14. \A i \in NoteIds : i \notin Registered(r) => l.out[i] = {}
  <2>1. \A i \in NoteIds : i \notin OnDisk(d) => FilesOfNote(d, i) = {}
    BY DEF OnDisk, FilesOfNote
  <2> QED BY <1>1, <1>2, <2>1
<1>15. LinksOK(l, Registered(r))
  BY <1>2, <1>10, <1>11, <1>12, <1>13, <1>14 DEF LinksOK, Links
<1>16. LinksFrom(l, d, r)
  BY <1>7 DEF LinksFrom
<1> QED BY <1>15, <1>16 DEF l

-----------------------------------------------------------------------------
(* Vault: the inductive invariant.                                             *)

(* A note is in the folder of its agent, or in the shared one.                 *)
Placed(m, p) == IF m.shared THEN p[1] = <<"shared", "notes">>
                ELSE p[1] \in {<<m.agent, "notes">>, <<m.agent, "archive">>}

VType ==
  /\ disk \in Disks /\ tool \in ToolCall \cup {Nil}
  /\ {up, poisoned, chan, received} \subseteq BOOLEAN
  /\ skew \subseteq {"edited", "overwritten", "copied", "raced", "stripped", "cut"}
  /\ forgotten \subseteq Paths
  /\ made \in 0..MaxNotes /\ clock \in Nat
  /\ cmds \in 0..MaxCmds /\ edits \in 0..MaxEdits /\ crashes \in 0..MaxCrashes

VIndex == RegistryOK(reg) /\ LinksOK(links, Registered(reg))

Indexing(i) == tool # Nil /\ tool.step = "index" /\ tool.note.id = i

(* Every note of the index is where the index says, but for its time while it  *)
(* is being indexed; every file is indexed, but for the one a tool writes and  *)
(* those forgotten.                                                            *)
VExact ==
  up /\ skew = {} =>
    /\ \A i \in Registered(reg) :
         /\ IsNote(disk, reg.path[i]) /\ disk[reg.path[i]].id = i
         /\ disk[reg.path[i]].agent = reg.agent[i]
         /\ disk[reg.path[i]].at = reg.updated[i] \/ Indexing(i)
    /\ \A p \in Files(disk) : \/ disk[p].id \in Registered(reg)
                              \/ tool # Nil /\ tool.step # "unlink" /\ tool.path = p
                              \/ p \in forgotten

(* A file is indexed when it was written; after that nothing is forgotten, or  *)
(* the watcher has not been there yet.                                         *)
VTool ==
  /\ tool # Nil => up
  /\ tool # Nil /\ tool.step = "write" => tool.read = Nil \/ tool.read.id = tool.note.id
  /\ tool # Nil /\ tool.step = "write" /\ tool.read # Nil => tool.read.agent = tool.note.agent
  /\ tool # Nil /\ tool.step = "index" => chan \/ received \/ poisoned \/ forgotten = {}

VPlaced ==
  edits = 0 => /\ \A p \in Files(disk) : Placed(disk[p], p)
               /\ tool # Nil /\ tool.step = "write" => Placed(tool.note, tool.path)

VSettled == up /\ ~poisoned /\ ~chan /\ ~received /\ NoCopies
VSync ==
  VSettled => /\ reg = RegistryOf(Known, Files(Known))
              /\ forgotten = {} => links = LinksOf(disk, reg)

VInv == VType /\ VIndex /\ VExact /\ VTool /\ VPlaced /\ VSync

LEMMA PathsAre ==
  /\ \A p \in Paths : p = <<p[1], p[2]>> /\ p[1] \in Dirs /\ p[2] \in Stems
  /\ \A dir \in Dirs, stem \in Stems : <<dir, stem>> \in Paths
  /\ \A a \in Agents : <<a, "notes">> \in Dirs /\ <<a, "archive">> \in Dirs
  /\ <<"shared", "notes">> \in Dirs
  /\ \A n \in Names : <<n, 0>> \in Stems
  /\ Callers \subseteq Agents /\ Edited \subseteq Paths
  /\ \A body \in Bodies : body \in SUBSET Raws
  /\ Nil \notin Agents
<1>1. 0 \in 0..MaxSuffix
  BY VaultAssumption
<1>2. \A n \in Names : <<n, 0>> \in Stems
  BY <1>1 DEF Stems
<1>3. \A body \in Bodies : body \in SUBSET Raws
  BY VaultAssumption
<1>4. \A p \in Paths : p = <<p[1], p[2]>> /\ p[1] \in Dirs /\ p[2] \in Stems
  BY DEF Paths
<1>5. \A dir \in Dirs, stem \in Stems : <<dir, stem>> \in Paths
  BY DEF Paths
<1>6. /\ \A a \in Agents : <<a, "notes">> \in Dirs /\ <<a, "archive">> \in Dirs
      /\ <<"shared", "notes">> \in Dirs
  BY DEF Dirs
<1> QED BY <1>2, <1>3, <1>4, <1>5, <1>6, VaultAssumption, FileAssumption

LEMMA FreeStemIs ==
  ASSUME NEW dir, NEW n \in Names, NEW stem \in FreeStem(dir, n)
  PROVE  stem \in Stems /\ disk[<<dir, stem>>] = Nil
<1>1. PICK k \in 0..MaxSuffix : stem = <<n, k>> /\ disk[<<dir, <<n, k>>>>] = Nil
  BY DEF FreeStem
<1> QED BY <1>1 DEF Stems

(* The files e are d with m at p.                                              *)
Puts(e, d, p, m) ==
  e \in Disks /\ \A x \in Paths : e[x] = IF x = p THEN m ELSE d[x]

LEMMA PutIs ==
  ASSUME NEW d \in Disks, NEW p \in Paths, NEW m \in Note \cup {Nil, Broken}
  PROVE  Puts([d EXCEPT ![p] = m], d, p, m)
  BY DEF Puts, Disks

LEMMA RegistryPaths ==
  ASSUME RegistryOK(reg), NEW i \in Registered(reg)
  PROVE  i \in NoteIds /\ reg.path[i] \in Paths
  BY DEF RegistryOK, Registry, Registered

-----------------------------------------------------------------------------
(* Vault: what an update of a note is.                                         *)

NewText(i, body) == [disk[reg.path[i]] EXCEPT !.links = body, !.at = clock']

(* The note is at p afterwards, its old path, or a free one beside it.         *)
Done(i, p, n, body, caller) ==
  /\ p \in Paths /\ p[1] = reg.path[i][1] /\ (p = reg.path[i] \/ disk[p] = Nil)
  /\ disk' \in Disks
  /\ \A x \in Paths : disk'[x] = IF x = p THEN NewText(i, body)
                                 ELSE IF x = reg.path[i] THEN Nil ELSE disk[x]
  /\ Reindexed(i, reg.path[i], p, n, body, caller)
  /\ chan' = TRUE /\ skew' = skew /\ Runs

(* The file at p was to become m and has been cut short, or the program        *)
(* stopped.                                                                    *)
CutShort(c, m) ==
  c = Broken \/ (c \in Note /\ c.id = m.id /\ c.agent = m.agent /\ c.shared = m.shared)
Cuts(p, m) ==
  /\ \E c \in Note \cup {Broken} : /\ CutShort(c, m) /\ Puts(disk', disk, p, c)
                                  /\ disk' = [disk EXCEPT ![p] = c]
  /\ \/ /\ chan' = TRUE /\ Fails /\ skew' = skew \cup {"cut"}
        /\ UNCHANGED <<up, poisoned, received, tool, forgotten, edits, reg, links>>
     \/ Stops /\ UNCHANGED <<skew, edits>>

LEMMA CutIs ==
  ASSUME NEW m \in Note, NEW c \in Part(m)
  PROVE  c \in Note \cup {Broken} /\ CutShort(c, m)
<1>1. CASE c = Broken
  BY <1>1 DEF CutShort
<1>2. CASE c # Broken
  <2>1. PICK l \in SUBSET m.links : c = [m EXCEPT !.links = l]
    BY <1>2 DEF Part
  <2>2. l \in SUBSET Raws
    BY <2>1 DEF Note
  <2> QED BY <2>1, <2>2 DEF CutShort, Note
<1> QED BY <1>1, <1>2

LEMMA CutWriteIs ==
  ASSUME VType, NEW p \in Paths, NEW m \in Note, CutWrite(p, m)
  PROVE  Cuts(p, m)
<1>1. PICK c \in Part(m) :
        \/ /\ Writes([disk EXCEPT ![p] = c]) /\ Fails
           /\ skew' = skew \cup {"cut"}
           /\ UNCHANGED <<up, poisoned, received, tool, forgotten, edits, reg, links>>
        \/ disk' = [disk EXCEPT ![p] = c] /\ Stops /\ UNCHANGED <<skew, edits>>
  BY DEF CutWrite
<1>2. c \in Note \cup {Broken} /\ CutShort(c, m)
  BY CutIs
<1>3. disk' = [disk EXCEPT ![p] = c] /\ disk \in Disks
  BY <1>1 DEF Writes, VType
<1>4. Puts(disk', disk, p, c)
  BY <1>2, <1>3, PutIs
<1> QED BY <1>1, <1>2, <1>3, <1>4 DEF Cuts, Writes

(* The new file is beside the old one, which could not be removed or the       *)
(* program stopped.                                                            *)
Twice(i, p, body) ==
  /\ p \in Paths /\ p[1] = reg.path[i][1] /\ p # reg.path[i] /\ disk[p] = Nil
  /\ disk' \in Disks
  /\ \A x \in Paths : disk'[x] = IF x = p THEN NewText(i, body) ELSE disk[x]
  /\ \/ chan' = TRUE /\ skew' = skew \cup {"copied"} /\ Runs /\ UNCHANGED <<reg, links>>
     \/ Stops /\ UNCHANGED <<skew, edits>>

(* The new text, at the old path or at a free one beside it, is cut short.     *)
CutsAt(i, p, body) ==
  /\ p \in Paths /\ p[1] = reg.path[i][1] /\ (p = reg.path[i] \/ disk[p] = Nil)
  /\ Cuts(p, NewText(i, body))

LEMMA UpdateIs ==
  ASSUME VType, VIndex, NEW i \in NoteIds, NEW caller \in Callers, NEW n \in Names \cup {Nil},
         NEW body \in Bodies, UpdateNote(i, caller, n, body)
  PROVE  /\ up /\ ~poisoned /\ cmds < MaxCmds /\ cmds' = cmds + 1 /\ clock' = clock + 1 /\ made' = made
         /\ i \in Registered(reg) /\ reg.path[i] \in Paths /\ IsNote(disk, reg.path[i])
         /\ NewText(i, body) \in Note
         /\ \E p \in Paths : \/ Done(i, p, n, body, caller) \/ Twice(i, p, body)
                            \/ CutsAt(i, p, body)
<1> DEFINE old == reg.path[i]
<1>1. up /\ ~poisoned /\ cmds < MaxCmds /\ cmds' = cmds + 1 /\ clock' = clock + 1 /\ made' = made
      /\ i \in Registered(reg) /\ IsNote(disk, old)
  BY DEF UpdateNote, Command, Issued, Ticks
<1>2. old \in Paths /\ i \in NoteIds
  BY <1>1, RegistryPaths DEF VIndex
<1>3. disk \in Disks /\ disk[old] \in Note /\ clock \in Nat
  BY <1>1, <1>2 DEF VType, IsNote, Disks
<1>4. NewText(i, body) \in Note
  <2>1. body \in SUBSET Raws /\ clock' \in Nat
    BY <1>1, <1>3, PathsAre
  <2> QED BY <1>3, <2>1 DEF NewText, Note
<1>6. CASE n = Nil \/ old[2] = <<n, 0>>
  <2>1. CASE /\ disk' = [disk EXCEPT ![old] = NewText(i, body)] /\ chan' = TRUE
             /\ Reindexed(i, old, old, n, body, caller) /\ Runs /\ skew' = skew
    <3>1. Puts(disk', disk, old, NewText(i, body))
      BY <1>2, <1>3, <1>4, <2>1, PutIs
    <3>2. Done(i, old, n, body, caller)
      BY <1>2, <2>1, <3>1 DEF Done, Puts
    <3> QED BY <1>1, <1>2, <1>4, <3>2
  <2>2. CASE CutWrite(old, NewText(i, body))
    <3>1. CutsAt(i, old, body)
      BY <1>2, <1>4, <2>2, CutWriteIs DEF CutsAt
    <3> QED BY <1>1, <1>2, <1>4, <3>1
  <2> QED BY <1>6, <2>1, <2>2 DEF UpdateNote, Writes, NewText
<1>7. CASE ~(n = Nil \/ old[2] = <<n, 0>>)
  <2>1. PICK stem \in FreeStem(old[1], n) :
          LET p == <<old[1], stem>>
          IN \/ /\ Writes([disk EXCEPT ![p] = NewText(i, body), ![old] = Nil])
                /\ Reindexed(i, old, p, n, body, caller)
                /\ Runs /\ UNCHANGED skew
             \/ /\ Writes([disk EXCEPT ![p] = NewText(i, body)])
                /\ skew' = skew \cup {"copied"}
                /\ Runs /\ UNCHANGED <<reg, links>>
             \/ /\ disk' = [disk EXCEPT ![p] = NewText(i, body)]
                /\ Stops /\ UNCHANGED <<skew, edits>>
             \/ CutWrite(p, NewText(i, body))
    BY <1>7 DEF UpdateNote, NewText
  <2> DEFINE p == <<old[1], stem>>
  <2>2. stem \in Stems /\ disk[p] = Nil
    BY <1>7, FreeStemIs
  <2>3. p \in Paths /\ p[1] = old[1]
    BY <1>2, <2>2, PathsAre
  <2>4. p # old
    BY <1>1, <2>2 DEF IsNote
  <2> HIDE DEF p
  <2>5. CASE /\ Writes([disk EXCEPT ![p] = NewText(i, body), ![old] = Nil])
             /\ Reindexed(i, old, p, n, body, caller)
             /\ Runs /\ UNCHANGED skew
    <3>1. Nil \in Note \cup {Nil, Broken} /\ NewText(i, body) \in Note \cup {Nil, Broken}
      BY <1>4
    <3> DEFINE d == [disk EXCEPT ![p] = NewText(i, body)]
    <3>2. Puts(d, disk, p, NewText(i, body))
      BY <1>3, <2>3, <3>1, PutIs
    <3>3. disk' = [d EXCEPT ![old] = Nil] /\ chan' = TRUE
      BY <2>5 DEF Writes
    <3> HIDE DEF d
    <3>6. d \in Disks
      BY <3>2 DEF Puts
    <3>4. Puts(disk', d, old, Nil)
      BY <1>2, <3>1, <3>3, <3>6, PutIs
    <3>5. Done(i, p, n, body, caller)
      BY <2>2, <2>3, <2>4, <2>5, <3>2, <3>3, <3>4 DEF Done, Puts
    <3> QED BY <1>1, <1>2, <1>4, <2>3, <3>5
  <2>6. CASE /\ Writes([disk EXCEPT ![p] = NewText(i, body)])
             /\ skew' = skew \cup {"copied"}
             /\ Runs /\ UNCHANGED <<reg, links>>
    <3>2. Puts(disk', disk, p, NewText(i, body))
      BY <1>3, <1>4, <2>3, <2>6, PutIs DEF Writes
    <3>1. Twice(i, p, body)
      BY <2>2, <2>3, <2>4, <2>6, <3>2 DEF Twice, Writes, Puts
    <3> QED BY <1>1, <1>2, <1>4, <2>3, <3>1
  <2>7. CASE /\ disk' = [disk EXCEPT ![p] = NewText(i, body)]
             /\ Stops /\ UNCHANGED <<skew, edits>>
    <3>2. Puts(disk', disk, p, NewText(i, body))
      BY <1>3, <1>4, <2>3, <2>7, PutIs
    <3>1. Twice(i, p, body)
      BY <2>2, <2>3, <2>4, <2>7, <3>2 DEF Twice, Puts
    <3> QED BY <1>1, <1>2, <1>4, <2>3, <3>1
  <2>8. CASE CutWrite(p, NewText(i, body))
    <3>1. CutsAt(i, p, body)
      BY <1>4, <2>2, <2>3, <2>8, CutWriteIs DEF CutsAt
    <3> QED BY <1>1, <1>2, <1>4, <2>3, <3>1
  <2> QED BY <2>1, <2>5, <2>6, <2>7, <2>8 DEF p
<1> QED BY <1>6, <1>7

-----------------------------------------------------------------------------
(* Vault: what the other actions make of the files.                            *)

MadeNote(a, shared, body) ==
  [id |-> made + 1, agent |-> a, shared |-> shared, links |-> body, at |-> clock']

Folder(a, shared) == IF shared THEN <<"shared", "notes">> ELSE <<a, "notes">>

(* A note is made at p.                                                        *)
Makes(a, shared, n, body, p) ==
  /\ Puts(disk', disk, p, MadeNote(a, shared, body))
  /\ reg' = Register(reg, made + 1, p, a, <<n, 0>>, clock')
  /\ links' = TryResolve(UpdateLinks(links, reg', made + 1, body, a), <<n, 0>>, made + 1)
  /\ chan' = TRUE /\ skew' = skew /\ Runs

LEMMA CreateIs ==
  ASSUME VType, NEW a \in Callers, NEW shared \in BOOLEAN, NEW n \in Names, NEW body \in Bodies,
         CreateNote(a, shared, n, body)
  PROVE  /\ up /\ ~poisoned /\ cmds < MaxCmds /\ cmds' = cmds + 1 /\ clock' = clock + 1
         /\ made + 1 \in NoteIds /\ made' = made + 1
         /\ a \in Agents /\ body \in SUBSET Raws /\ MadeNote(a, shared, body) \in Note
         /\ <<n, 0>> \in Stems
         /\ \E p \in Paths : /\ p[1] = Folder(a, shared) /\ disk[p] = Nil
                            /\ \/ Makes(a, shared, n, body, p)
                               \/ Cuts(p, MadeNote(a, shared, body))
<1> DEFINE dir == Folder(a, shared)
<1>1. /\ up /\ ~poisoned /\ cmds < MaxCmds /\ cmds' = cmds + 1 /\ clock' = clock + 1
      /\ made < MaxNotes /\ made' = made + 1
  BY DEF CreateNote, Command, Issued, Ticks
<1>2. PICK stem \in FreeStem(dir, n) :
        \/ /\ Writes([disk EXCEPT ![<<dir, stem>>] = MadeNote(a, shared, body)])
           /\ reg' = Register(reg, made + 1, <<dir, stem>>, a, <<n, 0>>, clock')
           /\ links' = TryResolve(UpdateLinks(links, reg', made + 1, body, a), <<n, 0>>, made + 1)
           /\ Runs /\ skew' = skew
        \/ CutWrite(<<dir, stem>>, MadeNote(a, shared, body))
  BY DEF CreateNote, MadeNote, Folder
<1>3. made \in 0..MaxNotes /\ clock \in Nat /\ disk \in Disks /\ MaxNotes \in Nat
  BY NotesAre DEF VType
<1>4. made + 1 \in NoteIds
  BY <1>1, <1>3 DEF NoteIds
<1>5. a \in Agents /\ body \in SUBSET Raws /\ <<n, 0>> \in Stems /\ dir \in Dirs
  BY PathsAre DEF Folder
<1>6. MadeNote(a, shared, body) \in Note
  BY <1>1, <1>3, <1>4, <1>5 DEF MadeNote, Note
<1>7. stem \in Stems /\ disk[<<dir, stem>>] = Nil
  BY FreeStemIs
<1> DEFINE p == <<dir, stem>>
<1>8. p \in Paths /\ p[1] = dir /\ disk[p] = Nil
  BY <1>5, <1>7, PathsAre
<1>9. \/ /\ disk' = [disk EXCEPT ![p] = MadeNote(a, shared, body)] /\ chan' = TRUE
         /\ reg' = Register(reg, made + 1, p, a, <<n, 0>>, clock')
         /\ links' = TryResolve(UpdateLinks(links, reg', made + 1, body, a), <<n, 0>>, made + 1)
         /\ Runs /\ skew' = skew
      \/ CutWrite(p, MadeNote(a, shared, body))
  BY <1>2 DEF Writes
<1> HIDE DEF p
<1>10. Makes(a, shared, n, body, p) \/ Cuts(p, MadeNote(a, shared, body))
  BY <1>3, <1>6, <1>8, <1>9, PutIs, CutWriteIs DEF Makes
<1> QED BY <1>1, <1>4, <1>5, <1>6, <1>8, <1>10

LEMMA DeleteIs ==
  ASSUME VType, VIndex, NEW i \in NoteIds, NEW caller, DeleteNote(i, caller)
  PROVE  /\ up /\ ~poisoned /\ cmds < MaxCmds /\ cmds' = cmds + 1 /\ chan' = TRUE
         /\ i \in Registered(reg) /\ reg.path[i] \in Paths /\ disk[reg.path[i]] # Nil
         /\ Puts(disk', disk, reg.path[i], Nil)
         /\ links' = RemoveLinks(links, i) /\ reg' = Unregister(reg, i)
         /\ skew' = IF i \in OnDisk(disk') THEN skew \cup {"copied"} ELSE skew
         /\ Runs /\ made' = made /\ clock' = clock
<1>1. i \in Registered(reg) /\ disk' = [disk EXCEPT ![reg.path[i]] = Nil]
  BY DEF DeleteNote, Writes
<1>2. reg.path[i] \in Paths /\ disk \in Disks
  BY <1>1, RegistryPaths DEF VIndex, VType
<1>3. Puts(disk', disk, reg.path[i], Nil)
  BY <1>1, <1>2, PutIs
<1> QED BY <1>1, <1>2, <1>3 DEF DeleteNote, Command, Issued, Writes

LEMMA ArchiveIs ==
  ASSUME VType, VIndex, NEW i \in NoteIds, NEW a \in Agents, ArchiveNote(i, a)
  PROVE  LET p == reg.path[i]
             to == <<<<a, "archive">>, p[2]>>
         IN /\ up /\ ~poisoned /\ cmds < MaxCmds /\ cmds' = cmds + 1 /\ chan' = TRUE
            /\ i \in Registered(reg) /\ p \in Paths /\ to \in Paths /\ p # to
            /\ p[1] = <<a, "notes">> /\ to[1] = <<a, "archive">> /\ disk[p] # Nil
            /\ disk' \in Disks
            /\ \A x \in Paths : disk'[x] = IF x = to THEN disk[p] ELSE IF x = p THEN Nil ELSE disk[x]
            /\ reg' = MovePath(reg, i, to)
            /\ skew' = IF disk[to] = Nil THEN skew ELSE skew \cup {"overwritten"}
            /\ Runs /\ UNCHANGED <<links, made, clock>>
<1> DEFINE p == reg.path[i]
           to == <<<<a, "archive">>, p[2]>>
           e == [disk EXCEPT ![p] = Nil]
<1>1. i \in Registered(reg) /\ disk' = [e EXCEPT ![to] = disk[p]] /\ p[1] = <<a, "notes">>
  BY DEF ArchiveNote, Writes
<1>2. p \in Paths /\ disk \in Disks
  BY <1>1, RegistryPaths DEF VIndex, VType
<1>3. to \in Paths /\ to[1] = <<a, "archive">> /\ disk[p] \in Note \cup {Nil, Broken}
  BY <1>2, PathsAre DEF Disks
<1>4. p # to
  BY <1>1, <1>3
<1>5. Puts(e, disk, p, Nil)
  BY <1>2, PutIs
<1>6. e \in Disks
  BY <1>5 DEF Puts
<1>7. Puts(disk', e, to, disk[p])
  <2> HIDE DEF e, to, p
  <2> QED BY <1>1, <1>3, <1>6, PutIs
<1>8. disk' \in Disks
      /\ \A x \in Paths : disk'[x] = IF x = to THEN disk[p] ELSE IF x = p THEN Nil ELSE disk[x]
  <2> HIDE DEF e, to, p
  <2> QED BY <1>5, <1>7 DEF Puts
<1> QED BY <1>1, <1>2, <1>3, <1>4, <1>8 DEF ArchiveNote, Command, Issued, Writes

ToolNote == [tool.note EXCEPT !.at = clock']

LEMMA ToolIs ==
  ASSUME VType, tool # Nil
  PROVE  /\ tool.path \in Paths /\ tool.step \in {"write", "index", "unlink"}
         /\ tool.step # "unlink" => tool \in [step : {"write", "index"}, path : Paths,
                                              read : Note \cup {Nil}, note : Note]
  BY DEF VType, ToolCall

(* A tool has written its note.                                                *)
Wrote ==
  /\ Puts(disk', disk, tool.path, ToolNote)
  /\ tool' = [tool EXCEPT !.step = "index", !.note = ToolNote]
  /\ skew' = skew \cup (IF disk[tool.path] = tool.read THEN {} ELSE {"raced"})
  /\ crashes' = crashes

(* What it wrote was cut short.                                                *)
WroteShort ==
  /\ \E c \in Note \cup {Broken} : /\ CutShort(c, ToolNote) /\ Puts(disk', disk, tool.path, c)
                                  /\ disk' = [disk EXCEPT ![tool.path] = c]
  /\ Fails /\ tool' = Nil /\ skew' = skew \cup {"cut"}

LEMMA ToolWriteIs ==
  ASSUME VType, ToolWrite
  PROVE  /\ up /\ tool # Nil /\ tool.step = "write" /\ clock' = clock + 1 /\ chan' = TRUE
         /\ tool.path \in Paths /\ tool.note \in Note /\ tool.read \in Note \cup {Nil}
         /\ ToolNote \in Note /\ ToolNote.id = tool.note.id /\ ToolNote.agent = tool.note.agent
         /\ ToolNote.shared = tool.note.shared
         /\ Wrote \/ WroteShort
         /\ UNCHANGED <<up, poisoned, reg, links, received, forgotten, made, cmds, edits>>
<1>1. /\ up /\ tool # Nil /\ tool.step = "write" /\ clock' = clock + 1 /\ chan' = TRUE
      /\ UNCHANGED <<up, poisoned, reg, links, received, forgotten, made, cmds, edits>>
  BY DEF ToolWrite, Writes, Ticks
<1>2. tool.path \in Paths /\ tool.note \in Note /\ tool.read \in Note \cup {Nil}
  BY <1>1, ToolIs
<1>3. clock \in Nat /\ disk \in Disks
  BY DEF VType
<1>4. ToolNote \in Note /\ ToolNote.id = tool.note.id /\ ToolNote.agent = tool.note.agent
      /\ ToolNote.shared = tool.note.shared
  BY <1>1, <1>2, <1>3 DEF ToolNote, Note
<1>5. \/ /\ disk' = [disk EXCEPT ![tool.path] = ToolNote]
         /\ tool' = [tool EXCEPT !.step = "index", !.note = ToolNote]
         /\ skew' = skew \cup (IF disk[tool.path] = tool.read THEN {} ELSE {"raced"})
         /\ crashes' = crashes
      \/ /\ \E c \in Part(ToolNote) : disk' = [disk EXCEPT ![tool.path] = c]
         /\ Fails /\ tool' = Nil /\ skew' = skew \cup {"cut"}
  BY DEF ToolWrite, Writes, ToolNote
<1>6. CASE /\ disk' = [disk EXCEPT ![tool.path] = ToolNote]
           /\ tool' = [tool EXCEPT !.step = "index", !.note = ToolNote]
           /\ skew' = skew \cup (IF disk[tool.path] = tool.read THEN {} ELSE {"raced"})
           /\ crashes' = crashes
  <2>1. Wrote
    BY <1>2, <1>3, <1>4, <1>6, PutIs DEF Wrote
  <2> QED BY <1>1, <1>2, <1>4, <2>1
<1>7. CASE /\ \E c \in Part(ToolNote) : disk' = [disk EXCEPT ![tool.path] = c]
           /\ Fails /\ tool' = Nil /\ skew' = skew \cup {"cut"}
  <2>1. PICK c \in Part(ToolNote) : disk' = [disk EXCEPT ![tool.path] = c]
    BY <1>7
  <2>2. c \in Note \cup {Broken} /\ CutShort(c, ToolNote)
    BY <1>4, CutIs
  <2>3. Puts(disk', disk, tool.path, c)
    BY <1>2, <1>3, <2>1, <2>2, PutIs
  <2>4. WroteShort
    BY <1>7, <2>1, <2>2, <2>3 DEF WroteShort
  <2> QED BY <1>1, <1>2, <1>4, <2>4
<1> QED BY <1>5, <1>6, <1>7

LEMMA ToolPathIs ==
  ASSUME NEW a \in Callers, NEW stem \in Names \X {0}
  PROVE  <<<<a, "notes">>, stem>> \in Paths /\ a \in Agents
<1>1. PICK n \in Names : stem = <<n, 0>>
  OBVIOUS
<1>2. stem \in Stems
  BY <1>1, PathsAre
<1> QED BY <1>2, PathsAre

LEMMA RawWriteIs ==
  ASSUME VType, NEW a \in Callers, NEW stem \in Names \X {0}, RawWrite(a, stem)
  PROVE  LET p == <<<<a, "notes">>, stem>>
         IN /\ up /\ tool = Nil /\ chan' = TRUE /\ p \in Paths /\ p[1] = <<a, "notes">>
            /\ Puts(disk', disk, p, Broken)
            /\ skew' = skew \cup (IF IsNote(disk, p) THEN {"stripped"} ELSE {})
            /\ UNCHANGED <<up, poisoned, reg, links, received, tool, forgotten, made, clock, edits, crashes>>
            /\ cmds < MaxCmds /\ cmds' = cmds + 1
<1> DEFINE p == <<<<a, "notes">>, stem>>
<1>1. p \in Paths /\ p[1] = <<a, "notes">>
  BY ToolPathIs
<1>2. disk' = [disk EXCEPT ![p] = Broken] /\ disk \in Disks
  BY DEF RawWrite, Writes, VType
<1>3. Puts(disk', disk, p, Broken)
  <2> HIDE DEF p
  <2> QED BY <1>1, <1>2, PutIs
<1> QED BY <1>1, <1>3 DEF RawWrite, Writes, Idle, Command, Issued

(* The file of a tool call goes.                                               *)
Unlinked ==
  /\ Puts(disk', disk, tool.path, Nil) /\ chan' = TRUE
  /\ forgotten' = forgotten \ {tool.path}
  /\ skew' = skew \cup (IF \E i \in NoteIds : reg.path[i] = tool.path THEN {"raced"} ELSE {})

LEMMA ToolUnlinkIs ==
  ASSUME VType, ToolUnlink
  PROVE  /\ up /\ tool # Nil /\ tool.step = "unlink" /\ tool.read = Nil /\ tool.path \in Paths
         /\ Unlinked \/ UNCHANGED <<disk, chan, forgotten, skew>>
         /\ tool' = Nil
         /\ UNCHANGED <<up, poisoned, reg, links, received, made, clock, bound>>
<1>1. tool # Nil /\ tool.step = "unlink" /\ disk \in Disks
  BY DEF ToolUnlink, VType
<1>2. tool.path \in Paths
  BY <1>1, ToolIs
<1>3. tool.read = Nil
  BY <1>1 DEF VType, ToolCall
<1>4. \/ /\ disk' = [disk EXCEPT ![tool.path] = Nil] /\ chan' = TRUE
         /\ forgotten' = forgotten \ {tool.path}
         /\ skew' = skew \cup (IF \E i \in NoteIds : reg.path[i] = tool.path THEN {"raced"} ELSE {})
      \/ UNCHANGED <<disk, chan, forgotten, skew>>
  BY DEF ToolUnlink, Writes
<1>5. Unlinked \/ UNCHANGED <<disk, chan, forgotten, skew>>
  BY <1>1, <1>2, <1>4, PutIs DEF Unlinked
<1> QED BY <1>2, <1>3, <1>5 DEF ToolUnlink

(* A tool's deletion begins, or is refused: the index forgets the file at p.    *)
Forgets ==
  \/ \E a \in Callers, stem \in Names \X {0} : ToolUnindex(a, stem)
  \/ \E a \in Callers, p \in Paths : ToolRefused(a, p)

LEMMA ForgetsIs ==
  ASSUME VType, Forgets
  PROVE  \E p \in Paths : /\ Forget(p)
                         /\ \/ tool' = Nil
                            \/ tool' = [step |-> "unlink", path |-> p, read |-> Nil, note |-> Nil]
<1>1. CASE \E a \in Callers, stem \in Names \X {0} : ToolUnindex(a, stem)
  <2>1. PICK a \in Callers, stem \in Names \X {0} : ToolUnindex(a, stem)
    BY <1>1
  <2> DEFINE p == <<<<a, "notes">>, stem>>
  <2>2. p \in Paths
    BY ToolPathIs
  <2> QED BY <2>1, <2>2 DEF ToolUnindex
<1>2. CASE \E a \in Callers, p \in Paths : ToolRefused(a, p)
  BY <1>2 DEF ToolRefused, Forget, Idle
<1> QED BY <1>1, <1>2 DEF Forgets

(* An edit from outside.                                                       *)
Edits ==
  \/ \E p \in Edited : EditRemove(p) \/ EditBreak(p)
  \/ \E p \in Edited, q \in Edited : EditMove(p, q) \/ EditCopy(p, q)

LEMMA EditIs ==
  ASSUME VType, Edits
  PROVE  /\ disk' \in Disks /\ Edit(disk')
         /\ edits' \in 1..MaxEdits /\ cmds' \in 0..MaxCmds /\ "edited" \in skew'
         /\ skew' = skew \cup {"edited"} /\ chan' = up
         /\ UNCHANGED <<up, poisoned, reg, links, received, tool, forgotten, made, clock, crashes>>
<1>1. disk \in Disks /\ Edited \subseteq Paths
  BY PathsAre DEF VType
<1>2. PICK p \in Edited, q \in Edited : EditRemove(p) \/ EditBreak(p) \/ EditMove(p, q) \/ EditCopy(p, q)
  BY DEF Edits
<1>3. p \in Paths /\ q \in Paths
  BY <1>1
<1>4. disk[p] \in Note \cup {Nil, Broken}
  BY <1>1, <1>3 DEF Disks
<1>5. disk' \in Disks /\ Edit(disk')
  <2>1. CASE EditRemove(p)
    <3>1. disk' = [disk EXCEPT ![p] = Nil] /\ Edit(disk')
      BY <2>1 DEF EditRemove, Edit
    <3>2. Puts(disk', disk, p, Nil)
      BY <1>1, <1>3, <3>1, PutIs
    <3> QED BY <3>1, <3>2 DEF Puts
  <2>2. CASE EditBreak(p)
    <3>1. disk' = [disk EXCEPT ![p] = Broken] /\ Edit(disk')
      BY <2>2 DEF EditBreak, Edit
    <3>2. Puts(disk', disk, p, Broken)
      BY <1>1, <1>3, <3>1, PutIs
    <3> QED BY <3>1, <3>2 DEF Puts
  <2>3. CASE EditCopy(p, q)
    <3>1. disk' = [disk EXCEPT ![q] = disk[p]] /\ Edit(disk')
      BY <2>3 DEF EditCopy, Edit
    <3>2. Puts(disk', disk, q, disk[p])
      BY <1>1, <1>3, <1>4, <3>1, PutIs
    <3> QED BY <3>1, <3>2 DEF Puts
  <2>4. CASE EditMove(p, q)
    <3> DEFINE e == [disk EXCEPT ![q] = disk[p]]
    <3>1. disk' = [e EXCEPT ![p] = Nil] /\ Edit(disk')
      BY <2>4 DEF EditMove, Edit
    <3>2. Puts(e, disk, q, disk[p])
      BY <1>1, <1>3, <1>4, PutIs
    <3>3. e \in Disks
      BY <3>2 DEF Puts
    <3> HIDE DEF e
    <3>4. Puts(disk', e, p, Nil)
      BY <1>3, <3>1, <3>3, PutIs
    <3> QED BY <3>1, <3>4 DEF Puts
  <2> QED BY <1>2, <2>1, <2>2, <2>3, <2>4
<1>6. /\ edits < MaxEdits /\ edits' = edits + 1 /\ edits \in 0..MaxEdits
      /\ cmds < MaxCmds /\ cmds' = cmds + 1 /\ cmds \in 0..MaxCmds
      /\ MaxEdits \in Nat /\ MaxCmds \in Nat
  BY <1>5, VaultAssumption DEF Edit, VType
<1>7. edits' \in 1..MaxEdits /\ cmds' \in 0..MaxCmds
  BY <1>6
<1> QED BY <1>5, <1>7 DEF Edit

LEMMA RebuildIs ==
  ASSUME VType, Rebuild
  PROVE  /\ skew' = {} /\ forgotten' = {} /\ Knows(reg', disk) /\ LinksOK(links', Registered(reg'))
         /\ links' = LinksOf(disk, reg')
         /\ \E W \in Walks(disk) : reg' = RegistryOf(disk, W)
<1>1. PICK W \in Walks(disk) :
        reg' = RegistryOf(disk, W) /\ links' = LinksOf(disk, RegistryOf(disk, W)) /\ skew' = {}
        /\ forgotten' = {}
  BY DEF Rebuild, Indexes
<1>2. disk \in Disks
  BY DEF VType
<1>3. Knows(RegistryOf(disk, W), disk)
  BY <1>2, RegistryOfKnows
<1>4. LinksOK(LinksOf(disk, RegistryOf(disk, W)), Registered(RegistryOf(disk, W)))
  BY <1>2, <1>3, LinksOfIs
<1> QED BY <1>1, <1>3, <1>4

-----------------------------------------------------------------------------
(* Vault: types.                                                               *)

LEMMA StopsType ==
  ASSUME VType, Stops, disk' \in Disks, skew' = skew, made' = made, clock' \in Nat, edits' = edits,
         cmds' \in 0..MaxCmds
  PROVE  VType'
<1>1. crashes < MaxCrashes /\ crashes' = crashes + 1 /\ crashes \in 0..MaxCrashes /\ MaxCrashes \in Nat
  BY VaultAssumption DEF VType, Stops, Fails
<1>2. crashes' \in 0..MaxCrashes
  BY <1>1
<1> QED BY <1>2 DEF VType, Stops

LEMMA FailsType ==
  ASSUME VType, Fails
  PROVE  crashes' \in 0..MaxCrashes
<1>1. crashes < MaxCrashes /\ crashes' = crashes + 1 /\ crashes \in 0..MaxCrashes /\ MaxCrashes \in Nat
  BY VaultAssumption DEF VType, Fails
<1> QED BY <1>1

LEMMA CutsType ==
  ASSUME VType, NEW p, NEW m, Cuts(p, m), made' \in 0..MaxNotes, clock' \in Nat, cmds' \in 0..MaxCmds
  PROVE  VType'
<1>1. disk' \in Disks /\ crashes' \in 0..MaxCrashes
  BY FailsType DEF Cuts, Puts, Stops
<1>2. CASE Stops /\ UNCHANGED <<skew, edits>>
  BY <1>1, <1>2 DEF VType, Stops
<1>3. CASE ~(Stops /\ UNCHANGED <<skew, edits>>)
  BY <1>1, <1>3 DEF VType, Cuts
<1> QED BY <1>2, <1>3

LEMMA VTypeStep ==
  ASSUME VType, VIndex, VaultNext
  PROVE  VType'
<1>0. /\ MaxCmds \in Nat /\ MaxNotes \in Nat /\ cmds \in 0..MaxCmds /\ clock \in Nat
      /\ cmds < MaxCmds => cmds + 1 \in 0..MaxCmds
      /\ clock + 1 \in Nat
  BY VaultAssumption DEF VType
<1>1. CASE Start
  BY <1>1, RebuildIs DEF VType, Start, bound
<1>2. CASE RebuildIndex
  BY <1>0, <1>2, RebuildIs DEF VType, RebuildIndex, Command, Issued
<1>3. CASE Receive
  BY <1>3 DEF VType, Receive, bound
<1>4. CASE ProcessEvents
  <2>1. (skew' = skew \/ skew' = {}) /\ (forgotten' = forgotten \/ forgotten' = {})
    BY <1>4, RebuildIs DEF ProcessEvents
  <2> QED BY <1>4, <2>1 DEF VType, ProcessEvents, bound
<1>5. CASE Fail
  <2>1. disk' \in Disks /\ skew' = skew /\ made' = made /\ clock' \in Nat /\ edits' = edits
        /\ cmds' \in 0..MaxCmds /\ Stops
    BY <1>0, <1>5 DEF VType, Fail, Issued
  <2> QED BY <2>1, StopsType
<1>6. ASSUME NEW a \in Callers, NEW shared \in BOOLEAN, NEW n \in Names, NEW body \in Bodies,
             CreateNote(a, shared, n, body)
      PROVE  VType'
  <2>1. cmds' \in 0..MaxCmds /\ clock' \in Nat /\ made' \in 0..MaxNotes
    <3>1. /\ made + 1 \in NoteIds /\ made' = made + 1 /\ cmds < MaxCmds /\ cmds' = cmds + 1
          /\ clock' = clock + 1
      BY <1>6, CreateIs
    <3>2. \A k \in NoteIds : k \in 0..MaxNotes
      BY <1>0 DEF NoteIds
    <3> QED BY <1>0, <3>1, <3>2
  <2>2. PICK p \in Paths : Makes(a, shared, n, body, p) \/ Cuts(p, MadeNote(a, shared, body))
    BY <1>6, CreateIs
  <2>3. CASE Makes(a, shared, n, body, p)
    <3>1. disk' \in Disks
      BY <2>3 DEF Makes, Puts
    <3> QED BY <2>1, <2>3, <3>1 DEF VType, Makes, Runs
  <2>4. CASE Cuts(p, MadeNote(a, shared, body))
    BY <2>1, <2>4, CutsType
  <2> QED BY <2>2, <2>3, <2>4
<1>7. ASSUME NEW i \in NoteIds, NEW caller \in Callers, NEW n \in Names \cup {Nil}, NEW body \in Bodies,
             UpdateNote(i, caller, n, body)
      PROVE  VType'
  <2>1. /\ cmds' \in 0..MaxCmds /\ clock' \in Nat /\ made' = made
    BY <1>0, <1>7, UpdateIs
  <2>2. PICK p \in Paths : Done(i, p, n, body, caller) \/ Twice(i, p, body) \/ CutsAt(i, p, body)
    BY <1>7, UpdateIs
  <2>6. CASE CutsAt(i, p, body)
    <3>1. made' \in 0..MaxNotes
      BY <2>1 DEF VType
    <3> QED BY <2>1, <2>6, <3>1, CutsType DEF CutsAt
  <2>3. CASE Done(i, p, n, body, caller)
    BY <2>1, <2>3 DEF VType, Done, Runs
  <2>4. CASE Twice(i, p, body) /\ Stops /\ UNCHANGED <<skew, edits>>
    <3>1. disk' \in Disks
      BY <2>4 DEF Twice
    <3> QED BY <2>1, <2>4, <3>1, StopsType
  <2>5. CASE Twice(i, p, body) /\ ~(Stops /\ UNCHANGED <<skew, edits>>)
    BY <2>1, <2>5 DEF VType, Twice, Runs
  <2> QED BY <2>2, <2>3, <2>4, <2>5, <2>6
<1>8. ASSUME NEW i \in NoteIds, NEW caller \in Callers \cup {"user"}, DeleteNote(i, caller)
      PROVE  VType'
  <2>1. /\ cmds' \in 0..MaxCmds /\ chan' = TRUE /\ skew' \in {skew, skew \cup {"copied"}}
        /\ Runs /\ made' = made /\ clock' = clock /\ disk' \in Disks
    BY <1>0, <1>8, DeleteIs DEF Puts
  <2> QED BY <2>1 DEF VType, Runs
<1>9. ASSUME NEW i \in NoteIds, NEW a \in Agents, ArchiveNote(i, a)
      PROVE  VType'
  <2>1. /\ cmds' \in 0..MaxCmds /\ chan' = TRUE /\ skew' \in {skew, skew \cup {"overwritten"}}
        /\ Runs /\ made' = made /\ clock' = clock /\ disk' \in Disks
    BY <1>0, <1>9, ArchiveIs
  <2> QED BY <2>1 DEF VType, Runs
<1>10. ASSUME NEW a \in Callers, NEW stem \in Names \X {0}, NEW body \in Bodies,
              ToolWriteRead(a, stem, body)
       PROVE  VType'
  <2> DEFINE p == <<<<a, "notes">>, stem>>
             new == [id |-> made + 1, agent |-> a, shared |-> FALSE, links |-> body, at |-> clock]
             m == IF disk[p] = Nil THEN new ELSE [disk[p] EXCEPT !.links = body]
  <2>1. /\ disk[p] # Broken /\ (disk[p] = Nil => made < MaxNotes)
        /\ made' = (IF disk[p] = Nil THEN made + 1 ELSE made)
        /\ tool' = [step |-> "write", path |-> p, read |-> disk[p], note |-> m]
        /\ cmds' \in 0..MaxCmds
        /\ UNCHANGED <<up, poisoned, disk, reg, links, chan, received, skew, forgotten, clock, edits, crashes>>
    BY <1>0, <1>10 DEF ToolWriteRead, Command, Issued
  <2>2. p \in Paths /\ a \in Agents /\ body \in SUBSET Raws
    BY ToolPathIs, PathsAre
  <2> HIDE DEF p
  <2>3. disk[p] \in Note \cup {Nil} /\ made \in 0..MaxNotes
    BY <2>1, <2>2 DEF VType, Disks
  <2>4. made' \in 0..MaxNotes
    BY <1>0, <2>1, <2>3
  <2>5. m \in Note
    <3>1. CASE disk[p] = Nil
      <4>1. made + 1 \in NoteIds
        BY <1>0, <2>1, <2>3, <3>1 DEF NoteIds
      <4> QED BY <1>0, <2>2, <3>1, <4>1 DEF Note
    <3>2. CASE disk[p] # Nil
      BY <2>2, <2>3, <3>2 DEF Note
    <3> QED BY <3>1, <3>2
  <2> HIDE DEF m
  <2>6. tool' \in ToolCall
    BY <2>1, <2>2, <2>3, <2>5 DEF ToolCall
  <2> QED BY <2>1, <2>4, <2>6 DEF VType
<1>11. CASE Forgets
  <2>1. PICK p \in Paths : /\ Forget(p)
                          /\ \/ tool' = Nil
                             \/ tool' = [step |-> "unlink", path |-> p, read |-> Nil, note |-> Nil]
    BY <1>11, ForgetsIs
  <2>2. /\ skew' \in {skew, skew \cup {"copied"}} /\ forgotten' \in {forgotten, forgotten \cup {p}}
        /\ cmds' \in 0..MaxCmds
        /\ UNCHANGED <<up, poisoned, disk, chan, received, made, clock, edits, crashes>>
    BY <1>0, <2>1 DEF Forget, Command, Issued
  <2>3. tool' \in ToolCall \cup {Nil}
    BY <2>1 DEF ToolCall
  <2> QED BY <2>2, <2>3 DEF VType
<1>12. ASSUME NEW a \in Callers, NEW stem \in Names \X {0}, RawWrite(a, stem)
       PROVE  VType'
  <2>1. /\ cmds' \in 0..MaxCmds /\ chan' = TRUE /\ skew' \in {skew, skew \cup {"stripped"}}
        /\ disk' \in Disks
        /\ UNCHANGED <<up, poisoned, reg, links, received, tool, forgotten, made, clock, edits, crashes>>
    BY <1>0, <1>12, RawWriteIs DEF Puts
  <2> QED BY <2>1 DEF VType
<1>13. ASSUME NEW pre \in {10, 100}, NEW w \in {1, 3}, Search(pre, 5, w)
       PROVE  VType'
  BY <1>0, <1>13 DEF VType, Search, Command, Issued
<1>14. CASE ToolWrite
  <2>1. /\ clock' \in Nat /\ chan' = TRUE /\ ToolNote \in Note
        /\ UNCHANGED <<up, poisoned, reg, links, received, forgotten, made, cmds, edits>>
    BY <1>0, <1>14, ToolWriteIs
  <2>2. CASE Wrote
    <3>1. tool \in [step : {"write", "index"}, path : Paths, read : Note \cup {Nil}, note : Note]
      BY <1>14, ToolIs DEF ToolWrite
    <3>2. tool' \in ToolCall
      BY <2>1, <2>2, <3>1 DEF ToolCall, Wrote
    <3>3. disk' \in Disks /\ skew' \in {skew, skew \cup {"raced"}} /\ crashes' = crashes
      BY <2>2 DEF Wrote, Puts
    <3> QED BY <2>1, <3>2, <3>3 DEF VType
  <2>3. CASE WroteShort
    <3>1. disk' \in Disks /\ skew' = skew \cup {"cut"} /\ crashes' \in 0..MaxCrashes /\ tool' = Nil
      BY <2>3, FailsType DEF WroteShort, Puts
    <3> QED BY <2>1, <3>1 DEF VType
  <2> QED BY <1>14, <2>2, <2>3, ToolWriteIs
<1>15. CASE ToolIndex
  <2>1. forgotten' \subseteq forgotten
    BY <1>15 DEF ToolIndex
  <2> QED BY <1>15, <2>1 DEF VType, ToolIndex, bound
<1>16. CASE ToolUnlink
  <2>1. tool' = Nil /\ UNCHANGED <<up, poisoned, reg, links, received, made, clock, bound>>
    BY <1>16, ToolUnlinkIs
  <2>2. /\ chan' \in {TRUE, chan} /\ skew' \in {skew, skew \cup {"raced"}} /\ disk' \in Disks
        /\ forgotten' \subseteq forgotten
    BY <1>16, ToolUnlinkIs DEF Unlinked, Puts, VType
  <2> QED BY <2>1, <2>2 DEF VType, bound
<1>17. CASE Edits
  <2>1. /\ disk' \in Disks /\ edits' \in 0..MaxEdits /\ cmds' \in 0..MaxCmds
        /\ skew' = skew \cup {"edited"} /\ chan' = up
        /\ UNCHANGED <<up, poisoned, reg, links, received, tool, forgotten, made, clock, crashes>>
    <3>1. \A k \in 1..MaxEdits : k \in 0..MaxEdits
      BY VaultAssumption
    <3> QED BY <1>17, <3>1, EditIs
  <2> QED BY <2>1 DEF VType
<1> QED BY <1>1, <1>2, <1>3, <1>4, <1>5, <1>6, <1>7, <1>8, <1>9, <1>10, <1>11, <1>12, <1>13, <1>14,
           <1>15, <1>16, <1>17 DEF VaultNext, Edits, Forgets

-----------------------------------------------------------------------------
(* Vault: the index agrees with itself.                                        *)

(* reg' is reg with note i at p.                                               *)
NowAt(i, p, agent, at) ==
  /\ RegistryOK(reg') /\ Registered(reg') = Registered(reg) \cup {i}
  /\ \A j \in NoteIds : /\ reg'.path[j] = IF j = i THEN p ELSE reg.path[j]
                        /\ reg'.agent[j] = IF j = i THEN agent ELSE reg.agent[j]
                        /\ reg'.updated[j] = IF j = i THEN at ELSE reg.updated[j]
  /\ LinksOK(links', Registered(reg'))

LEMMA ReindexedIs ==
  ASSUME VIndex, NEW i \in Registered(reg), NEW p \in Paths, NEW n \in Names \cup {Nil},
         NEW body \in SUBSET Raws, NEW caller, clock' \in Nat,
         Reindexed(i, reg.path[i], p, n, body, caller)
  PROVE  NowAt(i, p, reg.agent[i], clock')
<1> DEFINE r1 == MovePath(reg, i, p)
           r == [r1 EXCEPT !.updated[i] = clock']
           l == UpdateLinks(links, r, i, body, caller)
<1>1. i \in NoteIds /\ RegistryOK(reg) /\ reg \in Registry /\ LinksOK(links, Registered(reg))
  BY RegistryPaths DEF VIndex, RegistryOK
<1>2. RegistryOK(r1) /\ Registered(r1) = Registered(reg) /\ MovedTo(r1, reg, i, p)
  BY <1>1, MovePathOK
<1> HIDE DEF r1
<1>3. Dated(r, r1, i, r1.agent[i], clock')
  BY <1>2, TimeOK
<1>4. /\ RegistryOK(r) /\ Registered(r) = Registered(reg) /\ r.path = r1.path
      /\ r.agent = [r1.agent EXCEPT ![i] = r1.agent[i]]
      /\ r.updated = [r1.updated EXCEPT ![i] = clock']
  BY <1>2, <1>3 DEF Dated
<1> HIDE DEF r
<1>5. LinksOK(l, Registered(reg))
  BY <1>1, <1>4, UpdateLinksOK
<1> HIDE DEF l
<1>6. /\ r.path = [reg.path EXCEPT ![i] = p] /\ r.agent = reg.agent
      /\ r.updated = [reg.updated EXCEPT ![i] = clock']
  BY <1>1, <1>2, <1>4 DEF MovedTo, Registry
<1>7. Registered(reg) = Registered(reg) \cup {i}
  OBVIOUS
<1>8. CASE n = Nil
  <2>1. reg' = r /\ links' = l
    BY <1>8 DEF Reindexed, r, r1, l
  <2> QED BY <1>1, <1>4, <1>5, <1>6, <1>7, <2>1 DEF NowAt, Registry
<1>9. CASE n # Nil
  <2>1. reg' = UpdateName(r, i, <<n, 0>>)
        /\ links' = TryResolve(InvalidateName(l, reg.path[i][2]), <<n, 0>>, i)
    BY <1>9 DEF Reindexed, r, r1, l
  <2>2. <<n, 0>> \in Stems
    BY <1>9, PathsAre
  <2>3. /\ RegistryOK(reg') /\ Registered(reg') = Registered(r) /\ reg'.path = r.path
        /\ reg'.agent = r.agent /\ reg'.updated = r.updated
    BY <1>4, <2>1, <2>2, NameOK
  <2>4. LinksOK(InvalidateName(l, reg.path[i][2]), Registered(reg))
    BY <1>5, InvalidateNameOK
  <2>5. LinksOK(links', Registered(reg))
    BY <1>1, <2>1, <2>4, TryResolveOK
  <2> QED BY <1>1, <1>4, <1>6, <1>7, <2>3, <2>5 DEF NowAt, Registry
<1> QED BY <1>8, <1>9

LEMMA CreatedIs ==
  ASSUME VIndex, NEW i \in NoteIds, NEW p \in Paths, NEW a \in Agents, NEW stem \in Stems,
         NEW body \in SUBSET Raws, NEW at \in Nat,
         reg' = Register(reg, i, p, a, stem, at),
         links' = TryResolve(UpdateLinks(links, reg', i, body, a), stem, i)
  PROVE  NowAt(i, p, a, at)
<1>1. RegistryOK(reg) /\ LinksOK(links, Registered(reg)) /\ reg \in Registry
  BY DEF VIndex, RegistryOK
<1>2. RegistryOK(reg') /\ Registered(reg') = Registered(reg) \cup {i}
  BY <1>1, RegisterOK
<1>3. LinksOK(UpdateLinks(links, reg', i, body, a), Registered(reg'))
  <2> DEFINE q == reg'
  <2>1. RegistryOK(q) /\ Registered(reg) \subseteq Registered(q) /\ i \in Registered(q)
    BY <1>2
  <2> HIDE DEF q
  <2>2. LinksOK(UpdateLinks(links, q, i, body, a), Registered(q))
    BY <1>1, <2>1, UpdateLinksOK
  <2> QED BY <2>2 DEF q
<1>4. LinksOK(links', Registered(reg'))
  BY <1>2, <1>3, TryResolveOK
<1>5. \A j \in NoteIds : /\ reg'.path[j] = IF j = i THEN p ELSE reg.path[j]
                         /\ reg'.agent[j] = IF j = i THEN a ELSE reg.agent[j]
                         /\ reg'.updated[j] = IF j = i THEN at ELSE reg.updated[j]
  BY <1>1 DEF Register, Registry
<1> QED BY <1>2, <1>4, <1>5 DEF NowAt

LEMMA IndexSingleIs ==
  ASSUME VType, VIndex, NEW p \in Files(disk), IndexSingle(p)
  PROVE  NowAt(disk[p].id, p, disk[p].agent, disk[p].at)
<1> DEFINE m == disk[p]
           r == IF m.id \in Registered(reg)
                THEN UpdateName([MovePath(reg, m.id, p) EXCEPT !.agent[m.id] = m.agent,
                                                               !.updated[m.id] = m.at], m.id, p[2])
                ELSE Register(reg, m.id, p, m.agent, p[2], m.at)
           olds == IF reg.named[m.id] = {} THEN {p[2]} ELSE reg.named[m.id]
<1>1. /\ p \in Paths /\ p[2] \in Stems /\ m.id \in NoteIds /\ m.agent \in Agents /\ m.at \in Nat
      /\ m.links \in SUBSET Raws
  BY FilesAre, PathsAre DEF VType
<1>2. RegistryOK(reg) /\ LinksOK(links, Registered(reg)) /\ reg \in Registry
  BY DEF VIndex, RegistryOK
<1>3. reg' = r
  BY DEF IndexSingle
<1>4. PICK old \in olds :
        LET l == IF old = p[2] THEN links ELSE InvalidateName(links, old)
        IN links' = TryResolve(UpdateLinks(l, r, m.id, m.links, m.agent), p[2], m.id)
  BY DEF IndexSingle
<1> DEFINE l == IF old = p[2] THEN links ELSE InvalidateName(links, old)
<1>5. links' = TryResolve(UpdateLinks(l, r, m.id, m.links, m.agent), p[2], m.id)
  BY <1>4
<1>6. LinksOK(l, Registered(reg))
  BY <1>2, InvalidateNameOK
<1> HIDE DEF m, olds, l
<1>7. /\ RegistryOK(r) /\ Registered(r) = Registered(reg) \cup {m.id}
      /\ \A j \in NoteIds : /\ r.path[j] = IF j = m.id THEN p ELSE reg.path[j]
                            /\ r.agent[j] = IF j = m.id THEN m.agent ELSE reg.agent[j]
                            /\ r.updated[j] = IF j = m.id THEN m.at ELSE reg.updated[j]
  <2>1. CASE m.id \in Registered(reg)
    <3> DEFINE r1 == MovePath(reg, m.id, p)
               r2 == [r1 EXCEPT !.agent[m.id] = m.agent, !.updated[m.id] = m.at]
    <3>1. r = UpdateName(r2, m.id, p[2])
      BY <2>1
    <3> HIDE DEF r
    <3>2. RegistryOK(r1) /\ Registered(r1) = Registered(reg) /\ MovedTo(r1, reg, m.id, p)
      BY <1>1, <1>2, <2>1, MovePathOK
    <3> HIDE DEF r1
    <3>3. /\ RegistryOK(r2) /\ Registered(r2) = Registered(r1) /\ r2.path = r1.path
          /\ r2.agent = [r1.agent EXCEPT ![m.id] = m.agent]
          /\ r2.updated = [r1.updated EXCEPT ![m.id] = m.at]
      <4>1. Dated(r2, r1, m.id, m.agent, m.at)
        BY <1>1, <2>1, <3>2, OwnerOK
      <4> QED BY <4>1 DEF Dated
    <3> HIDE DEF r2
    <3>4. /\ RegistryOK(r) /\ Registered(r) = Registered(r2) /\ r.path = r2.path
          /\ r.agent = r2.agent /\ r.updated = r2.updated
      BY <1>1, <2>1, <3>1, <3>2, <3>3, NameOK
    <3>5. /\ r1.path = [reg.path EXCEPT ![m.id] = p] /\ r1.agent = reg.agent /\ r1.updated = reg.updated
      BY <3>2 DEF MovedTo
    <3>6. Registered(r) = Registered(reg) \cup {m.id}
      BY <2>1, <3>2, <3>3, <3>4
    <3> QED BY <1>1, <1>2, <3>3, <3>4, <3>5, <3>6 DEF Registry
  <2>2. CASE m.id \notin Registered(reg)
    <3>1. r = Register(reg, m.id, p, m.agent, p[2], m.at)
      BY <2>2
    <3> HIDE DEF r
    <3>2. RegistryOK(r) /\ Registered(r) = Registered(reg) \cup {m.id}
      BY <1>1, <1>2, <3>1, RegisterOK
    <3> QED BY <1>1, <1>2, <3>1, <3>2 DEF Register, Registry
  <2> QED BY <2>1, <2>2
<1> HIDE DEF r
<1>8. LinksOK(UpdateLinks(l, r, m.id, m.links, m.agent), Registered(r))
  BY <1>1, <1>6, <1>7, UpdateLinksOK
<1>9. LinksOK(links', Registered(r))
  BY <1>1, <1>5, <1>7, <1>8, TryResolveOK
<1>10. NowAt(m.id, p, m.agent, m.at)
  BY <1>3, <1>7, <1>9 DEF NowAt
<1> QED BY <1>10 DEF m

LEMMA VIndexStep ==
  ASSUME VType, VIndex, VaultNext
  PROVE  VIndex'
<1>1. ASSUME Rebuild
      PROVE  VIndex'
  BY <1>1, RebuildIs DEF VIndex, Knows
<1>2. ASSUME UNCHANGED <<reg, links>>
      PROVE  VIndex'
  BY <1>2 DEF VIndex
<1>3. ASSUME Stops
      PROVE  VIndex'
  BY <1>3, EmptyOK DEF VIndex, Stops
<1>4. ASSUME NEW i, NEW p, NEW a, NEW at, NowAt(i, p, a, at)
      PROVE  VIndex'
  BY <1>4 DEF VIndex, NowAt
<1>5. ASSUME NEW i \in NoteIds, reg' = Unregister(reg, i), links' = RemoveLinks(links, i)
      PROVE  VIndex'
  BY <1>5, UnregisterOK, RemoveLinksOK DEF VIndex
<1>6. CASE Start \/ RebuildIndex
  BY <1>1, <1>6 DEF Start, RebuildIndex
<1>7. CASE ProcessEvents
  BY <1>1, <1>2, <1>7 DEF ProcessEvents
<1>8. CASE Receive \/ ToolWrite \/ ToolUnlink
  BY <1>2, <1>8 DEF Receive, ToolWrite, ToolUnlink
<1>9. CASE Fail
  BY <1>3, <1>9 DEF Fail
<1>10. ASSUME NEW a \in Callers, NEW shared \in BOOLEAN, NEW n \in Names, NEW body \in Bodies,
             CreateNote(a, shared, n, body)
      PROVE  VIndex'
  <2>1. PICK p \in Paths : Makes(a, shared, n, body, p) \/ Cuts(p, MadeNote(a, shared, body))
    BY <1>10, CreateIs
  <2>2. made + 1 \in NoteIds /\ a \in Agents /\ body \in SUBSET Raws /\ <<n, 0>> \in Stems
        /\ clock' = clock + 1
    BY <1>10, CreateIs
  <2>3. clock' \in Nat
    BY <2>2 DEF VType
  <2>4. CASE Makes(a, shared, n, body, p)
    <3>1. NowAt(made + 1, p, a, clock')
      BY <2>2, <2>3, <2>4, CreatedIs DEF Makes
    <3> QED BY <1>4, <3>1
  <2>5. CASE Cuts(p, MadeNote(a, shared, body))
    BY <1>2, <1>3, <2>5 DEF Cuts
  <2> QED BY <2>1, <2>4, <2>5
<1>11. ASSUME NEW i \in NoteIds, NEW caller \in Callers, NEW n \in Names \cup {Nil}, NEW body \in Bodies,
             UpdateNote(i, caller, n, body)
      PROVE  VIndex'
  <2>1. PICK p \in Paths : Done(i, p, n, body, caller) \/ Twice(i, p, body) \/ CutsAt(i, p, body)
    BY <1>11, UpdateIs
  <2>2. CASE Done(i, p, n, body, caller)
    <3>1. i \in Registered(reg) /\ clock' = clock + 1 /\ body \in SUBSET Raws
      BY <1>11, UpdateIs, PathsAre
    <3>2. clock' \in Nat
      BY <3>1 DEF VType
    <3>3. NowAt(i, p, reg.agent[i], clock')
      BY <2>2, <3>1, <3>2, ReindexedIs DEF Done
    <3> QED BY <1>4, <3>3
  <2>3. CASE Twice(i, p, body)
    BY <1>2, <1>3, <2>3 DEF Twice
  <2>4. CASE CutsAt(i, p, body)
    BY <1>2, <1>3, <2>4 DEF CutsAt, Cuts
  <2> QED BY <2>1, <2>2, <2>3, <2>4
<1>12. ASSUME NEW i \in NoteIds, NEW caller \in Callers \cup {"user"}, DeleteNote(i, caller)
      PROVE  VIndex'
  BY <1>5, <1>12 DEF DeleteNote
<1>13. ASSUME NEW i \in NoteIds, NEW a \in Agents, ArchiveNote(i, a)
      PROVE  VIndex'
  <2> DEFINE to == <<<<a, "archive">>, reg.path[i][2]>>
  <2>1. i \in Registered(reg) /\ to \in Paths /\ reg' = MovePath(reg, i, to) /\ links' = links
    BY <1>13, ArchiveIs
  <2> HIDE DEF to
  <2>2. RegistryOK(reg') /\ Registered(reg') = Registered(reg)
    BY <2>1, MovePathOK DEF VIndex
  <2> QED BY <2>1, <2>2 DEF VIndex
<1>14. ASSUME NEW a \in Callers, NEW stem \in Names \X {0}, NEW body \in Bodies,
              ToolWriteRead(a, stem, body)
       PROVE  VIndex'
  BY <1>2, <1>14 DEF ToolWriteRead
<1>15. CASE Forgets
  <2>1. PICK p \in Paths : Forget(p)
    BY <1>15, ForgetsIs
  <2> DEFINE i == reg.at[p]
  <2>2. CASE i = Nil
    BY <1>2, <2>1, <2>2 DEF Forget
  <2>3. CASE i # Nil
    <3>1. i \in NoteIds
      BY <2>3 DEF VIndex, RegistryOK, Registry
    <3>2. links' = RemoveLinks(links, i) /\ reg' = Unregister(reg, i)
      BY <2>1, <2>3 DEF Forget
    <3> HIDE DEF i
    <3> QED BY <1>5, <3>1, <3>2
  <2> QED BY <2>2, <2>3
<1>16. ASSUME NEW a \in Callers, NEW stem \in Names \X {0}, RawWrite(a, stem)
       PROVE  VIndex'
  BY <1>2, <1>16 DEF RawWrite
<1>17. ASSUME NEW pre \in {10, 100}, NEW w \in {1, 3}, Search(pre, 5, w)
       PROVE  VIndex'
  BY <1>2, <1>17 DEF Search
<1>18. CASE ToolIndex
  <2>1. CASE ~poisoned /\ IsNote(disk, tool.path)
    <3>1. IndexSingle(tool.path) /\ tool # Nil
      BY <1>18, <2>1 DEF ToolIndex
    <3>2. tool.path \in Files(disk)
      BY <2>1, <3>1, ToolIs DEF Files
    <3> QED BY <1>4, <3>1, <3>2, IndexSingleIs
  <2>2. CASE ~(~poisoned /\ IsNote(disk, tool.path))
    BY <1>2, <1>18, <2>2 DEF ToolIndex
  <2> QED BY <2>1, <2>2
<1>19. CASE Edits
  BY <1>2, <1>19, EditIs
<1> QED BY <1>6, <1>7, <1>8, <1>9, <1>10, <1>11, <1>12, <1>13, <1>14,
           <1>15, <1>16, <1>17, <1>18, <1>19 DEF VaultNext, Edits, Forgets

-----------------------------------------------------------------------------
(* Vault: the index is exact.                                                  *)

(* VExact for a registry, files and a tool call.                               *)
LEMMA RebuiltExact ==
  ASSUME VType, Rebuild, disk' = disk
  PROVE  VExact'
<1>1. Knows(reg', disk)
  BY RebuildIs
<1>2. \A i \in Registered(reg') :
        /\ reg'.path[i] \in Files(disk) /\ disk[reg'.path[i]].id = i
        /\ disk[reg'.path[i]].agent = reg'.agent[i]
        /\ disk[reg'.path[i]].at = reg'.updated[i]
  BY <1>1 DEF Knows
<1>3. \A p \in Files(disk) : disk[p].id \in Registered(reg')
  BY <1>1 DEF Knows, OnDisk
<1>4. \A p \in Files(disk) : IsNote(disk, p)
  BY DEF Files
<1> QED BY <1>2, <1>3, <1>4 DEF VExact

(* The entry of a note of the index, and the file of a note.                   *)
EntryExact(i) ==
  /\ IsNote(disk, reg.path[i]) /\ disk[reg.path[i]].id = i
  /\ disk[reg.path[i]].agent = reg.agent[i]
  /\ disk[reg.path[i]].at = reg.updated[i] \/ Indexing(i)
FileKnown(p) == \/ disk[p].id \in Registered(reg)
                \/ tool # Nil /\ tool.step # "unlink" /\ tool.path = p
                \/ p \in forgotten

LEMMA VExactIs ==
  VExact <=> (up /\ skew = {} => /\ \A i \in Registered(reg) : EntryExact(i)
                                 /\ \A p \in Files(disk) : FileKnown(p))
  BY DEF VExact, EntryExact, FileKnown

(* A note is written at p, where there was none or the note itself, and from   *)
(* there the index knows it; its old file, if any, is gone.                    *)
Written(p, m, old) ==
  /\ disk' \in Disks /\ (p = old \/ disk[p] = Nil)
  /\ \A x \in Paths : disk'[x] = IF x = p THEN m ELSE IF x = old THEN Nil ELSE disk[x]
  /\ \A j \in Registered(reg) \ {m.id} : reg.path[j] # old

LEMMA WrittenExact ==
  ASSUME VType, VIndex, VExact, up, skew = {}, tool' = tool, forgotten' = forgotten, NEW p \in Paths, NEW m \in Note, NEW old,
         NowAt(m.id, p, m.agent, m.at), Written(p, m, old)
  PROVE  VExact'
<1> DEFINE i == m.id
<1>0. /\ i \in NoteIds /\ NowAt(i, p, m.agent, m.at)
      /\ disk' \in Disks /\ (p = old \/ disk[p] = Nil)
      /\ \A x \in Paths : disk'[x] = IF x = p THEN m ELSE IF x = old THEN Nil ELSE disk[x]
      /\ \A j \in Registered(reg) \ {i} : reg.path[j] # old
      /\ m.id = i
  BY DEF Written, Note
<1> HIDE DEF i
<1>1. m # Nil /\ m # Broken
  BY FileAssumption
<1>2. ASSUME NEW j \in Registered(reg)'
      PROVE  EntryExact(j)'
  <2>1. CASE j = i
    <3>1. reg'.path[j] = p /\ reg'.agent[j] = m.agent /\ reg'.updated[j] = m.at /\ disk'[p] = m
      BY <1>0, <2>1 DEF NowAt
    <3> QED BY <1>1, <2>1, <3>1, <1>0 DEF EntryExact, IsNote
  <2>2. CASE j # i
    <3>1. j \in Registered(reg) /\ j \in NoteIds
      BY <1>0, <2>2 DEF NowAt, Registered
    <3>2. reg'.path[j] = reg.path[j] /\ reg'.agent[j] = reg.agent[j] /\ reg'.updated[j] = reg.updated[j]
      BY <1>0, <2>2, <3>1 DEF NowAt
    <3>3. EntryExact(j) /\ reg.path[j] \in Paths
      BY <3>1, VExactIs, RegistryPaths DEF VIndex
    <3>4. reg.path[j] # old /\ reg.path[j] # p
      BY <1>0, <2>2, <3>1, <3>3 DEF EntryExact, IsNote
    <3>5. disk'[reg.path[j]] = disk[reg.path[j]]
      BY <1>0, <3>3, <3>4
    <3> QED BY <3>2, <3>3, <3>5 DEF EntryExact, IsNote, Indexing
  <2> QED BY <2>1, <2>2
<1>3. ASSUME NEW x \in Files(disk)'
      PROVE  FileKnown(x)'
  <2>1. x \in Paths /\ IsNote(disk, x)'
    BY DEF Files
  <2>2. CASE x = p
    BY <1>0, <2>1, <2>2 DEF FileKnown, NowAt
  <2>3. CASE x # p
    <3>1. x # old /\ disk'[x] = disk[x]
      BY <1>0, <2>1, <2>3 DEF IsNote
    <3>2. x \in Files(disk)
      BY <2>1, <3>1 DEF Files, IsNote
    <3>3. FileKnown(x)
      BY <3>2, VExactIs
    <3> QED BY <1>0, <3>1, <3>3 DEF FileKnown, NowAt
  <2> QED BY <2>2, <2>3
<1> QED BY <1>2, <1>3 DEF VExact, EntryExact, FileKnown

(* A write that was cut is recorded, or the program stopped.                   *)
LEMMA CutsAreSeen ==
  ASSUME NEW p, NEW m, Cuts(p, m)
  PROVE  skew' # {} \/ ~up'
  BY DEF Cuts, Stops

LEMMA SkewStays ==
  ASSUME VType, VaultNext, skew' = {}, up', ~(Rebuild /\ disk' = disk)
  PROVE  up /\ skew = {}
<1>1. CASE Start \/ RebuildIndex \/ Receive \/ Fail \/ ProcessEvents
  BY <1>1 DEF Start, RebuildIndex, Receive, Fail, Stops, ProcessEvents
<1>2. ASSUME NEW a \in Callers, NEW shared \in BOOLEAN, NEW n \in Names, NEW body \in Bodies,
             CreateNote(a, shared, n, body)
      PROVE  up /\ skew = {}
  <2>1. PICK p \in Paths : Makes(a, shared, n, body, p) \/ Cuts(p, MadeNote(a, shared, body))
    BY <1>2, CreateIs
  <2>2. up
    BY <1>2, CreateIs
  <2>3. Makes(a, shared, n, body, p)
    BY <2>1, CutsAreSeen
  <2> QED BY <2>2, <2>3 DEF Makes
<1>3. ASSUME NEW i \in NoteIds, NEW caller \in Callers, NEW n \in Names \cup {Nil}, NEW body \in Bodies,
             UpdateNote(i, caller, n, body)
      PROVE  up /\ skew = {}
  <2>1. up
    BY <1>3 DEF UpdateNote, Command, Issued
  <2>2. skew' = skew \/ skew' = skew \cup {"copied"}
    BY <1>3 DEF UpdateNote, CutWrite, Stops
  <2> QED BY <2>1, <2>2
<1>4. ASSUME NEW i \in NoteIds, NEW caller \in Callers \cup {"user"}, DeleteNote(i, caller)
      PROVE  up /\ skew = {}
  BY <1>4 DEF DeleteNote, Command, Issued
<1>5. ASSUME NEW i \in NoteIds, NEW a \in Agents, ArchiveNote(i, a)
      PROVE  up /\ skew = {}
  BY <1>5 DEF ArchiveNote, Command, Issued
<1>6. ASSUME NEW a \in Callers, NEW stem \in Names \X {0}, NEW body \in Bodies,
              ToolWriteRead(a, stem, body)
       PROVE  up /\ skew = {}
  BY <1>6 DEF ToolWriteRead, Command, Issued
<1>7. ASSUME NEW a \in Callers, NEW stem \in Names \X {0}, RawWrite(a, stem)
       PROVE  up /\ skew = {}
  BY <1>7 DEF RawWrite, Command, Issued
<1>11. CASE Forgets
  BY <1>11, ForgetsIs DEF Forget, Command, Issued
<1>8. ASSUME NEW pre \in {10, 100}, NEW w \in {1, 3}, Search(pre, 5, w)
       PROVE  up /\ skew = {}
  BY <1>8 DEF Search, Command, Issued
<1>9. CASE ToolWrite \/ ToolIndex \/ ToolUnlink
  BY <1>9 DEF ToolWrite, ToolIndex, ToolUnlink
<1>10. CASE Edits
  BY <1>10, EditIs
<1> QED BY <1>1, <1>2, <1>3, <1>4, <1>5, <1>6, <1>7, <1>8, <1>9, <1>10,
           <1>11 DEF VaultNext, Edits, Forgets

LEMMA CreateExact ==
  ASSUME VType, VIndex, VExact, up, skew = {}, up', skew' = {},
         NEW a \in Callers, NEW shared \in BOOLEAN, NEW n \in Names, NEW body \in Bodies,
         CreateNote(a, shared, n, body)
  PROVE  VExact'
<1> DEFINE m == MadeNote(a, shared, body)
<1>1. /\ made + 1 \in NoteIds /\ clock' = clock + 1 /\ a \in Agents /\ body \in SUBSET Raws /\ m \in Note
      /\ <<n, 0>> \in Stems
  BY CreateIs
<1>2. PICK p \in Paths : disk[p] = Nil /\ Makes(a, shared, n, body, p)
  BY CreateIs, CutsAreSeen
<1>8. tool' = tool /\ forgotten' = forgotten
  BY <1>2 DEF Makes, Runs
<1>3. clock' \in Nat /\ m.id = made + 1 /\ m.agent = a /\ m.at = clock'
  BY <1>1 DEF VType, MadeNote
<1> HIDE DEF m
<1>4. NowAt(made + 1, p, m.agent, m.at)
  BY <1>1, <1>2, <1>3, CreatedIs DEF Makes
<1>5. disk' \in Disks /\ \A x \in Paths : disk'[x] = IF x = p THEN m ELSE IF x = p THEN Nil ELSE disk[x]
  BY <1>2 DEF Makes, Puts, m
<1>6. \A j \in Registered(reg) \ {made + 1} : reg.path[j] # p
  <2>1. \A j \in Registered(reg) : EntryExact(j)
    BY VExactIs
  <2> QED BY <1>2, <2>1 DEF EntryExact, IsNote
<1>7. Written(p, m, p) /\ NowAt(m.id, p, m.agent, m.at)
  BY <1>2, <1>3, <1>4, <1>5, <1>6 DEF Written
<1> QED BY <1>1, <1>7, <1>8, WrittenExact

LEMMA UpdateExact ==
  ASSUME VType, VIndex, VExact, up, skew = {}, up', skew' = {},
         NEW i \in NoteIds, NEW caller \in Callers, NEW n \in Names \cup {Nil}, NEW body \in Bodies,
         UpdateNote(i, caller, n, body)
  PROVE  VExact'
<1> DEFINE m == NewText(i, body)
           old == reg.path[i]
<1>1. /\ clock' = clock + 1 /\ i \in Registered(reg) /\ old \in Paths /\ IsNote(disk, old) /\ m \in Note
      /\ body \in SUBSET Raws
  BY UpdateIs, PathsAre
<1>2. PICK p \in Paths : Done(i, p, n, body, caller) \/ Twice(i, p, body) \/ CutsAt(i, p, body)
  BY UpdateIs
<1>3. ~Twice(i, p, body) /\ ~CutsAt(i, p, body)
  BY CutsAreSeen DEF Twice, CutsAt, Stops
<1>4. Done(i, p, n, body, caller)
  BY <1>2, <1>3
<1>5. clock' \in Nat
  BY <1>1 DEF VType
<1>6. NowAt(i, p, reg.agent[i], clock')
  BY <1>1, <1>4, <1>5, ReindexedIs DEF Done
<1>7. disk[old] \in Note /\ disk[old].id = i /\ disk[old].agent = reg.agent[i]
  BY <1>1, VExactIs DEF EntryExact, VType, Disks, IsNote
<1>8. m.id = i /\ m.agent = reg.agent[i] /\ m.at = clock'
  BY <1>7 DEF NewText, Note
<1>9. \A j \in Registered(reg) \ {i} : reg.path[j] # old
  BY <1>7, VExactIs DEF EntryExact
<1> HIDE DEF m
<1>10. NowAt(i, p, m.agent, m.at)
  BY <1>6, <1>8
<1>11. /\ disk' \in Disks /\ (p = old \/ disk[p] = Nil) /\ tool' = tool /\ forgotten' = forgotten
       /\ \A x \in Paths : disk'[x] = IF x = p THEN m ELSE IF x = old THEN Nil ELSE disk[x]
  BY <1>4 DEF Done, Runs, m
<1> HIDE DEF old
<1>12. Written(p, m, old) /\ NowAt(m.id, p, m.agent, m.at)
  BY <1>8, <1>9, <1>10, <1>11 DEF Written
<1> QED BY <1>1, <1>11, <1>12, WrittenExact

LEMMA DeleteExact ==
  ASSUME VType, VIndex, VExact, up, skew = {}, skew' = {},
         NEW i \in NoteIds, NEW caller, DeleteNote(i, caller)
  PROVE  VExact'
<1> DEFINE p == reg.path[i]
<1>1. /\ i \in Registered(reg) /\ p \in Paths /\ Puts(disk', disk, p, Nil) /\ tool' = tool /\ forgotten' = forgotten
      /\ reg' = Unregister(reg, i) /\ i \notin OnDisk(disk')
  BY DeleteIs DEF Runs
<1>2. disk' \in Disks /\ \A x \in Paths : disk'[x] = IF x = p THEN Nil ELSE disk[x]
  BY <1>1 DEF Puts
<1>3. \A j \in Registered(reg) : EntryExact(j) /\ reg.path[j] \in Paths
  BY VExactIs, RegistryPaths DEF VIndex
<1>4. reg \in Registry
  BY DEF VIndex, RegistryOK
<1>5. Registered(reg') = Registered(reg) \ {i}
  BY <1>1, UnregisterOK DEF VIndex
<1>6. \A j \in NoteIds \ {i} : /\ reg'.path[j] = reg.path[j] /\ reg'.agent[j] = reg.agent[j]
                              /\ reg'.updated[j] = reg.updated[j]
  BY <1>1, <1>4 DEF Unregister, Registry
<1>7. disk[p].id = i
  BY <1>1, <1>3 DEF EntryExact
<1> HIDE DEF p
<1>8. ASSUME NEW j \in Registered(reg)'
      PROVE  EntryExact(j)'
  <2>1. j \in Registered(reg) /\ j \in NoteIds \ {i}
    BY <1>5 DEF Registered
  <2>2. EntryExact(j) /\ reg.path[j] \in Paths
    BY <1>3, <2>1
  <2>3. reg.path[j] # p
    BY <1>7, <2>1, <2>2 DEF EntryExact
  <2>4. disk'[reg.path[j]] = disk[reg.path[j]]
    BY <1>2, <2>2, <2>3
  <2>5. reg'.path[j] = reg.path[j] /\ reg'.agent[j] = reg.agent[j] /\ reg'.updated[j] = reg.updated[j]
    BY <1>6, <2>1
  <2> QED BY <1>1, <2>2, <2>4, <2>5 DEF EntryExact, IsNote, Indexing
<1>9. ASSUME NEW x \in Files(disk)'
      PROVE  FileKnown(x)'
  <2>1. x \in Paths /\ IsNote(disk, x)'
    BY DEF Files
  <2>2. disk'[x] = disk[x]
    BY <1>2, <2>1 DEF IsNote
  <2>3. x \in Files(disk)
    BY <2>1, <2>2 DEF Files, IsNote
  <2>4. FileKnown(x)
    BY <2>3, VExactIs
  <2>5. disk'[x].id # i
    BY <1>1 DEF OnDisk
  <2> QED BY <1>1, <1>5, <2>2, <2>4, <2>5 DEF FileKnown
<1> QED BY <1>8, <1>9 DEF VExact, EntryExact, FileKnown

LEMMA ArchiveExact ==
  ASSUME VType, VIndex, VExact, up, skew = {}, skew' = {},
         NEW i \in NoteIds, NEW a \in Agents, ArchiveNote(i, a)
  PROVE  VExact'
<1> DEFINE p == reg.path[i]
           to == <<<<a, "archive">>, p[2]>>
<1>1. /\ i \in Registered(reg) /\ p \in Paths /\ to \in Paths /\ p # to /\ tool' = tool /\ forgotten' = forgotten
      /\ disk' \in Disks /\ disk[to] = Nil /\ reg' = MovePath(reg, i, to)
      /\ \A x \in Paths : disk'[x] = IF x = to THEN disk[p] ELSE IF x = p THEN Nil ELSE disk[x]
  BY ArchiveIs DEF Runs
<1>2. \A j \in Registered(reg) : EntryExact(j) /\ reg.path[j] \in Paths
  BY VExactIs, RegistryPaths DEF VIndex
<1> HIDE DEF p, to
<1>3. RegistryOK(reg') /\ Registered(reg') = Registered(reg) /\ MovedTo(reg', reg, i, to)
  BY <1>1, MovePathOK DEF VIndex
<1>4. \A j \in NoteIds : /\ reg'.path[j] = IF j = i THEN to ELSE reg.path[j]
                        /\ reg'.agent[j] = reg.agent[j] /\ reg'.updated[j] = reg.updated[j]
  BY <1>3 DEF MovedTo, VIndex, RegistryOK, Registry
<1>5. IsNote(disk, p) /\ disk[p].id = i /\ disk[p].agent = reg.agent[i]
      /\ (disk[p].at = reg.updated[i] \/ Indexing(i))
  BY <1>1, <1>2 DEF EntryExact, p
<1>6. ASSUME NEW j \in Registered(reg)'
      PROVE  EntryExact(j)'
  <2>1. j \in Registered(reg) /\ j \in NoteIds
    BY <1>3 DEF Registered
  <2>2. CASE j = i
    <3>1. reg'.path[j] = to /\ disk'[to] = disk[p] /\ reg'.agent[j] = reg.agent[j]
          /\ reg'.updated[j] = reg.updated[j]
      BY <1>1, <1>4, <2>1, <2>2
    <3> QED BY <1>1, <1>5, <2>2, <3>1 DEF EntryExact, IsNote, Indexing
  <2>3. CASE j # i
    <3>1. EntryExact(j) /\ reg.path[j] \in Paths
      BY <1>2, <2>1
    <3>2. reg.path[j] # p /\ reg.path[j] # to
      BY <1>1, <1>5, <2>3, <3>1 DEF EntryExact, IsNote
    <3>3. disk'[reg.path[j]] = disk[reg.path[j]]
      BY <1>1, <3>1, <3>2
    <3>4. reg'.path[j] = reg.path[j] /\ reg'.agent[j] = reg.agent[j] /\ reg'.updated[j] = reg.updated[j]
      BY <1>4, <2>1, <2>3
    <3> QED BY <1>1, <3>1, <3>3, <3>4 DEF EntryExact, IsNote, Indexing
  <2> QED BY <2>2, <2>3
<1>7. ASSUME NEW x \in Files(disk)'
      PROVE  FileKnown(x)'
  <2>1. x \in Paths /\ IsNote(disk, x)'
    BY DEF Files
  <2>2. CASE x = to
    <3>1. disk'[x] = disk[p]
      BY <1>1, <2>2
    <3> QED BY <1>1, <1>3, <1>5, <3>1 DEF FileKnown
  <2>3. CASE x # to
    <3>1. disk'[x] = disk[x]
      BY <1>1, <2>1, <2>3 DEF IsNote
    <3>2. x \in Files(disk)
      BY <2>1, <3>1 DEF Files, IsNote
    <3>3. FileKnown(x)
      BY <3>2, VExactIs
    <3> QED BY <1>1, <1>3, <3>1, <3>3 DEF FileKnown
  <2> QED BY <2>2, <2>3
<1> QED BY <1>6, <1>7 DEF VExact, EntryExact, FileKnown

LEMMA ForgetExact ==
  ASSUME VType, VIndex, VExact, up, skew = {}, skew' = {}, NEW p \in Paths, Forget(p),
         tool' = Nil \/ tool' = [step |-> "unlink", path |-> p, read |-> Nil, note |-> Nil]
  PROVE  VExact'
<1> DEFINE i == reg.at[p]
<1>1. /\ tool = Nil /\ disk' = disk
      /\ skew' = skew \cup (IF i # Nil /\ FilesOfNote(disk, i) # {p} THEN {"copied"} ELSE {})
      /\ IF i = Nil THEN UNCHANGED <<reg, links, forgotten>>
         ELSE links' = RemoveLinks(links, i) /\ reg' = Unregister(reg, i) /\ forgotten' = forgotten \cup {p}
  BY DEF Forget, Idle
<1>3. \A j \in Registered(reg) : EntryExact(j)
  BY VExactIs
<1>4. \A x \in Files(disk) : disk[x].id \in Registered(reg) \/ x \in forgotten
  BY <1>1, VExactIs DEF FileKnown
<1>5. \A j : ~Indexing(j)
  BY <1>1 DEF Indexing
<1>6. CASE i = Nil
  <2>1. UNCHANGED <<reg, forgotten>>
    BY <1>1, <1>6
  <2> QED BY <1>1, <1>3, <1>4, <1>5, <2>1 DEF VExact, EntryExact
<1>7. CASE i # Nil
  <2>1. i \in NoteIds
    BY <1>7 DEF VIndex, RegistryOK, Registry
  <2>2. reg' = Unregister(reg, i) /\ FilesOfNote(disk, i) = {p} /\ forgotten' = forgotten \cup {p}
    BY <1>1, <1>7
  <2> HIDE DEF i
  <2>3. Registered(reg') = Registered(reg) \ {i}
    BY <2>1, <2>2, UnregisterOK DEF VIndex
  <2>4. \A j \in NoteIds \ {i} : /\ reg'.path[j] = reg.path[j] /\ reg'.agent[j] = reg.agent[j]
                                /\ reg'.updated[j] = reg.updated[j]
    BY <2>1, <2>2 DEF Unregister, Registry, VIndex, RegistryOK
  <2>5. ASSUME NEW j \in Registered(reg)'
        PROVE  EntryExact(j)'
    <3>1. j \in Registered(reg) /\ j \in NoteIds \ {i}
      BY <2>3 DEF Registered
    <3> QED BY <1>1, <1>3, <1>5, <2>4, <3>1 DEF EntryExact, IsNote
  <2>6. ASSUME NEW x \in Files(disk)'
        PROVE  FileKnown(x)'
    <3>1. x \in Files(disk) /\ disk'[x] = disk[x]
      BY <1>1
    <3>2. CASE x = p
      BY <2>2, <3>2 DEF FileKnown
    <3>3. CASE x # p
      <4>1. disk[x].id # i
        BY <2>2, <3>1, <3>3 DEF FilesOfNote
      <4> QED BY <1>4, <2>2, <2>3, <3>1, <4>1 DEF FileKnown
    <3> QED BY <3>2, <3>3
  <2> QED BY <2>5, <2>6 DEF VExact, EntryExact, FileKnown
<1> QED BY <1>6, <1>7

LEMMA RawWriteExact ==
  ASSUME VType, VIndex, VExact, up, skew = {}, skew' = {},
         NEW a \in Callers, NEW stem \in Names \X {0}, RawWrite(a, stem)
  PROVE  VExact'
<1> DEFINE p == <<<<a, "notes">>, stem>>
<1>1. p \in Paths /\ Puts(disk', disk, p, Broken) /\ ~IsNote(disk, p) /\ UNCHANGED <<reg, tool, forgotten>>
  BY RawWriteIs
<1> HIDE DEF p
<1>2. \A j \in Registered(reg) : EntryExact(j) /\ reg.path[j] \in Paths
  BY VExactIs, RegistryPaths DEF VIndex
<1>3. \A x \in Paths : IsNote(disk, x) \/ IsNote(disk, x)' => disk'[x] = disk[x]
  BY <1>1 DEF Puts, IsNote
<1>4. ASSUME NEW j \in Registered(reg)'
      PROVE  EntryExact(j)'
  <2>1. j \in Registered(reg) /\ reg' = reg /\ tool' = tool
    BY <1>1
  <2>2. EntryExact(j) /\ disk'[reg.path[j]] = disk[reg.path[j]]
    BY <1>2, <1>3, <2>1 DEF EntryExact
  <2> QED BY <2>1, <2>2 DEF EntryExact, IsNote, Indexing
<1>5. ASSUME NEW x \in Files(disk)'
      PROVE  FileKnown(x)'
  <2>1. x \in Files(disk) /\ disk'[x] = disk[x]
    BY <1>3 DEF Files, IsNote
  <2>2. FileKnown(x)
    BY <2>1, VExactIs
  <2> QED BY <1>1, <2>1, <2>2 DEF FileKnown
<1> QED BY <1>4, <1>5 DEF VExact, EntryExact, FileKnown

LEMMA ToolWriteExact ==
  ASSUME VType, VIndex, VExact, VTool, up, skew = {}, skew' = {}, ToolWrite
  PROVE  VExact'
<1> DEFINE p == tool.path
           m == ToolNote
<1>0. ~WroteShort
  BY DEF WroteShort
<1>1. /\ tool # Nil /\ tool.step = "write" /\ p \in Paths /\ m \in Note
      /\ m.id = tool.note.id /\ m.agent = tool.note.agent /\ Puts(disk', disk, p, m)
      /\ tool' = [tool EXCEPT !.step = "index", !.note = m] /\ disk[p] = tool.read
      /\ tool.read \in Note \cup {Nil} /\ reg' = reg /\ forgotten' = forgotten
  BY <1>0, ToolWriteIs DEF Wrote
<1>2. tool' # Nil /\ tool'.step = "index" /\ tool'.note = m /\ tool'.path = p
  <2>1. tool \in [step : {"write", "index"}, path : Paths, read : Note \cup {Nil}, note : Note]
    BY <1>1, ToolIs
  <2> HIDE DEF m
  <2>2. tool' \in ToolCall /\ tool'.step = "index" /\ tool'.note = m /\ tool'.path = p
    BY <1>1, <2>1 DEF ToolCall
  <2> QED BY <2>2, FileAssumption
<1>3. tool.read # Nil => tool.read.id = m.id /\ tool.read.agent = m.agent
  BY <1>1 DEF VTool
<1> HIDE DEF m, p
<1>4. \A j \in Registered(reg) : EntryExact(j) /\ reg.path[j] \in Paths
  BY VExactIs, RegistryPaths DEF VIndex
<1>5. \A x \in Paths : disk'[x] = IF x = p THEN m ELSE disk[x]
  BY <1>1 DEF Puts
<1>6. m # Nil /\ m # Broken
  BY <1>1, FileAssumption
<1>7. \A j : ~Indexing(j)
  BY <1>1 DEF Indexing
<1>8. ASSUME NEW j \in Registered(reg)'
      PROVE  EntryExact(j)'
  <2>1. j \in Registered(reg) /\ EntryExact(j) /\ reg.path[j] \in Paths /\ ~Indexing(j)
    BY <1>1, <1>4, <1>7
  <2>2. CASE reg.path[j] = p
    <3>1. disk'[p] = m /\ m.id = j /\ m.agent = reg.agent[j]
      BY <1>1, <1>3, <1>5, <2>1, <2>2 DEF EntryExact, IsNote
    <3>2. Indexing(j)'
      BY <1>2, <3>1 DEF Indexing
    <3> QED BY <1>1, <1>6, <2>2, <3>1, <3>2 DEF EntryExact, IsNote
  <2>3. CASE reg.path[j] # p
    <3>1. disk'[reg.path[j]] = disk[reg.path[j]]
      BY <1>5, <2>1, <2>3
    <3> QED BY <1>1, <2>1, <3>1 DEF EntryExact, IsNote
  <2> QED BY <2>2, <2>3
<1>9. ASSUME NEW x \in Files(disk)'
      PROVE  FileKnown(x)'
  <2>1. CASE x = p
    BY <1>2, <2>1 DEF FileKnown
  <2>2. CASE x # p
    <3>1. x \in Paths /\ IsNote(disk, x)'
      BY DEF Files
    <3>2. disk'[x] = disk[x]
      BY <1>5, <2>2, <3>1
    <3>3. x \in Files(disk)
      BY <3>1, <3>2 DEF Files, IsNote
    <3>4. FileKnown(x)
      BY <3>3, VExactIs
    <3>5. ~(tool.path = x)
      BY <2>2 DEF p
    <3> QED BY <1>1, <3>2, <3>4, <3>5 DEF FileKnown
  <2> QED BY <2>1, <2>2
<1> QED BY <1>8, <1>9 DEF VExact, EntryExact, FileKnown

LEMMA ToolIndexExact ==
  ASSUME VType, VIndex, VExact, up, skew = {}, skew' = {}, ToolIndex
  PROVE  VExact'
<1> DEFINE p == tool.path
           m == disk[p]
<1>1. /\ tool # Nil /\ tool.step = "index" /\ tool' = Nil /\ disk' = disk
      /\ ~poisoned /\ disk[p] = tool.note
  BY DEF ToolIndex
<1>2. p \in Paths /\ tool.note \in Note
  BY <1>1, ToolIs
<1>3. IsNote(disk, p) /\ p \in Files(disk)
  BY <1>1, <1>2, FileAssumption DEF IsNote, Files
<1>4. IndexSingle(p) /\ forgotten' = forgotten \ {p}
  BY <1>1, <1>3 DEF ToolIndex
<1>5. NowAt(m.id, p, m.agent, m.at)
  BY <1>3, <1>4, IndexSingleIs
<1>6. m.id = tool.note.id
  BY <1>1
<1> HIDE DEF p, m
<1>7. ASSUME NEW j \in Registered(reg)'
      PROVE  EntryExact(j)'
  <2>1. j \in NoteIds
    BY DEF Registered
  <2>2. CASE j = m.id
    <3>1. reg'.path[j] = p /\ reg'.agent[j] = m.agent /\ reg'.updated[j] = m.at
      BY <1>5, <2>1, <2>2 DEF NowAt
    <3> QED BY <1>1, <1>3, <2>2, <3>1 DEF EntryExact, IsNote, m
  <2>3. CASE j # m.id
    <3>1. reg'.path[j] = reg.path[j] /\ reg'.agent[j] = reg.agent[j] /\ reg'.updated[j] = reg.updated[j]
          /\ j \in Registered(reg)
      BY <1>5, <2>1, <2>3 DEF NowAt
    <3>2. EntryExact(j) /\ ~Indexing(j)
      BY <1>6, <2>3, <3>1, VExactIs DEF Indexing
    <3> QED BY <1>1, <3>1, <3>2 DEF EntryExact, IsNote
  <2> QED BY <2>2, <2>3
<1>8. ASSUME NEW x \in Files(disk)'
      PROVE  FileKnown(x)'
  <2>1. x \in Files(disk) /\ disk'[x] = disk[x]
    BY <1>1
  <2>2. FileKnown(x)
    BY <2>1, VExactIs
  <2>3. disk[x].id \in Registered(reg') \/ x \in forgotten'
    <3>1. CASE x = p
      BY <1>5, <3>1 DEF NowAt, m
    <3>2. CASE x # p
      BY <1>4, <1>5, <2>2, <3>2 DEF NowAt, FileKnown, p
    <3> QED BY <3>1, <3>2
  <2> QED BY <2>1, <2>3 DEF FileKnown
<1> QED BY <1>7, <1>8 DEF VExact, EntryExact, FileKnown

LEMMA ToolUnlinkExact ==
  ASSUME VType, VIndex, VExact, up, skew = {}, skew' = {}, ToolUnlink
  PROVE  VExact'
<1> DEFINE p == tool.path
<1>1. /\ tool # Nil /\ tool.step = "unlink" /\ p \in Paths /\ tool' = Nil /\ reg' = reg
      /\ Unlinked \/ UNCHANGED <<disk, chan, forgotten, skew>>
  BY ToolUnlinkIs
<1>2. \A j \in Registered(reg) : EntryExact(j) /\ reg.path[j] \in Paths /\ j \in NoteIds
  BY VExactIs, RegistryPaths DEF VIndex
<1>3. \A x \in Files(disk) : disk[x].id \in Registered(reg) \/ x \in forgotten
  BY <1>1, VExactIs DEF FileKnown
<1>4. \A j : ~Indexing(j)
  BY <1>1 DEF Indexing
<1>5. CASE UNCHANGED <<disk, chan, forgotten, skew>>
  BY <1>1, <1>2, <1>3, <1>4, <1>5 DEF VExact, EntryExact
<1>6. CASE Unlinked
  <2>1. \A i \in NoteIds : reg.path[i] # p
    BY <1>6 DEF Unlinked
  <2>2. forgotten' = forgotten \ {p} /\ \A x \in Paths : disk'[x] = IF x = p THEN Nil ELSE disk[x]
    BY <1>6 DEF Unlinked, Puts
  <2> HIDE DEF p
  <2>3. ASSUME NEW j \in Registered(reg)'
        PROVE  EntryExact(j)'
    <3>1. j \in Registered(reg) /\ EntryExact(j) /\ reg.path[j] \in Paths /\ reg.path[j] # p
      BY <1>1, <1>2, <2>1
    <3>2. disk'[reg.path[j]] = disk[reg.path[j]] /\ ~Indexing(j)
      BY <1>4, <2>2, <3>1
    <3> QED BY <1>1, <3>1, <3>2 DEF EntryExact, IsNote
  <2>4. ASSUME NEW x \in Files(disk)'
        PROVE  FileKnown(x)'
    <3>1. x \in Paths /\ IsNote(disk, x)'
      BY DEF Files
    <3>2. disk'[x] = disk[x] /\ x # p
      BY <2>2, <3>1 DEF IsNote
    <3>3. x \in Files(disk)
      BY <3>1, <3>2 DEF Files, IsNote
    <3>4. disk[x].id \in Registered(reg) \/ x \in forgotten
      BY <1>3, <3>3
    <3> QED BY <1>1, <2>2, <3>2, <3>4 DEF FileKnown
  <2> QED BY <2>3, <2>4 DEF VExact, EntryExact, FileKnown
<1> QED BY <1>1, <1>5, <1>6

(* The steps that leave the files and the index alone and end no tool call.    *)
LEMMA SameExact ==
  ASSUME VExact, up, skew = {}, UNCHANGED <<disk, reg, forgotten>>, tool' = tool \/ tool = Nil
  PROVE  VExact'
<1>1. \A j : Indexing(j) => Indexing(j)'
  BY DEF Indexing
<1>2. \A x : FileKnown(x) => FileKnown(x)'
  BY DEF FileKnown
<1>3. \A j : EntryExact(j) => EntryExact(j)'
  BY <1>1 DEF EntryExact, IsNote
<1> QED BY <1>2, <1>3, VExactIs DEF VExact, EntryExact, FileKnown

LEMMA VExactStep ==
  ASSUME VType, VIndex, VExact, VTool, VaultNext
  PROVE  VExact'
<1> SUFFICES ASSUME up', skew' = {} PROVE VExact'
  BY DEF VExact
<1>0. CASE Rebuild /\ disk' = disk
  BY <1>0, RebuiltExact
<1> SUFFICES ASSUME ~(Rebuild /\ disk' = disk) PROVE VExact'
  BY <1>0
<1>1. up /\ skew = {}
  BY SkewStays
<1>2. CASE Start \/ RebuildIndex
  BY <1>2 DEF Start, RebuildIndex
<1>3. CASE Receive \/ ProcessEvents
  <2>1. UNCHANGED <<disk, reg, tool, forgotten>>
    BY <1>3 DEF Receive, ProcessEvents
  <2> QED BY <1>1, <2>1, SameExact
<1>4. CASE Fail
  BY <1>4 DEF Fail, Stops
<1>5. ASSUME NEW a \in Callers, NEW shared \in BOOLEAN, NEW n \in Names, NEW body \in Bodies,
             CreateNote(a, shared, n, body)
      PROVE  VExact'
  BY <1>1, <1>5, CreateExact
<1>6. ASSUME NEW i \in NoteIds, NEW caller \in Callers, NEW n \in Names \cup {Nil}, NEW body \in Bodies,
             UpdateNote(i, caller, n, body)
      PROVE  VExact'
  BY <1>1, <1>6, UpdateExact
<1>7. ASSUME NEW i \in NoteIds, NEW caller \in Callers \cup {"user"}, DeleteNote(i, caller)
      PROVE  VExact'
  BY <1>1, <1>7, DeleteExact
<1>8. ASSUME NEW i \in NoteIds, NEW a \in Agents, ArchiveNote(i, a)
      PROVE  VExact'
  BY <1>1, <1>8, ArchiveExact
<1>9. ASSUME NEW a \in Callers, NEW stem \in Names \X {0}, NEW body \in Bodies,
              ToolWriteRead(a, stem, body)
       PROVE  VExact'
  <2>1. UNCHANGED <<disk, reg, forgotten>> /\ tool = Nil
    BY <1>9 DEF ToolWriteRead, Idle
  <2> QED BY <1>1, <2>1, SameExact
<1>10. CASE Forgets
  <2>1. PICK p \in Paths :
          /\ Forget(p)
          /\ tool' = Nil \/ tool' = [step |-> "unlink", path |-> p, read |-> Nil, note |-> Nil]
    BY <1>10, ForgetsIs
  <2> QED BY <1>1, <2>1, ForgetExact
<1>11. ASSUME NEW a \in Callers, NEW stem \in Names \X {0}, RawWrite(a, stem)
       PROVE  VExact'
  BY <1>1, <1>11, RawWriteExact
<1>12. ASSUME NEW pre \in {10, 100}, NEW w \in {1, 3}, Search(pre, 5, w)
       PROVE  VExact'
  <2>1. UNCHANGED <<disk, reg, tool, forgotten>>
    BY <1>12 DEF Search
  <2> QED BY <1>1, <2>1, SameExact
<1>13. CASE ToolWrite
  BY <1>1, <1>13, ToolWriteExact
<1>14. CASE ToolIndex
  BY <1>1, <1>14, ToolIndexExact
<1>15. CASE ToolUnlink
  BY <1>1, <1>15, ToolUnlinkExact
<1>16. CASE Edits
  BY <1>16, EditIs
<1> QED BY <1>2, <1>3, <1>4, <1>5, <1>6, <1>7, <1>8, <1>9, <1>10, <1>11, <1>12, <1>13, <1>14,
           <1>15, <1>16 DEF VaultNext, Edits, Forgets

-----------------------------------------------------------------------------
(* Vault: the tool call under way, and where notes are.                        *)

LEMMA ToolChanges ==
  ASSUME VType, VaultNext
  PROVE  \/ tool' = tool \/ tool' = Nil
         \/ \E a \in Callers, stem \in Names \X {0}, body \in Bodies : ToolWriteRead(a, stem, body)
         \/ ToolWrite
         \/ Forgets
<1>1. CASE Start \/ RebuildIndex \/ Receive \/ Fail \/ ProcessEvents \/ ToolIndex
  BY <1>1 DEF Start, RebuildIndex, Receive, Fail, Stops, ProcessEvents, ToolIndex
<1>2. ASSUME NEW a \in Callers, NEW shared \in BOOLEAN, NEW n \in Names, NEW body \in Bodies,
             CreateNote(a, shared, n, body)
      PROVE  tool' = tool \/ tool' = Nil
  BY <1>2 DEF CreateNote, CutWrite, Runs, Stops
<1>3. ASSUME NEW i \in NoteIds, NEW caller \in Callers, NEW n \in Names \cup {Nil}, NEW body \in Bodies,
             UpdateNote(i, caller, n, body)
      PROVE  tool' = tool \/ tool' = Nil
  BY <1>3 DEF UpdateNote, CutWrite, Runs, Stops
<1>4. ASSUME NEW i \in NoteIds, NEW caller \in Callers \cup {"user"}, DeleteNote(i, caller)
      PROVE  tool' = tool
  BY <1>4 DEF DeleteNote, Runs
<1>5. ASSUME NEW i \in NoteIds, NEW a \in Agents, ArchiveNote(i, a)
      PROVE  tool' = tool
  BY <1>5 DEF ArchiveNote, Runs
<1>6. CASE Forgets
  BY <1>6
<1>7. ASSUME NEW a \in Callers, NEW stem \in Names \X {0}, RawWrite(a, stem)
      PROVE  tool' = tool
  BY <1>7 DEF RawWrite
<1>8. ASSUME NEW pre \in {10, 100}, NEW w \in {1, 3}, Search(pre, 5, w)
      PROVE  tool' = tool
  BY <1>8 DEF Search
<1>9. CASE ToolUnlink
  BY <1>9 DEF ToolUnlink
<1>10. CASE Edits
  BY <1>10, EditIs
<1> QED BY <1>1, <1>2, <1>3, <1>4, <1>5, <1>6, <1>7, <1>8, <1>9, <1>10 DEF VaultNext, Edits, Forgets

(* The call a tool makes after it has read the file at p.                      *)
ReadAt(p, a) ==
  /\ p \in Paths /\ p[1] = <<a, "notes">> /\ a \in Agents
  /\ tool'.path = p /\ tool'.step = "write" /\ tool'.read = disk[p]
  /\ disk[p] = Nil => tool'.note.shared = FALSE /\ tool'.note.agent = a
  /\ disk[p] # Nil => /\ IsNote(disk, p)
                      /\ tool'.note.id = disk[p].id /\ tool'.note.agent = disk[p].agent
                      /\ tool'.note.shared = disk[p].shared
  /\ UNCHANGED <<disk, edits>>

LEMMA WriteReadIs ==
  ASSUME VType, NEW a \in Callers, NEW stem \in Names \X {0}, NEW body \in Bodies,
         ToolWriteRead(a, stem, body)
  PROVE  ReadAt(<<<<a, "notes">>, stem>>, a)
<1> DEFINE p == <<<<a, "notes">>, stem>>
           new == [id |-> made + 1, agent |-> a, shared |-> FALSE, links |-> body, at |-> clock]
           m == IF disk[p] = Nil THEN new ELSE [disk[p] EXCEPT !.links = body]
<1>1. /\ disk[p] # Broken
      /\ tool' = [step |-> "write", path |-> p, read |-> disk[p], note |-> m]
      /\ UNCHANGED <<disk, edits>>
  BY DEF ToolWriteRead
<1>2. p \in Paths /\ a \in Agents /\ p[1] = <<a, "notes">>
  BY ToolPathIs
<1> HIDE DEF p
<1>3. disk[p] \in Note \cup {Nil}
  BY <1>1, <1>2 DEF VType, Disks
<1>4. disk[p] = Nil => m.shared = FALSE /\ m.agent = a
  OBVIOUS
<1>5. disk[p] # Nil => IsNote(disk, p) /\ m.id = disk[p].id /\ m.agent = disk[p].agent
                       /\ m.shared = disk[p].shared
  BY <1>1, <1>3 DEF Note, IsNote
<1> HIDE DEF m
<1>6. tool'.path = p /\ tool'.step = "write" /\ tool'.read = disk[p] /\ tool'.note = m
  BY <1>1
<1>7. ReadAt(p, a)
  BY <1>1, <1>2, <1>4, <1>5, <1>6 DEF ReadAt, p
<1> QED BY <1>7 DEF p

(* While a tool call goes on, nothing is forgotten and the watcher comes.      *)
Watched == chan \/ received \/ poisoned \/ forgotten = {}

LEMMA StaysWatched ==
  ASSUME VType, VaultNext, up, tool # Nil, tool' = tool
  PROVE  up' /\ (Watched => Watched')
<1> USE DEF Watched
<1>1. CASE Start \/ RebuildIndex \/ Receive \/ ProcessEvents
  <2>1. CASE Start \/ RebuildIndex
    BY <2>1, RebuildIs DEF Start, RebuildIndex
  <2>2. CASE Receive
    BY <2>2 DEF Receive
  <2>3. CASE ProcessEvents
    BY <2>3, RebuildIs DEF ProcessEvents
  <2> QED BY <1>1, <2>1, <2>2, <2>3
<1>2. CASE Fail \/ ToolIndex \/ ToolUnlink
  BY <1>2 DEF Fail, Stops, ToolIndex, ToolUnlink
<1>3. ASSUME NEW a \in Callers, NEW shared \in BOOLEAN, NEW n \in Names, NEW body \in Bodies,
             CreateNote(a, shared, n, body)
      PROVE  up' /\ Watched'
  BY <1>3 DEF CreateNote, CutWrite, Runs, Stops, Writes
<1>4. ASSUME NEW i \in NoteIds, NEW caller \in Callers, NEW n \in Names \cup {Nil}, NEW body \in Bodies,
             UpdateNote(i, caller, n, body)
      PROVE  up' /\ Watched'
  BY <1>4 DEF UpdateNote, CutWrite, Runs, Stops, Writes
<1>5. ASSUME NEW i \in NoteIds, NEW caller \in Callers \cup {"user"}, DeleteNote(i, caller)
      PROVE  up' /\ Watched'
  BY <1>5 DEF DeleteNote, Runs, Writes
<1>6. ASSUME NEW i \in NoteIds, NEW a \in Agents, ArchiveNote(i, a)
      PROVE  up' /\ Watched'
  BY <1>6 DEF ArchiveNote, Runs, Writes
<1>7. ASSUME NEW a \in Callers, NEW stem \in Names \X {0}, NEW body \in Bodies,
             ToolWriteRead(a, stem, body)
      PROVE  FALSE
  BY <1>7 DEF ToolWriteRead, Idle
<1>8. CASE Forgets
  BY <1>8 DEF Forgets, ToolUnindex, ToolRefused, Forget, Idle
<1>9. ASSUME NEW a \in Callers, NEW stem \in Names \X {0}, RawWrite(a, stem)
      PROVE  FALSE
  BY <1>9 DEF RawWrite, Idle
<1>10. ASSUME NEW pre \in {10, 100}, NEW w \in {1, 3}, Search(pre, 5, w)
      PROVE  up' /\ (Watched => Watched')
  BY <1>10 DEF Search, Command, Issued
<1>11. CASE ToolWrite
  BY <1>11, ToolWriteIs
<1>12. CASE Edits
  BY <1>12, EditIs
<1> QED BY <1>1, <1>2, <1>3, <1>4, <1>5, <1>6, <1>7, <1>8, <1>9, <1>10, <1>11, <1>12
        DEF VaultNext, Edits, Forgets

LEMMA VToolStep ==
  ASSUME VType, VTool, VaultNext
  PROVE  VTool'
<1>1. CASE tool' = Nil
  BY <1>1 DEF VTool
<1>5. CASE tool' = tool /\ tool # Nil
  BY <1>5, StaysWatched DEF VTool, Watched
<1>2. ASSUME NEW a \in Callers, NEW stem \in Names \X {0}, NEW body \in Bodies,
             ToolWriteRead(a, stem, body)
      PROVE  VTool'
  <2>1. up' /\ tool'.step = "write"
    BY <1>2 DEF ToolWriteRead, Idle
  <2> QED BY <1>2, <2>1, WriteReadIs DEF VTool, ReadAt
<1>3. CASE ToolWrite
  <2>1. CASE Wrote
    <3>1. tool \in [step : {"write", "index"}, path : Paths, read : Note \cup {Nil}, note : Note]
          /\ tool' = [tool EXCEPT !.step = "index", !.note = ToolNote]
      BY <1>3, <2>1, ToolWriteIs, ToolIs DEF Wrote
    <3>2. tool'.step = "index" /\ up' /\ chan'
      BY <1>3, <3>1, ToolWriteIs
    <3> QED BY <3>2 DEF VTool
  <2>2. CASE WroteShort
    BY <1>1, <2>2 DEF WroteShort
  <2> QED BY <1>3, <2>1, <2>2, ToolWriteIs
<1>4. CASE Forgets
  <2>1. PICK p \in Paths :
          /\ Forget(p)
          /\ tool' = Nil \/ tool' = [step |-> "unlink", path |-> p, read |-> Nil, note |-> Nil]
    BY <1>4, ForgetsIs
  <2>2. up' /\ (tool' = Nil \/ tool'.step = "unlink")
    BY <2>1 DEF Forget, Idle
  <2> QED BY <1>1, <2>2 DEF VTool
<1> QED BY <1>1, <1>2, <1>3, <1>4, <1>5, ToolChanges

(* Notes without files at other paths stay placed.                             *)
LEMMA SamePlaced ==
  ASSUME VType, VPlaced, edits' = edits, tool' = tool \/ tool' = Nil \/ tool'.step # "write",
         disk' \in Disks,
         \A x \in Paths : IsNote(disk, x)' => disk'[x] = disk[x] \/ (edits = 0 => Placed(disk'[x], x))
  PROVE  VPlaced'
<1>1. ASSUME edits = 0, NEW x \in Files(disk)'
      PROVE  Placed(disk'[x], x)
  <2>1. x \in Paths /\ IsNote(disk, x)'
    BY DEF Files
  <2>2. CASE disk'[x] = disk[x]
    <3>1. x \in Files(disk)
      BY <2>1, <2>2 DEF Files, IsNote
    <3> QED BY <1>1, <2>2, <3>1 DEF VPlaced
  <2>3. CASE disk'[x] # disk[x]
    BY <1>1, <2>1, <2>3
  <2> QED BY <2>2, <2>3
<1>2. edits = 0 => (tool' # Nil /\ tool'.step = "write" => Placed(tool'.note, tool'.path))
  BY DEF VPlaced
<1> QED BY <1>1, <1>2 DEF VPlaced, Placed

(* What is left of a note that was cut is where the note was to be.            *)
LEMMA ShortPlaced ==
  ASSUME NEW p \in Paths, NEW m, NEW c, edits = 0 => Placed(m, p), CutShort(c, m), Puts(disk', disk, p, c)
  PROVE  /\ disk' \in Disks
         /\ \A x \in Paths : IsNote(disk, x)' => disk'[x] = disk[x] \/ (edits = 0 => Placed(disk'[x], x))
<1>1. c = Broken \/ (edits = 0 => Placed(c, p))
  BY DEF CutShort, Placed
<1>2. disk' \in Disks /\ \A x \in Paths : disk'[x] = IF x = p THEN c ELSE disk[x]
  BY DEF Puts
<1> QED BY <1>1, <1>2 DEF IsNote

LEMMA CutsPlaced ==
  ASSUME VType, VPlaced, NEW p \in Paths, NEW m, edits = 0 => Placed(m, p), Cuts(p, m)
  PROVE  VPlaced'
<1>1. PICK c \in Note \cup {Broken} : CutShort(c, m) /\ Puts(disk', disk, p, c)
  BY DEF Cuts
<1>2. edits' = edits /\ (tool' = tool \/ tool' = Nil)
  BY DEF Cuts, Stops
<1>3. /\ disk' \in Disks
      /\ \A x \in Paths : IsNote(disk, x)' => disk'[x] = disk[x] \/ (edits = 0 => Placed(disk'[x], x))
  BY <1>1, ShortPlaced
<1> QED BY <1>2, <1>3, SamePlaced

LEMMA VPlacedStep ==
  ASSUME VType, VIndex, VTool, VPlaced, VaultNext
  PROVE  VPlaced'
<1>0. disk \in Disks
  BY DEF VType
<1>1. ASSUME UNCHANGED <<disk, edits>>, tool' = tool \/ tool' = Nil
      PROVE  VPlaced'
  BY <1>0, <1>1, SamePlaced
<1>2. CASE Start \/ RebuildIndex \/ Receive \/ Fail \/ ProcessEvents \/ ToolIndex
  <2>1. UNCHANGED <<disk, edits>> /\ (tool' = tool \/ tool' = Nil)
    BY <1>2 DEF Start, RebuildIndex, Receive, Fail, Stops, ProcessEvents, ToolIndex, bound
  <2> QED BY <1>1, <2>1
<1>3. ASSUME NEW a \in Callers, NEW shared \in BOOLEAN, NEW n \in Names, NEW body \in Bodies,
             CreateNote(a, shared, n, body)
      PROVE  VPlaced'
  <2>1. PICK p \in Paths :
          /\ p[1] = Folder(a, shared)
          /\ Makes(a, shared, n, body, p) \/ Cuts(p, MadeNote(a, shared, body))
    BY <1>3, CreateIs
  <2>2. Placed(MadeNote(a, shared, body), p)
    BY <2>1 DEF Placed, MadeNote, Folder
  <2>3. CASE Makes(a, shared, n, body, p)
    <3>1. edits' = edits /\ tool' = tool
      BY <2>3 DEF Makes, Runs
    <3>2. disk' \in Disks /\ \A x \in Paths : disk'[x] = disk[x] \/ Placed(disk'[x], x)
      BY <2>2, <2>3 DEF Makes, Puts
    <3> QED BY <3>1, <3>2, SamePlaced
  <2>4. CASE Cuts(p, MadeNote(a, shared, body))
    BY <2>2, <2>4, CutsPlaced
  <2> QED BY <2>1, <2>3, <2>4
<1>4. ASSUME NEW i \in NoteIds, NEW caller \in Callers, NEW n \in Names \cup {Nil}, NEW body \in Bodies,
             UpdateNote(i, caller, n, body)
      PROVE  VPlaced'
  <2> DEFINE old == reg.path[i]
             m == NewText(i, body)
  <2>1. PICK p \in Paths : Done(i, p, n, body, caller) \/ Twice(i, p, body) \/ CutsAt(i, p, body)
    BY <1>4, UpdateIs
  <2>2. old \in Paths /\ IsNote(disk, old)
    BY <1>4, UpdateIs
  <2>3. disk[old] \in Note /\ old \in Files(disk)
    BY <1>0, <2>2 DEF Disks, IsNote, Files
  <2>4. m.shared = disk[old].shared /\ m.agent = disk[old].agent
    BY <2>3 DEF NewText, Note
  <2> HIDE DEF m
  <2>5. p[1] = old[1]
    BY <2>1 DEF Done, Twice, CutsAt
  <2>6. edits = 0 => Placed(m, p)
    BY <2>3, <2>4, <2>5 DEF VPlaced, Placed
  <2>7. CASE Done(i, p, n, body, caller) \/ Twice(i, p, body)
    <3>1. disk' \in Disks /\ edits' = edits /\ (tool' = tool \/ tool' = Nil)
      BY <2>7 DEF Done, Twice, Runs, Stops
    <3>2. \A x \in Paths : (x = p /\ disk'[x] = m) \/ disk'[x] = Nil \/ disk'[x] = disk[x]
      BY <2>7 DEF Done, Twice, m
    <3>3. \A x \in Paths : IsNote(disk, x)' => disk'[x] = disk[x] \/ (edits = 0 => Placed(disk'[x], x))
      BY <2>6, <3>2 DEF IsNote
    <3> QED BY <3>1, <3>3, SamePlaced
  <2>8. CASE CutsAt(i, p, body)
    <3>1. Cuts(p, m)
      BY <2>8 DEF CutsAt, m
    <3> QED BY <2>6, <3>1, CutsPlaced
  <2> QED BY <2>1, <2>7, <2>8
<1>5. ASSUME NEW i \in NoteIds, NEW caller \in Callers \cup {"user"}, DeleteNote(i, caller)
      PROVE  VPlaced'
  <2>1. Puts(disk', disk, reg.path[i], Nil) /\ edits' = edits /\ tool' = tool
    BY <1>5, DeleteIs DEF Runs
  <2>2. disk' \in Disks /\ \A x \in Paths : IsNote(disk, x)' => disk'[x] = disk[x]
    BY <2>1 DEF Puts, IsNote
  <2> QED BY <2>1, <2>2, SamePlaced
<1>6. ASSUME NEW i \in NoteIds, NEW a \in Agents, ArchiveNote(i, a)
      PROVE  VPlaced'
  <2> DEFINE p == reg.path[i]
             to == <<<<a, "archive">>, p[2]>>
  <2>1. /\ p \in Paths /\ to \in Paths /\ p[1] = <<a, "notes">> /\ to[1] = <<a, "archive">>
        /\ disk' \in Disks /\ edits' = edits /\ tool' = tool
        /\ \A x \in Paths : disk'[x] = IF x = to THEN disk[p] ELSE IF x = p THEN Nil ELSE disk[x]
    BY <1>6, ArchiveIs DEF Runs
  <2> HIDE DEF p, to
  <2>2. ASSUME edits = 0, IsNote(disk, p)
        PROVE  Placed(disk[p], to)
    <3>1. Placed(disk[p], p)
      BY <2>1, <2>2 DEF VPlaced, Files
    <3>2. a # "shared"
      BY VaultAssumption
    <3>3. disk[p] \in Note
      BY <1>0, <2>1, <2>2 DEF Disks, IsNote
    <3>4. disk[p].shared \in BOOLEAN
      BY <3>3 DEF Note
    <3>5. CASE disk[p].shared
      BY <2>1, <3>1, <3>2, <3>5 DEF Placed
    <3>6. CASE ~disk[p].shared
      <4>1. <<a, "notes">> \in {<<disk[p].agent, "notes">>, <<disk[p].agent, "archive">>}
        BY <2>1, <3>1, <3>6 DEF Placed
      <4>2. a = disk[p].agent
        BY <4>1
      <4> QED BY <2>1, <3>6, <4>2 DEF Placed
    <3> QED BY <3>5, <3>6
  <2>3. \A x \in Paths : IsNote(disk, x)' => disk'[x] = disk[x] \/ (edits = 0 => Placed(disk'[x], x))
    BY <2>1, <2>2 DEF IsNote
  <2> QED BY <2>1, <2>3, SamePlaced
<1>7. ASSUME NEW a \in Callers, NEW stem \in Names \X {0}, NEW body \in Bodies,
              ToolWriteRead(a, stem, body)
       PROVE  VPlaced'
  <2> DEFINE p == <<<<a, "notes">>, stem>>
  <2>1. ReadAt(p, a)
    BY <1>7, WriteReadIs
  <2> HIDE DEF p
  <2>2. edits = 0 => Placed(tool'.note, tool'.path)
    <3>1. CASE disk[p] = Nil
      BY <2>1, <3>1 DEF Placed, ReadAt
    <3>2. CASE disk[p] # Nil
      <4>1. p \in Files(disk)
        BY <2>1, <3>2 DEF Files, ReadAt
      <4> QED BY <2>1, <3>2, <4>1 DEF VPlaced, Placed, ReadAt
    <3> QED BY <3>1, <3>2
  <2> QED BY <2>1, <2>2 DEF VPlaced, Placed, ReadAt
<1>8. CASE Forgets
  <2>1. PICK p \in Paths :
          /\ Forget(p)
          /\ tool' = Nil \/ tool' = [step |-> "unlink", path |-> p, read |-> Nil, note |-> Nil]
    BY <1>8, ForgetsIs
  <2>2. UNCHANGED <<disk, edits>> /\ (tool' = Nil \/ tool'.step = "unlink")
    BY <2>1 DEF Forget
  <2> QED BY <1>0, <2>2, SamePlaced
<1>9. ASSUME NEW a \in Callers, NEW stem \in Names \X {0}, RawWrite(a, stem)
       PROVE  VPlaced'
  <2>1. Puts(disk', disk, <<<<a, "notes">>, stem>>, Broken) /\ edits' = edits /\ tool' = tool
    BY <1>9, RawWriteIs
  <2>2. disk' \in Disks /\ \A x \in Paths : IsNote(disk, x)' => disk'[x] = disk[x]
    BY <2>1 DEF Puts, IsNote
  <2> QED BY <2>1, <2>2, SamePlaced
<1>10. ASSUME NEW pre \in {10, 100}, NEW w \in {1, 3}, Search(pre, 5, w)
       PROVE  VPlaced'
  BY <1>1, <1>10 DEF Search
<1>11. CASE ToolWrite
  <2>1. /\ tool # Nil /\ tool.step = "write" /\ ToolNote.agent = tool.note.agent /\ tool.path \in Paths
        /\ ToolNote.shared = tool.note.shared /\ edits' = edits /\ (Wrote \/ WroteShort)
    BY <1>11, ToolWriteIs
  <2>2. edits = 0 => Placed(ToolNote, tool.path)
    BY <2>1 DEF VPlaced, Placed
  <2>3. CASE Wrote
    <3>1. tool \in [step : {"write", "index"}, path : Paths, read : Note \cup {Nil}, note : Note]
      BY <2>1, ToolIs
    <3>2. tool'.step = "index"
      BY <2>3, <3>1 DEF Wrote
    <3>3. disk' \in Disks
          /\ \A x \in Paths : IsNote(disk, x)' => disk'[x] = disk[x] \/ (edits = 0 => Placed(disk'[x], x))
      BY <2>2, <2>3 DEF Wrote, Puts
    <3> QED BY <2>1, <3>2, <3>3, SamePlaced
  <2>4. CASE WroteShort
    <3>1. PICK c \in Note \cup {Broken} : CutShort(c, ToolNote) /\ Puts(disk', disk, tool.path, c)
      BY <2>4 DEF WroteShort
    <3>2. tool' = Nil
      BY <2>4 DEF WroteShort
    <3>3. disk' \in Disks
          /\ \A x \in Paths : IsNote(disk, x)' => disk'[x] = disk[x] \/ (edits = 0 => Placed(disk'[x], x))
      BY <2>1, <2>2, <3>1, ShortPlaced
    <3> QED BY <2>1, <3>2, <3>3, SamePlaced
  <2> QED BY <2>1, <2>3, <2>4
<1>12. CASE ToolUnlink
  <2>1. edits' = edits /\ tool' = Nil /\ (Unlinked \/ disk' = disk)
    BY <1>12, ToolUnlinkIs DEF bound
  <2>2. disk' \in Disks /\ \A x \in Paths : IsNote(disk, x)' => disk'[x] = disk[x]
    BY <1>0, <2>1 DEF Unlinked, Puts, IsNote
  <2> QED BY <2>1, <2>2, SamePlaced
<1>13. CASE Edits
  <2>1. edits' \in 1..MaxEdits
    BY <1>13, EditIs
  <2>2. edits' # 0
    BY <2>1
  <2> QED BY <2>2 DEF VPlaced
<1> QED BY <1>2, <1>3, <1>4, <1>5, <1>6, <1>7, <1>8, <1>9, <1>10, <1>11, <1>12, <1>13
        DEF VaultNext, Edits, Forgets

-----------------------------------------------------------------------------
(* Vault: the index of a quiet vault is the one a rebuild gives.               *)

InSync(r, l, d) == r = RegistryOf(d, Files(d)) /\ l = LinksOf(d, r)

(* No note is in two of the files.                                             *)
Single(d) == \A p, q \in Files(d) : d[p].id = d[q].id => p = q

(* Without copies there is one way to walk the files.                          *)
LEMMA OneWalk ==
  ASSUME NEW d \in Disks, Single(d)
  PROVE  Walks(d) = {Files(d)}
<1>1. ASSUME NEW i \in OnDisk(d)
      PROVE  \E p \in Files(d) : FilesOfNote(d, i) = {p}
  BY DEF OnDisk, FilesOfNote, Single
<1>2. Files(d) \in Walks(d)
  <2>1. \A i \in OnDisk(d) : Cardinality(Files(d) \cap FilesOfNote(d, i)) = 1
    <3> TAKE i \in OnDisk(d)
    <3>1. PICK p \in Files(d) : FilesOfNote(d, i) = {p}
      BY <1>1
    <3>2. Files(d) \cap FilesOfNote(d, i) = {p}
      BY <3>1
    <3> QED BY <3>2, FS_Singleton
  <2> QED BY <2>1 DEF Walks
<1>3. ASSUME NEW W \in Walks(d)
      PROVE  W = Files(d)
  <2>1. W \in SUBSET Files(d) /\ \A i \in OnDisk(d) : Cardinality(W \cap FilesOfNote(d, i)) = 1
    BY DEF Walks
  <2>2. ASSUME NEW p \in Files(d)
        PROVE  p \in W
    <3>1. d[p].id \in OnDisk(d)
      BY DEF OnDisk
    <3>2. W \cap FilesOfNote(d, d[p].id) # {}
      BY <2>1, <3>1, FS_EmptySet
    <3>3. PICK q \in W : q \in Files(d) /\ d[q].id = d[p].id
      BY <3>2 DEF FilesOfNote
    <3> QED BY <3>3 DEF Single
  <2> QED BY <2>1, <2>2
<1> QED BY <1>2, <1>3

(* The files that are known, when some are forgotten.                          *)
LEMMA KnownIs ==
  ASSUME VType
  PROVE  /\ Known \in Disks /\ (forgotten = {} => Known = disk)
         /\ \A x \in Paths : Known[x] = IF x \in forgotten THEN Nil ELSE disk[x]
         /\ NoCopies => Single(Known)
<1>1. disk \in [Paths -> Note \cup {Nil, Broken}]
  BY DEF VType, Disks
<1>2. \A x \in Paths : Known[x] = IF x \in forgotten THEN Nil ELSE disk[x]
  BY DEF Known
<1>3. Known \in Disks
  BY <1>1 DEF Known, Disks
<1>4. forgotten = {} => Known = disk
  BY <1>1 DEF Known
<1>5. ASSUME NoCopies
      PROVE  Single(Known)
  <2>1. \A x \in Files(Known) : x \in Files(disk) /\ Known[x] = disk[x]
    BY <1>2 DEF Files, IsNote
  <2> QED BY <1>5, <2>1 DEF Single, NoCopies
<1> QED BY <1>2, <1>3, <1>4, <1>5

LEMMA RebuiltInSync ==
  ASSUME VType, Rebuild, disk' = disk, NoCopies
  PROVE  /\ (reg = RegistryOf(Known, Files(Known)))'
         /\ (links = LinksOf(disk, reg))'
<1>1. /\ links' = LinksOf(disk, reg') /\ \E W \in Walks(disk) : reg' = RegistryOf(disk, W)
      /\ forgotten' = {}
  BY RebuildIs
<1>2. Walks(disk) = {Files(disk)}
  BY OneWalk DEF VType, Single, NoCopies
<1>3. Known' = disk
  BY <1>1 DEF Known, VType, Disks
<1> QED BY <1>1, <1>2, <1>3

LEMMA RegistriesEqual ==
  ASSUME NEW q \in Registry, NEW r \in Registry,
         \A i \in NoteIds : q.path[i] = r.path[i] /\ q.named[i] = r.named[i]
                            /\ q.agent[i] = r.agent[i] /\ q.updated[i] = r.updated[i],
         \A p \in Paths : q.at[p] = r.at[p]
  PROVE  q = r
<1>1. q.path = r.path
  BY DEF Registry
<1>2. q.at = r.at
  BY DEF Registry
<1>3. q.named = r.named
  BY DEF Registry
<1>4. q.agent = r.agent
  BY DEF Registry
<1>5. q.updated = r.updated
  BY DEF Registry
<1> QED BY <1>1, <1>2, <1>3, <1>4, <1>5 DEF Registry

LEMMA LinksEqual ==
  ASSUME NEW k \in Links, NEW l \in Links, Mirrored(k), Mirrored(l),
         \A s \in NoteIds, raw \in Raws, t \in NoteIds \cup {Nil} :
            <<raw, t>> \in k.out[s] <=> <<raw, t>> \in l.out[s]
  PROVE  k = l
<1>1. ASSUME NEW s \in NoteIds
      PROVE  k.out[s] = l.out[s] /\ k.in[s] = l.in[s]
  <2>1. \A x : x \in k.out[s] \/ x \in l.out[s] =>
               x = <<x[1], x[2]>> /\ x[1] \in Raws /\ x[2] \in NoteIds \cup {Nil}
    BY EntriesAre
  <2>2. \A x : x \in k.out[s] <=> x \in l.out[s]
    <3> TAKE x
    <3>1. CASE x = <<x[1], x[2]>> /\ x[1] \in Raws /\ x[2] \in NoteIds \cup {Nil}
      <4>1. <<x[1], x[2]>> \in k.out[s] <=> <<x[1], x[2]>> \in l.out[s]
        BY <3>1
      <4> QED BY <3>1, <4>1
    <3> QED BY <2>1, <3>1
  <2>3. \A e : e \in k.in[s] \/ e \in l.in[s] => e = <<e[1], e[2]>> /\ e[1] \in NoteIds /\ e[2] \in Raws
    BY EntriesAre
  <2>4. \A e : e \in k.in[s] <=> e \in l.in[s]
    <3> TAKE e
    <3>1. CASE e = <<e[1], e[2]>> /\ e[1] \in NoteIds /\ e[2] \in Raws
      <4>1. <<e[1], e[2]>> \in k.in[s] <=> <<e[1], e[2]>> \in l.in[s]
        BY <3>1 DEF Mirrored
      <4> QED BY <3>1, <4>1
    <3> QED BY <2>3, <3>1
  <2> QED BY <2>2, <2>4
<1>2. k.out = l.out
  BY <1>1 DEF Links
<1>3. k.in = l.in
  BY <1>1 DEF Links
<1> QED BY <1>2, <1>3 DEF Links

(* A link to a note of the index, by its id or by its name, is not broken.     *)
LEMMA ResolveFinds ==
  ASSUME NEW r, RegistryOK(r), NEW i \in Registered(r), NEW stem \in r.named[i], NEW raw, NEW agent,
         Mends(raw, stem, i)
  PROVE  Resolve(r, raw, agent) # Nil
<1> DEFINE named == {j \in NoteIds : raw[1] = "name" /\ <<raw[2], 0>> \in r.named[j]}
           own   == {j \in named : r.agent[j] = agent}
<1>1. i \in NoteIds /\ Nil \notin NoteIds /\ stem \in Stems
  BY NotesAre DEF Registered, RegistryOK, Registry
<1>2. CASE raw = <<"id", i>>
  BY <1>1, <1>2 DEF Resolve
<1>3. CASE raw = <<"name", stem[1]>> /\ stem[2] = 0
  <2>1. stem = <<stem[1], 0>>
    BY <1>1, <1>3 DEF Stems
  <2>2. raw[1] = "name" /\ raw[2] = stem[1] /\ raw[1] # "id"
    BY <1>3
  <2>3. i \in named
    BY <1>1, <2>1, <2>2
  <2>4. named \in SUBSET NoteIds /\ own \in SUBSET named
    OBVIOUS
  <2>5. Resolve(r, raw, agent) = IF own # {} THEN Latest(r, own) ELSE Latest(r, named)
    BY <2>2, <2>3 DEF Resolve
  <2> HIDE DEF named, own
  <2>6. own # {} => Latest(r, own) \in NoteIds
    BY <2>4, LatestIn
  <2>7. Latest(r, named) \in NoteIds
    BY <2>3, <2>4, LatestIn
  <2> QED BY <1>1, <2>5, <2>6, <2>7
<1> QED BY <1>2, <1>3 DEF Mends

LEMMA IndexAgain ==
  ASSUME VType, VIndex, NoCopies, InSync(reg, links, disk), NEW p \in Files(disk), IndexSingle(p)
  PROVE  reg' = reg /\ links' = links
<1> DEFINE m == disk[p]
           i == m.id
           r1 == MovePath(reg, i, p)
           r2 == [r1 EXCEPT !.agent[i] = m.agent, !.updated[i] = m.at]
           r == UpdateName(r2, i, p[2])
<1>1. /\ p \in Paths /\ p[2] \in Stems /\ i \in NoteIds /\ m.agent \in Agents /\ m.at \in Nat
      /\ m.links \in SUBSET Raws /\ i \in OnDisk(disk) /\ disk \in Disks
  BY FilesAre, PathsAre DEF VType
<1>2. RegistryOK(reg) /\ LinksOK(links, Registered(reg)) /\ reg \in Registry
  BY DEF VIndex, RegistryOK
<1>3. Knows(reg, disk)
  <2>1. Files(disk) \in Walks(disk)
    BY <1>1, OneWalk DEF Single, NoCopies
  <2> QED BY <1>1, <2>1, RegistryOfKnows DEF InSync
<1>4. FilesOfNote(disk, i) = {p}
  BY DEF FilesOfNote, NoCopies
<1>5. /\ i \in Registered(reg) /\ reg.path[i] = p /\ reg.agent[i] = m.agent /\ reg.updated[i] = m.at
      /\ reg.at[p] = i /\ reg.named[i] = {p[2]}
  <2>1. reg.named[i] = {q[2] : q \in FilesOfNote(disk, i)}
    BY <1>1, <1>3 DEF Knows
  <2>2. reg.path[i] \in Files(disk) /\ disk[reg.path[i]].id = i
    BY <1>1, <1>3 DEF Knows
  <2>3. reg.path[i] = p
    BY <2>2 DEF NoCopies
  <2>4. i \in Registered(reg) /\ reg.agent[i] = m.agent /\ reg.updated[i] = m.at /\ reg.at[p] = i
    BY <1>1, <1>3, <2>3 DEF Knows
  <2> QED BY <1>4, <2>1, <2>3, <2>4
<1>6. /\ reg' = r
      /\ links' = TryResolve(UpdateLinks(links, r, i, m.links, m.agent), p[2], i)
  BY <1>5 DEF IndexSingle
<1>7. r = reg
  <2>1. RegistryOK(r1) /\ Registered(r1) = Registered(reg) /\ MovedTo(r1, reg, i, p)
    BY <1>1, <1>2, <1>5, MovePathOK
  <2> HIDE DEF m, i, r1
  <2>2. r1 = reg
    <3>1. \A j \in NoteIds : r1.path[j] = reg.path[j] /\ r1.named[j] = reg.named[j]
                             /\ r1.agent[j] = reg.agent[j] /\ r1.updated[j] = reg.updated[j]
      BY <1>2, <1>5, <2>1 DEF MovedTo, Registry
    <3>2. \A x \in Paths : r1.at[x] = reg.at[x]
      BY <1>5, <2>1 DEF MovedTo
    <3> QED BY <1>2, <2>1, <3>1, <3>2, RegistriesEqual DEF MovedTo
  <2>3. r2 = reg
    BY <1>1, <1>2, <1>5, <2>2 DEF Registry
  <2> HIDE DEF r2
  <2>4. UpdateName(reg, i, p[2]) = reg
    BY <1>1, <1>2, <1>5 DEF Registry, UpdateName
  <2> QED BY <2>3, <2>4
<1> HIDE DEF r
<1> DEFINE u == UpdateLinks(links, reg, i, m.links, m.agent)
<1>8. links' = TryResolve(u, p[2], i)
  BY <1>6, <1>7
<1>9. \A s \in NoteIds, raw \in Raws : \A t :
        <<raw, t>> \in links.out[s] <=>
          \E q \in FilesOfNote(disk, s) : raw \in disk[q].links /\ t = Resolve(reg, raw, disk[q].agent)
  <2>1. links = LinksOf(disk, reg)
    BY DEF InSync
  <2>2. LinksFrom(LinksOf(disk, reg), disk, reg)
    BY <1>1, <1>3, LinksOfIs
  <2>3. LinksFrom(links, disk, reg)
    BY <2>1, <2>2
  <2> QED BY <2>3 DEF LinksFrom
<1>10. u = links
  <2> HIDE DEF i, m
  <2> DEFINE body == m.links
             agent == m.agent
  <2>0. body \in SUBSET Raws
    BY <1>1
  <2> HIDE DEF body, agent
  <2>4. LinksOK(UpdateLinks(links, reg, i, body, agent), Registered(reg))
    BY <1>1, <1>2, <1>5, <2>0, UpdateLinksOK
  <2>5. Updated(UpdateLinks(links, reg, i, body, agent), links, reg, i, body, agent)
    BY <1>1, <1>2, <1>5, <2>0, UpdateLinksOK
  <2>1. /\ LinksOK(u, Registered(reg))
        /\ \A s \in NoteIds \ {i} : u.out[s] = links.out[s]
        /\ \A raw \in Raws, t \in NoteIds \cup {Nil} :
             <<raw, t>> \in u.out[i] <=> raw \in m.links /\ t = Resolve(reg, raw, m.agent)
    BY <2>4, <2>5 DEF Updated, body, agent
  <2> HIDE DEF u
  <2>2. \A raw \in Raws, t \in NoteIds \cup {Nil} :
          <<raw, t>> \in links.out[i] <=> raw \in m.links /\ t = Resolve(reg, raw, m.agent)
    BY <1>1, <1>4, <1>9 DEF m
  <2>3. \A s \in NoteIds, raw \in Raws, t \in NoteIds \cup {Nil} :
          <<raw, t>> \in u.out[s] <=> <<raw, t>> \in links.out[s]
    BY <2>1, <2>2
  <2> QED BY <1>2, <2>1, <2>3, LinksEqual DEF LinksOK
<1> HIDE DEF u
<1>11. TryResolve(links, p[2], i) = links
  <2> DEFINE v == TryResolve(links, p[2], i)
  <2>0. links \in Links /\ Mirrored(links)
    BY <1>2 DEF LinksOK
  <2>1. LinksOK(v, Registered(reg))
    BY <1>1, <1>2, <1>5, TryResolveOK
  <2>2. ASSUME NEW s \in NoteIds, NEW x \in links.out[s]
        PROVE  x \notin Mended(p[2], i)
    <3> SUFFICES ASSUME x \in Mended(p[2], i) PROVE FALSE
      OBVIOUS
    <3>1. x = <<x[1], Nil>> /\ x[1] \in Raws /\ Mends(x[1], p[2], i)
      BY DEF Mended
    <3>2. PICK q \in FilesOfNote(disk, s) : Nil = Resolve(reg, x[1], disk[q].agent)
      BY <1>9, <2>2, <3>1
    <3>3. p[2] \in reg.named[i]
      BY <1>5
    <3> QED BY <1>2, <1>5, <3>1, <3>2, <3>3, ResolveFinds
  <2>3. ASSUME NEW s \in NoteIds
        PROVE  v.out[s] = links.out[s]
    <3>1. v.out[s] = {IF x \in Mended(p[2], i) THEN <<x[1], i>> ELSE x : x \in links.out[s]}
      BY <1>1, <2>0, TryResolveOut
    <3>2. \A x \in links.out[s] : x \notin Mended(p[2], i)
      BY <2>2
    <3> HIDE DEF v
    <3> QED BY <3>1, <3>2
  <2> HIDE DEF v
  <2>4. v = links
    BY <2>0, <2>1, <2>3, LinksEqual DEF LinksOK
  <2> QED BY <2>4 DEF v
<1> QED BY <1>6, <1>7, <1>8, <1>10, <1>11

(* Taking a note off the index is indexing the files without it.               *)
LEMMA UnregisterInSync ==
  ASSUME NEW d \in Disks, NEW e \in Disks, Single(d), NEW p \in Files(d),
         \A x \in Paths : e[x] = IF x = p THEN Nil ELSE d[x]
  PROVE  Unregister(RegistryOf(d, Files(d)), d[p].id) = RegistryOf(e, Files(e))
<1> DEFINE r == RegistryOf(d, Files(d))
           q == RegistryOf(e, Files(e))
           i == d[p].id
           u == Unregister(r, i)
<1>1. p \in Paths /\ i \in NoteIds
  BY FilesAre
<1>2. Files(e) = Files(d) \ {p} /\ \A x \in Files(e) : e[x] = d[x]
  BY DEF Files, IsNote
<1>3. Single(e)
  BY <1>2 DEF Single
<1>4. Knows(r, d) /\ Knows(q, e)
  BY <1>3, OneWalk, RegistryOfKnows
<1>5. /\ r.path = [j \in NoteIds |-> IF j \in OnDisk(d) THEN r.path[j] ELSE Nil]
      /\ \A j \in NoteIds : j \notin OnDisk(e) => q.path[j] = Nil /\ q.agent[j] = Nil /\ q.updated[j] = 0
  BY DEF RegistryOf
<1> HIDE DEF r, q
<1>6. r \in Registry /\ q \in Registry /\ RegistryOK(r)
  BY <1>4 DEF Knows, RegistryOK
<1>7. OnDisk(e) = OnDisk(d) \ {i}
  <2>1. \A x \in Files(d) : d[x].id = i <=> x = p
    BY DEF Single
  <2> QED BY <1>2, <2>1 DEF OnDisk
<1>8. u \in Registry /\ \A j \in NoteIds \ {i} : /\ u.path[j] = r.path[j] /\ u.named[j] = r.named[j]
                                               /\ u.agent[j] = r.agent[j] /\ u.updated[j] = r.updated[j]
  BY <1>1, <1>6, UnregisterOK DEF RegistryOK, Unregister, Registry
<1>9. u.path[i] = Nil /\ u.named[i] = {} /\ u.agent[i] = Nil /\ u.updated[i] = 0
  BY <1>1, <1>6 DEF Unregister, Registry
<1>10. \A x \in Paths : u.at[x] = IF x = r.path[i] THEN Nil ELSE r.at[x]
  BY <1>6 DEF Unregister, Registry
<1>11. r.path[i] = p
  <2>1. i \in OnDisk(d)
    BY DEF OnDisk
  <2> QED BY <1>4, <2>1 DEF Knows, Single
<1>12. \A x \in Paths : u.at[x] = q.at[x]
  BY <1>2, <1>4, <1>10, <1>11 DEF Knows
<1> HIDE DEF u, i
<1>13. ASSUME NEW j \in NoteIds \ {i}
       PROVE  /\ u.path[j] = q.path[j] /\ u.named[j] = q.named[j]
              /\ u.agent[j] = q.agent[j] /\ u.updated[j] = q.updated[j]
  <2>1. FilesOfNote(d, j) = FilesOfNote(e, j)
    BY <1>2 DEF FilesOfNote, i
  <2>5. \A k \in NoteIds : /\ r.named[k] = {x[2] : x \in FilesOfNote(d, k)}
                           /\ q.named[k] = {x[2] : x \in FilesOfNote(e, k)}
    BY <1>4 DEF Knows
  <2>2. u.named[j] = q.named[j]
    <3>1. q.named[j] = {x[2] : x \in FilesOfNote(d, j)}
      BY <2>1, <2>5
    <3>2. r.named[j] = {x[2] : x \in FilesOfNote(d, j)}
      BY <2>5
    <3>3. u.named[j] = r.named[j]
      BY <1>8
    <3> QED BY <3>1, <3>2, <3>3
  <2>3. CASE j \in OnDisk(e)
    <3>1. j \in OnDisk(d)
      BY <1>7, <2>3
    <3>2. q.path[j] \in Files(e) /\ d[q.path[j]].id = j /\ r.path[j] \in Files(d) /\ d[r.path[j]].id = j
      BY <1>2, <1>4, <2>3, <3>1 DEF Knows
    <3>3. q.path[j] = r.path[j]
      BY <1>2, <3>2 DEF Single
    <3>4. q.agent[j] = r.agent[j] /\ q.updated[j] = r.updated[j]
      BY <1>2, <1>4, <2>3, <3>1, <3>2, <3>3 DEF Knows
    <3> QED BY <1>8, <2>2, <3>3, <3>4
  <2>4. CASE j \notin OnDisk(e)
    <3>1. j \notin OnDisk(d)
      BY <1>7, <2>4
    <3>2. r.path[j] = Nil /\ r.agent[j] = Nil /\ r.updated[j] = 0
      BY <3>1 DEF RegistryOf, r
    <3> QED BY <1>5, <1>8, <2>2, <2>4, <3>2
  <2> QED BY <2>3, <2>4
<1>14. u.path[i] = q.path[i] /\ u.named[i] = q.named[i] /\ u.agent[i] = q.agent[i] /\ u.updated[i] = q.updated[i]
  <2>1. i \notin OnDisk(e) /\ i \in NoteIds
    BY <1>1, <1>7 DEF i
  <2>2. FilesOfNote(e, i) = {}
    BY <2>1 DEF FilesOfNote, OnDisk
  <2>3. q.named[i] = {}
    BY <1>4, <2>1, <2>2 DEF Knows
  <2> QED BY <1>5, <1>9, <2>1, <2>3
<1>15. u = q
  BY <1>6, <1>8, <1>12, <1>13, <1>14, RegistriesEqual
<1> QED BY <1>15 DEF u, q, r, i

(* Forgetting a file leaves the index of the others.                           *)
LEMMA ForgetInSync ==
  ASSUME VType, VSettled, VSync, NEW p \in Paths, Forget(p)
  PROVE  /\ (reg = RegistryOf(Known, Files(Known)))'
         /\ (forgotten = {} => links = LinksOf(disk, reg))'
<1>1. disk' = disk /\ reg = RegistryOf(Known, Files(Known)) /\ (forgotten = {} => links = LinksOf(disk, reg))
  BY DEF Forget, VSync
<1>2. CASE reg.at[p] = Nil
  <2>1. UNCHANGED <<reg, links, forgotten>>
    BY <1>2 DEF Forget
  <2>2. Known' = Known
    BY <1>1, <2>1 DEF Known
  <2> QED BY <1>1, <2>1, <2>2
<1>3. CASE reg.at[p] # Nil
  <2>1. reg' = Unregister(reg, reg.at[p]) /\ forgotten' = forgotten \cup {p}
    BY <1>3 DEF Forget
  <2>2. Known \in Disks /\ Single(Known)
    BY KnownIs DEF VSettled
  <2>3. reg.at[p] = IF p \in Files(Known) THEN Known[p].id ELSE Nil
    BY <1>1 DEF RegistryOf
  <2>4. p \in Files(Known) /\ reg.at[p] = Known[p].id
    BY <1>3, <2>3
  <2>5. /\ \A x \in Paths : Known'[x] = IF x = p THEN Nil ELSE Known[x]
        /\ Known' = [x \in Paths |-> IF x = p THEN Nil ELSE Known[x]]
    BY <1>1, <2>1 DEF Known
  <2>6. PICK e : e = Known'
    OBVIOUS
  <2>7. e \in Disks /\ \A x \in Paths : e[x] = IF x = p THEN Nil ELSE Known[x]
    BY <2>2, <2>5, <2>6 DEF Disks
  <2>8. PICK d : d = Known
    OBVIOUS
  <2>9. Unregister(RegistryOf(d, Files(d)), d[p].id) = RegistryOf(e, Files(e))
    BY <2>2, <2>4, <2>7, <2>8, UnregisterInSync
  <2>10. reg' = RegistryOf(e, Files(e))
    BY <1>1, <2>1, <2>4, <2>8, <2>9
  <2> QED BY <2>1, <2>6, <2>10
<1> QED BY <1>2, <1>3

LEMMA VSyncStep ==
  ASSUME VType, VIndex, VTool, VSync, VaultNext
  PROVE  VSync'
<1> DEFINE Synced == /\ reg = RegistryOf(Known, Files(Known))
                     /\ forgotten = {} => links = LinksOf(disk, reg)
<1> SUFFICES ASSUME VSettled' PROVE Synced'
  BY DEF VSync
<1>0. up' /\ ~poisoned' /\ chan' # TRUE /\ received' # TRUE /\ NoCopies'
  BY DEF VSettled
<1>1. ASSUME Rebuild, disk' = disk
      PROVE  Synced'
  BY <1>0, <1>1, RebuiltInSync DEF NoCopies
<1>2. ASSUME up, ~poisoned, UNCHANGED <<disk, reg, links, chan, received, forgotten>>
      PROVE  Synced'
  <2>1. VSettled
    BY <1>0, <1>2 DEF VSettled, NoCopies
  <2>2. Known' = Known
    BY <1>2 DEF Known
  <2> QED BY <1>2, <2>1, <2>2 DEF VSync
<1>3. CASE Start \/ RebuildIndex \/ ProcessEvents
  <2>1. CASE Start \/ RebuildIndex
    BY <1>1, <2>1 DEF Start, RebuildIndex
  <2>2. CASE ProcessEvents
    <3>1. disk' = disk /\ (Rebuild \/ poisoned')
      BY <2>2 DEF ProcessEvents
    <3> QED BY <1>0, <1>1, <3>1
  <2> QED BY <1>3, <2>1, <2>2
<1>4. CASE Receive \/ Fail
  BY <1>0, <1>4 DEF Receive, Fail, Stops
<1>5. ASSUME NEW a \in Callers, NEW shared \in BOOLEAN, NEW n \in Names, NEW body \in Bodies,
             CreateNote(a, shared, n, body)
      PROVE  FALSE
  <2>1. PICK p \in Paths : Makes(a, shared, n, body, p) \/ Cuts(p, MadeNote(a, shared, body))
    BY <1>5, CreateIs
  <2> QED BY <1>0, <2>1 DEF Makes, Cuts, Stops
<1>6. ASSUME NEW i \in NoteIds, NEW caller \in Callers, NEW n \in Names \cup {Nil}, NEW body \in Bodies,
             UpdateNote(i, caller, n, body)
      PROVE  FALSE
  <2>1. PICK p \in Paths : Done(i, p, n, body, caller) \/ Twice(i, p, body) \/ CutsAt(i, p, body)
    BY <1>6, UpdateIs
  <2> QED BY <1>0, <2>1 DEF Done, Twice, CutsAt, Cuts, Stops
<1>7. ASSUME NEW i \in NoteIds, NEW caller \in Callers \cup {"user"}, DeleteNote(i, caller)
      PROVE  FALSE
  BY <1>0, <1>7, DeleteIs
<1>8. ASSUME NEW i \in NoteIds, NEW a \in Agents, ArchiveNote(i, a)
      PROVE  FALSE
  BY <1>0, <1>8, ArchiveIs
<1>9. ASSUME NEW a \in Callers, NEW stem \in Names \X {0}, NEW body \in Bodies,
              ToolWriteRead(a, stem, body)
       PROVE  Synced'
  BY <1>2, <1>9 DEF ToolWriteRead, Idle, Command
<1>10. CASE Forgets
  <2>1. PICK p \in Paths : Forget(p)
    BY <1>10, ForgetsIs
  <2>2. VSettled
    BY <1>0, <2>1 DEF VSettled, NoCopies, Forget, Idle, Command
  <2> QED BY <2>1, <2>2, ForgetInSync
<1>11. ASSUME NEW a \in Callers, NEW stem \in Names \X {0}, RawWrite(a, stem)
       PROVE  FALSE
  BY <1>0, <1>11, RawWriteIs
<1>12. ASSUME NEW pre \in {10, 100}, NEW w \in {1, 3}, Search(pre, 5, w)
       PROVE  Synced'
  BY <1>2, <1>12 DEF Search, Command, Issued
<1>13. CASE ToolWrite
  BY <1>0, <1>13, ToolWriteIs
<1>16. CASE ToolUnlink
  <2>1. CASE Unlinked
    BY <1>0, <2>1 DEF Unlinked
  <2>2. CASE UNCHANGED <<disk, chan, forgotten, skew>>
    BY <1>0, <1>2, <1>16, <2>2, ToolUnlinkIs
  <2> QED BY <1>16, <2>1, <2>2, ToolUnlinkIs
<1>14. CASE ToolIndex
  <2>1. /\ up /\ tool # Nil /\ tool.step = "index" /\ UNCHANGED <<up, poisoned, disk, chan, received>>
        /\ IF ~poisoned /\ IsNote(disk, tool.path)
           THEN IndexSingle(tool.path) /\ forgotten' = forgotten \ {tool.path}
           ELSE UNCHANGED <<reg, links, forgotten>>
    BY <1>14 DEF ToolIndex
  <2>2. VSettled
    BY <1>0, <2>1 DEF VSettled, NoCopies
  <2>3. forgotten = {}
    BY <2>1, <2>2 DEF VTool, VSettled
  <2>4. InSync(reg, links, disk) /\ NoCopies
    BY <2>2, <2>3, KnownIs DEF VSync, VSettled, InSync
  <2>5. forgotten' = {}
    BY <2>1, <2>3
  <2>6. Known' = disk
    BY <2>1, <2>5 DEF Known, VType, Disks
  <2>7. reg' = reg /\ links' = links
    <3>1. CASE ~poisoned /\ IsNote(disk, tool.path)
      <4>1. tool.path \in Files(disk)
        BY <2>1, <3>1, ToolIs DEF Files
      <4> QED BY <2>1, <2>4, <3>1, <4>1, IndexAgain
    <3>2. CASE ~(~poisoned /\ IsNote(disk, tool.path))
      BY <2>1, <3>2
    <3> QED BY <3>1, <3>2
  <2> QED BY <2>1, <2>4, <2>6, <2>7 DEF InSync
<1>15. CASE Edits
  BY <1>0, <1>15, EditIs
<1> QED BY <1>3, <1>4, <1>5, <1>6, <1>7, <1>8, <1>9, <1>10, <1>11, <1>12, <1>13, <1>14,
           <1>15, <1>16 DEF VaultNext, Edits, Forgets

-----------------------------------------------------------------------------
(* The rounds of a graph search of n rounds.                                   *)
NextLayer(x) == LET beyond == Linked(x[2]) \ x[1] IN <<x[1] \cup beyond, beyond>>

IsLayers(f, s, n) == f = [d \in 0..n |-> IF d = 0 THEN <<s, s>> ELSE NextLayer(f[d - 1])]

LEMMA LayersExist ==
  ASSUME NEW s
  PROVE  \A n \in Nat : \E f : IsLayers(f, s, n)
<1> DEFINE T == {n \in Nat : \E f : IsLayers(f, s, n)}
<1>1. 0 \in T
  <2> DEFINE f == [d \in 0..0 |-> <<s, s>>]
  <2>1. f = [d \in 0..0 |-> IF d = 0 THEN <<s, s>> ELSE NextLayer(f[d - 1])]
    BY \A d \in 0..0 : d = 0
  <2> HIDE DEF f
  <2>2. IsLayers(f, s, 0)
    BY <2>1 DEF IsLayers
  <2> QED BY <2>2
<1>2. ASSUME NEW n \in Nat, n \in T
      PROVE  n + 1 \in T
  <2>1. PICK f : IsLayers(f, s, n)
    BY <1>2
  <2> DEFINE g == [d \in 0..n + 1 |-> IF d = n + 1 THEN NextLayer(f[n]) ELSE f[d]]
             h == [d \in 0..n + 1 |-> IF d = 0 THEN <<s, s>> ELSE NextLayer(g[d - 1])]
  <2>2. ASSUME NEW d \in 0..n + 1
        PROVE  g[d] = h[d]
    <3>1. CASE d = n + 1
      <4>1. d # 0 /\ d - 1 = n /\ n \in 0..n + 1 /\ n # n + 1
        BY <3>1
      <4>2. g[d - 1] = f[n]
        BY <4>1
      <4>3. g[d] = NextLayer(f[n]) /\ h[d] = NextLayer(g[d - 1])
        BY <3>1, <4>1
      <4> QED BY <4>2, <4>3
    <3>2. CASE d # n + 1
      <4>1. d \in 0..n /\ g[d] = f[d]
        BY <3>2
      <4>2. f[d] = IF d = 0 THEN <<s, s>> ELSE NextLayer(f[d - 1])
        BY <2>1, <4>1 DEF IsLayers
      <4>3. d # 0 => d - 1 \in 0..n + 1 /\ d - 1 # n + 1 /\ g[d - 1] = f[d - 1]
        BY <4>1
      <4> HIDE DEF g
      <4>4. h[d] = IF d = 0 THEN <<s, s>> ELSE NextLayer(g[d - 1])
        OBVIOUS
      <4> QED BY <4>1, <4>2, <4>3, <4>4
    <3> QED BY <3>1, <3>2
  <2>3. g = [d \in 0..n + 1 |-> g[d]] /\ h = [d \in 0..n + 1 |-> h[d]]
    OBVIOUS
  <2> HIDE DEF g
  <2>4. g = h
    <3> HIDE DEF h
    <3> QED BY <2>2, <2>3
  <2>5. IsLayers(g, s, n + 1)
    BY <2>4 DEF IsLayers
  <2> QED BY <2>5
<1>3. Nat \subseteq T
  <2> HIDE DEF T
  <2> QED BY <1>1, <1>2, FromZeroUp
<1> QED BY <1>3

LEMMA LayersAre ==
  ASSUME NEW s
  PROVE  IsLayers(Layers(s), s, MaxNotes)
<1> DEFINE P(f) == IsLayers(f, s, MaxNotes)
<1>1. \E f : P(f)
  BY LayersExist, NotesAre
<1>2. Layers(s) = CHOOSE f : P(f)
  BY DEF Layers, IsLayers, NextLayer
<1>3. P(CHOOSE f : P(f))
  <2> HIDE DEF P
  <2> QED BY <1>1
<1> QED BY <1>2, <1>3
-----------------------------------------------------------------------------
(* Vault: the invariant holds.                                                 *)

LEMMA VInvInit ==
  ASSUME VaultInit
  PROVE  VInv
<1> DEFINE owner == CHOOSE x \in Agents : TRUE
           n == CHOOSE x \in Names : TRUE
           first == [id |-> 1, agent |-> owner, shared |-> FALSE, links |-> {}, at |-> 1]
           second(b) == [first EXCEPT !.id = 2, !.agent = b, !.links = {<<"name", n>>}, !.at = 2]
<1>1. PICK b \in Agents \ {owner}, m \in Names \ {n} :
        disk = [p \in Paths |-> IF p = <<<<owner, "notes">>, <<n, 0>>>> THEN first
                                ELSE IF p = <<<<b, "notes">>, <<m, 0>>>> THEN second(b)
                                ELSE Nil]
  BY DEF VaultInit
<1>2. owner \in Agents /\ n \in Names
  BY <1>1
<1>3. 1 \in NoteIds /\ 2 \in NoteIds /\ 2 \in 0..MaxNotes /\ <<"name", n>> \in Raws
  BY <1>2, VaultAssumption DEF NoteIds, Raws
<1>4. first \in Note /\ second(b) \in Note /\ first.shared = FALSE /\ second(b).shared = FALSE
      /\ first.agent = owner /\ second(b).agent = b
  BY <1>1, <1>2, <1>3 DEF Note
<1> HIDE DEF first, second
<1>5. disk \in Disks
  BY <1>1, <1>4 DEF Disks
<1>6. \A p \in Files(disk) : Placed(disk[p], p)
  <2> SUFFICES ASSUME NEW p \in Files(disk) PROVE Placed(disk[p], p)
    OBVIOUS
  <2>1. p \in Paths /\ disk[p] # Nil
    BY DEF Files, IsNote
  <2>2. CASE p = <<<<owner, "notes">>, <<n, 0>>>>
    BY <1>1, <1>4, <2>1, <2>2 DEF Placed
  <2>3. CASE p # <<<<owner, "notes">>, <<n, 0>>>>
    <3>1. p = <<<<b, "notes">>, <<m, 0>>>> /\ disk[p] = second(b)
      BY <1>1, <2>1, <2>3
    <3>2. p[1] = <<b, "notes">>
      BY <3>1
    <3> QED BY <1>4, <3>1, <3>2 DEF Placed
  <2> QED BY <2>2, <2>3
<1>7. /\ up = FALSE /\ poisoned = FALSE /\ reg = EmptyRegistry /\ links = NoLinks /\ chan = FALSE
      /\ received = FALSE /\ tool = Nil /\ skew = {} /\ forgotten = {} /\ made = 2 /\ clock = 2
      /\ cmds = 0 /\ edits = 0 /\ crashes = 0
  BY DEF VaultInit
<1>8. VType
  <2>1. 0 \in 0..MaxCmds /\ 0 \in 0..MaxEdits /\ 0 \in 0..MaxCrashes
    BY VaultAssumption
  <2> QED BY <1>3, <1>5, <1>7, <2>1 DEF VType
<1>9. VIndex
  BY <1>7, EmptyOK DEF VIndex
<1>10. VExact /\ VTool /\ VPlaced /\ VSync
  BY <1>6, <1>7 DEF VExact, VTool, VPlaced, VSync, VSettled
<1> QED BY <1>8, <1>9, <1>10 DEF VInv

LEMMA VInvStutter ==
  ASSUME VInv, UNCHANGED vaultVars
  PROVE  VInv'
<1>1. UNCHANGED <<up, poisoned, disk, reg, links, chan, received, tool, skew, forgotten, made, clock, cmds,
                  edits, crashes>>
  BY DEF vaultVars, bound
<1>2. VType' /\ VIndex'
  BY <1>1 DEF VInv, VType, VIndex
<1>3. VExact' /\ VTool' /\ VPlaced'
  BY <1>1 DEF VInv, VExact, VTool, VPlaced, Indexing
<1>4. VSync'
  BY <1>1 DEF VInv, VSync, VSettled, NoCopies, Known
<1> QED BY <1>2, <1>3, <1>4 DEF VInv

LEMMA VInvStep ==
  ASSUME VInv, VaultNext
  PROVE  VInv'
BY VTypeStep, VIndexStep, VExactStep, VToolStep, VPlacedStep, VSyncStep DEF VInv

(* The index agrees with itself, knows the files the application wrote and, at *)
(* rest, is the one a rebuild makes.                                           *)
THEOREM VaultSound == VaultSpec => []VInv
<1>1. VaultInit => VInv
  BY VInvInit
<1>2. VInv /\ [VaultNext]_vaultVars => VInv'
  BY VInvStep, VInvStutter
<1> QED BY <1>1, <1>2, PTL DEF VaultSpec

THEOREM RestIsInSync == VaultSpec => []InSyncWhenQuiet
<1>1. VInv => InSyncWhenQuiet
  BY DEF VInv, VSync, VSettled, InSyncWhenQuiet, Quiet
<1> QED BY <1>1, VaultSound, PTL

-----------------------------------------------------------------------------
(* Vault: what callers are shown.                                              *)

LEMMA TypesHold == VInv => VaultTypeOK
<1> SUFFICES ASSUME VInv PROVE VaultTypeOK
  OBVIOUS
<1>1. VType /\ reg \in Registry /\ links \in Links
  BY DEF VInv, VIndex, RegistryOK, LinksOK
<1>2. \A p \in Paths : disk[p] \in {Nil, Broken} \/ disk[p] \in Note
  BY <1>1 DEF VType, Disks
<1>3. /\ reg.path \in [NoteIds -> Paths \cup {Nil}] /\ reg.at \in [Paths -> NoteIds \cup {Nil}]
      /\ reg.named \in [NoteIds -> SUBSET Stems] /\ reg.agent \in [NoteIds -> Agents \cup {Nil}]
      /\ reg.updated \in [NoteIds -> Nat]
  BY <1>1 DEF Registry
<1>4. /\ links.out \in [NoteIds -> SUBSET (Raws \X (NoteIds \cup {Nil}))]
      /\ links.in \in [NoteIds -> SUBSET (NoteIds \X Raws)]
  BY <1>1 DEF Links
<1> QED BY <1>1, <1>2, <1>3, <1>4 DEF VType, VaultTypeOK

LEMMA ConsistencyHolds == VInv => IndexConsistent
<1> SUFFICES ASSUME VInv PROVE IndexConsistent
  OBVIOUS
<1>1. LinksOK(links, Registered(reg)) /\ RegistryOK(reg)
  BY DEF VInv, VIndex
<1>2. Mirrored(links)
  BY <1>1 DEF LinksOK
<1>3. \A i \in NoteIds : /\ Targets(links, i) \subseteq Registered(reg) \cup {Nil}
                         /\ i \notin Registered(reg) => links.out[i] = {}
  BY <1>1 DEF LinksOK
<1>4. \A i \in NoteIds : reg.named[i] # {} <=> i \in Registered(reg)
  BY <1>1 DEF RegistryOK
<1> QED BY <1>2, <1>3, <1>4 DEF IndexConsistent, Mirrored

LEMMA EntriesHold ==
  ASSUME VInv, up, skew = {}, NEW i \in Registered(reg)
  PROVE  /\ i \in NoteIds /\ reg.path[i] \in Files(disk) /\ disk[reg.path[i]].id = i
         /\ EntryExact(i) /\ reg.path[i] # Nil
<1>1. EntryExact(i)
  BY VExactIs DEF VInv
<1>2. i \in NoteIds /\ reg.path[i] \in Paths
  BY RegistryPaths DEF VInv, VIndex
<1> QED BY <1>1, <1>2, NotesAre DEF EntryExact, Files

LEMMA ExactnessHolds == VInv => RegistryExact
<1> SUFFICES ASSUME VInv, up, skew = {} PROVE RegistryExact
  BY DEF RegistryExact
<1>1. \A i \in Registered(reg) : /\ IsNote(disk, reg.path[i]) /\ disk[reg.path[i]].id = i
                                 /\ disk[reg.path[i]].agent = reg.agent[i]
                                 /\ tool = Nil => disk[reg.path[i]].at = reg.updated[i]
  BY EntriesHold DEF EntryExact, Indexing
<1>2. \A p \in Files(disk) : FileKnown(p)
  BY VExactIs DEF VInv
<1> QED BY <1>1, <1>2 DEF RegistryExact, FileKnown

LEMMA SearchHolds == VInv => SearchSeesTheList
<1> SUFFICES ASSUME VInv, up, skew = {}, edits = 0, tool = Nil, NoCopies, NEW a \in Agents
             PROVE  /\ Listed(a) \subseteq Searched(a)
                    /\ Searched(a) \subseteq Listed(a) \cup {disk[p].id : p \in forgotten \cap Files(disk)}
  BY DEF SearchSeesTheList
<1>1. \A p \in Files(disk) : Placed(disk[p], p) /\ p \in Paths /\ disk[p] \in Note
  BY FilesAre DEF VInv, VPlaced, VType
<1>2. \A p \in Files(disk) : disk[p].shared \in BOOLEAN /\ disk[p].agent \in Agents
  BY <1>1 DEF Note
<1>3. ASSUME NEW i \in Listed(a)
      PROVE  i \in Searched(a)
  <2> DEFINE p == reg.path[i]
  <2>1. i \in Registered(reg) /\ ~InArchive(p) /\ (disk[p].agent = a \/ disk[p].shared)
    BY <1>3 DEF Listed
  <2>2. p \in Files(disk) /\ disk[p].id = i
    BY <2>1, EntriesHold
  <2> HIDE DEF p
  <2>3. p[1] \in {<<a, "notes">>, <<"shared", "notes">>}
    BY <1>1, <1>2, <2>1, <2>2 DEF Placed, InArchive
  <2> QED BY <2>2, <2>3 DEF Searched
<1>4. ASSUME NEW i \in Searched(a), i \notin {disk[p].id : p \in forgotten \cap Files(disk)}
      PROVE  i \in Listed(a)
  <2>1. PICK p \in Files(disk) : i = disk[p].id /\ p[1] \in {<<a, "notes">>, <<"shared", "notes">>}
    BY <1>4 DEF Searched
  <2>2. FileKnown(p)
    BY VExactIs DEF VInv
  <2>3. i \in Registered(reg)
    BY <1>4, <2>1, <2>2 DEF FileKnown
  <2>4. reg.path[i] = p
    BY <2>1, <2>3, EntriesHold DEF NoCopies
  <2>5. ~InArchive(p)
    BY <2>1 DEF InArchive
  <2>6. disk[p].agent = a \/ disk[p].shared
    <3>1. CASE p[1] = <<a, "notes">>
      BY <1>1, <1>2, <3>1 DEF Placed
    <3>2. CASE p[1] = <<"shared", "notes">>
      <4>1. disk[p].agent # "shared"
        BY <1>2, VaultAssumption
      <4>2. Placed(disk[p], p)
        BY <1>1
      <4> QED BY <1>2, <3>2, <4>1, <4>2 DEF Placed
    <3> QED BY <2>1, <3>1, <3>2
  <2>7. IsNote(disk, p)
    BY DEF Files
  <2> QED BY <2>3, <2>4, <2>5, <2>6, <2>7 DEF Listed
<1> QED BY <1>3, <1>4

(* The notes one link from i.                                                  *)
Near(i) == {j \in NoteIds : <<i, j>> \in Joined}

LEMMA NearIs ==
  ASSUME NEW i \in NoteIds
  PROVE  \A j : j \in Near(i) <=> j \in NoteIds /\ (j \in Targets(links, i) \/ i \in Targets(links, j))
<1>1. \A j \in NoteIds : <<i, j>> \in Joined <=> (j \in Targets(links, i) \/ i \in Targets(links, j))
  BY DEF Joined
<1> QED BY <1>1 DEF Near

LEMMA LinkedIs ==
  ASSUME VInv, NEW S \in SUBSET NoteIds
  PROVE  Linked(S) = UNION {Near(i) : i \in S}
<1>1. links \in Links /\ Mirrored(links)
  BY DEF VInv, VIndex, LinksOK
<1>2. \A i \in NoteIds : links.out[i] \in SUBSET (Raws \X (NoteIds \cup {Nil}))
                         /\ links.in[i] \in SUBSET (NoteIds \X Raws)
  BY <1>1 DEF Links
<1>3. Nil \notin NoteIds
  BY NotesAre
<1>4. ASSUME NEW j \in Linked(S)
      PROVE  j \in UNION {Near(i) : i \in S}
  <2>1. CASE \E k \in S : \E x \in links.out[k] : j = x[2]
    <3>1. PICK i \in S : \E x \in links.out[i] : j = x[2]
      BY <2>1
    <3>2. j \in Targets(links, i) /\ i \in NoteIds
      BY <3>1 DEF Targets
    <3>3. j \in NoteIds \cup {Nil} /\ j # Nil
      BY <1>2, <3>1, <3>2 DEF Linked
    <3>4. j \in Near(i)
      BY <3>2, <3>3, NearIs
    <3> QED BY <3>4
  <2>2. CASE \E k \in S : \E e \in links.in[k] : j = e[1]
    <3>1. PICK i \in S : \E e \in links.in[i] : j = e[1]
      BY <2>2
    <3>2. PICK e \in links.in[i] : j = e[1]
      BY <3>1
    <3>3. i \in NoteIds /\ e = <<j, e[2]>> /\ j \in NoteIds /\ e[2] \in Raws
      BY <1>2, <3>2
    <3>4. <<e[2], i>> \in links.out[j]
      BY <1>1, <3>2, <3>3 DEF Mirrored
    <3>5. i \in Targets(links, j)
      BY <3>4 DEF Targets
    <3>6. j \in Near(i)
      BY <3>3, <3>5, NearIs
    <3> QED BY <3>6
  <2> QED BY <2>1, <2>2 DEF Linked
<1>5. ASSUME NEW i \in S, NEW j \in Near(i)
      PROVE  j \in Linked(S)
  <2>1. i \in NoteIds /\ j \in NoteIds /\ j # Nil /\ (j \in Targets(links, i) \/ i \in Targets(links, j))
    BY <1>3, NearIs
  <2>2. CASE j \in Targets(links, i)
    <3>1. PICK x \in links.out[i] : x[2] = j
      BY <2>2 DEF Targets
    <3> QED BY <2>1, <3>1 DEF Linked
  <2>3. CASE i \in Targets(links, j)
    <3>1. PICK x \in links.out[j] : x[2] = i
      BY <2>3 DEF Targets
    <3>2. x = <<x[1], i>> /\ x[1] \in Raws
      BY <1>2, <2>1, <3>1
    <3>3. <<j, x[1]>> \in links.in[i]
      BY <1>1, <2>1, <3>1, <3>2 DEF Mirrored
    <3>4. <<j, x[1]>>[1] = j
      OBVIOUS
    <3> QED BY <2>1, <3>3, <3>4 DEF Linked
  <2> QED BY <2>1, <2>2, <2>3
<1> QED BY <1>4, <1>5

LEMMA RoundsAre ==
  ASSUME VInv, NEW s \in SUBSET NoteIds
  PROVE  /\ Expand(s, 0) = s
         /\ Expand(s, 1) = s \cup Linked(s)
         /\ Expand(s, 2) = s \cup Linked(s) \cup Linked(Linked(s) \ s)
<1> DEFINE L == Layers(s)
<1>1. L = [d \in 0..MaxNotes |-> IF d = 0 THEN <<s, s>> ELSE NextLayer(L[d - 1])]
  BY LayersAre DEF IsLayers
<1> HIDE DEF L
<1>2. 0 \in 0..MaxNotes /\ 1 \in 0..MaxNotes /\ 2 \in 0..MaxNotes
  BY VaultAssumption
<1>3. \A d \in 0..MaxNotes : L[d] = IF d = 0 THEN <<s, s>> ELSE NextLayer(L[d - 1])
  BY <1>1
<1>4. L[0] = <<s, s>> /\ L[1] = NextLayer(L[0]) /\ L[2] = NextLayer(L[1])
  BY <1>2, <1>3
<1>5. L[1] = <<s \cup (Linked(s) \ s), Linked(s) \ s>>
  BY <1>4 DEF NextLayer
<1>6. L[2][1] = s \cup (Linked(s) \ s) \cup (Linked(Linked(s) \ s) \ (s \cup (Linked(s) \ s)))
  BY <1>4, <1>5 DEF NextLayer
<1>7. Expand(s, 0) = L[0][1] /\ Expand(s, 1) = L[1][1] /\ Expand(s, 2) = L[2][1]
  BY DEF Expand, L
<1> QED BY <1>4, <1>5, <1>6, <1>7

LEMMA GraphHolds == VInv => GraphIsNeighbourhood
<1> SUFFICES ASSUME VInv PROVE GraphIsNeighbourhood
  OBVIOUS
<1> DEFINE One(s) == s \cup UNION {Near(i) : i \in s}
           Two(s) == One(s) \cup UNION {UNION {Near(j) : j \in Near(i)} : i \in s}
<1>1. \A i : Near(i) \in SUBSET NoteIds
  BY DEF Near
<1>2. ASSUME NEW s \in SUBSET NoteIds
      PROVE  Expand(s, 0) = s /\ Expand(s, 1) = One(s) /\ Expand(s, 2) = Two(s)
  <2>1. Linked(s) = UNION {Near(i) : i \in s}
    BY LinkedIs
  <2>2. Linked(s) \ s \in SUBSET NoteIds
    BY <1>1, <2>1
  <2>3. Linked(Linked(s) \ s) = UNION {Near(i) : i \in Linked(s) \ s}
    BY <2>2, LinkedIs
  <2>4. Two(s) = s \cup Linked(s) \cup Linked(Linked(s) \ s)
    BY <2>1, <2>3
  <2> QED BY <2>1, <2>4, RoundsAre
<1>3. ASSUME NEW a \in Agents, NEW shared \in BOOLEAN, up, skew = {}, NEW d \in {0, 2},
             NEW e \in GraphEdges(a, d, shared)
      PROVE  {e[1], e[2]} \subseteq GraphNodes(a, d, shared)
  <2> DEFINE S == GraphIds(a, d, shared)
  <2>1. Seeds(a, shared) \in SUBSET NoteIds
    BY DEF Seeds, Registered
  <2>2. S \in SUBSET NoteIds
    BY <1>1, <1>2, <2>1 DEF GraphIds
  <2>3. e[1] \in S /\ e[2] \in S /\ e[2] \in Targets(links, e[1])
    BY <1>3 DEF GraphEdges
  <2>4. e[1] \in Registered(reg) /\ e[2] \in Registered(reg)
    <3>1. e[1] \in NoteIds /\ e[2] \in NoteIds /\ Nil \notin NoteIds
      BY <2>2, <2>3, NotesAre
    <3>2. links.out[e[1]] # {}
      BY <2>3 DEF Targets
    <3>3. \A i \in NoteIds : Targets(links, i) \subseteq Registered(reg) \cup {Nil}
                             /\ (i \notin Registered(reg) => links.out[i] = {})
      BY DEF VInv, VIndex, LinksOK
    <3> HIDE DEF S
    <3>4. e[1] \in Registered(reg)
      BY <3>1, <3>2, <3>3
    <3>5. e[2] \in Registered(reg) \cup {Nil} /\ e[2] # Nil
      BY <2>3, <3>1, <3>3
    <3> QED BY <3>4, <3>5
  <2>5. \A i \in Registered(reg) : reg.path[i] # Nil /\ IsNote(disk, reg.path[i])
    BY <1>3, EntriesHold DEF EntryExact
  <2> QED BY <2>3, <2>4, <2>5 DEF GraphNodes
<1>4. \A a \in Agents, shared \in BOOLEAN : Seeds(a, shared) \in SUBSET NoteIds
  BY DEF Seeds, Registered
<1>5. \A a \in Agents, shared \in BOOLEAN :
        /\ Expand(Seeds(a, shared), 1) = One(Seeds(a, shared))
        /\ Expand(Seeds(a, shared), 2) = Two(Seeds(a, shared))
  BY <1>2, <1>4
<1>6. \A a \in Agents, shared \in BOOLEAN : up /\ skew = {} => \A d \in {0, 2} :
        \A e \in GraphEdges(a, d, shared) : {e[1], e[2]} \subseteq GraphNodes(a, d, shared)
  BY <1>3
<1> QED BY <1>5, <1>6 DEF GraphIsNeighbourhood, Near

THEOREM IndexStaysExact == VaultSpec => []IndexExact
<1>1. VInv => IndexExact
  BY TypesHold, ConsistencyHolds, ExactnessHolds, SearchHolds, GraphHolds DEF IndexExact
<1> QED BY <1>1, VaultSound, PTL

-----------------------------------------------------------------------------
(* Vault: notes are kept.                                                      *)

(* The ways in which the note of the file p may go.                            *)
Lost(p) ==
  LET i == disk[p].id
  IN \/ edits' # edits
     \/ up' /\ reg.path[i] = p /\ reg'.path[i] = Nil
     \/ tool' # tool /\ tool # Nil /\ tool.path = p /\ tool.read # disk[p]
     \/ disk' = [disk EXCEPT ![p] = Broken]
     \/ InArchive(p) /\ disk'[p] # Nil
     \/ \E k \in NoteIds \ {i} : reg.path[k] = p

(* A write that is cut takes a note off the disk only by breaking its file.    *)
LEMMA ShortLoses ==
  ASSUME NEW p \in Paths, NEW q \in Paths, NEW m, NEW c \in Note \cup {Broken}, CutShort(c, m),
         Puts(disk', disk, q, c), disk' = [disk EXCEPT ![q] = c],
         disk'[p] # disk[p], \A x \in Paths : disk'[x] \in Note => disk'[x].id # disk[p].id,
         q = p => m.id = disk[p].id
  PROVE  disk' = [disk EXCEPT ![p] = Broken]
<1>1. p = q /\ disk'[q] = c
  BY DEF Puts
<1>2. c = Broken
  BY <1>1 DEF CutShort
<1> QED BY <1>1, <1>2

LEMMA NoteStays ==
  ASSUME VInv, VaultNext, NEW p \in Files(disk), disk[p].id \notin OnDisk(disk')
  PROVE  Lost(p)
<1> DEFINE i == disk[p].id
<1>0. VType /\ VIndex /\ VTool /\ disk \in Disks
  BY DEF VInv, VType
<1>1. disk' \in Disks
  BY <1>0, VTypeStep DEF VType
<1>2. p \in Paths /\ disk[p] \in Note /\ i \in NoteIds
  BY <1>0, FilesAre
<1>3. \A x \in Paths : disk'[x] \in Note => disk'[x].id # i
  <2>1. \A x \in Paths : disk'[x] \in Note => disk'[x].id \in OnDisk(disk')
    BY <1>1, FilesAre
  <2> QED BY <2>1
<1>4. disk'[p] # disk[p]
  BY <1>2, <1>3
<1>5. disk[p] # Nil /\ disk[p] # Broken /\ IsNote(disk, p)
  BY <1>2, FileAssumption DEF IsNote
<1>6. CASE Start \/ RebuildIndex \/ Receive \/ ProcessEvents \/ Fail \/ ToolIndex
  <2>1. disk' = disk
    BY <1>6 DEF Start, RebuildIndex, Receive, ProcessEvents, Fail, ToolIndex
  <2> QED BY <1>4, <2>1
<1>7. ASSUME NEW a \in Callers, NEW shared \in BOOLEAN, NEW n \in Names, NEW body \in Bodies,
             CreateNote(a, shared, n, body)
      PROVE  FALSE
  <2>1. PICK q \in Paths :
          disk[q] = Nil /\ (Makes(a, shared, n, body, q) \/ Cuts(q, MadeNote(a, shared, body)))
    BY <1>0, <1>7, CreateIs
  <2>2. \A x \in Paths : x # q => disk'[x] = disk[x]
    BY <2>1 DEF Makes, Cuts, Puts
  <2> QED BY <1>2, <1>4, <1>5, <2>1, <2>2
<1>8. ASSUME NEW j \in NoteIds, NEW caller \in Callers, NEW n \in Names \cup {Nil}, NEW body \in Bodies,
             UpdateNote(j, caller, n, body)
      PROVE  Lost(p)
  <2>1. PICK q \in Paths : Done(j, q, n, body, caller) \/ Twice(j, q, body) \/ CutsAt(j, q, body)
    BY <1>0, <1>8, UpdateIs
  <2>2. NewText(j, body) \in Note /\ (p = reg.path[j] => NewText(j, body).id = i)
    BY <1>0, <1>2, <1>8, UpdateIs DEF NewText, Note
  <2>3. CASE Done(j, q, n, body, caller) \/ Twice(j, q, body)
    <3>1. q = reg.path[j] \/ disk[q] = Nil
      BY <2>3 DEF Done, Twice
    <3>2. disk'[q] = NewText(j, body)
      BY <2>3 DEF Done, Twice
    <3>3. p # reg.path[j]
      BY <1>3, <2>2, <3>2
    <3>4. disk'[p] = disk[p]
      BY <1>2, <1>5, <2>3, <3>1, <3>3 DEF Done, Twice
    <3> QED BY <1>4, <3>4
  <2>4. CASE CutsAt(j, q, body)
    <3>1. q = reg.path[j] \/ disk[q] = Nil
      BY <2>4 DEF CutsAt
    <3>2. PICK c \in Note \cup {Broken} :
            CutShort(c, NewText(j, body)) /\ Puts(disk', disk, q, c) /\ disk' = [disk EXCEPT ![q] = c]
      BY <2>4 DEF CutsAt, Cuts
    <3>3. q = p => NewText(j, body).id = disk[p].id
      BY <1>5, <2>2, <3>1
    <3>4. disk' = [disk EXCEPT ![p] = Broken]
      BY <1>2, <1>3, <1>4, <3>2, <3>3, ShortLoses
    <3> QED BY <3>4 DEF Lost
  <2> QED BY <2>1, <2>3, <2>4
<1>9. ASSUME NEW j \in NoteIds, NEW caller \in Callers \cup {"user"}, DeleteNote(j, caller)
      PROVE  Lost(p)
  <2>1. /\ up /\ j \in Registered(reg) /\ Puts(disk', disk, reg.path[j], Nil) /\ reg' = Unregister(reg, j)
        /\ up' = up
    BY <1>0, <1>9, DeleteIs DEF Runs
  <2>2. p = reg.path[j]
    BY <1>2, <1>4, <2>1 DEF Puts
  <2>3. CASE j = i
    <3>1. reg'.path[j] = Nil
      BY <1>0, <2>1 DEF VIndex, RegistryOK, Registry, Unregister
    <3> QED BY <2>1, <2>2, <2>3, <3>1 DEF Lost
  <2>4. CASE j # i
    BY <2>2, <2>4 DEF Lost
  <2> QED BY <2>3, <2>4
<1>10. ASSUME NEW j \in NoteIds, NEW a \in Agents, ArchiveNote(j, a)
      PROVE  Lost(p)
  <2> DEFINE q == reg.path[j]
             to == <<<<a, "archive">>, q[2]>>
  <2>1. /\ q \in Paths /\ to \in Paths /\ to[1] = <<a, "archive">> /\ q # to /\ disk[q] # Nil
        /\ \A x \in Paths : disk'[x] = IF x = to THEN disk[q] ELSE IF x = q THEN Nil ELSE disk[x]
    BY <1>0, <1>10, ArchiveIs
  <2> HIDE DEF q, to
  <2>2. CASE p = to
    BY <2>1, <2>2 DEF Lost, InArchive
  <2>3. CASE p = q
    BY <1>2, <1>3, <2>1, <2>3
  <2>4. CASE p # to /\ p # q
    BY <1>2, <1>4, <2>1, <2>4
  <2> QED BY <2>2, <2>3, <2>4
<1>11. ASSUME NEW a \in Callers, NEW stem \in Names \X {0}, NEW body \in Bodies,
             ToolWriteRead(a, stem, body)
      PROVE  FALSE
  BY <1>4, <1>11 DEF ToolWriteRead
<1>12. CASE Forgets
  BY <1>0, <1>4, <1>12, ForgetsIs DEF Forget
<1>13. ASSUME NEW a \in Callers, NEW stem \in Names \X {0}, RawWrite(a, stem)
      PROVE  Lost(p)
  <2> DEFINE q == <<<<a, "notes">>, stem>>
  <2>1. q \in Paths /\ Puts(disk', disk, q, Broken) /\ disk' = [disk EXCEPT ![q] = Broken]
    BY <1>0, <1>13, RawWriteIs DEF RawWrite, Writes
  <2> HIDE DEF q
  <2>2. p = q
    BY <1>2, <1>4, <2>1 DEF Puts
  <2> QED BY <2>1, <2>2 DEF Lost
<1>14. ASSUME NEW pre \in {10, 100}, NEW w \in {1, 3}, Search(pre, 5, w)
      PROVE  FALSE
  BY <1>4, <1>14 DEF Search
<1>15. CASE ToolWrite
  <2>1. /\ tool # Nil /\ tool.step = "write" /\ tool.path \in Paths
        /\ ToolNote \in Note /\ ToolNote.id = tool.note.id /\ (Wrote \/ WroteShort)
    BY <1>0, <1>15, ToolWriteIs
  <2>2. tool' # tool
    <3>1. CASE Wrote
      <4>1. tool \in [step : {"write", "index"}, path : Paths, read : Note \cup {Nil}, note : Note]
        BY <1>0, <2>1, ToolIs
      <4>2. tool'.step = "index"
        BY <3>1, <4>1 DEF Wrote
      <4> QED BY <2>1, <4>2
    <3>2. CASE WroteShort
      BY <2>1, <3>2 DEF WroteShort
    <3> QED BY <2>1, <3>1, <3>2
  <2>3. tool.path = p /\ tool.read = disk[p] => ToolNote.id = i
    BY <1>0, <1>5, <2>1 DEF VTool
  <2>4. CASE tool.path = p /\ tool.read # disk[p]
    BY <2>1, <2>2, <2>4 DEF Lost
  <2>5. CASE ~(tool.path = p /\ tool.read # disk[p])
    <3>1. CASE Wrote
      <4>1. tool.path = p /\ disk'[p] = ToolNote
        BY <1>2, <1>4, <3>1 DEF Wrote, Puts
      <4> QED BY <1>2, <1>3, <2>1, <2>3, <2>5, <4>1
    <3>2. CASE WroteShort
      <4>1. PICK c \in Note \cup {Broken} :
              CutShort(c, ToolNote) /\ Puts(disk', disk, tool.path, c) /\ disk' = [disk EXCEPT ![tool.path] = c]
        BY <3>2 DEF WroteShort
      <4>2. disk' = [disk EXCEPT ![p] = Broken]
        BY <1>2, <1>3, <1>4, <2>1, <2>3, <2>5, <4>1, ShortLoses
      <4> QED BY <4>2 DEF Lost
    <3> QED BY <2>1, <3>1, <3>2
  <2> QED BY <2>4, <2>5
<1>16. CASE ToolUnlink
  <2>1. /\ tool # Nil /\ tool.read = Nil /\ tool' = Nil /\ (Unlinked \/ disk' = disk)
    BY <1>0, <1>16, ToolUnlinkIs
  <2>2. p = tool.path
    BY <1>2, <1>4, <2>1 DEF Unlinked, Puts
  <2> QED BY <1>5, <2>1, <2>2 DEF Lost
<1>17. CASE Edits
  <2>1. Edit(disk') /\ edits \in Nat
    BY <1>0, <1>17, EditIs DEF VType
  <2>2. edits' # edits
    BY <2>1 DEF Edit
  <2> QED BY <2>2 DEF Lost
<1> QED BY <1>6, <1>7, <1>8, <1>9, <1>10, <1>11, <1>12, <1>13, <1>14, <1>15, <1>16, <1>17
        DEF VaultNext, Edits, Forgets

(* A note leaves the disk only by a step aimed at its own file, or by one that *)
(* takes its file for that of another note.                                    *)
THEOREM NotesAreKept == VaultSpec => NoteKept
<1> DEFINE A == \A p \in Files(disk) :
       LET i == disk[p].id
       IN \/ i \in OnDisk(disk')
          \/ edits' # edits
          \/ up' /\ reg.path[i] = p /\ reg'.path[i] = Nil
          \/ tool' # tool /\ tool # Nil /\ tool.path = p /\ tool.read # disk[p]
          \/ disk' = [disk EXCEPT ![p] = Broken]
          \/ InArchive(p) /\ disk'[p] # Nil
          \/ \E k \in NoteIds \ {i} : reg.path[k] = p
<1>1. VInv /\ [VaultNext]_vaultVars => [A]_vaultVars
  BY NoteStays DEF Lost
<1>2. NoteKept <=> [][A]_vaultVars
  BY DEF NoteKept
<1> HIDE DEF A
<1> QED BY <1>1, <1>2, VaultSound, PTL DEF VaultSpec
=============================================================================
