------------------------------- MODULE Vault -------------------------------
(***************************************************************************)
(* The vault of notes: markdown files that agents, their tools and the     *)
(* user's own editor write, and the index the application keeps of them in *)
(* memory: where each note is, by which name links find it, which note     *)
(* links to which.                                                         *)
(*                                                                         *)
(* Code: vault/{manager,note_registry,links,graph,search,watcher}.rs,      *)
(* commands/vault_commands.rs and the vault tools of                       *)
(* commands/tool_commands/{dispatcher,file_tools}.rs.  Every operation of  *)
(* the manager holds its lock, so it is one step.  A tool writes files     *)
(* without the lock and indexes them afterwards: its steps are separate.   *)
(* Notes have one category; tags, confidence and text are left out, apart  *)
(* from the wikilinks of the text.                                         *)
(***************************************************************************)
EXTENDS Integers, FiniteSets

CONSTANTS
  Agents,     \* folders of agents
  Names,      \* titles, as file names
  MaxNotes,   \* bound on the notes made
  MaxSuffix,  \* bound on the "-n" suffix of a file name (unbounded in the code)
  Bodies,     \* what a text may link to: sets of <<"name", n>> and <<"id", i>>
  Callers,    \* the agents that act
  Edited,     \* the paths that are edited outside the application
  MaxCmds,    \* bound on commands, tool calls, edits and crashes
  MaxEdits,   \* bound on the edits made outside the application
  MaxCrashes, \* bound on the crashes and the writes that are cut
  Broken,     \* a file without valid frontmatter
  Nil

NoteIds == 1..MaxNotes
Raws  == ({"name"} \X Names) \cup ({"id"} \X NoteIds)
Stems == Names \X (0..MaxSuffix)
Dirs  == (Agents \X {"notes", "archive"}) \cup {<<"shared", "notes">>}
Paths == Dirs \X Stems

\* Two notes are there at the beginning; the shared folder is beside those of the
\* agents, so "shared" stands for no agent.
ASSUME VaultAssumption ==
  /\ {MaxNotes, MaxSuffix, MaxCmds, MaxEdits, MaxCrashes} \subseteq Nat
  /\ Bodies \subseteq SUBSET Raws
  /\ Callers \subseteq Agents /\ Edited \subseteq Paths
  /\ MaxNotes >= 2 /\ "shared" \notin Agents

VARIABLES
  up,      \* the application runs
  poisoned, \* a panic has left the lock of the manager unusable
  disk,    \* the files: a note, Broken, or Nil
  reg,     \* NoteRegistry
  links,   \* LinkIndex
  chan,    \* file events the watcher has not received
  received, \* file events the watcher has received
  tool,    \* the tool call under way
  skew,    \* what happened to the files behind the index since it was built
  forgotten, \* files whose deletion a tool has begun: the index has dropped them
  made,    \* notes made
  clock,   \* time, counted in changes of notes
  cmds, edits, crashes

bound == <<cmds, edits, crashes>>
vaultVars == <<up, poisoned, disk, reg, links, chan, received, tool, skew, forgotten,
              made, clock, bound>>

Note == [id : NoteIds, agent : Agents, shared : BOOLEAN, links : SUBSET Raws, at : Nat]

\* A tool call under way, what it found at its path and the note it writes there.
ToolCall ==
  [step : {"write", "index"}, path : Paths, read : Note \cup {Nil}, note : Note]
  \cup [step : {"unlink"}, path : Paths, read : {Nil}, note : {Nil}]

\* What stands for no value or a damaged file is not a value.
ASSUME FileAssumption ==
  /\ Nil # Broken /\ Broken \notin Note
  /\ Nil \notin Note \cup Paths \cup NoteIds \cup Agents \cup ToolCall

IsNote(d, p) == d[p] # Nil /\ d[p] # Broken
Files(d) == {p \in Paths : IsNote(d, p)}
FilesOfNote(d, i) == {p \in Files(d) : d[p].id = i}
OnDisk(d) == {d[p].id : p \in Files(d)}
\* Faulty: the archive is looked for beside the agents' folders.
ArchivedAtTop(p) == p[1][1] = "archive"
InArchive(p) == p[1][2] = "archive"

VaultTypeOK ==
  /\ {up, poisoned, chan, received} \subseteq BOOLEAN
  /\ \A p \in Paths : disk[p] \in {Nil, Broken} \/ disk[p] \in Note
  /\ reg.path \in [NoteIds -> Paths \cup {Nil}]
  /\ reg.at \in [Paths -> NoteIds \cup {Nil}]
  /\ reg.named \in [NoteIds -> SUBSET Stems]
  /\ reg.agent \in [NoteIds -> Agents \cup {Nil}]
  /\ reg.updated \in [NoteIds -> Nat]
  /\ links.out \in [NoteIds -> SUBSET (Raws \X (NoteIds \cup {Nil}))]
  /\ links.in \in [NoteIds -> SUBSET (NoteIds \X Raws)]
  /\ tool \in ToolCall \cup {Nil}
  /\ skew \subseteq {"edited", "overwritten", "copied", "raced", "stripped", "cut"}
  /\ forgotten \subseteq Paths
  /\ made \in 0..MaxNotes
  /\ clock \in Nat
  /\ cmds \in 0..MaxCmds /\ edits \in 0..MaxEdits /\ crashes \in 0..MaxCrashes

----------------------------------------------------------------------------
(* NoteRegistry.                                                           *)

EmptyRegistry == [path |-> [i \in NoteIds |-> Nil], at |-> [p \in Paths |-> Nil],
                  named |-> [i \in NoteIds |-> {}], agent |-> [i \in NoteIds |-> Nil],
                  updated |-> [i \in NoteIds |-> 0]]

Registered(r) == {i \in NoteIds : r.path[i] # Nil}

\* Faulty: the file name, not the path, is recorded.
RegisterName(r, i, p, agent, stem, at) ==
  [r EXCEPT !.path[i] = p[2], !.named[i] = @ \cup {stem}, !.agent[i] = agent, !.updated[i] = at]
Register(r, i, p, agent, stem, at) ==
  [path    |-> [r.path EXCEPT ![i] = p],
   at      |-> [r.at EXCEPT ![p] = i],
   named   |-> [r.named EXCEPT ![i] = @ \cup {stem}],
   agent   |-> [r.agent EXCEPT ![i] = agent],
   updated |-> [r.updated EXCEPT ![i] = at]]

Unregister(r, i) ==
  [path    |-> [r.path EXCEPT ![i] = Nil],
   at      |-> [p \in Paths |-> IF p = r.path[i] THEN Nil ELSE r.at[p]],
   named   |-> [r.named EXCEPT ![i] = {}],
   agent   |-> [r.agent EXCEPT ![i] = Nil],
   updated |-> [r.updated EXCEPT ![i] = 0]]

\* Faulty: only the entry of the path moves.
MoveEntry(r, i, p) == [r EXCEPT !.at[p] = i]
\* The entry of the old path goes, the entry of the new one comes.
MovePath(r, i, p) ==
  [r EXCEPT !.path[i] = p,
            !.at = [q \in Paths |-> IF q = p THEN i ELSE IF q = r.path[i] THEN Nil ELSE @[q]]]

UpdateName(r, i, stem) == [r EXCEPT !.named[i] = {stem}]

----------------------------------------------------------------------------
(* LinkIndex: out[i] has <<raw link, note it leads to>>, with Nil for a    *)
(* broken link; in[i] has <<source, raw link>>.                            *)

NoLinks == [out |-> [i \in NoteIds |-> {}], in |-> [i \in NoteIds |-> {}]]

Latest(r, S) == CHOOSE i \in S : \A j \in S : r.updated[j] <= r.updated[i]

\* resolve_wikilink: an id; then the only note of the name; then the agent's
\* own; then the latest.
Resolve(r, raw, agent) ==
  LET named == {i \in NoteIds : raw[1] = "name" /\ <<raw[2], 0>> \in r.named[i]}
      own   == {i \in named : r.agent[i] = agent}
  IN IF raw[1] = "id" /\ raw[2] \in Registered(r) THEN raw[2]
     ELSE IF named = {} THEN Nil
     ELSE IF own # {} THEN Latest(r, own) ELSE Latest(r, named)

Targets(l, i) == {x[2] : x \in l.out[i]}

\* The links of i go, its entries in the notes they led to with them.
DropOutgoing(l, i) ==
  [out |-> [l.out EXCEPT ![i] = {}],
   in  |-> [t \in NoteIds |-> IF t \in Targets(l, i) THEN {e \in l.in[t] : e[1] # i} ELSE l.in[t]]]

AddLinks(l, r, i, body, agent) ==
  LET new == {<<raw, Resolve(r, raw, agent)>> : raw \in body}
  IN [out |-> [l.out EXCEPT ![i] = @ \cup new],
      in  |-> [t \in NoteIds |-> l.in[t] \cup {<<i, x[1]>> : x \in {y \in new : y[2] = t}}]]

\* Faulty: the links the note had stay in the notes they led to.
KeepBacklinks(l, r, i, body, agent) ==
  AddLinks([l EXCEPT !.out[i] = {}], r, i, body, agent)
UpdateLinks(l, r, i, body, agent) == AddLinks(DropOutgoing(l, i), r, i, body, agent)

\* try_resolve_broken_links: broken links with the name or the id lead to i.
TryResolve(l, stem, i) ==
  LET fits(x) == x[2] = Nil /\ (x[1] = <<"id", i>> \/ (x[1] = <<"name", stem[1]>> /\ stem[2] = 0))
  IN [out |-> [s \in NoteIds |-> {IF fits(x) THEN <<x[1], i>> ELSE x : x \in l.out[s]}],
      in  |-> [l.in EXCEPT ![i] = @ \cup UNION {{<<s, x[1]>> : x \in {y \in l.out[s] : fits(y)}}
                                                : s \in NoteIds}]]

\* invalidate_links_to_name: every link with the name breaks, whichever note of
\* the name it led to.
InvalidateName(l, stem) ==
  LET fits(x) == x[2] # Nil /\ x[1] = <<"name", stem[1]>> /\ stem[2] = 0
  IN [out |-> [s \in NoteIds |-> {IF fits(x) THEN <<x[1], Nil>> ELSE x : x \in l.out[s]}],
      in  |-> [t \in NoteIds |-> {e \in l.in[t] : ~fits(<<e[2], t>>)}]]

RemoveLinks(l, i) ==
  LET d == DropOutgoing(l, i)
  IN [out |-> [s \in NoteIds |-> {IF x[2] = i THEN <<x[1], Nil>> ELSE x : x \in d.out[s]}],
      in  |-> [d.in EXCEPT ![i] = {}]]

----------------------------------------------------------------------------
(* rebuild_index walks the files in no particular order: of the copies of  *)
(* a note the last one counts.                                             *)

Walks(d) == {W \in SUBSET Files(d) : \A i \in OnDisk(d) : Cardinality(W \cap FilesOfNote(d, i)) = 1}

RegistryOf(d, W) ==
  LET files == Files(d)
      seen == OnDisk(d)
      loc == [i \in seen |-> CHOOSE p \in W : d[p].id = i]
  IN [path    |-> [i \in NoteIds |-> IF i \in seen THEN loc[i] ELSE Nil],
      at      |-> [p \in Paths |-> IF p \in files THEN d[p].id ELSE Nil],
      named   |-> [i \in NoteIds |-> {p[2] : p \in {q \in files : d[q].id = i}}],
      agent   |-> [i \in NoteIds |-> IF i \in seen THEN d[loc[i]].agent ELSE Nil],
      updated |-> [i \in NoteIds |-> IF i \in seen THEN d[loc[i]].at ELSE 0]]

LinksOf(d, r) ==
  LET files == Files(d)
      out == [i \in NoteIds |-> UNION {{<<raw, Resolve(r, raw, d[p].agent)>> : raw \in d[p].links}
                                   : p \in {q \in files : d[q].id = i}}]
  IN [out |-> out,
      in  |-> [t \in NoteIds |-> UNION {{<<s, x[1]>> : x \in {y \in out[s] : y[2] = t}} : s \in NoteIds}]]

Indexes(d) == {LET r == RegistryOf(d, W) IN <<r, LinksOf(d, r)>> : W \in Walks(d)}

\* Faulty: changed files are indexed, the entries of removed ones stay.
RebuildKeeps ==
  \E x \in Indexes(disk) :
    /\ reg' = [x[1] EXCEPT !.path = [i \in NoteIds |-> IF @[i] = Nil THEN reg.path[i] ELSE @[i]]]
    /\ links' = x[2]
    /\ skew' = {} /\ forgotten' = {}
Rebuild ==
  \E x \in Indexes(disk) : reg' = x[1] /\ links' = x[2] /\ skew' = {} /\ forgotten' = {}

----------------------------------------------------------------------------
\* Two agents' notes, the second linking to the first by its name.
VaultInit ==
  LET owner == CHOOSE x \in Agents : TRUE
      n == CHOOSE x \in Names : TRUE
      first == [id |-> 1, agent |-> owner, shared |-> FALSE, links |-> {}, at |-> 1]
  IN /\ up = FALSE /\ poisoned = FALSE
     /\ \E b \in Agents \ {owner}, m \in Names \ {n} :
          disk = [p \in Paths |-> IF p = <<<<owner, "notes">>, <<n, 0>>>> THEN first
                                  ELSE IF p = <<<<b, "notes">>, <<m, 0>>>>
                                  THEN [first EXCEPT !.id = 2, !.agent = b, !.links = {<<"name", n>>}, !.at = 2]
                                  ELSE Nil]
     /\ reg = EmptyRegistry
     /\ links = NoLinks
     /\ chan = FALSE /\ received = FALSE
     /\ tool = Nil
     /\ skew = {} /\ forgotten = {}
     /\ made = 2
     /\ clock = 2
     /\ cmds = 0 /\ edits = 0 /\ crashes = 0

Start ==
  /\ ~up
  /\ up' = TRUE
  /\ Rebuild
  /\ UNCHANGED <<poisoned, disk, chan, received, tool, made, clock, bound>>

Fails == crashes < MaxCrashes /\ crashes' = crashes + 1
Stops == /\ Fails
         /\ up' = FALSE /\ poisoned' = FALSE /\ chan' = FALSE /\ received' = FALSE /\ tool' = Nil
         /\ reg' = EmptyRegistry /\ links' = NoLinks /\ forgotten' = {}

----------------------------------------------------------------------------
(* The commands of the manager.  Every write to a file is an event for the *)
(* watcher, the application's own writes too.                              *)

Issued  == up /\ cmds < MaxCmds /\ cmds' = cmds + 1
Command == ~poisoned /\ Issued
Writes(d) == disk' = d /\ chan' = TRUE
Ticks == clock' = clock + 1
Runs == UNCHANGED <<up, poisoned, received, tool, forgotten, edits, crashes>>

\* Faulty: a file of the name is not looked for.
FirstStem(dir, n) == {<<n, 0>>}
\* The first free name: n, n-1, n-2, ...
FreeStem(dir, n) ==
  {<<n, k>> : k \in {j \in 0..MaxSuffix : /\ disk[<<dir, <<n, j>>>>] = Nil
                                          /\ \A i \in 0..(j - 1) : disk[<<dir, <<n, i>>>>] # Nil}}

\* A write empties the file first.  It may fail half way, or the process may end:
\* the file has lost its frontmatter or the end of its text, and the index is as
\* it was.
Part(m) == {Broken} \cup {[m EXCEPT !.links = l] : l \in SUBSET m.links}
\* Faulty: the file the note had is removed first.
CutWriteGone(p, m) ==
  \E c \in Part(m) :
    /\ disk' = [disk EXCEPT ![reg.path[m.id]] = Nil, ![p] = c]
    /\ Stops /\ UNCHANGED <<skew, edits>>
CutWrite(p, m) ==
  \E d \in {[disk EXCEPT ![p] = c] : c \in Part(m)} :
    \/ /\ Writes(d) /\ Fails
       /\ skew' = skew \cup {"cut"}
       /\ UNCHANGED <<up, poisoned, received, tool, forgotten, edits, reg, links>>
    \/ disk' = d /\ Stops /\ UNCHANGED <<skew, edits>>

\* The registry names the note by its title, without the suffix of its file.
CreateNote(a, shared, n, body) ==
  LET i == made + 1
      dir == IF shared THEN <<"shared", "notes">> ELSE <<a, "notes">>
  IN /\ Command
     /\ made < MaxNotes /\ made' = i
     /\ Ticks
     /\ \E stem \in FreeStem(dir, n) :
          LET m == [id |-> i, agent |-> a, shared |-> shared, links |-> body, at |-> clock']
          IN \/ /\ Writes([disk EXCEPT ![<<dir, stem>>] = m])
                /\ reg' = Register(reg, i, <<dir, stem>>, a, <<n, 0>>, clock')
                /\ links' = TryResolve(UpdateLinks(links, reg', i, body, a), <<n, 0>>, i)
                /\ Runs /\ UNCHANGED skew
             \/ CutWrite(<<dir, stem>>, m)

\* The text, and with a new title the file: the new file is written and then the
\* old one is removed, which may fail or be cut off by a crash.  Links are
\* resolved for the caller, whoever owns the note.
Reindexed(i, old, p, n, body, caller) ==
  LET r == [MovePath(reg, i, p) EXCEPT !.updated[i] = clock']
      l == UpdateLinks(links, r, i, body, caller)
  IN IF n = Nil THEN reg' = r /\ links' = l
     ELSE /\ reg' = UpdateName(r, i, <<n, 0>>)
          /\ links' = TryResolve(InvalidateName(l, old[2]), <<n, 0>>, i)

UpdateNote(i, caller, n, body) ==
  LET old == reg.path[i]
      new == [disk[old] EXCEPT !.links = body, !.at = clock']
  IN /\ Command
     /\ i \in Registered(reg) /\ IsNote(disk, old)
     /\ Ticks
     /\ IF n = Nil \/ old[2] = <<n, 0>>
        THEN \/ /\ Writes([disk EXCEPT ![old] = new])
                /\ Reindexed(i, old, old, n, body, caller)
                /\ Runs /\ UNCHANGED skew
             \/ CutWrite(old, new)
        ELSE \E stem \in FreeStem(old[1], n) :
               LET p == <<old[1], stem>>
               IN \/ /\ Writes([disk EXCEPT ![p] = new, ![old] = Nil])
                     /\ Reindexed(i, old, p, n, body, caller)
                     /\ Runs /\ UNCHANGED skew
                  \/ /\ Writes([disk EXCEPT ![p] = new])
                     /\ skew' = skew \cup {"copied"}
                     /\ Runs /\ UNCHANGED <<reg, links>>
                  \/ /\ disk' = [disk EXCEPT ![p] = new]
                     /\ Stops /\ UNCHANGED <<skew, edits>>
                  \/ CutWrite(p, new)
     /\ UNCHANGED made

\* Agents do not delete shared notes.
DeleteNote(i, caller) ==
  LET p == reg.path[i]
  IN /\ Command
     /\ i \in Registered(reg) /\ disk[p] # Nil
     /\ caller # "user" /\ IsNote(disk, p) => ~disk[p].shared
     /\ Writes([disk EXCEPT ![p] = Nil])
     /\ links' = RemoveLinks(links, i)
     /\ reg' = Unregister(reg, i)
     /\ skew' = IF i \in OnDisk(disk') THEN skew \cup {"copied"} ELSE skew
     /\ Runs /\ UNCHANGED <<made, clock>>

\* The file moves to the archive of the agent, over a file of its name there.
ArchiveNote(i, a) ==
  LET p == reg.path[i]
      to == <<<<a, "archive">>, p[2]>>
  IN /\ Command
     /\ i \in Registered(reg) /\ ~InArchive(p) /\ p[1] = <<a, "notes">> /\ disk[p] # Nil
     /\ Writes([disk EXCEPT ![p] = Nil, ![to] = disk[p]])
     /\ reg' = MovePath(reg, i, to)
     /\ skew' = IF disk[to] = Nil THEN skew ELSE skew \cup {"overwritten"}
     /\ Runs /\ UNCHANGED <<links, made, clock>>

\* vault_rebuild_index, and the end of an import.
RebuildIndex ==
  /\ Command
  /\ Rebuild
  /\ UNCHANGED <<up, poisoned, disk, chan, received, tool, made, clock, edits, crashes>>

\* search cuts the text around the first match.  The place of the match is counted
\* in bytes of the lowercase text, the text is cut by characters: a text of pre
\* characters of w bytes before the match and post after it.
Cut(pre, post, w) ==
  LET pos == pre * w
      start == IF pos < 50 THEN 0 ELSE pos - 50
      len == pre + post
  IN <<start, IF pos + 100 < len THEN pos + 100 ELSE len>>

\* A range that starts after its end is a panic, under the lock.
Search(pre, post, w) ==
  /\ Command
  /\ Files(disk) # {}
  /\ poisoned' = (Cut(pre, post, w)[1] > Cut(pre, post, w)[2])
  /\ UNCHANGED <<up, disk, reg, links, chan, received, tool, skew, forgotten, made, clock, edits, crashes>>

----------------------------------------------------------------------------
(* The vault tools: write_file and delete_file in the agent's own folder.  *)

Idle == up /\ tool = Nil

\* write_file keeps the frontmatter of an existing file, or makes one.
ToolWriteRead(a, stem, body) ==
  LET p == <<<<a, "notes">>, stem>>
      new == [id |-> made + 1, agent |-> a, shared |-> FALSE, links |-> body, at |-> clock]
  IN /\ Idle /\ Command
     /\ disk[p] # Broken
     /\ disk[p] = Nil => made < MaxNotes
     /\ made' = IF disk[p] = Nil THEN made + 1 ELSE made
     /\ tool' = [step |-> "write", path |-> p, read |-> disk[p],
                 note |-> IF disk[p] = Nil THEN new ELSE [disk[p] EXCEPT !.links = body]]
     /\ UNCHANGED <<up, poisoned, disk, reg, links, chan, received, skew, forgotten, clock,
                     edits, crashes>>

ToolWrite ==
  LET p == tool.path
      new == [tool.note EXCEPT !.at = clock']
  IN /\ up /\ tool # Nil /\ tool.step = "write"
     /\ Ticks
     /\ \/ /\ Writes([disk EXCEPT ![p] = new])
           /\ tool' = [tool EXCEPT !.step = "index", !.note = new]
           /\ skew' = skew \cup (IF disk[p] = tool.read THEN {} ELSE {"raced"})
           /\ UNCHANGED crashes
        \/ /\ \E c \in Part(new) : Writes([disk EXCEPT ![p] = c])
           /\ Fails
           /\ tool' = Nil
           /\ skew' = skew \cup {"cut"}
     /\ UNCHANGED <<up, poisoned, reg, links, received, forgotten, made, cmds, edits>>

\* index_single_note.
IndexSingle(p) ==
  LET m == disk[p]
      r == IF m.id \in Registered(reg)
           THEN UpdateName([MovePath(reg, m.id, p) EXCEPT !.agent[m.id] = m.agent,
                                                          !.updated[m.id] = m.at], m.id, p[2])
           ELSE Register(reg, m.id, p, m.agent, p[2], m.at)
      olds == IF reg.named[m.id] = {} THEN {p[2]} ELSE reg.named[m.id]
  IN /\ reg' = r
     /\ \E old \in olds :
          LET l == IF old = p[2] THEN links ELSE InvalidateName(links, old)
          IN links' = TryResolve(UpdateLinks(l, r, m.id, m.links, m.agent), p[2], m.id)

ToolIndex ==
  /\ up /\ tool # Nil /\ tool.step = "index"
  /\ IF ~poisoned /\ IsNote(disk, tool.path)
     THEN IndexSingle(tool.path) /\ forgotten' = forgotten \ {tool.path}
     ELSE UNCHANGED <<reg, links, forgotten>>
  /\ tool' = Nil
  /\ skew' = skew \cup (IF ~poisoned /\ disk[tool.path] = tool.note THEN {} ELSE {"raced"})
  /\ UNCHANGED <<up, poisoned, disk, chan, received, made, clock, bound>>

\* In an unattended run write_file writes the text as it is, without frontmatter;
\* indexing it fails, and the failure is only logged.
RawWrite(a, stem) ==
  /\ Idle /\ Command
  /\ Writes([disk EXCEPT ![<<<<a, "notes">>, stem>>] = Broken])
  /\ skew' = skew \cup (IF IsNote(disk, <<<<a, "notes">>, stem>>) THEN {"stripped"} ELSE {})
  /\ UNCHANGED <<up, poisoned, reg, links, received, tool, forgotten, made, clock, edits, crashes>>

\* The index forgets the note of the file, wherever the file is.
Forget(p) ==
  LET i == reg.at[p]
  IN /\ Idle /\ Command
     /\ IF i = Nil THEN UNCHANGED <<reg, links, forgotten>>
        ELSE /\ links' = RemoveLinks(links, i) /\ reg' = Unregister(reg, i)
             /\ forgotten' = forgotten \cup {p}
     /\ skew' = skew \cup (IF i # Nil /\ FilesOfNote(disk, i) # {p} THEN {"copied"} ELSE {})
     /\ UNCHANGED <<up, poisoned, disk, chan, received, made, clock, edits, crashes>>

\* delete_file forgets first, then the file goes.
ToolUnindex(a, stem) ==
  LET p == <<<<a, "notes">>, stem>>
  IN /\ disk[p] # Nil
     /\ Forget(p)
     /\ tool' = [step |-> "unlink", path |-> p, read |-> Nil, note |-> Nil]

\* Faulty: the watcher is not told.
UnlinkUnseen ==
  LET p == tool.path
  IN /\ up /\ tool # Nil /\ tool.step = "unlink"
     /\ disk' = [disk EXCEPT ![p] = Nil] /\ forgotten' = forgotten \ {p}
     /\ tool' = Nil
     /\ UNCHANGED <<up, poisoned, reg, links, chan, received, skew, made, clock, bound>>

\* The file may not go after all: it stays, and the index does not have it.
ToolUnlink ==
  LET p == tool.path
  IN /\ up /\ tool # Nil /\ tool.step = "unlink"
     /\ \/ /\ Writes([disk EXCEPT ![p] = Nil])
           /\ forgotten' = forgotten \ {p}
           /\ skew' = skew \cup (IF \E i \in NoteIds : reg.path[i] = p THEN {"raced"} ELSE {})
        \/ UNCHANGED <<disk, chan, forgotten, skew>>
     /\ tool' = Nil
     /\ UNCHANGED <<up, poisoned, reg, links, received, made, clock, bound>>

\* In a conversation the index has forgotten the file before its path is found to
\* lie outside the agent's folder.
ToolRefused(a, p) ==
  /\ p[1] # <<a, "notes">> /\ disk[p] # Nil
  /\ Forget(p)
  /\ UNCHANGED tool

----------------------------------------------------------------------------
(* The user's editor, and the watcher that follows it.                     *)

Edit(d) ==
  /\ edits < MaxEdits /\ edits' = edits + 1
  /\ cmds < MaxCmds /\ cmds' = cmds + 1
  /\ disk' = d
  /\ chan' = up
  /\ skew' = skew \cup {"edited"}
  /\ UNCHANGED <<up, poisoned, reg, links, received, tool, forgotten, made, clock, crashes>>

EditRemove(p) == disk[p] # Nil /\ Edit([disk EXCEPT ![p] = Nil])
EditMove(p, q) == IsNote(disk, p) /\ disk[q] = Nil /\ Edit([disk EXCEPT ![q] = disk[p], ![p] = Nil])
EditCopy(p, q) == IsNote(disk, p) /\ disk[q] = Nil /\ Edit([disk EXCEPT ![q] = disk[p]])
EditBreak(p) == IsNote(disk, p) /\ Edit([disk EXCEPT ![p] = Broken])

Receive ==
  /\ up /\ chan
  /\ chan' = FALSE /\ received' = TRUE
  /\ UNCHANGED <<up, poisoned, disk, reg, links, tool, skew, forgotten, made, clock, bound>>

\* After a quiet debounce period everything is indexed anew.
ProcessEvents ==
  /\ up /\ ~chan /\ received
  /\ received' = FALSE
  /\ IF poisoned THEN UNCHANGED <<reg, links, skew, forgotten>> ELSE Rebuild
  /\ UNCHANGED <<up, poisoned, disk, chan, tool, made, clock, bound>>

Fail == Issued /\ Stops /\ UNCHANGED <<disk, skew, made, clock, edits>>

VaultNext ==
  \/ Start \/ RebuildIndex \/ Receive \/ ProcessEvents \/ Fail
  \/ \E a \in Callers, shared \in BOOLEAN, n \in Names, body \in Bodies : CreateNote(a, shared, n, body)
  \/ \E i \in NoteIds, caller \in Callers, n \in Names \cup {Nil}, body \in Bodies :
       UpdateNote(i, caller, n, body)
  \/ \E i \in NoteIds, caller \in Callers \cup {"user"} : DeleteNote(i, caller)
  \/ \E i \in NoteIds, a \in Agents : ArchiveNote(i, a)
  \/ \E a \in Callers, stem \in Names \X {0}, body \in Bodies : ToolWriteRead(a, stem, body)
  \/ \E a \in Callers, stem \in Names \X {0} : ToolUnindex(a, stem) \/ RawWrite(a, stem)
  \/ \E a \in Callers, p \in Paths : ToolRefused(a, p)
  \/ \E pre \in {10, 100}, w \in {1, 3} : Search(pre, 5, w)
  \/ ToolWrite \/ ToolIndex \/ ToolUnlink
  \/ \E p \in Edited : EditRemove(p) \/ EditBreak(p)
  \/ \E p \in Edited, q \in Edited : EditMove(p, q) \/ EditCopy(p, q)

VaultSpec == VaultInit /\ [][VaultNext]_vaultVars

----------------------------------------------------------------------------
(* What callers are shown.                                                 *)

\* list_notes and recall for an agent.
Listed(a) == {i \in Registered(reg) :
  LET p == reg.path[i]
  IN ~InArchive(p) /\ IsNote(disk, p) /\ (disk[p].agent = a \/ disk[p].shared)}

\* search for an agent, in its folder and in the shared one.
Searched(a) == {disk[p].id : p \in {q \in Files(disk) : q[1] \in {<<a, "notes">>, <<"shared", "notes">>}}}

\* build_graph: the agent's notes and the shared ones, then depth times the notes
\* one link away.
Seeds(a, shared) == {i \in Registered(reg) :
  LET p == reg.path[i] IN IsNote(disk, p) /\ (disk[p].agent = a \/ (shared /\ disk[p].shared))}

\* Faulty: only the links that leave a note are followed.
Forward(S) == {x[2] : x \in UNION {links.out[i] : i \in S}} \ {Nil}
Linked(S) == ({x[2] : x \in UNION {links.out[i] : i \in S}}
              \cup {e[1] : e \in UNION {links.in[i] : i \in S}}) \ {Nil}

\* Breadth first: <<included, frontier>> after d rounds.
Layers(s) ==
  LET L[d \in 0..MaxNotes] ==
        IF d = 0 THEN <<s, s>>
        ELSE LET prev == L[d - 1]
                 next == Linked(prev[2]) \ prev[1]
             IN <<prev[1] \cup next, next>>
  IN L
Expand(s, d) == Layers(s)[d][1]

GraphIds(a, d, shared) == Expand(Seeds(a, shared), d)
GraphNodes(a, d, shared) == {i \in GraphIds(a, d, shared) :
                               reg.path[i] # Nil /\ IsNote(disk, reg.path[i])}
GraphEdges(a, d, shared) ==
  LET S == GraphIds(a, d, shared)
  IN {e \in S \X S : e[2] \in Targets(links, e[1])}

----------------------------------------------------------------------------
(* Properties.                                                             *)

\* Backlinks are the links the other way round, a link leads to a note of the
\* index, and only notes of the index have links and names: over creates,
\* renames, deletes and partial re-indexing of single files.
IndexConsistent ==
  /\ \A s, t \in NoteIds, raw \in Raws : <<raw, t>> \in links.out[s] <=> <<s, raw>> \in links.in[t]
  /\ \A i \in NoteIds : /\ Targets(links, i) \subseteq Registered(reg) \cup {Nil}
                    /\ reg.named[i] # {} <=> i \in Registered(reg)
                    /\ i \notin Registered(reg) => links.out[i] = {}

NoCopies == \A p, q \in Files(disk) : disk[p].id = disk[q].id => p = q

\* As long as nothing but the manager and finished tool calls touched the files,
\* the incremental index knows every note where it is, as a rebuild would, but for
\* those it forgot for a deletion that did not take place.
RegistryExact ==
  up /\ skew = {} =>
    /\ \A i \in Registered(reg) :
         LET p == reg.path[i]
         IN /\ IsNote(disk, p) /\ disk[p].id = i /\ disk[p].agent = reg.agent[i]
            /\ tool = Nil => disk[p].at = reg.updated[i]
    /\ \A p \in Files(disk) : \/ disk[p].id \in Registered(reg)
                              \/ tool # Nil /\ tool.path = p
                              \/ p \in forgotten

\* Without edits from outside or copies of a note, what list_notes lists for an
\* agent is what search searches for it, but for forgotten files: one goes by the
\* index and the owner written in the note, the other by the folder of the file.
SearchSeesTheList ==
  /\ up /\ skew = {} /\ edits = 0 /\ tool = Nil
  /\ NoCopies
  => \A a \in Agents :
       /\ Listed(a) \subseteq Searched(a)
       /\ Searched(a) \subseteq Listed(a) \cup {disk[p].id : p \in forgotten \cap Files(disk)}

\* The graph of depth d has exactly the notes at most d links, in either direction,
\* from the agent's notes; and when the index is exact its edges join its nodes.
Joined == {e \in NoteIds \X NoteIds :
             e[2] \in Targets(links, e[1]) \/ e[1] \in Targets(links, e[2])}
GraphIsNeighbourhood ==
  LET J == Joined
      near(i) == {j \in NoteIds : <<i, j>> \in J}
      exact == up /\ skew = {}
  IN \A a \in Agents, shared \in BOOLEAN :
       LET s == Seeds(a, shared)
           one == s \cup UNION {near(i) : i \in s}
           two == one \cup UNION {UNION {near(j) : j \in near(i)} : i \in s}
       IN /\ Expand(s, 1) = one /\ Expand(s, 2) = two
          /\ exact => \A d \in {0, 2} :
               LET nodes == GraphNodes(a, d, shared)
               IN \A e \in GraphEdges(a, d, shared) : {e[1], e[2]} \subseteq nodes

\* The index never disagrees with itself, nor with the files the manager and the
\* tools have written; lists, searches and graphs show the same notes.
IndexExact ==
  VaultTypeOK /\ IndexConsistent /\ RegistryExact /\ SearchSeesTheList /\ GraphIsNeighbourhood

\* A note leaves the disk only by a step aimed at its own file: it is deleted with
\* its entry in the index; a tool deletes its file, or writes over a file that is
\* not the one the tool has read; a write to the file itself was cut or had no
\* frontmatter; a note archived after it has its file name; the user's editor took
\* it; or the index took its file for that of another note.  So no create, rename,
\* archiving, failed write or crash loses another note.
NoteKept ==
  [][\A p \in Files(disk) :
       LET i == disk[p].id
       IN \/ i \in OnDisk(disk')
          \/ edits' # edits
          \/ up' /\ reg.path[i] = p /\ reg'.path[i] = Nil
          \/ tool' # tool /\ tool # Nil /\ tool.path = p /\ tool.read # disk[p]
          \/ disk' = [disk EXCEPT ![p] = Broken]
          \/ InArchive(p) /\ disk'[p] # Nil
          \/ \E k \in NoteIds \ {i} : reg.path[k] = p]_vaultVars

\* When the watcher has nothing left to do, the index is the one a rebuild of the
\* files gives, whatever the last incremental updates did to it and whichever of
\* the watcher's rebuilds came between a tool's write and its indexing, or its
\* unindexing and its deletion; unless a note was left in two files.  Notes whose
\* deletion failed, and no others, are missing.
Quiet == up /\ ~poisoned /\ ~chan /\ ~received /\ tool = Nil
Known == [p \in Paths |-> IF p \in forgotten THEN Nil ELSE disk[p]]
InSyncWhenQuiet ==
  Quiet /\ NoCopies => /\ reg = RegistryOf(Known, Files(Known))
                       /\ forgotten = {} => links = LinksOf(disk, reg)
=============================================================================
