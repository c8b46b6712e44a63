----------------------------- MODULE AgentStore -----------------------------
(***************************************************************************)
(* Agents as a node keeps them: a row in the database, a folder of persona *)
(* files on disk, notes in the vault; the teams and conversations that     *)
(* refer to the row; the start of the application that opens the database, *)
(* seeds the manager and adopts folders; export and import of an agent.    *)
(*                                                                         *)
(* Code: commands/agent_commands.rs, commands/export_commands.rs,          *)
(* commands/team_commands.rs, db/{mod,migrations,agent_operations,         *)
(* team_operations}.rs, db/operations/{import,conversation}_ops.rs and the *)
(* order of calls in services/initService.ts and stores/agentStore.ts.     *)
(* These commands are not async, so they run one after the other on the    *)
(* main thread: each is one step, which a failed write or a crash may cut  *)
(* short anywhere.  A write empties its file first, so that one that fails *)
(* leaves a text of nobody ("cut").                                        *)
(***************************************************************************)
EXTENDS Integers, FiniteSets

CONSTANTS
  Agents,     \* ids of agents
  Names,      \* folder names
  Manager,    \* the folder name of the seeded manager
  Legacy,     \* the folder name the manager had in old versions
  Files,      \* persona files of a folder
  Upgraded,   \* the files that had another default in old versions
  Notes,      \* ids of vault notes
  Convs,      \* ids of conversations
  Teams,      \* ids of teams
  MaxSuffix,  \* bound on the "-imported-n" suffix (100 in the code)
  MaxCmds,    \* bound on the commands issued
  MaxCrashes, \* bound on the crashes
  Nil

ASSUME AgentStoreAssumption ==
  /\ {Manager, Legacy} \subseteq Names /\ Manager # Legacy
  /\ Upgraded \subseteq Files
  /\ {MaxSuffix, MaxCmds, MaxCrashes} \subseteq Nat
  /\ IsFiniteSet(Convs)
  /\ Nil \notin Agents \cup Teams \cup (Names \X (0..MaxSuffix))

VARIABLES
  phase,    \* where the process is: down, starting, or ready for commands
  fresh,    \* onboarding has not been completed
  version,  \* the current schema version is recorded
  unread,   \* the last start could not read which version is recorded
  schema,   \* the parts of the schema the database has
  agent,    \* agents
  team,     \* teams and team_members
  conv,     \* conversations
  dirs,     \* folders on disk
  files,    \* their contents
  note,     \* owner of each vault note
  archive,  \* the last exported archive
  open,     \* the folder the agent editor was opened for
  stray,    \* folders that got no row: left by a sync that failed, written after their
            \* agent was deleted, or not removed by an import that failed
  cmds,
  crashes

dbVars == <<agent, team, conv>>
fsVars == <<dirs, files>>
sysVars == <<phase, fresh, version, unread, schema>>
bound == <<cmds, crashes>>
storeVars == <<sysVars, dbVars, fsVars, note, archive, open, stray, bound>>

Folders == Names \X (0..MaxSuffix)
Locales == {"ko", "en"}
Content == Locales \cup {"none", "old", "user", "cut"}
Parts   == {"base", "teams", "cron"}
Empty   == [x \in Files |-> "none"]

AgentRow   == [folder : Folders, default : BOOLEAN, visible : BOOLEAN]
TeamRow    == [leader : Agents, members : SUBSET Agents]
ConvRow    == [agent : Agents, team : Teams \cup {Nil}]
ArchiveRow == [folder : Folders, default : BOOLEAN, files : [Files -> Content],
               notes : SUBSET Notes, shared : SUBSET Notes, convs : 0..Cardinality(Convs)]

\* The absence of a row is not a row.
ASSUME NilAssumption == Nil \notin AgentRow \cup TeamRow \cup ConvRow \cup ArchiveRow

StoreTypeOK ==
  /\ phase \in {"down", "create", "migrate", "migrate2", "version", "seed", "refresh",
                "sync", "ready"}
  /\ {fresh, version, unread} \subseteq BOOLEAN
  /\ schema \subseteq Parts
  /\ agent \in [Agents -> AgentRow \cup {Nil}]
  /\ team \in [Teams -> TeamRow \cup {Nil}]
  /\ conv \in [Convs -> ConvRow \cup {Nil}]
  /\ dirs \subseteq Folders
  /\ files \in [Folders -> [Files -> Content]]
  /\ \A f \in Folders \ dirs : files[f] = Empty
  /\ note \in [Notes -> Agents \cup {Nil, "shared"}]
  /\ archive \in ArchiveRow \cup {Nil}
  /\ open \in Folders \cup {Nil}
  /\ stray \subseteq Folders
  /\ cmds \in 0..MaxCmds
  /\ crashes \in 0..MaxCrashes

\* create_agent_impl inserts a row, which a folder taken by another row refuses.
NewRow(f, default) == [folder |-> f, default |-> default, visible |-> FALSE]

\* A first start; or a start after an older version, whose database records no
\* version or another, or records the current one but lacks the later tables; with
\* a manager whose files the user has edited.
StoreInit ==
  /\ phase = "down"
  /\ unread = FALSE
  /\ \/ /\ fresh = TRUE /\ version = FALSE /\ schema = {} /\ dirs = {}
        /\ agent = [a \in Agents |-> Nil]
     \/ /\ fresh = FALSE
        /\ version \in BOOLEAN
        /\ schema = {"base"}
        /\ dirs = {<<Manager, 0>>}
        /\ \E m \in Agents :
             agent = [a \in Agents |-> IF a = m THEN NewRow(<<Manager, 0>>, TRUE) ELSE Nil]
  /\ files = [f \in Folders |-> IF f \in dirs
                                THEN [x \in Files |-> IF x \in Upgraded THEN "old" ELSE "user"]
                                ELSE Empty]
  /\ team = [t \in Teams |-> Nil]
  /\ conv = [c \in Convs |-> Nil]
  /\ note = [n \in Notes |-> Nil]
  /\ archive = Nil
  /\ open = Nil
  /\ stray = {}
  /\ cmds = 0
  /\ crashes = 0

----------------------------------------------------------------------------
(* Queries.                                                                *)

ListAgents == {a \in Agents : agent[a] # Nil}
ByFolder(f) == {a \in ListAgents : agent[a].folder = f}
HasRow(f) == ByFolder(f) # {}
Live(t) == team[t] # Nil

\* Uuid::new_v4 gives an id that nothing refers to.
NewAgents == {a \in Agents : agent[a] = Nil /\ \A n \in Notes : note[n] # a}

Defaults == {a \in ListAgents : agent[a].default}

Put(a, row) == agent' = [agent EXCEPT ![a] = row]

----------------------------------------------------------------------------
(* The start: Database::new, then the steps of initService.                *)

\* Faulty: a database that lacks the later tables is taken for another version.
ResetsUnmigrated(readable) == schema # {} /\ ~(readable /\ version /\ schema = Parts)
\* Another version, none, or one that cannot be read: an error of the query is
\* taken for no version.
NeedsReset(readable) == schema # {} /\ ~(readable /\ version)

\* A database that needs a reset is deleted with all its rows.
DatabaseNew ==
  /\ phase = "down"
  /\ phase' = "create"
  /\ \E readable \in IF schema = {} THEN {TRUE} ELSE BOOLEAN :
       /\ unread' = ~readable
       /\ IF NeedsReset(readable)
          THEN /\ schema' = {} /\ version' = FALSE
               /\ agent' = [a \in Agents |-> Nil]
               /\ team' = [t \in Teams |-> Nil]
               /\ conv' = [c \in Convs |-> Nil]
          ELSE UNCHANGED <<schema, version, dbVars>>
  /\ UNCHANGED <<fresh, fsVars, note, archive, open, stray, bound>>

SchemaStep(from, part, to) ==
  /\ phase = from
  /\ phase' = to
  /\ schema' = schema \cup part
  /\ UNCHANGED <<fresh, version, unread, dbVars, fsVars, note, archive, open, stray, bound>>

CreateSchema        == SchemaStep("create", {"base"}, "migrate")
MigrateConversations == SchemaStep("migrate", {"teams"}, "migrate2")
\* Faulty: a migration is run only in a database that was just created.
MigrateNewOnly ==
  SchemaStep("migrate2", IF version THEN {} ELSE {"cron"}, "version")
MigrateCron         == SchemaStep("migrate2", {"cron"}, "version")

SetSchemaVersion ==
  /\ phase = "version"
  /\ version' = TRUE
  /\ phase' = IF fresh THEN "sync" ELSE "seed"
  /\ UNCHANGED <<fresh, unread, schema, dbVars, fsVars, note, archive, open, stray, bound>>

KnownDefaults(x) == Locales \cup IF x \in Upgraded THEN {"old"} ELSE {}

\* What became of the writes of the files: the text of the locale, nothing, or one
\* that failed.
Writes(loc) == {w \in [Files -> {"kept", "cut", loc}] :
                  \A x, y \in Files : w[x] = "cut" /\ w[y] = "cut" => x = y}

\* Faulty: whatever is in a file is replaced.
RefreshAnything(f, w) ==
  [x \in Files |-> IF w[x] # "kept" /\ files[f][x] # "none" THEN w[x] ELSE files[f][x]]
\* refresh_default_persona: files of a known default take the text of the locale, as
\* far as the writes succeed.
RefreshPersona(f, w) ==
  [x \in Files |-> IF w[x] # "kept" /\ files[f][x] \in KnownDefaults(x) THEN w[x]
                   ELSE files[f][x]]

ManagerFolders ==
  IF Defaults # {} THEN {agent[a].folder : a \in Defaults}
  ELSE {<<Legacy, 0>>} \cap {agent[a].folder : a \in ListAgents}

\* The row is not there when its insert failed, as it does for a folder that has one,
\* the files not when the folder could not be made: the start goes on.
SeedNew(w) ==
  LET f == <<Manager, 0>>
      a == CHOOSE b \in NewAgents : TRUE
  IN \/ UNCHANGED <<agent, fsVars>>
     \/ /\ NewAgents # {} /\ ~HasRow(f)
        /\ Put(a, NewRow(f, TRUE))
        /\ \/ UNCHANGED fsVars
           \/ /\ dirs' = dirs \cup {f}
              /\ files' = [files EXCEPT ![f] = [x \in Files |->
                                                 IF w[x] = "kept" THEN @[x] ELSE w[x]]]

\* seed_manager_agent: at a start after onboarding, or at its end.
SeedManagerAgent(w) ==
  /\ \/ phase = "seed" /\ phase' = "refresh" /\ fresh' = fresh
     \/ phase = "ready" /\ fresh /\ phase' = "sync" /\ fresh' = FALSE
  /\ \/ /\ ManagerFolders # {}
        /\ \E f \in ManagerFolders : files' = [files EXCEPT ![f] = RefreshPersona(f, w)]
        /\ UNCHANGED <<agent, dirs>>
     \/ ManagerFolders = {} /\ SeedNew(w)
  /\ UNCHANGED <<version, unread, schema, team, conv, note, archive, open, stray, bound>>

\* refresh_default_manager_persona: at the start, and when the locale changes.
RefreshDefaultManager(w) ==
  /\ \/ phase = "refresh" /\ phase' = "sync" /\ UNCHANGED cmds
     \/ phase = "ready" /\ cmds < MaxCmds /\ cmds' = cmds + 1 /\ UNCHANGED phase
  /\ IF ManagerFolders = {} THEN UNCHANGED files
     ELSE \E f \in ManagerFolders : files' = [files EXCEPT ![f] = RefreshPersona(f, w)]
  /\ UNCHANGED <<fresh, version, unread, schema, dbVars, dirs, note, archive, open, stray,
                 crashes>>

\* Faulty: rows without a folder are removed.
SyncDropsMissing ==
  LET gone == {a \in ListAgents : agent[a].folder \notin dirs}
  IN /\ phase = "sync"
     /\ phase' = "ready"
     /\ agent' = [a \in Agents |-> IF a \in gone THEN Nil ELSE agent[a]]
     /\ UNCHANGED <<fresh, version, unread, schema, team, conv, fsVars, note, archive,
                    open, stray, bound>>

Orphans == {f \in dirs : ~HasRow(f)}

Injections(S, T) == {s \in [S -> T] : \A f, g \in S : s[f] = s[g] => f = g}

\* sync_agents_from_fs: every row is kept; folders without a row get one, those whose
\* insert fails do not, and none does when the folders cannot be listed.
SyncAgentsFromFs ==
  /\ phase = "sync"
  /\ phase' = "ready"
  /\ \E adopted \in SUBSET Orphans :
       /\ \E new \in Injections(adopted, NewAgents) :
            agent' = [a \in Agents |->
                        IF \E f \in adopted : new[f] = a
                        THEN NewRow(CHOOSE f \in adopted : new[f] = a, FALSE)
                        ELSE agent[a]]
       /\ stray' = Orphans \ adopted
  /\ UNCHANGED <<fresh, version, unread, schema, team, conv, fsVars, note, archive, open, bound>>

Crash ==
  /\ phase # "down"
  /\ crashes < MaxCrashes
  /\ phase' = "down"
  /\ crashes' = crashes + 1
  /\ open' = Nil
  /\ UNCHANGED <<fresh, version, unread, schema, dbVars, fsVars, note, archive, stray, cmds>>

----------------------------------------------------------------------------
(* Commands.                                                               *)

StoreCommand == phase = "ready" /\ cmds < MaxCmds /\ cmds' = cmds + 1
Stays   == UNCHANGED <<sysVars, crashes>>
Dies    == /\ crashes < MaxCrashes /\ crashes' = crashes + 1 /\ phase' = "down"
           /\ UNCHANGED <<fresh, version, unread, schema>>

\* The editor creates the row, then writes the files with commands of their own.
CreateAgent(f) ==
  /\ StoreCommand
  /\ f[2] = 0 /\ ~HasRow(f)
  /\ \E a \in NewAgents : Put(a, NewRow(f, FALSE))
  /\ open' = f
  /\ Stays /\ UNCHANGED <<team, conv, fsVars, note, archive, stray>>

OpenEditor(a) ==
  /\ phase = "ready" /\ a \in ListAgents /\ open # agent[a].folder
  /\ open' = agent[a].folder
  /\ Stays /\ UNCHANGED <<dbVars, fsVars, note, archive, stray, cmds>>

UpdateAgent(a) ==
  /\ StoreCommand
  /\ a \in ListAgents
  /\ Put(a, [agent[a] EXCEPT !.visible = ~@])
  /\ Stays /\ UNCHANGED <<team, conv, fsVars, note, archive, open, stray>>

\* write_agent_file creates the folder when it is missing, row or not; the write may
\* fail before or after it has emptied the file.
WriteAgentFile(x) ==
  /\ StoreCommand
  /\ open # Nil
  /\ dirs' = dirs \cup {open}
  /\ \E text \in {"user", "cut", files[open][x]} : files' = [files EXCEPT ![open][x] = text]
  /\ stray' = IF HasRow(open) THEN stray ELSE stray \cup {open}
  /\ Stays /\ UNCHANGED <<dbVars, note, archive, open>>

\* ON DELETE CASCADE and SET NULL of a row that goes.
TeamCascade(gone) == [t \in Teams |->
  IF ~Live(t) \/ team[t].leader = gone THEN Nil
  ELSE [team[t] EXCEPT !.members = @ \ {gone}]]
ConvCascade(gone) == [c \in Convs |->
  IF conv[c] = Nil \/ conv[c].agent = gone THEN Nil
  ELSE [conv[c] EXCEPT !.team = IF @ # Nil /\ TeamCascade(gone)[@] = Nil THEN Nil ELSE @]]

\* Faulty: the conversations of the teams the agent led keep the team.
DropForgetsTeams(a) ==
  /\ agent' = [agent EXCEPT ![a] = Nil]
  /\ team' = TeamCascade(a)
  /\ conv' = [c \in Convs |-> IF conv[c] # Nil /\ conv[c].agent = a THEN Nil ELSE conv[c]]

DeleteAgentRow(a) ==
  /\ agent' = [agent EXCEPT ![a] = Nil]
  /\ team' = TeamCascade(a)
  /\ conv' = ConvCascade(a)

\* Faulty: the folder is unlinked, its files are left.
UnlinkFolder(f) == dirs' = dirs \ {f} /\ UNCHANGED files
RemoveFolder(f) == dirs' = dirs \ {f} /\ files' = [files EXCEPT ![f] = Empty]

\* Faulty: the row goes first.
DeleteRowFirst(a) ==
  /\ StoreCommand
  /\ a \in ListAgents
  /\ ~agent[a].default
  /\ \/ RemoveFolder(agent[a].folder) /\ DeleteAgentRow(a)
     \/ agent[a].folder \in dirs /\ DeleteAgentRow(a) /\ UNCHANGED fsVars
  /\ Stays /\ UNCHANGED open
  /\ UNCHANGED <<note, archive, stray>>

\* delete_agent: the folder, then the row, which may fail.  The default agent's row
\* is not deleted, its folder is; a folder that cannot be removed keeps the row; a
\* crash comes in between.
DeleteAgent(a) ==
  /\ StoreCommand
  /\ a \in ListAgents
  /\ \/ /\ RemoveFolder(agent[a].folder)
        /\ UNCHANGED dbVars \/ (~agent[a].default /\ DeleteAgentRow(a))
        /\ Stays /\ UNCHANGED open
     \/ /\ agent[a].folder \in dirs
        /\ \E lost \in SUBSET Files :
             files' = [files EXCEPT ![agent[a].folder] =
                         [x \in Files |-> IF x \in lost THEN "none" ELSE @[x]]]
        /\ Stays /\ UNCHANGED <<dbVars, dirs, open>>
     \/ RemoveFolder(agent[a].folder) /\ Dies /\ open' = Nil /\ UNCHANGED dbVars
  /\ UNCHANGED <<note, archive, stray>>

\* create_team_impl: team, leader and members one by one, without a transaction:
\* a member that does not exist leaves those before it.
CreateTeam(t, leader, wanted) ==
  /\ StoreCommand
  /\ team[t] = Nil
  /\ leader \in ListAgents
  /\ \E got \in SUBSET (wanted \cap ListAgents) :
       /\ wanted \subseteq ListAgents => got = wanted
       /\ team' = [team EXCEPT ![t] = [leader |-> leader, members |-> got \cup {leader}]]
  /\ Stays /\ UNCHANGED <<agent, conv, fsVars, note, archive, open, stray>>

\* update_team, add_team_member, remove_team_member.
EditTeam(t, row) ==
  /\ StoreCommand
  /\ Live(t)
  /\ team' = [team EXCEPT ![t] = row]
  /\ Stays /\ UNCHANGED <<agent, conv, fsVars, note, archive, open, stray>>
UpdateTeam(t, a)       == a \in ListAgents /\ EditTeam(t, [team[t] EXCEPT !.leader = a])
AddTeamMember(t, a)    == a \in ListAgents \ team[t].members
                          /\ EditTeam(t, [team[t] EXCEPT !.members = @ \cup {a}])
RemoveTeamMember(t, a) == a \in team[t].members
                          /\ EditTeam(t, [team[t] EXCEPT !.members = @ \ {a}])

DeleteTeam(t) ==
  /\ StoreCommand
  /\ Live(t)
  /\ team' = [team EXCEPT ![t] = Nil]
  /\ conv' = [c \in Convs |-> IF conv[c] # Nil /\ conv[c].team = t
                              THEN [conv[c] EXCEPT !.team = Nil] ELSE conv[c]]
  /\ Stays /\ UNCHANGED <<agent, fsVars, note, archive, open, stray>>

CreateConversation(c, a, t) ==
  /\ StoreCommand
  /\ conv[c] = Nil /\ a \in ListAgents /\ (t # Nil => Live(t))
  /\ conv' = [conv EXCEPT ![c] = [agent |-> a, team |-> t]]
  /\ Stays /\ UNCHANGED <<agent, team, fsVars, note, archive, open, stray>>

\* The vault, as a chat with the agent or the user fills it.
CreateNote(n, owner) ==
  /\ StoreCommand
  /\ note[n] = Nil /\ owner \in ListAgents \cup {"shared"}
  /\ note' = [note EXCEPT ![n] = owner]
  /\ Stays /\ UNCHANGED <<dbVars, fsVars, archive, open, stray>>

DeleteNote(n) ==
  /\ StoreCommand
  /\ note[n] # Nil
  /\ note' = [note EXCEPT ![n] = Nil]
  /\ Stays /\ UNCHANGED <<dbVars, fsVars, archive, open, stray>>

----------------------------------------------------------------------------
(* Export and import.                                                      *)

Owned(a) == {n \in Notes : note[n] = a}
\* collect_shared_references: shared notes that the agent's own notes lead to.
SharedRefs(a) == IF Owned(a) = {} THEN {{}} ELSE SUBSET {n \in Notes : note[n] = "shared"}

\* export_agent: the row, the folder, the notes with the shared ones they refer to,
\* and the agent's conversations when the user asks for them.
ExportAgent(a, withConvs) ==
  /\ StoreCommand
  /\ a \in ListAgents /\ agent[a].folder[2] = 0
  /\ \E refs \in SharedRefs(a) :
       archive' = [folder |-> agent[a].folder, default |-> agent[a].default,
                      files |-> files[agent[a].folder], notes |-> Owned(a), shared |-> refs,
                      convs |-> IF withConvs
                                THEN Cardinality({c \in Convs : conv[c] # Nil /\ conv[c].agent = a})
                                ELSE 0]
  /\ Stays /\ UNCHANGED <<dbVars, fsVars, note, open, stray>>

\* The folder of an import is free in the database; the disk is not looked at.
ImportFolders ==
  LET f == archive.folder
      taken == {n \in 1..MaxSuffix : HasRow(<<f[1], n>>)}
      free == 1..MaxSuffix \ taken
  IN IF ~HasRow(f) THEN {f}
     ELSE {<<f[1], n>> : n \in {m \in free : \A k \in free : m <= k}}

FreeConvs == {c \in Convs : conv[c] = Nil}

\* Faulty: the flag of the archive is taken over.
ImportKeepsFlag(a, f, cs) ==
  /\ Put(a, NewRow(f, archive.default))
  /\ conv' = [c \in Convs |-> IF c \in cs THEN [agent |-> a, team |-> Nil] ELSE conv[c]]
\* import_agent_to_db, in one savepoint: the row, never the default one, and the
\* conversations, which lose their team.
ImportAgentToDb(a, f, cs) ==
  /\ Put(a, NewRow(f, FALSE))
  /\ conv' = [c \in Convs |-> IF c \in cs THEN [agent |-> a, team |-> Nil] ELSE conv[c]]

\* Faulty: every note is written under the id it has in the archive.
ImportNotesAsIs(a, new) ==
  [n \in Notes |-> IF n \in archive.notes THEN a ELSE note[n]]
\* Notes keep their ids, except those the vault already has, which get new ones;
\* shared notes the vault has are skipped.
ImportNotes(a, new) ==
  [n \in Notes |->
     IF (n \in archive.notes /\ note[n] = Nil) \/ n \in new THEN a
     ELSE IF archive.notes # {} /\ n \in archive.shared /\ note[n] = Nil THEN "shared"
     ELSE note[n]]
RenamedSets ==
  {new \in SUBSET (Notes \ (archive.notes \cup archive.shared)) :
     /\ \A n \in new : note[n] = Nil
     /\ Cardinality(new) = Cardinality({n \in archive.notes : note[n] # Nil})}

\* A note that cannot be written is only warned of: those in W were.
SomeNotes(a, W) == \E new \in RenamedSets :
  note' = [n \in Notes |-> IF n \in W THEN ImportNotes(a, new)[n] ELSE note[n]]

\* The files of the archive, of which those in lost are gone again.
Unpacked(f, lost) == [files EXCEPT ![f] = [x \in Files |->
                        IF x \in lost THEN "none"
                        ELSE IF archive.files[x] # "none" THEN archive.files[x] ELSE @[x]]]

Importing(a, f, cs) ==
  /\ StoreCommand
  /\ archive # Nil
  /\ f \in ImportFolders
  /\ a \in NewAgents
  /\ cs \subseteq FreeConvs /\ Cardinality(cs) = archive.convs

ImportAgent(a, f, cs) ==
  /\ Importing(a, f, cs)
  /\ ImportAgentToDb(a, f, cs)
  /\ \E W \in SUBSET Notes : SomeNotes(a, W)
  /\ dirs' = dirs \cup {f}
  /\ files' = Unpacked(f, {})
  /\ Stays /\ UNCHANGED <<team, archive, open, stray>>

\* The process ends after the database was written: the notes and the folder are
\* there or not.
ImportCut(a, f, cs) ==
  /\ Importing(a, f, cs)
  /\ ImportAgentToDb(a, f, cs)
  /\ \/ (\E W \in SUBSET Notes : SomeNotes(a, W)) /\ UNCHANGED fsVars
     \/ /\ SomeNotes(a, Notes)
        /\ dirs' = dirs \cup {f}
        /\ UNCHANGED files
  /\ Dies
  /\ open' = Nil
  /\ UNCHANGED <<team, archive, stray>>

\* Faulty: the folder is looked for under the name in the archive.
AbortInPlace(a, f, cs) ==
  /\ Importing(a, f, cs)
  /\ RemoveFolder(archive.folder)
  /\ Stays /\ UNCHANGED <<dbVars, note, archive, open, stray>>

\* A file cannot be written: the notes, the folder and the row are removed again, as
\* far as that succeeds.  A folder that could not be made is not removed.
ImportFails(a, f, cs) ==
  /\ Importing(a, f, cs)
  /\ UNCHANGED <<agent, conv>> \/ ImportAgentToDb(a, f, cs)
  /\ \E left \in SUBSET Notes : SomeNotes(a, left)
  /\ \/ RemoveFolder(f) /\ UNCHANGED stray
     \/ UNCHANGED <<fsVars, stray>>
     \/ /\ dirs' = dirs \cup {f}
        /\ \E lost \in SUBSET Files : files' = Unpacked(f, lost)
        /\ stray' = IF agent' = agent THEN stray \cup {f} ELSE stray
  /\ Stays /\ UNCHANGED <<team, archive, open>>

----------------------------------------------------------------------------

StoreNext ==
  \/ DatabaseNew \/ CreateSchema \/ MigrateConversations \/ MigrateCron \/ SetSchemaVersion
  \/ \E loc \in Locales : \E w \in Writes(loc) : SeedManagerAgent(w) \/ RefreshDefaultManager(w)
  \/ SyncAgentsFromFs
  \/ Crash
  \/ \E f \in Folders : CreateAgent(f)
  \/ \E a \in Agents : OpenEditor(a) \/ UpdateAgent(a) \/ DeleteAgent(a)
  \/ \E x \in Files : WriteAgentFile(x)
  \/ \E t \in Teams, a \in Agents :
       \/ \E wanted \in SUBSET Agents : CreateTeam(t, a, wanted)
       \/ UpdateTeam(t, a)
       \/ Live(t) /\ (AddTeamMember(t, a) \/ RemoveTeamMember(t, a))
  \/ \E t \in Teams : DeleteTeam(t)
  \/ \E c \in Convs, a \in Agents, t \in Teams \cup {Nil} : CreateConversation(c, a, t)
  \/ \E n \in Notes, owner \in Agents \cup {"shared"} : CreateNote(n, owner)
  \/ \E n \in Notes : DeleteNote(n)
  \/ \E a \in Agents, withConvs \in BOOLEAN : ExportAgent(a, withConvs)
  \/ \E a \in Agents, f \in Folders, cs \in SUBSET Convs :
       ImportAgent(a, f, cs) \/ ImportCut(a, f, cs) \/ ImportFails(a, f, cs)

StoreSpec == StoreInit /\ [][StoreNext]_storeVars

----------------------------------------------------------------------------
(* Properties.                                                             *)

\* Commands run only on a complete schema, whichever version and whichever crashed
\* start left the database behind.
ServesFullSchema == phase \in {"seed", "refresh", "sync", "ready"} => version /\ schema = Parts

\* Rows refer to rows: whatever was deleted, half created or imported.
RefsExist ==
  /\ \A t \in Teams : Live(t) => team[t].members \cup {team[t].leader} \subseteq ListAgents
  /\ \A c \in Convs : conv[c] # Nil =>
       /\ conv[c].agent \in ListAgents
       /\ conv[c].team # Nil => Live(conv[c].team)

OneManager == Cardinality(Defaults) <= 1

\* A folder without a row is one that a sync could not adopt, that was written to
\* after its agent was deleted, or that a failed import could not remove: no crash, no
\* deletion that fails half way and no reset hides an agent's files beyond the start
\* that follows.
FoldersHaveRows == phase = "ready" => Orphans \subseteq stray

\* What commands find is whole: the schema, the rows that rows refer to, one
\* manager at most, also after an archive of it was imported, and the folders.
StoreSound == StoreTypeOK /\ ServesFullSchema /\ RefsExist /\ OneManager /\ FoldersHaveRows

\* A text the user wrote is not replaced by a bundled or imported one while its agent
\* exists, nor damaged by a write that fails, other than that of its own editor.
UserEditsKept ==
  \A f \in Folders, x \in Files :
    files[f][x] = "user" /\ HasRow(f) =>
      files'[f][x] \in {"user", "none"} \/ (f = open /\ files'[f][x] = "cut")

\* A row is removed by a deletion, once the folder is gone; or with the database, at
\* the first start over one of an earlier version, or when the version cannot be
\* read: no crash, wherever it comes, leaves a database with rows that the next start
\* takes for another version.  A folder that is missing keeps its row.
OnlyDeletionRemovesRows ==
  \A a \in ListAgents : agent'[a] = Nil =>
    \/ phase = "ready" /\ agent[a].folder \notin dirs'
    \/ phase = "down" /\ ((crashes = 0 /\ ~version) \/ unread')

\* A note keeps its owner, whatever archive is imported, twice or after deletions.
NotesKeepOwner == \A n \in Notes : note[n] # Nil => note'[n] \in {note[n], Nil}

\* A failed import may leave some of its own behind; the rows, conversations, notes and
\* folders of the agents there are it leaves as they were.
FailedImportTakesNothing ==
  (\E a \in Agents, f \in Folders, cs \in SUBSET Convs : ImportFails(a, f, cs)) =>
    /\ \A b \in ListAgents : /\ agent'[b] = agent[b]
                             /\ files'[agent[b].folder] = files[agent[b].folder]
    /\ \A c \in Convs : conv[c] # Nil => conv'[c] = conv[c]
    /\ \A n \in Notes : note[n] # Nil => note'[n] = note[n]

\* Starts, resets, syncs and imports, also those that fail or are cut off, take
\* nothing from the user: neither texts nor agents nor notes.
NothingTaken ==
  [][UserEditsKept /\ OnlyDeletionRemovesRows /\ NotesKeepOwner /\ FailedImportTakesNothing]_storeVars
============================================================================
