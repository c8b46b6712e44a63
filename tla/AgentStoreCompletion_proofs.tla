-------------------- MODULE AgentStoreCompletion_proofs ---------------------
(* Proofs about the agents a node keeps and the answers they give: AgentStore, *)
(* for any agents, folders, files, notes, teams and conversations, and any     *)
(* number of commands and crashes; Completion, for any requests, keys, URLs    *)
(* and lines of answers, and any number of changes of the configuration.       *)
EXTENDS AgentStore, Completion, SequenceTheorems, FiniteSetTheorems, TLAPS

-----------------------------------------------------------------------------
(* AgentStore: the inductive invariant.                                        *)

(* Rows are in a database whose version is recorded, once the first start has  *)
(* opened it.                                                                  *)
RowsHaveVersion ==
  ListAgents # {} => version \/ (phase = "down" /\ crashes = 0 /\ schema # {})

(* What the phases of a start have made of the schema.                         *)
SchemaSoFar ==
  /\ phase = "migrate" => "base" \in schema
  /\ phase = "migrate2" => {"base", "teams"} \subseteq schema
  /\ phase = "version" => schema = Parts
  /\ ServesFullSchema
  /\ RowsHaveVersion

OneDefault == \A a, b \in Defaults : a = b

StoreInv == StoreTypeOK /\ SchemaSoFar /\ RefsExist /\ OneDefault /\ FoldersHaveRows

-----------------------------------------------------------------------------
(* Rows.                                                                       *)

LEMMA RowIs ==
  ASSUME NEW f \in Folders, NEW d \in BOOLEAN
  PROVE  /\ NewRow(f, d) \in AgentRow /\ NewRow(f, d) # Nil
         /\ NewRow(f, d).folder = f /\ NewRow(f, d).default = d
<1>1. NewRow(f, d) \in AgentRow
  BY DEF NewRow, AgentRow
<1>2. Nil \notin AgentRow
  BY NilAssumption
<1> QED BY <1>1, <1>2 DEF NewRow

LEMMA RowsAre ==
  ASSUME StoreTypeOK
  PROVE  /\ \A a \in ListAgents : agent[a] \in AgentRow /\ agent[a].folder \in Folders
         /\ \A t \in Teams : Live(t) => team[t] \in TeamRow
         /\ \A c \in Convs : conv[c] # Nil => conv[c] \in ConvRow
         /\ \A a \in Agents : a \in ListAgents \/ agent[a] = Nil
  BY DEF StoreTypeOK, ListAgents, Live, AgentRow

LEMMA ManagerFolder ==
  ASSUME StoreTypeOK
  PROVE  ManagerFolders \subseteq Folders /\ <<Manager, 0>> \in Folders
<1>1. <<Manager, 0>> \in Folders /\ <<Legacy, 0>> \in Folders
  BY AgentStoreAssumption DEF Folders
<1>2. \A a \in Defaults : agent[a].folder \in Folders
  BY RowsAre DEF Defaults
<1> QED BY <1>1, <1>2 DEF ManagerFolders

LEMMA PutIn ==
  ASSUME StoreTypeOK, NEW a \in Agents, NEW row \in AgentRow, Put(a, row)
  PROVE  /\ agent' \in [Agents -> AgentRow \cup {Nil}]
         /\ agent'[a] = row /\ \A b \in Agents \ {a} : agent'[b] = agent[b]
  BY DEF StoreTypeOK, Put

LEMMA RefreshIs ==
  ASSUME StoreTypeOK, NEW f \in Folders, NEW loc \in Locales, NEW w \in Writes(loc),
         files' = [files EXCEPT ![f] = RefreshPersona(f, w)]
  PROVE  /\ files' \in [Folders -> [Files -> Content]]
         /\ \A g \in Folders \ dirs : files'[g] = Empty
         /\ \A g \in Folders, x \in Files : files[g][x] = "user" => files'[g][x] = "user"
<1>1. \A x \in Files : w[x] \in Content \cup {"kept"}
  BY DEF Writes, Content, Locales
<1>2. RefreshPersona(f, w) \in [Files -> Content]
  BY <1>1 DEF StoreTypeOK, RefreshPersona
<1>3. ASSUME f \notin dirs
      PROVE  RefreshPersona(f, w) = Empty
  BY <1>3 DEF StoreTypeOK, RefreshPersona, Empty, KnownDefaults, Locales
<1>4. \A x \in Files : files[f][x] = "user" => RefreshPersona(f, w)[x] = "user"
  BY DEF StoreTypeOK, RefreshPersona, KnownDefaults, Locales
<1> QED BY <1>2, <1>3, <1>4 DEF StoreTypeOK

LEMMA ConvsCounted ==
  ASSUME NEW a
  PROVE  Cardinality({c \in Convs : conv[c] # Nil /\ conv[c].agent = a}) \in 0..Cardinality(Convs)
<1> DEFINE S == {c \in Convs : conv[c] # Nil /\ conv[c].agent = a}
<1>1. S \subseteq Convs
  OBVIOUS
<1>2. IsFiniteSet(Convs)
  BY AgentStoreAssumption
<1>3. IsFiniteSet(S) /\ Cardinality(S) <= Cardinality(Convs)
  BY <1>1, <1>2, FS_Subset
<1>4. Cardinality(S) \in Nat /\ Cardinality(Convs) \in Nat
  BY <1>2, <1>3, FS_CardinalityType
<1> QED BY <1>3, <1>4

(* The folder of an import is a folder, and no row's.                          *)
LEMMA ImportFolder ==
  ASSUME StoreTypeOK, archive # Nil, NEW f \in ImportFolders
  PROVE  f \in Folders /\ ~HasRow(f)
<1> DEFINE g == archive.folder
<1>1. g \in Folders
  BY DEF StoreTypeOK, ArchiveRow
<1>2. CASE ~HasRow(g)
  BY <1>1, <1>2 DEF ImportFolders
<1>3. CASE HasRow(g)
  <2>1. PICK n \in 1..MaxSuffix : f = <<g[1], n>> /\ ~HasRow(<<g[1], n>>)
    BY <1>3 DEF ImportFolders
  <2> QED BY <2>1, <1>1, AgentStoreAssumption DEF Folders
<1> QED BY <1>2, <1>3

-----------------------------------------------------------------------------
(* The types, action by action.                                                *)

LEMMA FolderGone ==
  ASSUME StoreTypeOK, NEW f \in Folders, RemoveFolder(f)
  PROVE  /\ dirs' \subseteq Folders
         /\ files' \in [Folders -> [Files -> Content]]
         /\ \A g \in Folders \ dirs' : files'[g] = Empty
  BY DEF StoreTypeOK, RemoveFolder, Empty, Content

LEMMA StartTyped ==
  ASSUME StoreTypeOK, DatabaseNew \/ CreateSchema \/ MigrateConversations \/ MigrateCron
                      \/ SetSchemaVersion
  PROVE  StoreTypeOK'
<1>1. CASE DatabaseNew
  <2>1. PICK readable \in BOOLEAN :
          /\ unread' = ~readable
          /\ IF NeedsReset(readable)
             THEN /\ schema' = {} /\ version' = FALSE
                  /\ agent' = [a \in Agents |-> Nil]
                  /\ team' = [t \in Teams |-> Nil]
                  /\ conv' = [c \in Convs |-> Nil]
             ELSE UNCHANGED <<schema, version, dbVars>>
    BY <1>1 DEF DatabaseNew
  <2>2. /\ unread' \in BOOLEAN /\ version' \in BOOLEAN /\ schema' \subseteq Parts
        /\ agent' \in [Agents -> AgentRow \cup {Nil}]
        /\ team' \in [Teams -> TeamRow \cup {Nil}]
        /\ conv' \in [Convs -> ConvRow \cup {Nil}]
    BY <2>1 DEF StoreTypeOK, dbVars
  <2> QED BY <1>1, <2>2 DEF DatabaseNew, StoreTypeOK, fsVars, bound
<1>2. CASE CreateSchema
  BY <1>2 DEF CreateSchema, SchemaStep, StoreTypeOK, fsVars, dbVars, bound, Parts
<1>3. CASE MigrateConversations
  BY <1>3 DEF MigrateConversations, SchemaStep, StoreTypeOK, fsVars, dbVars, bound, Parts
<1>4. CASE MigrateCron
  BY <1>4 DEF MigrateCron, SchemaStep, StoreTypeOK, fsVars, dbVars, bound, Parts
<1>5. CASE SetSchemaVersion
  BY <1>5 DEF SetSchemaVersion, StoreTypeOK, fsVars, dbVars, bound
<1> QED BY <1>1, <1>2, <1>3, <1>4, <1>5

LEMMA SeedNewTyped ==
  ASSUME StoreTypeOK, NEW loc \in Locales, NEW w \in Writes(loc), SeedNew(w)
  PROVE  /\ agent' \in [Agents -> AgentRow \cup {Nil}]
         /\ dirs' \subseteq Folders
         /\ files' \in [Folders -> [Files -> Content]]
         /\ \A f \in Folders \ dirs' : files'[f] = Empty
<1> DEFINE f == <<Manager, 0>>
           a == CHOOSE b \in NewAgents : TRUE
<1>1. f \in Folders
  BY ManagerFolder
<1>2. CASE UNCHANGED <<agent, fsVars>>
  BY <1>2 DEF StoreTypeOK, fsVars
<1>3. CASE ~UNCHANGED <<agent, fsVars>>
  <2>1. a \in Agents
    BY <1>3 DEF SeedNew, NewAgents
  <2>2. Put(a, NewRow(f, TRUE))
    BY <1>3 DEF SeedNew
  <2>3. agent' \in [Agents -> AgentRow \cup {Nil}]
    BY <2>1, <2>2, <1>1, RowIs, PutIn
  <2>4. CASE UNCHANGED fsVars
    BY <2>3, <2>4 DEF StoreTypeOK, fsVars
  <2>5. CASE /\ dirs' = dirs \cup {f}
             /\ files' = [files EXCEPT ![f] = [x \in Files |-> IF w[x] = "kept" THEN @[x] ELSE w[x]]]
    <3>1. \A x \in Files : w[x] \in Content \cup {"kept"}
      BY DEF Writes, Content, Locales
    <3> QED BY <2>3, <2>5, <3>1, <1>1 DEF StoreTypeOK
  <2> QED BY <1>3, <2>4, <2>5 DEF SeedNew
<1> QED BY <1>2, <1>3

LEMMA SeedTyped ==
  ASSUME StoreTypeOK, NEW loc \in Locales, NEW w \in Writes(loc),
         SeedManagerAgent(w) \/ RefreshDefaultManager(w)
  PROVE  StoreTypeOK'
<1>1. ManagerFolders \subseteq Folders
  BY ManagerFolder
<1>2. CASE SeedManagerAgent(w)
  <2>1. /\ agent' \in [Agents -> AgentRow \cup {Nil}]
        /\ dirs' \subseteq Folders
        /\ files' \in [Folders -> [Files -> Content]]
        /\ \A f \in Folders \ dirs' : files'[f] = Empty
    <3>1. CASE ManagerFolders # {}
      BY <1>1, <1>2, <3>1, RefreshIs DEF SeedManagerAgent, StoreTypeOK
    <3>2. CASE ManagerFolders = {}
      BY <1>2, <3>2, SeedNewTyped DEF SeedManagerAgent
    <3> QED BY <3>1, <3>2
  <2>2. phase' \in {"refresh", "sync"} /\ fresh' \in BOOLEAN
    BY <1>2 DEF SeedManagerAgent, StoreTypeOK
  <2> QED BY <1>2, <2>1, <2>2 DEF SeedManagerAgent, StoreTypeOK, bound
<1>3. CASE RefreshDefaultManager(w)
  <2>1. /\ files' \in [Folders -> [Files -> Content]]
        /\ \A f \in Folders \ dirs : files'[f] = Empty
    BY <1>1, <1>3, RefreshIs DEF RefreshDefaultManager, StoreTypeOK
  <2>2. cmds' \in 0..MaxCmds /\ phase' \in {"sync", phase}
    BY <1>3, AgentStoreAssumption DEF RefreshDefaultManager, StoreTypeOK
  <2> QED BY <1>3, <2>1, <2>2 DEF RefreshDefaultManager, StoreTypeOK, dbVars
<1> QED BY <1>2, <1>3

(* What a start adopts: a row of its own for each folder it could adopt.       *)
LEMMA SyncIs ==
  ASSUME StoreTypeOK, SyncAgentsFromFs
  PROVE  /\ agent' \in [Agents -> AgentRow \cup {Nil}]
         /\ \A a \in ListAgents : agent'[a] = agent[a]
         /\ \A a \in Agents \ ListAgents : agent'[a] = Nil \/ agent'[a].default = FALSE
         /\ stray' \subseteq Folders
         /\ \A f \in Orphans : f \in stray' \/ \E a \in Agents : agent'[a] # Nil /\ agent'[a].folder = f
<1>0. PICK adopted \in SUBSET Orphans :
        /\ stray' = Orphans \ adopted
        /\ \E new \in Injections(adopted, NewAgents) :
             agent' = [a \in Agents |->
                         IF \E f \in adopted : new[f] = a
                         THEN NewRow(CHOOSE f \in adopted : new[f] = a, FALSE)
                         ELSE agent[a]]
  BY DEF SyncAgentsFromFs
<1>1. PICK new \in Injections(adopted, NewAgents) :
        /\ agent' = [a \in Agents |->
                       IF \E f \in adopted : new[f] = a
                       THEN NewRow(CHOOSE f \in adopted : new[f] = a, FALSE)
                       ELSE agent[a]]
        /\ stray' = Orphans \ adopted
  BY <1>0
<1>2. /\ Orphans \subseteq Folders /\ NewAgents \subseteq Agents /\ NewAgents \cap ListAgents = {}
      /\ new \in [adopted -> NewAgents] /\ \A f, g \in adopted : new[f] = new[g] => f = g
  BY <1>1 DEF Orphans, StoreTypeOK, NewAgents, ListAgents, Injections
<1>3. ASSUME NEW a \in Agents, \E f \in adopted : new[f] = a
      PROVE  \E f \in adopted : new[f] = a /\ agent'[a] = NewRow(f, FALSE)
  BY <1>1, <1>3
<1>4. ASSUME NEW a \in Agents, ~\E f \in adopted : new[f] = a
      PROVE  agent'[a] = agent[a]
  BY <1>1, <1>4
<1>5. \A a \in Agents : agent'[a] \in AgentRow \cup {Nil}
  <2> TAKE a \in Agents
  <2>1. CASE \E f \in adopted : new[f] = a
    <3>1. PICK f \in adopted : agent'[a] = NewRow(f, FALSE)
      BY <1>3, <2>1
    <3> QED BY <1>1, <1>2, <3>1, RowIs
  <2>2. CASE ~\E f \in adopted : new[f] = a
    BY <1>4, <2>2 DEF StoreTypeOK
  <2> QED BY <2>1, <2>2
<1>6. agent' \in [Agents -> AgentRow \cup {Nil}]
  BY <1>1, <1>5
<1>7. \A a \in ListAgents : agent'[a] = agent[a]
  <2> TAKE a \in ListAgents
  <2>1. a \in Agents /\ a \notin NewAgents
    BY <1>2 DEF ListAgents
  <2>2. ~\E f \in adopted : new[f] = a
    BY <1>2, <2>1
  <2> QED BY <1>4, <2>1, <2>2
<1>8. \A a \in Agents \ ListAgents : agent'[a] = Nil \/ agent'[a].default = FALSE
  <2> TAKE a \in Agents \ ListAgents
  <2>1. CASE \E f \in adopted : new[f] = a
    <3>1. PICK f \in adopted : agent'[a] = NewRow(f, FALSE)
      BY <1>3, <2>1
    <3> QED BY <1>1, <1>2, <3>1, RowIs
  <2>2. CASE ~\E f \in adopted : new[f] = a
    BY <1>4, <2>2 DEF ListAgents
  <2> QED BY <2>1, <2>2
<1>9. ASSUME NEW f \in adopted
      PROVE  agent'[new[f]] # Nil /\ agent'[new[f]].folder = f /\ new[f] \in Agents
  <2>1. PICK g \in adopted : new[g] = new[f] /\ agent'[new[f]] = NewRow(g, FALSE)
    BY <1>2, <1>3
  <2>2. g = f
    BY <1>2, <2>1
  <2> QED BY <1>1, <1>2, <2>1, <2>2, RowIs
<1>10. \A f \in Orphans : f \in stray' \/ \E a \in Agents : agent'[a] # Nil /\ agent'[a].folder = f
  <2> TAKE f \in Orphans
  <2>1. CASE f \in adopted
    BY <1>9, <2>1
  <2>2. CASE f \notin adopted
    BY <1>1, <2>2
  <2> QED BY <2>1, <2>2
<1>11. stray' \subseteq Folders
  BY <1>1, <1>2
<1> QED BY <1>6, <1>7, <1>8, <1>10, <1>11

LEMMA SyncTyped ==
  ASSUME StoreTypeOK, SyncAgentsFromFs
  PROVE  StoreTypeOK'
<1>1. agent' \in [Agents -> AgentRow \cup {Nil}] /\ stray' \subseteq Folders
  BY SyncIs
<1> QED BY <1>1 DEF SyncAgentsFromFs, StoreTypeOK, fsVars, bound

(* A command counts as one, a crash in it as another.                          *)
LEMMA Counted ==
  ASSUME StoreTypeOK
  PROVE  /\ StoreCommand => cmds' \in 0..MaxCmds
         /\ Dies => crashes' \in 0..MaxCrashes
  BY AgentStoreAssumption DEF StoreTypeOK, StoreCommand, Dies

LEMMA CommandTyped ==
  ASSUME StoreTypeOK, StoreCommand, Stays,
         agent' \in [Agents -> AgentRow \cup {Nil}],
         team' \in [Teams -> TeamRow \cup {Nil}],
         conv' \in [Convs -> ConvRow \cup {Nil}],
         dirs' \subseteq Folders,
         files' \in [Folders -> [Files -> Content]],
         \A f \in Folders \ dirs' : files'[f] = Empty,
         note' \in [Notes -> Agents \cup {Nil, "shared"}],
         archive' \in ArchiveRow \cup {Nil},
         open' \in Folders \cup {Nil},
         stray' \subseteq Folders
  PROVE  StoreTypeOK'
  BY Counted DEF StoreTypeOK, Stays, sysVars

LEMMA AgentTyped ==
  ASSUME StoreTypeOK, NEW a \in Agents, NEW f \in Folders,
         CreateAgent(f) \/ OpenEditor(a) \/ UpdateAgent(a)
  PROVE  StoreTypeOK'
<1>1. CASE CreateAgent(f)
  <2>1. PICK b \in NewAgents : Put(b, NewRow(f, FALSE))
    BY <1>1 DEF CreateAgent
  <2>2. agent' \in [Agents -> AgentRow \cup {Nil}]
    BY <2>1, RowIs, PutIn DEF NewAgents
  <2>3. /\ StoreCommand /\ Stays /\ open' = f
        /\ UNCHANGED <<team, conv, dirs, files, note, archive, stray>>
    BY <1>1 DEF CreateAgent, fsVars
  <2> QED BY <2>2, <2>3, CommandTyped DEF StoreTypeOK
<1>2. CASE OpenEditor(a)
  BY <1>2, RowsAre DEF OpenEditor, StoreTypeOK, Stays, sysVars, dbVars, fsVars
<1>3. CASE UpdateAgent(a)
  <2>1. a \in ListAgents /\ agent[a] \in AgentRow
    BY <1>3, RowsAre DEF UpdateAgent
  <2>2. [agent[a] EXCEPT !.visible = ~@] \in AgentRow
    BY <2>1 DEF AgentRow
  <2>3. Put(a, [agent[a] EXCEPT !.visible = ~@])
    BY <1>3 DEF UpdateAgent
  <2>4. agent' \in [Agents -> AgentRow \cup {Nil}]
    BY <2>2, <2>3, PutIn
  <2>5. /\ StoreCommand /\ Stays
        /\ UNCHANGED <<team, conv, dirs, files, note, archive, open, stray>>
    BY <1>3 DEF UpdateAgent, fsVars
  <2> QED BY <2>4, <2>5, CommandTyped DEF StoreTypeOK
<1> QED BY <1>1, <1>2, <1>3

LEMMA WriteTyped ==
  ASSUME StoreTypeOK, NEW x \in Files, WriteAgentFile(x)
  PROVE  StoreTypeOK'
<1>1. /\ StoreCommand /\ Stays /\ open \in Folders
      /\ UNCHANGED <<agent, team, conv, note, archive, open>>
  BY DEF WriteAgentFile, StoreTypeOK, dbVars
<1>2. PICK text \in Content : dirs' = dirs \cup {open} /\ files' = [files EXCEPT ![open][x] = text]
  <2>1. PICK text \in {"user", "cut", files[open][x]} :
          dirs' = dirs \cup {open} /\ files' = [files EXCEPT ![open][x] = text]
    BY DEF WriteAgentFile
  <2>2. text \in Content
    BY <1>1 DEF Content, StoreTypeOK
  <2> QED BY <2>1, <2>2
<1>3. /\ dirs' \subseteq Folders
      /\ files' \in [Folders -> [Files -> Content]]
      /\ \A f \in Folders \ dirs' : files'[f] = Empty
  BY <1>1, <1>2 DEF StoreTypeOK, Content
<1>4. stray' \subseteq Folders
  BY <1>1 DEF WriteAgentFile, StoreTypeOK
<1> QED BY <1>1, <1>3, <1>4, CommandTyped DEF StoreTypeOK

(* What goes with the row of an agent.                                         *)
LEMMA CascadeTyped ==
  ASSUME StoreTypeOK, NEW a \in Agents, DeleteAgentRow(a)
  PROVE  /\ agent' \in [Agents -> AgentRow \cup {Nil}]
         /\ team' \in [Teams -> TeamRow \cup {Nil}]
         /\ conv' \in [Convs -> ConvRow \cup {Nil}]
<1>1. agent' \in [Agents -> AgentRow \cup {Nil}]
  BY DEF DeleteAgentRow, StoreTypeOK
<1>2. ASSUME NEW t \in Teams
      PROVE  TeamCascade(a)[t] \in TeamRow \cup {Nil}
  <2>1. CASE ~Live(t) \/ team[t].leader = a
    BY <2>1 DEF TeamCascade
  <2>2. CASE ~(~Live(t) \/ team[t].leader = a)
    <3>1. team[t] \in TeamRow
      BY <2>2, RowsAre
    <3> QED BY <2>2, <3>1 DEF TeamCascade, TeamRow
  <2> QED BY <2>1, <2>2
<1>3. ASSUME NEW c \in Convs
      PROVE  ConvCascade(a)[c] \in ConvRow \cup {Nil}
  <2>1. CASE conv[c] = Nil \/ conv[c].agent = a
    BY <2>1 DEF ConvCascade
  <2>2. CASE ~(conv[c] = Nil \/ conv[c].agent = a)
    <3>1. conv[c] \in ConvRow
      BY <2>2, RowsAre
    <3> QED BY <2>2, <3>1 DEF ConvCascade, ConvRow
  <2> QED BY <2>1, <2>2
<1>4. team' = TeamCascade(a) /\ conv' = ConvCascade(a)
  BY DEF DeleteAgentRow
<1>5. team' = [t \in Teams |-> TeamCascade(a)[t]] /\ conv' = [c \in Convs |-> ConvCascade(a)[c]]
  BY <1>4 DEF TeamCascade, ConvCascade
<1> QED BY <1>1, <1>2, <1>3, <1>5

LEMMA DeleteTyped ==
  ASSUME StoreTypeOK, NEW a \in Agents, DeleteAgent(a)
  PROVE  StoreTypeOK'
<1> DEFINE f == agent[a].folder
<1>1. a \in ListAgents /\ f \in Folders
  BY RowsAre DEF DeleteAgent
<1>2. StoreCommand /\ UNCHANGED <<note, archive, stray>>
  BY DEF DeleteAgent
<1>3. CASE /\ RemoveFolder(f)
           /\ UNCHANGED dbVars \/ (~agent[a].default /\ DeleteAgentRow(a))
           /\ Stays /\ UNCHANGED open
  <2>1. /\ agent' \in [Agents -> AgentRow \cup {Nil}]
        /\ team' \in [Teams -> TeamRow \cup {Nil}]
        /\ conv' \in [Convs -> ConvRow \cup {Nil}]
    BY <1>3, CascadeTyped DEF StoreTypeOK, dbVars
  <2>2. /\ dirs' \subseteq Folders
        /\ files' \in [Folders -> [Files -> Content]]
        /\ \A g \in Folders \ dirs' : files'[g] = Empty
    BY <1>1, <1>3, FolderGone
  <2> QED BY <1>2, <1>3, <2>1, <2>2, CommandTyped DEF StoreTypeOK
<1>4. CASE /\ f \in dirs
           /\ \E lost \in SUBSET Files :
                files' = [files EXCEPT ![f] = [x \in Files |-> IF x \in lost THEN "none" ELSE @[x]]]
           /\ Stays /\ UNCHANGED <<dbVars, dirs, open>>
  <2>1. PICK lost \in SUBSET Files :
          files' = [files EXCEPT ![f] = [x \in Files |-> IF x \in lost THEN "none" ELSE @[x]]]
    BY <1>4
  <2>2. /\ files' \in [Folders -> [Files -> Content]]
        /\ \A g \in Folders \ dirs : files'[g] = Empty
    BY <1>1, <1>4, <2>1 DEF StoreTypeOK, Content
  <2>3. UNCHANGED <<agent, team, conv, dirs, open>> /\ Stays
    BY <1>4 DEF dbVars
  <2> QED BY <1>2, <2>2, <2>3, CommandTyped DEF StoreTypeOK
<1>5. CASE RemoveFolder(f) /\ Dies /\ open' = Nil /\ UNCHANGED dbVars
  <2>1. /\ dirs' \subseteq Folders
        /\ files' \in [Folders -> [Files -> Content]]
        /\ \A g \in Folders \ dirs' : files'[g] = Empty
    BY <1>1, <1>5, FolderGone
  <2>2. UNCHANGED <<agent, team, conv>>
    BY <1>5 DEF dbVars
  <2> QED BY <1>2, <1>5, <2>1, <2>2, Counted DEF StoreTypeOK, Dies
<1> QED BY <1>3, <1>4, <1>5 DEF DeleteAgent

LEMMA TeamTyped ==
  ASSUME StoreTypeOK, NEW t \in Teams, NEW a \in Agents, NEW wanted \in SUBSET Agents,
         \/ CreateTeam(t, a, wanted) \/ UpdateTeam(t, a) \/ DeleteTeam(t)
         \/ Live(t) /\ (AddTeamMember(t, a) \/ RemoveTeamMember(t, a))
  PROVE  StoreTypeOK'
<1>1. CASE CreateTeam(t, a, wanted)
  <2>1. PICK got \in SUBSET (wanted \cap ListAgents) :
          team' = [team EXCEPT ![t] = [leader |-> a, members |-> got \cup {a}]]
    BY <1>1 DEF CreateTeam
  <2>2. [leader |-> a, members |-> got \cup {a}] \in TeamRow
    BY <2>1 DEF TeamRow, ListAgents
  <2>3. team' \in [Teams -> TeamRow \cup {Nil}]
    BY <2>1, <2>2 DEF StoreTypeOK
  <2>4. /\ StoreCommand /\ Stays
        /\ UNCHANGED <<agent, conv, dirs, files, note, archive, open, stray>>
    BY <1>1 DEF CreateTeam, fsVars
  <2> QED BY <2>3, <2>4, CommandTyped DEF StoreTypeOK
<1>2. ASSUME NEW row \in TeamRow, EditTeam(t, row)
      PROVE  StoreTypeOK'
  <2>1. team' \in [Teams -> TeamRow \cup {Nil}]
    BY <1>2 DEF EditTeam, StoreTypeOK
  <2>2. /\ StoreCommand /\ Stays
        /\ UNCHANGED <<agent, conv, dirs, files, note, archive, open, stray>>
    BY <1>2 DEF EditTeam, fsVars
  <2> QED BY <2>1, <2>2, CommandTyped DEF StoreTypeOK
<1>3. ASSUME Live(t)
      PROVE  /\ [team[t] EXCEPT !.leader = a] \in TeamRow
             /\ [team[t] EXCEPT !.members = @ \cup {a}] \in TeamRow
             /\ [team[t] EXCEPT !.members = @ \ {a}] \in TeamRow
  BY <1>3, RowsAre DEF TeamRow
<1>4. CASE UpdateTeam(t, a)
  BY <1>2, <1>3, <1>4 DEF UpdateTeam, EditTeam
<1>5. CASE Live(t) /\ (AddTeamMember(t, a) \/ RemoveTeamMember(t, a))
  BY <1>2, <1>3, <1>5 DEF AddTeamMember, RemoveTeamMember
<1>6. CASE DeleteTeam(t)
  <2>1. team' \in [Teams -> TeamRow \cup {Nil}]
    BY <1>6 DEF DeleteTeam, StoreTypeOK
  <2>2. \A c \in Convs : conv[c] # Nil => [conv[c] EXCEPT !.team = Nil] \in ConvRow
    BY RowsAre DEF ConvRow
  <2>3. conv' \in [Convs -> ConvRow \cup {Nil}]
    BY <1>6, <2>2 DEF DeleteTeam, StoreTypeOK
  <2>4. /\ StoreCommand /\ Stays
        /\ UNCHANGED <<agent, dirs, files, note, archive, open, stray>>
    BY <1>6 DEF DeleteTeam, fsVars
  <2> QED BY <2>1, <2>3, <2>4, CommandTyped DEF StoreTypeOK
<1> QED BY <1>1, <1>4, <1>5, <1>6

LEMMA ConversationTyped ==
  ASSUME StoreTypeOK, NEW c \in Convs, NEW a \in Agents, NEW t \in Teams \cup {Nil},
         CreateConversation(c, a, t)
  PROVE  StoreTypeOK'
<1>1. conv' = [conv EXCEPT ![c] = [agent |-> a, team |-> t]]
  BY DEF CreateConversation
<1>2. [agent |-> a, team |-> t] \in ConvRow
  BY DEF ConvRow
<1>3. conv' \in [Convs -> ConvRow \cup {Nil}]
  BY <1>1, <1>2 DEF StoreTypeOK
<1>4. /\ StoreCommand /\ Stays
      /\ UNCHANGED <<agent, team, dirs, files, note, archive, open, stray>>
  BY DEF CreateConversation, fsVars
<1> QED BY <1>3, <1>4, CommandTyped DEF StoreTypeOK

LEMMA NoteTyped ==
  ASSUME StoreTypeOK, NEW n \in Notes, NEW owner \in Agents \cup {"shared"},
         CreateNote(n, owner) \/ DeleteNote(n)
  PROVE  StoreTypeOK'
<1>1. note' \in [Notes -> Agents \cup {Nil, "shared"}]
  BY DEF CreateNote, DeleteNote, StoreTypeOK
<1>2. /\ StoreCommand /\ Stays
      /\ UNCHANGED <<agent, team, conv, dirs, files, archive, open, stray>>
  BY DEF CreateNote, DeleteNote, dbVars, fsVars
<1> QED BY <1>1, <1>2, CommandTyped DEF StoreTypeOK

LEMMA ExportTyped ==
  ASSUME StoreTypeOK, NEW a \in Agents, NEW withConvs \in BOOLEAN, ExportAgent(a, withConvs)
  PROVE  StoreTypeOK'
<1>1. agent[a] \in AgentRow /\ agent[a].folder \in Folders /\ agent[a].default \in BOOLEAN
  BY RowsAre DEF ExportAgent, AgentRow
<1>2. PICK refs \in SharedRefs(a) :
        archive' = [folder |-> agent[a].folder, default |-> agent[a].default,
                    files |-> files[agent[a].folder], notes |-> Owned(a), shared |-> refs,
                    convs |-> IF withConvs
                              THEN Cardinality({c \in Convs : conv[c] # Nil /\ conv[c].agent = a})
                              ELSE 0]
  BY DEF ExportAgent
<1>3. Owned(a) \in SUBSET Notes /\ refs \in SUBSET Notes
  BY <1>2 DEF Owned, SharedRefs
<1>4. files[agent[a].folder] \in [Files -> Content]
  BY <1>1 DEF StoreTypeOK
<1>5. (IF withConvs THEN Cardinality({c \in Convs : conv[c] # Nil /\ conv[c].agent = a}) ELSE 0)
        \in 0..Cardinality(Convs)
  <2>1. Cardinality(Convs) \in Nat
    BY AgentStoreAssumption, FS_CardinalityType
  <2> QED BY <2>1, ConvsCounted
<1>6. archive' \in ArchiveRow
  BY <1>1, <1>2, <1>3, <1>4, <1>5 DEF ArchiveRow
<1>7. /\ StoreCommand /\ Stays
      /\ UNCHANGED <<agent, team, conv, dirs, files, note, open, stray>>
  BY DEF ExportAgent, dbVars, fsVars
<1> QED BY <1>6, <1>7, CommandTyped DEF StoreTypeOK

(* What an import writes, wherever it ends.                                    *)
LEMMA ImportIs ==
  ASSUME StoreTypeOK, NEW a \in Agents, NEW f \in Folders, NEW cs \in SUBSET Convs,
         Importing(a, f, cs)
  PROVE  /\ StoreCommand /\ ~HasRow(f) /\ agent[a] = Nil
         /\ ImportAgentToDb(a, f, cs) =>
              /\ agent' \in [Agents -> AgentRow \cup {Nil}]
              /\ conv' \in [Convs -> ConvRow \cup {Nil}]
         /\ \A W \in SUBSET Notes :
              SomeNotes(a, W) => note' \in [Notes -> Agents \cup {Nil, "shared"}]
         /\ \A lost \in SUBSET Files :
              /\ Unpacked(f, lost) \in [Folders -> [Files -> Content]]
              /\ \A g \in Folders \ (dirs \cup {f}) : Unpacked(f, lost)[g] = Empty
<1>1. archive # Nil /\ archive \in ArchiveRow /\ f \in ImportFolders /\ a \in NewAgents
  BY DEF Importing, StoreTypeOK
<1>2. StoreCommand /\ ~HasRow(f) /\ agent[a] = Nil
  BY <1>1, ImportFolder DEF Importing, NewAgents
<1>3. ASSUME ImportAgentToDb(a, f, cs)
      PROVE  agent' \in [Agents -> AgentRow \cup {Nil}]
  BY <1>3, RowIs, PutIn DEF ImportAgentToDb
<1>4. ASSUME ImportAgentToDb(a, f, cs)
      PROVE  conv' \in [Convs -> ConvRow \cup {Nil}]
  <2>1. [agent |-> a, team |-> Nil] \in ConvRow
    BY DEF ConvRow
  <2> QED BY <1>4, <2>1 DEF ImportAgentToDb, StoreTypeOK
<1>5. ASSUME NEW W \in SUBSET Notes, SomeNotes(a, W)
      PROVE  note' \in [Notes -> Agents \cup {Nil, "shared"}]
  BY <1>5 DEF SomeNotes, ImportNotes, StoreTypeOK
<1>6. archive.files \in [Files -> Content]
  BY <1>1 DEF ArchiveRow
<1>7. ASSUME NEW lost \in SUBSET Files
      PROVE  /\ Unpacked(f, lost) \in [Folders -> [Files -> Content]]
             /\ \A g \in Folders \ (dirs \cup {f}) : Unpacked(f, lost)[g] = Empty
  BY <1>6 DEF Unpacked, StoreTypeOK, Content
<1> QED BY <1>2, <1>3, <1>4, <1>5, <1>7

LEMMA ImportTyped ==
  ASSUME StoreTypeOK, NEW a \in Agents, NEW f \in Folders, NEW cs \in SUBSET Convs,
         ImportAgent(a, f, cs) \/ ImportCut(a, f, cs) \/ ImportFails(a, f, cs)
  PROVE  StoreTypeOK'
<1>1. Importing(a, f, cs)
  BY DEF ImportAgent, ImportCut, ImportFails
<1>2. CASE ImportAgent(a, f, cs)
  <2>1. /\ agent' \in [Agents -> AgentRow \cup {Nil}]
        /\ conv' \in [Convs -> ConvRow \cup {Nil}]
    BY <1>1, <1>2, ImportIs DEF ImportAgent
  <2>2. note' \in [Notes -> Agents \cup {Nil, "shared"}]
    BY <1>1, <1>2, ImportIs DEF ImportAgent
  <2>3. /\ dirs' \subseteq Folders
        /\ files' \in [Folders -> [Files -> Content]]
        /\ \A g \in Folders \ dirs' : files'[g] = Empty
    BY <1>1, <1>2, ImportIs DEF ImportAgent, StoreTypeOK
  <2>4. StoreCommand /\ Stays /\ UNCHANGED <<team, archive, open, stray>>
    BY <1>2 DEF ImportAgent, Importing
  <2> QED BY <2>1, <2>2, <2>3, <2>4, CommandTyped DEF StoreTypeOK
<1>3. CASE ImportCut(a, f, cs)
  <2>1. /\ agent' \in [Agents -> AgentRow \cup {Nil}]
        /\ conv' \in [Convs -> ConvRow \cup {Nil}]
    BY <1>1, <1>3, ImportIs DEF ImportCut
  <2>2. /\ note' \in [Notes -> Agents \cup {Nil, "shared"}]
        /\ dirs' \in {dirs, dirs \cup {f}} /\ files' = files
    BY <1>1, <1>3, ImportIs DEF ImportCut, fsVars
  <2>3. StoreCommand /\ Dies /\ open' = Nil /\ UNCHANGED <<team, archive, stray>>
    BY <1>3 DEF ImportCut, Importing
  <2> QED BY <2>1, <2>2, <2>3, Counted DEF StoreTypeOK, Dies
<1>4. CASE ImportFails(a, f, cs)
  <2>1. /\ dirs' \subseteq Folders
        /\ files' \in [Folders -> [Files -> Content]]
        /\ \A g \in Folders \ dirs' : files'[g] = Empty
    <3>1. CASE RemoveFolder(f)
      BY <3>1, FolderGone
    <3>2. CASE UNCHANGED fsVars
      BY <3>2 DEF fsVars, StoreTypeOK
    <3>3. CASE /\ dirs' = dirs \cup {f}
               /\ \E lost \in SUBSET Files : files' = Unpacked(f, lost)
      BY <3>3, <1>1, ImportIs DEF StoreTypeOK
    <3> QED BY <1>4, <3>1, <3>2, <3>3 DEF ImportFails
  <2>2. /\ agent' \in [Agents -> AgentRow \cup {Nil}]
        /\ conv' \in [Convs -> ConvRow \cup {Nil}]
    BY <1>1, <1>4, ImportIs DEF ImportFails, StoreTypeOK
  <2>3. note' \in [Notes -> Agents \cup {Nil, "shared"}]
    BY <1>1, <1>4, ImportIs DEF ImportFails
  <2>4. StoreCommand /\ Stays /\ UNCHANGED <<team, archive, open>> /\ stray' \in {stray, stray \cup {f}}
    BY <1>4 DEF ImportFails, Importing
  <2> QED BY <2>1, <2>2, <2>3, <2>4, CommandTyped DEF StoreTypeOK
<1> QED BY <1>2, <1>3, <1>4

-----------------------------------------------------------------------------
(* The schema.                                                                 *)

LEMMA SchemaStays ==
  ASSUME SchemaSoFar, UNCHANGED <<schema, version>>,
         \/ phase # "down" /\ phase' = "down" /\ agent' = agent
         \/ phase \in {"seed", "refresh", "sync", "ready"}
            /\ phase' \in {"down", "refresh", "sync", "ready"}
  PROVE  SchemaSoFar'
<1>1. RowsHaveVersion'
  BY DEF SchemaSoFar, ServesFullSchema, RowsHaveVersion, ListAgents
<1> QED BY <1>1 DEF SchemaSoFar, ServesFullSchema

LEMMA StartSchema ==
  ASSUME StoreTypeOK, SchemaSoFar,
         DatabaseNew \/ CreateSchema \/ MigrateConversations \/ MigrateCron \/ SetSchemaVersion
  PROVE  SchemaSoFar'
<1>1. CASE DatabaseNew
  <2>1. RowsHaveVersion'
    <3>1. PICK readable \in BOOLEAN :
            IF NeedsReset(readable)
            THEN agent' = [a \in Agents |-> Nil]
            ELSE UNCHANGED <<schema, version, dbVars>>
      BY <1>1 DEF DatabaseNew
    <3>2. CASE NeedsReset(readable)
      BY <3>1, <3>2 DEF RowsHaveVersion, ListAgents
    <3>3. CASE ~NeedsReset(readable)
      BY <3>1, <3>3 DEF RowsHaveVersion, ListAgents, NeedsReset, SchemaSoFar, dbVars
    <3> QED BY <3>2, <3>3
  <2> QED BY <1>1, <2>1 DEF DatabaseNew, SchemaSoFar, ServesFullSchema
<1>2. ASSUME phase \in {"create", "migrate", "migrate2", "version"}, agent' = agent,
             version' = version \/ version' = TRUE
      PROVE  RowsHaveVersion'
  <2>1. ListAgents' = ListAgents
    BY <1>2 DEF ListAgents
  <2>2. ListAgents # {} => version
    BY <1>2 DEF SchemaSoFar, RowsHaveVersion
  <2> QED BY <1>2, <2>1, <2>2 DEF RowsHaveVersion
<1>3. CASE CreateSchema
  BY <1>2, <1>3 DEF CreateSchema, SchemaStep, SchemaSoFar, ServesFullSchema, dbVars
<1>4. CASE MigrateConversations
  BY <1>2, <1>4 DEF MigrateConversations, SchemaStep, SchemaSoFar, ServesFullSchema, dbVars
<1>5. CASE MigrateCron
  BY <1>2, <1>5 DEF MigrateCron, SchemaStep, SchemaSoFar, ServesFullSchema, StoreTypeOK, Parts,
                    dbVars
<1>6. CASE SetSchemaVersion
  BY <1>2, <1>6 DEF SetSchemaVersion, SchemaSoFar, ServesFullSchema, dbVars
<1> QED BY <1>1, <1>3, <1>4, <1>5, <1>6

-----------------------------------------------------------------------------
(* Rows, folders and notes.                                                    *)

(* A step that removes no row, and moves none to another folder.               *)
RowsStay ==
  \A a \in ListAgents : /\ agent'[a] # Nil
                        /\ agent'[a].folder = agent[a].folder
                        /\ agent'[a].default = agent[a].default

NoNewDefault == \A a \in Agents \ ListAgents : agent'[a] = Nil \/ agent'[a].default = FALSE

(* What a step makes of the store.                                             *)
Kept == /\ RefsExist' /\ OneDefault' /\ FoldersHaveRows'
        /\ UserEditsKept /\ OnlyDeletionRemovesRows /\ NotesKeepOwner

LEMMA RowsStayed ==
  ASSUME StoreInv, RowsStay
  PROVE  /\ ListAgents \subseteq ListAgents'
         /\ \A f \in Folders : HasRow(f) => HasRow(f)'
         /\ OnlyDeletionRemovesRows
         /\ team' = team /\ conv' = conv => RefsExist'
<1>1. ListAgents \subseteq ListAgents'
  BY DEF RowsStay, ListAgents
<1>2. ASSUME NEW f \in Folders, HasRow(f)
      PROVE  HasRow(f)'
  BY <1>1, <1>2 DEF RowsStay, HasRow, ByFolder
<1>3. OnlyDeletionRemovesRows
  BY DEF RowsStay, OnlyDeletionRemovesRows
<1>4. ASSUME team' = team, conv' = conv
      PROVE  RefsExist'
  BY <1>1, <1>4 DEF StoreInv, RefsExist, Live
<1> QED BY <1>1, <1>2, <1>3, <1>4

LEMMA NoDefaultComes ==
  ASSUME StoreInv, RowsStay, NoNewDefault
  PROVE  OneDefault'
<1>1. ASSUME NEW a \in Agents, agent'[a] # Nil, agent'[a].default
      PROVE  a \in Defaults
  BY <1>1 DEF RowsStay, NoNewDefault, Defaults
<1>2. \A a \in Defaults' : a \in Defaults
  BY <1>1 DEF Defaults, ListAgents
<1> QED BY <1>2 DEF StoreInv, OneDefault

LEMMA KeptWhen ==
  ASSUME StoreInv, RowsStay, NoNewDefault, RefsExist', UserEditsKept, NotesKeepOwner,
         phase' = "ready" => /\ phase = "ready" /\ stray \subseteq stray'
                             /\ \A f \in dirs' : f \in dirs \/ HasRow(f)' \/ f \in stray'
  PROVE  Kept
<1>1. ASSUME phase' = "ready", NEW f \in dirs', ~HasRow(f)'
      PROVE  f \in stray'
  <2>1. CASE f \in dirs /\ ~HasRow(f)
    BY <1>1, <2>1 DEF StoreInv, FoldersHaveRows, Orphans
  <2>2. CASE f \in dirs /\ HasRow(f)
    BY <1>1, <2>2, RowsStayed DEF StoreInv, StoreTypeOK
  <2> QED BY <1>1, <2>1, <2>2
<1>2. FoldersHaveRows'
  BY <1>1 DEF FoldersHaveRows, Orphans
<1> QED BY <1>2, NoDefaultComes, RowsStayed DEF Kept

LEMMA SameRows ==
  ASSUME agent' = agent
  PROVE  RowsStay /\ NoNewDefault
  BY DEF RowsStay, NoNewDefault, ListAgents

LEMMA SameFiles ==
  ASSUME StoreTypeOK
  PROVE  /\ files' = files => UserEditsKept
         /\ note' = note => NotesKeepOwner
  BY DEF UserEditsKept, NotesKeepOwner

LEMMA RowComes ==
  ASSUME StoreTypeOK, NEW a \in Agents, agent[a] = Nil, NEW f \in Folders,
         Put(a, NewRow(f, FALSE))
  PROVE  RowsStay /\ NoNewDefault /\ HasRow(f)'
<1>1. NewRow(f, FALSE) \in AgentRow /\ NewRow(f, FALSE) # Nil
      /\ NewRow(f, FALSE).folder = f /\ NewRow(f, FALSE).default = FALSE
  BY RowIs
<1>2. agent'[a] = NewRow(f, FALSE) /\ \A b \in Agents \ {a} : agent'[b] = agent[b]
  BY <1>1, PutIn
<1>3. HasRow(f)'
  BY <1>1, <1>2 DEF HasRow, ByFolder, ListAgents
<1> QED BY <1>1, <1>2, <1>3 DEF RowsStay, NoNewDefault, ListAgents

-----------------------------------------------------------------------------
(* The start.                                                                  *)

LEMMA StartKept ==
  ASSUME StoreInv, DatabaseNew \/ CreateSchema \/ MigrateConversations \/ MigrateCron
                   \/ SetSchemaVersion
  PROVE  Kept
<1>1. StoreTypeOK
  BY DEF StoreInv
<1>2. files' = files /\ note' = note /\ phase' # "ready"
  BY DEF DatabaseNew, CreateSchema, MigrateConversations, MigrateCron, SchemaStep,
         SetSchemaVersion, fsVars
<1>3. UserEditsKept /\ NotesKeepOwner
  BY <1>1, <1>2, SameFiles
<1>4. CASE UNCHANGED <<agent, team, conv>>
  BY <1>2, <1>3, <1>4, KeptWhen, SameRows, RowsStayed
<1>5. ASSUME NEW readable \in BOOLEAN, DatabaseNew, NeedsReset(readable), unread' = ~readable,
             agent' = [a \in Agents |-> Nil], team' = [t \in Teams |-> Nil],
             conv' = [c \in Convs |-> Nil]
      PROVE  Kept
  <2>1. ListAgents' = {} /\ (\A t \in Teams : ~Live(t)') /\ (\A c \in Convs : conv'[c] = Nil)
    BY <1>5 DEF ListAgents, Live
  <2>2. RefsExist' /\ OneDefault'
    BY <2>1 DEF RefsExist, OneDefault, Defaults
  <2>3. FoldersHaveRows'
    BY <1>2 DEF FoldersHaveRows
  <2>4. OnlyDeletionRemovesRows
    BY <1>5 DEF OnlyDeletionRemovesRows, DatabaseNew, NeedsReset, StoreInv, SchemaSoFar,
                RowsHaveVersion
  <2> QED BY <1>3, <2>2, <2>3, <2>4 DEF Kept
<1>6. \/ UNCHANGED <<agent, team, conv>>
      \/ DatabaseNew /\ \E readable \in BOOLEAN :
           /\ NeedsReset(readable) /\ unread' = ~readable
           /\ agent' = [a \in Agents |-> Nil] /\ team' = [t \in Teams |-> Nil]
           /\ conv' = [c \in Convs |-> Nil]
  BY DEF DatabaseNew, CreateSchema, MigrateConversations, MigrateCron, SchemaStep,
         SetSchemaVersion, dbVars
<1> QED BY <1>4, <1>5, <1>6

(* Seeding inserts the default row when there is none, and writes only to the  *)
(* folder of that row.                                                         *)
LEMMA SeedNewKept ==
  ASSUME StoreInv, NEW loc \in Locales, NEW w \in Writes(loc), SeedNew(w),
         ManagerFolders = {}
  PROVE  RowsStay /\ OneDefault' /\ UserEditsKept
<1> DEFINE f == <<Manager, 0>>
           a == CHOOSE b \in NewAgents : TRUE
<1>1. StoreTypeOK /\ f \in Folders
  BY ManagerFolder DEF StoreInv
<1>2. CASE UNCHANGED <<agent, fsVars>>
  <2>1. agent' = agent /\ files' = files
    BY <1>2 DEF fsVars
  <2> QED BY <1>1, <2>1, SameRows, SameFiles, NoDefaultComes
<1>3. CASE ~UNCHANGED <<agent, fsVars>>
  <2>1. a \in NewAgents /\ a \in Agents /\ agent[a] = Nil
    BY <1>3 DEF SeedNew, NewAgents
  <2>2. Put(a, NewRow(f, TRUE))
    BY <1>3 DEF SeedNew
  <2>3. NewRow(f, TRUE) \in AgentRow
    BY <1>1, RowIs
  <2>4. \A b \in Agents \ {a} : agent'[b] = agent[b]
    BY <1>1, <2>1, <2>2, <2>3, PutIn
  <2>5. RowsStay
    BY <2>1, <2>4 DEF RowsStay, ListAgents
  <2>6. Defaults = {}
    BY DEF ManagerFolders
  <2>7. Defaults' \subseteq {a}
    BY <2>4, <2>6 DEF Defaults, ListAgents
  <2>8. UserEditsKept
    BY <1>1, <1>3 DEF SeedNew, fsVars, UserEditsKept, StoreTypeOK
  <2> QED BY <2>5, <2>7, <2>8 DEF OneDefault
<1> QED BY <1>2, <1>3

LEMMA SeedKept ==
  ASSUME StoreInv, NEW loc \in Locales, NEW w \in Writes(loc),
         SeedManagerAgent(w) \/ RefreshDefaultManager(w)
  PROVE  Kept
<1>1. StoreTypeOK /\ ManagerFolders \subseteq Folders
  BY ManagerFolder DEF StoreInv
<1>2. ASSUME \E f \in ManagerFolders : files' = [files EXCEPT ![f] = RefreshPersona(f, w)]
      PROVE  UserEditsKept
  BY <1>1, <1>2, RefreshIs DEF UserEditsKept
<1>3. CASE SeedManagerAgent(w)
  <2>1. phase' # "ready" /\ UNCHANGED <<team, conv, note>>
    BY <1>3 DEF SeedManagerAgent
  <2>2. RowsStay /\ OneDefault' /\ UserEditsKept
    <3>1. CASE ManagerFolders # {}
      BY <1>2, <1>3, <3>1, SameRows, NoDefaultComes DEF SeedManagerAgent
    <3>2. CASE ManagerFolders = {}
      BY <1>3, <3>2, SeedNewKept DEF SeedManagerAgent
    <3> QED BY <3>1, <3>2
  <2>3. FoldersHaveRows'
    BY <2>1 DEF FoldersHaveRows
  <2> QED BY <1>1, <2>1, <2>2, <2>3, RowsStayed, SameFiles DEF Kept
<1>4. CASE RefreshDefaultManager(w)
  <2>1. /\ UNCHANGED <<agent, team, conv, note, dirs, stray>>
        /\ phase' = "ready" => phase = "ready"
    BY <1>4 DEF RefreshDefaultManager, dbVars
  <2>2. UserEditsKept
    BY <1>1, <1>2, <1>4, SameFiles DEF RefreshDefaultManager
  <2> QED BY <1>1, <2>1, <2>2, SameRows, RowsStayed, SameFiles, KeptWhen
<1> QED BY <1>3, <1>4

LEMMA SyncKept ==
  ASSUME StoreInv, SyncAgentsFromFs
  PROVE  Kept
<1>1. StoreTypeOK /\ UNCHANGED <<team, conv, dirs, files, note>>
  BY DEF StoreInv, SyncAgentsFromFs, fsVars
<1>2. RowsStay
  BY <1>1, SyncIs DEF RowsStay, ListAgents
<1>3. NoNewDefault
  BY <1>1, SyncIs DEF NoNewDefault
<1>4. FoldersHaveRows'
  <2>1. \A f \in dirs : HasRow(f)' \/ f \in stray'
    <3> TAKE f \in dirs
    <3>1. CASE HasRow(f)
      BY <1>1, <1>2, <3>1, RowsStayed DEF StoreTypeOK
    <3>2. CASE ~HasRow(f)
      <4>1. f \in stray' \/ \E a \in Agents : agent'[a] # Nil /\ agent'[a].folder = f
        BY <1>1, <3>2, SyncIs DEF Orphans
      <4> QED BY <4>1 DEF HasRow, ByFolder, ListAgents
    <3> QED BY <3>1, <3>2
  <2> QED BY <1>1, <2>1 DEF FoldersHaveRows, Orphans
<1> QED BY <1>1, <1>2, <1>3, <1>4, RowsStayed, NoDefaultComes, SameFiles DEF Kept

LEMMA CrashKept ==
  ASSUME StoreInv, Crash
  PROVE  StoreTypeOK' /\ SchemaSoFar' /\ Kept
<1>1. StoreTypeOK /\ SchemaSoFar
  BY DEF StoreInv
<1>2. /\ UNCHANGED <<agent, team, conv, dirs, files, note, stray, schema, version>>
      /\ phase # "down" /\ phase' = "down"
  BY DEF Crash, dbVars, fsVars
<1>3. StoreTypeOK'
  BY <1>1, AgentStoreAssumption DEF Crash, StoreTypeOK, dbVars, fsVars
<1> QED BY <1>1, <1>2, <1>3, SchemaStays, SameRows, RowsStayed, SameFiles, KeptWhen

-----------------------------------------------------------------------------
(* The commands.                                                               *)

(* A command that writes to no folder, and moves no row.                       *)
LEMMA PlainKept ==
  ASSUME StoreInv, UNCHANGED <<agent, dirs, files, stray, phase>>, RefsExist', NotesKeepOwner
  PROVE  Kept
  BY SameRows, SameFiles, KeptWhen DEF StoreInv

LEMMA AgentKept ==
  ASSUME StoreInv, NEW a \in Agents, NEW f \in Folders,
         CreateAgent(f) \/ OpenEditor(a) \/ UpdateAgent(a)
  PROVE  Kept
<1>1. StoreTypeOK /\ UNCHANGED <<team, conv, dirs, files, note, stray, phase>>
  BY DEF StoreInv, CreateAgent, OpenEditor, UpdateAgent, Stays, sysVars, fsVars, dbVars
<1>2. RowsStay /\ NoNewDefault
  <2>1. CASE CreateAgent(f)
    BY <1>1, <2>1, RowComes DEF CreateAgent, NewAgents
  <2>2. CASE OpenEditor(a)
    BY <2>2, SameRows DEF OpenEditor, dbVars
  <2>3. CASE UpdateAgent(a)
    <3>1. a \in ListAgents /\ agent[a] \in AgentRow
      BY <1>1, <2>3, RowsAre DEF UpdateAgent
    <3> DEFINE row == [agent[a] EXCEPT !.visible = ~@]
    <3>2. row \in AgentRow /\ row.folder = agent[a].folder /\ row.default = agent[a].default
      BY <3>1 DEF AgentRow
    <3>3. row # Nil
      <4>1. Nil \notin AgentRow
        BY NilAssumption
      <4> QED BY <3>2, <4>1
    <3>4. agent'[a] = row /\ \A b \in Agents \ {a} : agent'[b] = agent[b]
      BY <1>1, <2>3, <3>2, PutIn DEF UpdateAgent
    <3> QED BY <3>1, <3>2, <3>3, <3>4 DEF RowsStay, NoNewDefault, ListAgents
  <2> QED BY <2>1, <2>2, <2>3
<1> QED BY <1>1, <1>2, RowsStayed, SameFiles, KeptWhen

LEMMA WriteKept ==
  ASSUME StoreInv, NEW x \in Files, WriteAgentFile(x)
  PROVE  Kept
<1>1. StoreTypeOK /\ UNCHANGED <<agent, team, conv, note, phase>>
  BY DEF StoreInv, WriteAgentFile, Stays, sysVars, dbVars
<1>2. PICK f \in Folders : f = open
  BY <1>1 DEF WriteAgentFile, StoreTypeOK
<1>3. PICK text \in {"user", "cut", files[f][x]} :
        files' = [files EXCEPT ![f][x] = text] /\ dirs' = dirs \cup {f}
  BY <1>2 DEF WriteAgentFile
<1>4. UserEditsKept
  BY <1>1, <1>2, <1>3 DEF UserEditsKept, StoreTypeOK
<1>5. stray \subseteq stray' /\ (HasRow(f) \/ f \in stray')
  BY <1>2 DEF WriteAgentFile
<1>6. RowsStay /\ NoNewDefault /\ RefsExist' /\ NotesKeepOwner
  BY <1>1, SameRows, RowsStayed, SameFiles
<1>7. HasRow(f) => HasRow(f)'
  BY <1>6, RowsStayed
<1> QED BY <1>1, <1>3, <1>4, <1>5, <1>6, <1>7, KeptWhen

(* The rows that refer to a row that goes are gone or do not refer to it.      *)
LEMMA CascadeKept ==
  ASSUME StoreInv, NEW a \in ListAgents, DeleteAgentRow(a)
  PROVE  /\ RefsExist' /\ OneDefault'
         /\ \A b \in Agents \ {a} : agent'[b] = agent[b]
<1>1. StoreTypeOK /\ RefsExist /\ OneDefault /\ a \in Agents
  BY DEF StoreInv, ListAgents
<1>2. agent' = [agent EXCEPT ![a] = Nil] /\ team' = TeamCascade(a) /\ conv' = ConvCascade(a)
  BY DEF DeleteAgentRow
<1>3. /\ \A b \in Agents \ {a} : agent'[b] = agent[b]
      /\ ListAgents' = ListAgents \ {a}
  BY <1>1, <1>2 DEF ListAgents, StoreTypeOK
<1>4. OneDefault'
  <2>1. Defaults' \subseteq Defaults
    BY <1>3 DEF Defaults, ListAgents
  <2> QED BY <1>1, <2>1 DEF OneDefault
<1>5. ASSUME NEW t \in Teams, team'[t] # Nil
      PROVE  team'[t].members \cup {team'[t].leader} \subseteq ListAgents'
  <2>1. Live(t) /\ team[t].leader # a /\ team'[t] = [team[t] EXCEPT !.members = @ \ {a}]
    BY <1>2, <1>5 DEF TeamCascade
  <2>2. team[t] \in TeamRow /\ team[t].members \cup {team[t].leader} \subseteq ListAgents
    BY <1>1, <2>1, RowsAre DEF RefsExist
  <2> QED BY <1>3, <2>1, <2>2 DEF TeamRow
<1>6. ASSUME NEW c \in Convs, conv'[c] # Nil
      PROVE  conv'[c].agent \in ListAgents' /\ (conv'[c].team # Nil => team'[conv'[c].team] # Nil)
  <2>1. /\ conv[c] # Nil /\ conv[c].agent # a
        /\ conv'[c] = [conv[c] EXCEPT !.team = IF @ # Nil /\ TeamCascade(a)[@] = Nil
                                               THEN Nil ELSE @]
    BY <1>2, <1>6 DEF ConvCascade
  <2>2. conv[c] \in ConvRow /\ conv[c].agent \in ListAgents
    BY <1>1, <2>1, RowsAre DEF RefsExist
  <2>3. conv'[c].agent = conv[c].agent
    BY <2>1, <2>2 DEF ConvRow
  <2>4. conv'[c].team # Nil => TeamCascade(a)[conv'[c].team] # Nil
    BY <2>1, <2>2 DEF ConvRow
  <2> QED BY <1>2, <1>3, <2>1, <2>2, <2>3, <2>4
<1>7. RefsExist'
  BY <1>5, <1>6 DEF RefsExist, Live
<1> QED BY <1>3, <1>4, <1>7

LEMMA DeleteKept ==
  ASSUME StoreInv, NEW a \in Agents, DeleteAgent(a)
  PROVE  Kept
<1> DEFINE f == agent[a].folder
<1>1. StoreTypeOK /\ a \in ListAgents /\ f \in Folders /\ UNCHANGED <<note, stray>>
  BY RowsAre DEF StoreInv, DeleteAgent
<1>2. NotesKeepOwner
  BY <1>1, SameFiles
<1>3. ASSUME RemoveFolder(f)
      PROVE  UserEditsKept /\ dirs' = dirs \ {f}
  BY <1>1, <1>3 DEF RemoveFolder, UserEditsKept, StoreTypeOK, Empty
<1>4. CASE /\ RemoveFolder(f)
           /\ UNCHANGED dbVars \/ (~agent[a].default /\ DeleteAgentRow(a))
           /\ Stays /\ UNCHANGED open
  <2>1. phase' = phase /\ UserEditsKept /\ dirs' = dirs \ {f}
    BY <1>3, <1>4 DEF Stays, sysVars
  <2>2. CASE UNCHANGED dbVars
    <3>1. UNCHANGED <<agent, team, conv>>
      BY <2>2 DEF dbVars
    <3> QED BY <1>1, <1>2, <2>1, <3>1, SameRows, RowsStayed, KeptWhen
  <2>3. CASE DeleteAgentRow(a)
    <3>1. /\ RefsExist' /\ OneDefault'
          /\ \A b \in Agents \ {a} : agent'[b] = agent[b]
      BY <1>1, <1>4, <2>3, CascadeKept
    <3>2. FoldersHaveRows'
      <4>1. ASSUME phase = "ready", NEW g \in dirs \ {f}, g \notin stray
            PROVE  HasRow(g)'
        <5>1. PICK b \in Agents : agent[b] # Nil /\ agent[b].folder = g
          BY <4>1 DEF StoreInv, FoldersHaveRows, Orphans, HasRow, ByFolder, ListAgents
        <5>2. agent'[b] = agent[b]
          BY <3>1, <4>1, <5>1
        <5> QED BY <5>1, <5>2 DEF HasRow, ByFolder, ListAgents
      <4> QED BY <1>1, <2>1, <4>1 DEF FoldersHaveRows, Orphans
    <3>3. OnlyDeletionRemovesRows
      <4>1. phase = "ready" /\ f \notin dirs'
        BY <2>1 DEF DeleteAgent, StoreCommand
      <4> QED BY <3>1, <4>1 DEF OnlyDeletionRemovesRows, ListAgents
    <3> QED BY <1>2, <2>1, <3>1, <3>2, <3>3 DEF Kept
  <2> QED BY <1>4, <2>2, <2>3
<1>5. CASE /\ f \in dirs
           /\ \E lost \in SUBSET Files :
                files' = [files EXCEPT ![f] = [x \in Files |-> IF x \in lost THEN "none" ELSE @[x]]]
           /\ Stays /\ UNCHANGED <<dbVars, dirs, open>>
  <2>1. UserEditsKept
    BY <1>1, <1>5 DEF UserEditsKept, StoreTypeOK
  <2>2. UNCHANGED <<agent, team, conv, dirs, phase>>
    BY <1>5 DEF Stays, sysVars, dbVars
  <2> QED BY <1>1, <1>2, <2>1, <2>2, SameRows, RowsStayed, KeptWhen
<1>6. CASE RemoveFolder(f) /\ Dies /\ open' = Nil /\ UNCHANGED dbVars
  <2>1. UNCHANGED <<agent, team, conv>> /\ phase' = "down"
    BY <1>6 DEF Dies, dbVars
  <2> QED BY <1>1, <1>2, <1>3, <1>6, <2>1, SameRows, RowsStayed, KeptWhen
<1> QED BY <1>4, <1>5, <1>6 DEF DeleteAgent

LEMMA TeamKept ==
  ASSUME StoreInv, NEW t \in Teams, NEW a \in Agents, NEW wanted \in SUBSET Agents,
         \/ CreateTeam(t, a, wanted) \/ UpdateTeam(t, a) \/ DeleteTeam(t)
         \/ Live(t) /\ (AddTeamMember(t, a) \/ RemoveTeamMember(t, a))
  PROVE  Kept
<1>1. /\ StoreTypeOK /\ RefsExist
      /\ UNCHANGED <<agent, dirs, files, note, stray, phase>>
  BY DEF StoreInv, CreateTeam, UpdateTeam, DeleteTeam, AddTeamMember, RemoveTeamMember, EditTeam,
         Stays, sysVars, fsVars
<1>2. ListAgents' = ListAgents
  BY <1>1 DEF ListAgents
<1>3. ASSUME NEW row \in TeamRow, row.members \cup {row.leader} \subseteq ListAgents,
             team' = [team EXCEPT ![t] = row], conv' = conv
      PROVE  RefsExist'
  <2>1. row # Nil
    BY NilAssumption
  <2>2. team'[t] = row /\ \A u \in Teams \ {t} : team'[u] = team[u]
    BY <1>1, <1>3 DEF StoreTypeOK
  <2>3. ASSUME NEW c \in Convs, conv[c] # Nil
        PROVE  conv[c].agent \in ListAgents /\ (conv[c].team # Nil => team'[conv[c].team] # Nil)
    <3>1. conv[c] \in ConvRow
      BY <1>1, <2>3, RowsAre
    <3>2. conv[c].team # Nil => conv[c].team \in Teams
      BY <3>1 DEF ConvRow
    <3> QED BY <1>1, <2>1, <2>2, <2>3, <3>2 DEF RefsExist, Live
  <2> QED BY <1>1, <1>2, <1>3, <2>2, <2>3 DEF RefsExist, Live
<1>4. ASSUME Live(t)
      PROVE  team[t] \in TeamRow /\ team[t].members \cup {team[t].leader} \subseteq ListAgents
  BY <1>1, <1>4, RowsAre DEF RefsExist
<1>5. CASE CreateTeam(t, a, wanted)
  <2>1. PICK got \in SUBSET (wanted \cap ListAgents) :
          team' = [team EXCEPT ![t] = [leader |-> a, members |-> got \cup {a}]]
    BY <1>5 DEF CreateTeam
  <2>2. [leader |-> a, members |-> got \cup {a}] \in TeamRow
    BY <2>1 DEF TeamRow, ListAgents
  <2>3. a \in ListAgents /\ conv' = conv
    BY <1>5 DEF CreateTeam
  <2>4. RefsExist'
    BY <1>3, <2>1, <2>2, <2>3
  <2> QED BY <1>1, <2>4, SameFiles, PlainKept
<1>6. CASE UpdateTeam(t, a)
  <2>1. a \in ListAgents /\ Live(t) /\ conv' = conv
        /\ team' = [team EXCEPT ![t] = [team[t] EXCEPT !.leader = a]]
    BY <1>6 DEF UpdateTeam, EditTeam
  <2>2. [team[t] EXCEPT !.leader = a] \in TeamRow
    BY <1>4, <2>1 DEF TeamRow
  <2>3. RefsExist'
    BY <1>3, <1>4, <2>1, <2>2 DEF TeamRow
  <2> QED BY <1>1, <2>3, SameFiles, PlainKept
<1>7. CASE Live(t) /\ AddTeamMember(t, a)
  <2>1. a \in ListAgents /\ conv' = conv
        /\ team' = [team EXCEPT ![t] = [team[t] EXCEPT !.members = @ \cup {a}]]
    BY <1>7 DEF AddTeamMember, EditTeam
  <2>2. [team[t] EXCEPT !.members = @ \cup {a}] \in TeamRow
    BY <1>4, <1>7 DEF TeamRow
  <2>3. RefsExist'
    BY <1>3, <1>4, <1>7, <2>1, <2>2 DEF TeamRow
  <2> QED BY <1>1, <2>3, SameFiles, PlainKept
<1>8. CASE Live(t) /\ RemoveTeamMember(t, a)
  <2>1. conv' = conv /\ team' = [team EXCEPT ![t] = [team[t] EXCEPT !.members = @ \ {a}]]
    BY <1>8 DEF RemoveTeamMember, EditTeam
  <2>2. [team[t] EXCEPT !.members = @ \ {a}] \in TeamRow
    BY <1>4, <1>8 DEF TeamRow
  <2>3. RefsExist'
    BY <1>3, <1>4, <1>8, <2>1, <2>2 DEF TeamRow
  <2> QED BY <1>1, <2>3, SameFiles, PlainKept
<1>9. CASE DeleteTeam(t)
  <2>1. /\ team' = [team EXCEPT ![t] = Nil]
        /\ conv' = [c \in Convs |-> IF conv[c] # Nil /\ conv[c].team = t
                                    THEN [conv[c] EXCEPT !.team = Nil] ELSE conv[c]]
    BY <1>9 DEF DeleteTeam
  <2>2. team'[t] = Nil /\ \A u \in Teams \ {t} : team'[u] = team[u]
    BY <1>1, <2>1 DEF StoreTypeOK
  <2>3. ASSUME NEW c \in Convs, conv'[c] # Nil
        PROVE  conv'[c].agent \in ListAgents /\ (conv'[c].team # Nil => team'[conv'[c].team] # Nil)
    <3>1. conv[c] # Nil
      BY <2>1, <2>3
    <3>2. conv[c] \in ConvRow /\ conv[c].agent \in ListAgents
          /\ (conv[c].team # Nil => conv[c].team \in Teams /\ team[conv[c].team] # Nil)
      BY <1>1, <3>1, RowsAre DEF RefsExist, Live, ConvRow
    <3>3. CASE conv[c].team = t
      <4>1. conv'[c] = [conv[c] EXCEPT !.team = Nil]
        BY <2>1, <3>1, <3>3
      <4> QED BY <3>2, <4>1 DEF ConvRow
    <3>4. CASE conv[c].team # t
      <4>1. conv'[c] = conv[c]
        BY <2>1, <3>4
      <4> QED BY <2>2, <3>2, <3>4, <4>1
    <3> QED BY <3>3, <3>4
  <2>4. RefsExist'
    BY <1>1, <1>2, <2>2, <2>3 DEF RefsExist, Live
  <2> QED BY <1>1, <2>4, SameFiles, PlainKept
<1> QED BY <1>5, <1>6, <1>7, <1>8, <1>9

LEMMA ConversationKept ==
  ASSUME StoreInv, NEW c \in Convs, NEW a \in Agents, NEW t \in Teams \cup {Nil},
         CreateConversation(c, a, t)
  PROVE  Kept
<1>1. /\ StoreTypeOK /\ RefsExist
      /\ UNCHANGED <<agent, team, dirs, files, note, stray, phase>>
  BY DEF StoreInv, CreateConversation, Stays, sysVars, fsVars
<1>2. /\ a \in ListAgents /\ (t # Nil => Live(t))
      /\ conv' = [conv EXCEPT ![c] = [agent |-> a, team |-> t]]
  BY DEF CreateConversation
<1>3. \A d \in Convs : conv'[d] = IF d = c THEN [agent |-> a, team |-> t] ELSE conv[d]
  BY <1>1, <1>2 DEF StoreTypeOK
<1>4. RefsExist'
  BY <1>1, <1>2, <1>3 DEF RefsExist, Live, ListAgents
<1> QED BY <1>1, <1>4, SameFiles, PlainKept

LEMMA NoteKept ==
  ASSUME StoreInv, NEW n \in Notes, NEW owner \in Agents \cup {"shared"},
         CreateNote(n, owner) \/ DeleteNote(n)
  PROVE  Kept
<1>1. StoreTypeOK /\ UNCHANGED <<agent, team, conv, dirs, files, stray, phase>>
  BY DEF StoreInv, CreateNote, DeleteNote, Stays, sysVars, dbVars, fsVars
<1>2. NotesKeepOwner
  BY <1>1 DEF CreateNote, DeleteNote, NotesKeepOwner, StoreTypeOK
<1> QED BY <1>1, <1>2, SameRows, RowsStayed, PlainKept

LEMMA ExportKept ==
  ASSUME StoreInv, NEW a \in Agents, NEW withConvs \in BOOLEAN, ExportAgent(a, withConvs)
  PROVE  Kept
<1>1. StoreTypeOK /\ UNCHANGED <<agent, team, conv, dirs, files, note, stray, phase>>
  BY DEF StoreInv, ExportAgent, Stays, sysVars, dbVars, fsVars
<1> QED BY <1>1, SameRows, RowsStayed, SameFiles, PlainKept

(* What an import inserts, wherever it ends: a row and conversations of it, and *)
(* notes the vault did not have.                                               *)
LEMMA ImportedRows ==
  ASSUME StoreInv, NEW a \in Agents, NEW f \in Folders, NEW cs \in SUBSET Convs,
         Importing(a, f, cs), ImportAgentToDb(a, f, cs), team' = team
  PROVE  RowsStay /\ NoNewDefault /\ HasRow(f)' /\ RefsExist'
<1>1. StoreTypeOK /\ RefsExist /\ agent[a] = Nil
  BY ImportIs DEF StoreInv
<1>2. Put(a, NewRow(f, FALSE)) /\ cs \subseteq FreeConvs
      /\ conv' = [c \in Convs |-> IF c \in cs THEN [agent |-> a, team |-> Nil] ELSE conv[c]]
  BY DEF ImportAgentToDb, Importing
<1>3. RowsStay /\ NoNewDefault /\ HasRow(f)'
  BY <1>1, <1>2, RowComes
<1>4. ListAgents \subseteq ListAgents'
  BY <1>3, RowsStayed
<1>5. a \in ListAgents'
  <2>1. NewRow(f, FALSE) \in AgentRow /\ NewRow(f, FALSE) # Nil
    BY RowIs
  <2>2. agent'[a] = NewRow(f, FALSE)
    BY <1>1, <1>2, <2>1, PutIn
  <2> QED BY <2>1, <2>2 DEF ListAgents
<1>6. ASSUME NEW c \in Convs, conv'[c] # Nil
      PROVE  conv'[c].agent \in ListAgents' /\ (conv'[c].team # Nil => team[conv'[c].team] # Nil)
  <2>1. CASE c \in cs
    <3>1. conv'[c] = [agent |-> a, team |-> Nil]
      BY <1>2, <2>1
    <3> QED BY <1>5, <3>1
  <2>2. CASE c \notin cs
    <3>1. conv'[c] = conv[c]
      BY <1>2, <2>2
    <3> QED BY <1>1, <1>4, <1>6, <3>1 DEF RefsExist, Live
  <2> QED BY <2>1, <2>2
<1>7. RefsExist'
  BY <1>1, <1>4, <1>6 DEF RefsExist, Live
<1> QED BY <1>3, <1>7

LEMMA ImportedNotes ==
  ASSUME StoreInv, NEW a \in Agents, NEW W \in SUBSET Notes, SomeNotes(a, W)
  PROVE  NotesKeepOwner /\ \A n \in Notes : note[n] # Nil => note'[n] = note[n]
<1>1. PICK new \in RenamedSets :
        note' = [n \in Notes |-> IF n \in W THEN ImportNotes(a, new)[n] ELSE note[n]]
  BY DEF SomeNotes
<1>2. \A n \in new : note[n] = Nil
  BY DEF RenamedSets
<1>3. ASSUME NEW n \in Notes, note[n] # Nil
      PROVE  note'[n] = note[n]
  BY <1>1, <1>2, <1>3 DEF ImportNotes
<1> QED BY <1>3 DEF NotesKeepOwner

LEMMA ImportKept ==
  ASSUME StoreInv, NEW a \in Agents, NEW f \in Folders, NEW cs \in SUBSET Convs,
         ImportAgent(a, f, cs) \/ ImportCut(a, f, cs) \/ ImportFails(a, f, cs)
  PROVE  Kept
<1>1. Importing(a, f, cs) /\ StoreTypeOK /\ team' = team
  BY DEF ImportAgent, ImportCut, ImportFails, StoreInv
<1>2. ~HasRow(f)
  BY <1>1, ImportIs
<1>3. ASSUME NEW lost \in SUBSET Files, files' = Unpacked(f, lost)
      PROVE  UserEditsKept
  <2>1. \A g \in Folders \ {f} : files'[g] = files[g]
    BY <1>1, <1>3 DEF Unpacked, StoreTypeOK
  <2> QED BY <1>2, <2>1 DEF UserEditsKept
<1>4. CASE ImportAgent(a, f, cs)
  <2>1. RowsStay /\ NoNewDefault /\ HasRow(f)' /\ RefsExist'
    BY <1>1, <1>4, ImportedRows DEF ImportAgent
  <2>2. NotesKeepOwner
    BY <1>4, ImportedNotes DEF ImportAgent
  <2>3. UserEditsKept
    BY <1>3, <1>4 DEF ImportAgent
  <2>4. dirs' = dirs \cup {f} /\ phase' = phase /\ stray' = stray
    BY <1>4 DEF ImportAgent, Stays, sysVars
  <2> QED BY <1>1, <2>1, <2>2, <2>3, <2>4, KeptWhen
<1>5. CASE ImportCut(a, f, cs)
  <2>1. RowsStay /\ NoNewDefault /\ RefsExist'
    BY <1>1, <1>5, ImportedRows DEF ImportCut
  <2>2. NotesKeepOwner /\ files' = files
    BY <1>5, ImportedNotes DEF ImportCut, fsVars
  <2>3. phase' = "down"
    BY <1>5 DEF ImportCut, Dies
  <2> QED BY <1>1, <2>1, <2>2, <2>3, SameFiles, KeptWhen
<1>6. CASE ImportFails(a, f, cs)
  <2>1. phase' = phase /\ NotesKeepOwner
    BY <1>6, ImportedNotes DEF ImportFails, Stays, sysVars
  <2>2. UserEditsKept
    <3>1. CASE RemoveFolder(f)
      BY <1>1, <1>2, <3>1 DEF RemoveFolder, UserEditsKept, StoreTypeOK
    <3>2. CASE UNCHANGED fsVars
      BY <1>1, <3>2, SameFiles DEF fsVars
    <3>3. CASE \E lost \in SUBSET Files : files' = Unpacked(f, lost)
      BY <1>3, <3>3
    <3> QED BY <1>6, <3>1, <3>2, <3>3 DEF ImportFails
  <2>3. RowsStay /\ NoNewDefault /\ RefsExist' /\ (agent' = agent \/ HasRow(f)')
    <3>1. CASE UNCHANGED <<agent, conv>>
      BY <1>1, <3>1, SameRows, RowsStayed
    <3>2. CASE ImportAgentToDb(a, f, cs)
      BY <1>1, <3>2, ImportedRows
    <3> QED BY <1>6, <3>1, <3>2 DEF ImportFails
  <2>4. /\ stray \subseteq stray' /\ dirs' \subseteq dirs \cup {f}
        /\ f \in dirs' => f \in dirs \/ (agent' = agent => f \in stray')
    BY <1>6 DEF ImportFails, RemoveFolder, fsVars
  <2> QED BY <1>1, <2>1, <2>2, <2>3, <2>4, KeptWhen
<1> QED BY <1>4, <1>5, <1>6

(* A failed import may leave some of its own, and takes nothing.               *)
LEMMA FailedImport ==
  ASSUME StoreInv
  PROVE  FailedImportTakesNothing
<1> SUFFICES ASSUME NEW a \in Agents, NEW f \in Folders, NEW cs \in SUBSET Convs,
                    ImportFails(a, f, cs)
             PROVE  /\ \A b \in ListAgents :
                         /\ agent'[b] = agent[b]
                         /\ files'[agent[b].folder] = files[agent[b].folder]
                    /\ \A c \in Convs : conv[c] # Nil => conv'[c] = conv[c]
                    /\ \A n \in Notes : note[n] # Nil => note'[n] = note[n]
  BY DEF FailedImportTakesNothing
<1>1. StoreTypeOK /\ Importing(a, f, cs)
  BY DEF StoreInv, ImportFails
<1>2. ~HasRow(f) /\ agent[a] = Nil
  BY <1>1, ImportIs
<1>3. \A b \in ListAgents : agent[b].folder \in Folders \ {f}
  BY <1>1, <1>2, RowsAre DEF HasRow, ByFolder
<1>4. \A g \in Folders \ {f} : files'[g] = files[g]
  BY <1>1 DEF ImportFails, RemoveFolder, Unpacked, fsVars, StoreTypeOK
<1>5. \A n \in Notes : note[n] # Nil => note'[n] = note[n]
  BY ImportedNotes DEF ImportFails
<1>6. CASE UNCHANGED <<agent, conv>>
  BY <1>3, <1>4, <1>5, <1>6
<1>7. CASE ImportAgentToDb(a, f, cs)
  <2>1. \A b \in ListAgents : agent'[b] = agent[b]
    BY <1>1, <1>2, <1>7 DEF ImportAgentToDb, Put, ListAgents, StoreTypeOK
  <2>2. \A c \in Convs : conv[c] # Nil => conv'[c] = conv[c]
    BY <1>1, <1>7 DEF ImportAgentToDb, Importing, FreeConvs
  <2> QED BY <1>3, <1>4, <1>5, <2>1, <2>2
<1> QED BY <1>6, <1>7 DEF ImportFails

-----------------------------------------------------------------------------
(* The invariant.                                                              *)

LEMMA StoreInitOK == StoreInit => StoreInv
<1> SUFFICES ASSUME StoreInit
             PROVE  StoreInv
  OBVIOUS
<1>1. <<Manager, 0>> \in Folders
  BY AgentStoreAssumption DEF Folders
<1>2. dirs \subseteq Folders /\ schema \subseteq Parts /\ {fresh, version, unread} \subseteq BOOLEAN
  BY <1>1 DEF StoreInit, Parts
<1>3. /\ files \in [Folders -> [Files -> Content]]
      /\ \A f \in Folders \ dirs : files[f] = Empty
  BY DEF StoreInit, Content, Empty
<1>4. \E m \in Agents \cup {Nil} :
        agent = [a \in Agents |-> IF a = m THEN NewRow(<<Manager, 0>>, TRUE) ELSE Nil]
  <2>1. CASE agent = [a \in Agents |-> Nil]
    <3>1. \A a \in Agents : a # Nil
      BY AgentStoreAssumption
    <3>2. agent = [a \in Agents |-> IF a = Nil THEN NewRow(<<Manager, 0>>, TRUE) ELSE Nil]
      BY <2>1, <3>1
    <3> QED BY <3>2
  <2> QED BY <2>1 DEF StoreInit
<1>5. PICK m : agent = [a \in Agents |-> IF a = m THEN NewRow(<<Manager, 0>>, TRUE) ELSE Nil]
  BY <1>4
<1>6. NewRow(<<Manager, 0>>, TRUE) \in AgentRow
  BY <1>1, RowIs
<1>7. agent \in [Agents -> AgentRow \cup {Nil}]
  BY <1>5, <1>6
<1>8. StoreTypeOK
  BY <1>2, <1>3, <1>7, AgentStoreAssumption DEF StoreInit, StoreTypeOK
<1>9. SchemaSoFar
  BY DEF StoreInit, SchemaSoFar, ServesFullSchema, RowsHaveVersion, ListAgents
<1>10. RefsExist /\ FoldersHaveRows
  BY DEF StoreInit, RefsExist, Live, FoldersHaveRows
<1>11. OneDefault
  BY <1>5 DEF OneDefault, Defaults, ListAgents
<1> QED BY <1>8, <1>9, <1>10, <1>11 DEF StoreInv

LEMMA CommandSchema ==
  ASSUME SchemaSoFar, phase = "ready", Stays \/ Dies
  PROVE  SchemaSoFar'
  BY SchemaStays DEF Stays, Dies, sysVars

LEMMA StoreStep ==
  ASSUME StoreInv, StoreNext
  PROVE  StoreTypeOK' /\ SchemaSoFar' /\ Kept
<1>1. StoreTypeOK /\ SchemaSoFar
  BY DEF StoreInv
<1>2. CASE DatabaseNew \/ CreateSchema \/ MigrateConversations \/ MigrateCron \/ SetSchemaVersion
  BY <1>1, <1>2, StartTyped, StartSchema, StartKept
<1>3. ASSUME NEW loc \in Locales, NEW w \in Writes(loc),
             SeedManagerAgent(w) \/ RefreshDefaultManager(w)
      PROVE  StoreTypeOK' /\ SchemaSoFar' /\ Kept
  <2>1. SchemaSoFar'
    BY <1>1, <1>3, SchemaStays DEF SeedManagerAgent, RefreshDefaultManager
  <2> QED BY <1>1, <1>3, <2>1, SeedTyped, SeedKept
<1>4. CASE SyncAgentsFromFs
  <2>1. SchemaSoFar'
    BY <1>1, <1>4, SchemaStays DEF SyncAgentsFromFs
  <2> QED BY <1>1, <1>4, <2>1, SyncTyped, SyncKept
<1>5. CASE Crash
  BY <1>5, CrashKept
<1>6. ASSUME NEW f \in Folders, CreateAgent(f)
      PROVE  StoreTypeOK' /\ SchemaSoFar' /\ Kept
  <2>1. PICK a \in Agents : TRUE
    BY <1>6 DEF CreateAgent, NewAgents
  <2> QED BY <1>1, <1>6, <2>1, AgentTyped, AgentKept, CommandSchema DEF CreateAgent, StoreCommand
<1>7. ASSUME NEW a \in Agents, OpenEditor(a) \/ UpdateAgent(a)
      PROVE  StoreTypeOK' /\ SchemaSoFar' /\ Kept
  <2>1. PICK f \in Folders : TRUE
    BY <1>1, ManagerFolder
  <2>2. Stays /\ phase = "ready"
    BY <1>7 DEF OpenEditor, UpdateAgent, StoreCommand
  <2> QED BY <1>1, <1>7, <2>1, <2>2, AgentTyped, AgentKept, CommandSchema
<1>8. ASSUME NEW a \in Agents, DeleteAgent(a)
      PROVE  StoreTypeOK' /\ SchemaSoFar' /\ Kept
  BY <1>1, <1>8, DeleteTyped, DeleteKept, CommandSchema DEF DeleteAgent, StoreCommand
<1>9. ASSUME NEW x \in Files, WriteAgentFile(x)
      PROVE  StoreTypeOK' /\ SchemaSoFar' /\ Kept
  BY <1>1, <1>9, WriteTyped, WriteKept, CommandSchema DEF WriteAgentFile, StoreCommand
<1>10. ASSUME NEW t \in Teams, NEW a \in Agents,
              \/ \E wanted \in SUBSET Agents : CreateTeam(t, a, wanted)
              \/ UpdateTeam(t, a)
              \/ Live(t) /\ (AddTeamMember(t, a) \/ RemoveTeamMember(t, a))
       PROVE  StoreTypeOK' /\ SchemaSoFar' /\ Kept
  <2>1. Stays /\ phase = "ready"
    BY <1>10 DEF StoreCommand, CreateTeam, UpdateTeam, AddTeamMember, RemoveTeamMember, EditTeam
  <2>2. {} \in SUBSET Agents
    OBVIOUS
  <2> QED BY <1>1, <1>10, <2>1, <2>2, TeamTyped, TeamKept, CommandSchema
<1>11. ASSUME NEW t \in Teams, DeleteTeam(t)
       PROVE  StoreTypeOK' /\ SchemaSoFar' /\ Kept
  <2>1. Stays /\ phase = "ready"
    BY <1>11 DEF DeleteTeam, StoreCommand
  <2>2. CASE Agents # {}
    <3>1. PICK a \in Agents : TRUE
      BY <2>2
    <3>2. {} \in SUBSET Agents
      OBVIOUS
    <3> QED BY <1>1, <1>11, <2>1, <3>1, <3>2, TeamTyped, TeamKept, CommandSchema
  <2>3. CASE Agents = {}
    BY <1>1, <1>11, <2>3, RowsAre DEF DeleteTeam, TeamRow
  <2> QED BY <2>2, <2>3
<1>12. ASSUME NEW c \in Convs, NEW a \in Agents, NEW t \in Teams \cup {Nil},
              CreateConversation(c, a, t)
       PROVE  StoreTypeOK' /\ SchemaSoFar' /\ Kept
  BY <1>1, <1>12, ConversationTyped, ConversationKept, CommandSchema DEF CreateConversation, StoreCommand
<1>13. ASSUME NEW n \in Notes, NEW owner \in Agents \cup {"shared"}, CreateNote(n, owner)
       PROVE  StoreTypeOK' /\ SchemaSoFar' /\ Kept
  BY <1>1, <1>13, NoteTyped, NoteKept, CommandSchema DEF CreateNote, StoreCommand
<1>14. ASSUME NEW n \in Notes, DeleteNote(n)
       PROVE  StoreTypeOK' /\ SchemaSoFar' /\ Kept
  BY <1>1, <1>14, NoteTyped, NoteKept, CommandSchema DEF DeleteNote, StoreCommand
<1>15. ASSUME NEW a \in Agents, NEW withConvs \in BOOLEAN, ExportAgent(a, withConvs)
       PROVE  StoreTypeOK' /\ SchemaSoFar' /\ Kept
  BY <1>1, <1>15, ExportTyped, ExportKept, CommandSchema DEF ExportAgent, StoreCommand
<1>16. ASSUME NEW a \in Agents, NEW f \in Folders, NEW cs \in SUBSET Convs,
              ImportAgent(a, f, cs) \/ ImportCut(a, f, cs) \/ ImportFails(a, f, cs)
       PROVE  StoreTypeOK' /\ SchemaSoFar' /\ Kept
  <2>1. (Stays \/ Dies) /\ phase = "ready"
    BY <1>16 DEF ImportAgent, ImportCut, ImportFails, Importing, StoreCommand
  <2> QED BY <1>1, <1>16, <2>1, ImportTyped, ImportKept, CommandSchema
<1> QED BY <1>2, <1>3, <1>4, <1>5, <1>6, <1>7, <1>8, <1>9, <1>10, <1>11, <1>12, <1>13, <1>14,
           <1>15, <1>16 DEF StoreNext

LEMMA StoreStutter ==
  ASSUME StoreInv, UNCHANGED storeVars
  PROVE  StoreInv'
<1>1. StoreTypeOK'
  BY DEF StoreInv, StoreTypeOK, storeVars, sysVars, dbVars, fsVars, bound
<1>2. SchemaSoFar' /\ RefsExist' /\ OneDefault' /\ FoldersHaveRows'
  BY DEF StoreInv, SchemaSoFar, ServesFullSchema, RefsExist, Live, OneDefault, Defaults,
         ListAgents, FoldersHaveRows, Orphans, HasRow, ByFolder, RowsHaveVersion, storeVars,
         sysVars, dbVars, fsVars, bound
<1> QED BY <1>1, <1>2 DEF StoreInv

LEMMA StoreInductive == StoreSpec => []StoreInv
<1>1. StoreInv /\ [StoreNext]_storeVars => StoreInv'
  BY StoreStep, StoreStutter DEF StoreInv, Kept
<1> QED BY <1>1, StoreInitOK, PTL DEF StoreSpec

LEMMA StoreIsSound == StoreInv => StoreSound
<1> SUFFICES ASSUME StoreInv
             PROVE  StoreSound
  OBVIOUS
<1>1. Cardinality(Defaults) <= 1
  <2>1. CASE Defaults = {}
    BY <2>1, FS_EmptySet
  <2>2. CASE Defaults # {}
    <3>1. PICK a \in Defaults : TRUE
      BY <2>2
    <3>2. Defaults = {a}
      BY <3>1 DEF StoreInv, OneDefault
    <3>3. Cardinality({a}) = 1
      BY FS_Singleton
    <3> QED BY <3>2, <3>3
  <2> QED BY <2>1, <2>2
<1> QED BY <1>1 DEF StoreInv, StoreSound, SchemaSoFar, OneManager

(* What commands find is whole, after any starts, failures and crashes: the    *)
(* complete schema, rows that refer to rows, one manager at most, and no folder *)
(* without a row but one that a sync could not adopt, that was written after   *)
(* its agent was deleted, or that a failed import could not remove.            *)
THEOREM StoreStaysWhole == StoreSpec => []StoreSound
  BY StoreInductive, StoreIsSound, PTL

(* Starts, syncs and imports take neither texts nor agents nor notes from the  *)
(* user, whatever fails or is cut off.  A database is deleted only when its    *)
(* version cannot be read or, at the first start, is another one; and a folder *)
(* without a row is written over by what seeds or imports into it.             *)
THEOREM UserKeepsWhatIsTheirs == StoreSpec => NothingTaken
<1>1. StoreInv /\ [StoreNext]_storeVars =>
        [/\ UserEditsKept /\ OnlyDeletionRemovesRows
         /\ NotesKeepOwner /\ FailedImportTakesNothing]_storeVars
  BY StoreStep, FailedImport DEF Kept
<1> QED BY <1>1, StoreInductive, PTL DEF StoreSpec, NothingTaken


-----------------------------------------------------------------------------
(* Completion: the inductive invariant, one request at a time.                 *)

(* What has not begun has left no trace; only a stream whose command has       *)
(* returned is registered or aborted.                                          *)
Flow(r) ==
  /\ cmd[r] = "idle" =>
       task[r] = "none" /\ acc[r] = Blank /\ shown[r] = <<>> /\ dones[r] = <<>>
  /\ kind[r] = "stream" /\ cmd[r] = "begun" => task[r] = "none"
  /\ r \in registry \/ abort[r] # "none" => cmd[r] = "returned"
  /\ r \in registry => abort[r] = "none"
  /\ kind[r] = "stream" /\ cmd[r] = "returned" /\ task[r] \in {"connect", "body"} =>
       r \in registry \/ abort[r] # "none"

(* Of two outcomes one is the abort's; before the exchange is over there is no *)
(* other, and before the abort is reported there is none of it.                *)
Ends(r) ==
  /\ \A i, j \in DOMAIN dones[r] : i # j =>
       ~(dones[r][i].error = "aborted" <=> dones[r][j].error = "aborted")
  /\ abort[r] # "reported" => \A i \in DOMAIN dones[r] : dones[r][i].error # "aborted"
  /\ task[r] \in {"none", "connect", "body"} =>
       \A i \in DOMAIN dones[r] : dones[r][i].error = "aborted"

(* What is accumulated is what was sent, and an answer is what was accumulated. *)
Says(r) ==
  /\ SaysAll(acc[r], sent[r])
  /\ \A i \in DOMAIN dones[r] : dones[r][i].error = None => SaysAll(dones[r][i], sent[r])

(* While the window listens it has been shown what is accumulated.             *)
Shows(r) ==
  /\ kind[r] = "stream" /\ Open(r) => shown[r] = acc[r].text
  /\ kind[r] = "stream" /\ ~Open(r) /\ dones[r][1].error = None => dones[r][1].text = shown[r]

RequestOK(r) == Flow(r) /\ Ends(r) /\ Says(r) /\ Shows(r)

IInv == TypeOK /\ \A r \in Requests : RequestOK(r)

-----------------------------------------------------------------------------
(* Sequences that grow, and lists of values in order.                          *)

LEMMA AppendIs ==
  ASSUME NEW S, NEW s \in Seq(S), NEW x \in S
  PROVE  /\ Append(s, x) \in Seq(S)
         /\ Len(Append(s, x)) = Len(s) + 1
         /\ DOMAIN s = 1..Len(s) /\ Len(s) \in Nat
         /\ DOMAIN Append(s, x) = DOMAIN s \union {Len(s) + 1}
         /\ Append(s, x)[Len(s) + 1] = x
         /\ \A n \in DOMAIN s : n \in Nat /\ n < Len(s) + 1 /\ Append(s, x)[n] = s[n]
  OBVIOUS

LEMMA NothingInOrder ==
  ASSUME NEW v, DOMAIN v = {}
  PROVE  InOrder(<<>>, v)
<1> DEFINE at == [i \in {} |-> i]
<1>1. at \in [DOMAIN <<>> -> DOMAIN v]
  OBVIOUS
<1> QED
  BY <1>1 DEF InOrder

LEMMA SameOrder ==
  ASSUME NEW q, NEW v, NEW w, InOrder(q, v), DOMAIN w = DOMAIN v,
         \A n \in DOMAIN v : w[n] = v[n]
  PROVE  InOrder(q, w)
  BY DEF InOrder

LEMMA OrderGrows ==
  ASSUME NEW S, NEW q \in Seq(S), NEW x \in S, NEW v, NEW w, NEW n \in Nat,
         InOrder(q, v), DOMAIN w = DOMAIN v \union {n}, w[n] = x,
         \A m \in DOMAIN v : m \in Nat /\ m < n /\ w[m] = v[m]
  PROVE  InOrder(Append(q, x), w)
<1> DEFINE t == Append(q, x)
<1>1. PICK at \in [DOMAIN q -> DOMAIN v] :
        /\ \A i, j \in DOMAIN q : i < j => at[i] < at[j]
        /\ \A m \in DOMAIN v : \E i \in DOMAIN q : at[i] = m
        /\ \A i \in DOMAIN q : q[i] = v[at[i]]
  BY DEF InOrder
<1>2. /\ DOMAIN t = DOMAIN q \union {Len(q) + 1} /\ t[Len(q) + 1] = x /\ Len(q) \in Nat
      /\ \A i \in DOMAIN q : i \in Nat /\ i < Len(q) + 1 /\ t[i] = q[i]
  BY AppendIs
<1> HIDE DEF t
<1> DEFINE to == [i \in DOMAIN t |-> IF i = Len(q) + 1 THEN n ELSE at[i]]
<1>3. to \in [DOMAIN t -> DOMAIN w]
  BY <1>1, <1>2
<1>4. to[Len(q) + 1] = n /\ \A i \in DOMAIN q : to[i] = at[i] /\ at[i] \in DOMAIN v
  BY <1>1, <1>2
<1> HIDE DEF to
<1>5. ASSUME NEW i \in DOMAIN t, NEW j \in DOMAIN t, i < j PROVE to[i] < to[j]
  <2>1. i \in DOMAIN q
    BY <1>2, <1>5
  <2>2. CASE j = Len(q) + 1
    BY <2>1, <2>2, <1>4
  <2>3. CASE j \in DOMAIN q
    BY <2>1, <2>3, <1>4, <1>1, <1>5
  <2> QED
    BY <2>2, <2>3, <1>2
<1>6. \A m \in DOMAIN w : \E i \in DOMAIN t : to[i] = m
  BY <1>1, <1>2, <1>4
<1>7. \A i \in DOMAIN t : t[i] = w[to[i]]
  BY <1>1, <1>2, <1>4
<1>8. InOrder(t, w)
  BY <1>3, <1>5, <1>6, <1>7 DEF InOrder
<1> QED
  BY <1>8 DEF t

-----------------------------------------------------------------------------
(* A line more, on both sides.                                                 *)

Answers == [text : Seq(TextPieces), tools : Seq(ToolCalls)]

LEMMA PiecesAre ==
  ASSUME NEW p \in Pieces
  PROVE  /\ p.kind = "text" => p.text \in TextPieces
         /\ p.kind # "text" =>
              /\ p.kind = "tool" /\ p.index \in Nat
              /\ p.id \in {d.id : d \in Deltas} /\ p.args \in {d.args : d \in Deltas}
  BY CompletionAssumption DEF TextPieces, Deltas

LEMMA NoCallIs == NoCall \in ToolCalls /\ NoCall.id = None /\ NoCall.args = <<>>
  BY EmptySeq DEF NoCall, ToolCalls

LEMMA BlankSays == Blank \in Answers /\ SaysAll(Blank, <<>>)
<1>1. Blank \in Answers /\ Blank.text = <<>> /\ Blank.tools = <<>>
  BY EmptySeq DEF Blank, Answers
<1>2. InOrder(<<>>, TextIn(<<>>))
  BY NothingInOrder DEF TextIn
<1> QED
  BY <1>1, <1>2 DEF SaysAll

LEMMA TakesText ==
  ASSUME NEW s \in Seq(Pieces), NEW p \in Pieces, p.kind = "text",
         NEW a \in Answers, SaysAll(a, s)
  PROVE  Accumulate(a, p) \in Answers /\ SaysAll(Accumulate(a, p), Append(s, p))
<1> DEFINE t == Append(s, p)
           n == Len(s) + 1
           b == Accumulate(a, p)
<1>1. /\ DOMAIN t = DOMAIN s \union {n} /\ t[n] = p /\ n \in Nat
      /\ \A m \in DOMAIN s : m \in Nat /\ m < n /\ t[m] = s[m]
  BY AppendIs
<1>2. b \in Answers /\ b.text = Append(a.text, p.text) /\ b.tools = a.tools
  <2>1. a.text \in Seq(TextPieces) /\ p.text \in TextPieces
    BY PiecesAre DEF Answers
  <2>2. Append(a.text, p.text) \in Seq(TextPieces)
    BY <2>1
  <2> QED
    BY <2>2 DEF Accumulate, Answers
<1>3. /\ DOMAIN TextIn(t) = DOMAIN TextIn(s) \union {n} /\ TextIn(t)[n] = p.text
      /\ \A m \in DOMAIN TextIn(s) : m \in Nat /\ m < n /\ TextIn(t)[m] = TextIn(s)[m]
  <2> HIDE DEF t
  <2> QED
    BY <1>1 DEF TextIn
<1>4. ASSUME NEW i
      PROVE  /\ DeltasAt(t, i) = DeltasAt(s, i)
             /\ DOMAIN IdsIn(t, i) = DOMAIN IdsIn(s, i)
             /\ \A m \in DOMAIN IdsIn(s, i) : IdsIn(t, i)[m] = IdsIn(s, i)[m]
             /\ DOMAIN ArgsIn(t, i) = DOMAIN ArgsIn(s, i)
             /\ \A m \in DOMAIN ArgsIn(s, i) : ArgsIn(t, i)[m] = ArgsIn(s, i)[m]
  <2> HIDE DEF t
  <2>1. DeltasAt(t, i) = DeltasAt(s, i)
    BY <1>1 DEF DeltasAt
  <2>2. \A m \in DeltasAt(s, i) : t[m] = s[m]
    BY <1>1 DEF DeltasAt
  <2> QED
    BY <2>1, <2>2 DEF IdsIn, ArgsIn
<1>5. InOrder(b.text, TextIn(t))
  <2>1. a.text \in Seq(TextPieces) /\ p.text \in TextPieces
    BY PiecesAre DEF Answers
  <2>2. InOrder(a.text, TextIn(s))
    BY DEF SaysAll
  <2>3. n \in Nat
    BY <1>1
  <2> HIDE DEF t, n, b
  <2>4. InOrder(Append(a.text, p.text), TextIn(t))
    BY <1>3, <2>1, <2>2, <2>3, OrderGrows
  <2> QED
    BY <1>2, <2>4
<1>6. \A j \in DOMAIN b.tools :
        IsLast(b.tools[j].id, IdsIn(t, j - 1)) /\ InOrder(b.tools[j].args, ArgsIn(t, j - 1))
  <2> SUFFICES ASSUME NEW j \in DOMAIN a.tools
               PROVE  IsLast(a.tools[j].id, IdsIn(t, j - 1))
                      /\ InOrder(a.tools[j].args, ArgsIn(t, j - 1))
    BY <1>2
  <2> HIDE DEF t
  <2>1. IsLast(a.tools[j].id, IdsIn(s, j - 1)) /\ InOrder(a.tools[j].args, ArgsIn(s, j - 1))
    BY DEF SaysAll
  <2>2. IsLast(a.tools[j].id, IdsIn(t, j - 1))
    BY <2>1, <1>4 DEF IsLast
  <2> QED
    BY <2>1, <2>2, <1>4, SameOrder
<1>7. /\ \A j \in DOMAIN b.tools : \E m \in DOMAIN t : t[m].kind = "tool" /\ j <= t[m].index + 1
      /\ \A m \in DOMAIN t : t[m].kind = "tool" => t[m].index + 1 \in DOMAIN b.tools
  BY <1>1, <1>2 DEF SaysAll
<1> QED
  BY <1>2, <1>5, <1>6, <1>7 DEF SaysAll

(* The calls after a delta: those before and empty ones up to its index, and   *)
(* at its index what it adds.                                                  *)
LEMMA GrownIs ==
  ASSUME NEW calls \in Seq(ToolCalls), NEW i \in Nat
  PROVE  /\ Grown(calls, i) \in Seq(ToolCalls)
         /\ DOMAIN Grown(calls, i) = DOMAIN calls \union 1..(i + 1)
         /\ \A j \in DOMAIN calls : Grown(calls, i)[j] = calls[j]
         /\ \A j \in DOMAIN Grown(calls, i) \ DOMAIN calls : Grown(calls, i)[j] = NoCall
<1> DEFINE k == IF i < Len(calls) THEN 0 ELSE i + 1 - Len(calls)
           e == [j \in 1..k |-> NoCall]
<1>1. k \in Nat /\ Len(calls) \in Nat /\ DOMAIN calls = 1..Len(calls)
  OBVIOUS
<1>2. e \in Seq(ToolCalls) /\ Len(e) = k
  BY <1>1, NoCallIs
<1>3. \A j \in 1..k : e[j] = NoCall
  OBVIOUS
<1> HIDE DEF e
<1>4. /\ calls \o e \in Seq(ToolCalls) /\ Len(calls \o e) = Len(calls) + k
      /\ \A j \in 1..(Len(calls) + k) :
           (calls \o e)[j] = IF j <= Len(calls) THEN calls[j] ELSE e[j - Len(calls)]
  BY <1>2, ConcatProperties
<1>5. Grown(calls, i) = calls \o e
  BY DEF Grown, e
<1>6. DOMAIN Grown(calls, i) = 1..(Len(calls) + k)
  BY <1>4, <1>5
<1>7. 1..(Len(calls) + k) = DOMAIN calls \union 1..(i + 1)
  BY <1>1
<1>8. \A j \in DOMAIN calls : Grown(calls, i)[j] = calls[j]
  BY <1>4, <1>5, <1>1
<1>9. \A j \in DOMAIN Grown(calls, i) \ DOMAIN calls : Grown(calls, i)[j] = NoCall
  BY <1>4, <1>5, <1>1, <1>3, <1>6
<1> QED
  BY <1>4, <1>5, <1>6, <1>7, <1>8, <1>9

LEMMA WithDeltaIs ==
  ASSUME NEW calls \in Seq(ToolCalls), NEW p \in Pieces, p.kind = "tool"
  PROVE  LET g == Grown(calls, p.index)
             c == WithDelta(calls, p)
             k == p.index + 1
         IN /\ c \in Seq(ToolCalls)
            /\ DOMAIN c = DOMAIN g /\ k \in DOMAIN g
            /\ c[k].id = IF p.id = None THEN g[k].id ELSE p.id
            /\ c[k].args = IF p.args = None THEN g[k].args ELSE Append(g[k].args, p.args)
            /\ \A j \in DOMAIN g : j # k => c[j] = g[j]
<1> DEFINE g == Grown(calls, p.index)
           k == p.index + 1
           x == [id |-> IF p.id = None THEN g[k].id ELSE p.id,
                 args |-> IF p.args = None THEN g[k].args ELSE Append(g[k].args, p.args)]
<1>1. p.index \in Nat /\ k \in Nat /\ k \in 1..k
  BY PiecesAre
<1>2. g \in Seq(ToolCalls) /\ k \in DOMAIN g
  BY <1>1, GrownIs
<1>3. g[k] \in ToolCalls
  BY <1>2
<1>4. x \in ToolCalls
  BY <1>3, PiecesAre DEF ToolCalls
<1>5. WithDelta(calls, p) = [g EXCEPT ![k] = x]
  BY DEF WithDelta
<1> HIDE DEF x, g
<1>6. [g EXCEPT ![k] = x] \in Seq(ToolCalls)
  BY <1>2, <1>4, ExceptSeq
<1> QED
  BY <1>2, <1>5, <1>6 DEF x, g

(* The call at position j says what the deltas of its index say.               *)
Matches(call, s, j) == IsLast(call.id, IdsIn(s, j - 1)) /\ InOrder(call.args, ArgsIn(s, j - 1))

LEMMA GrownMatches ==
  ASSUME NEW s \in Seq(Pieces), NEW calls \in Seq(ToolCalls), NEW i \in Nat,
         \A n \in DOMAIN s : s[n].kind = "tool" => s[n].index + 1 \in DOMAIN calls,
         \A j \in DOMAIN calls : Matches(calls[j], s, j)
  PROVE  \A j \in DOMAIN Grown(calls, i) : Matches(Grown(calls, i)[j], s, j)
<1> SUFFICES ASSUME NEW j \in DOMAIN Grown(calls, i)
             PROVE  Matches(Grown(calls, i)[j], s, j)
  OBVIOUS
<1>1. CASE j \in DOMAIN calls
  BY <1>1, GrownIs
<1>2. CASE j \notin DOMAIN calls
  <2>1. Grown(calls, i)[j] = NoCall /\ j \in Nat
    <3>1. Grown(calls, i) \in Seq(ToolCalls) /\ Grown(calls, i)[j] = NoCall
      BY <1>2, GrownIs
    <3> QED
      BY <3>1
  <2>2. DeltasAt(s, j - 1) = {}
    <3> SUFFICES ASSUME NEW n \in DeltasAt(s, j - 1)
                 PROVE  FALSE
      OBVIOUS
    <3>1. n \in DOMAIN s /\ s[n].kind = "tool" /\ s[n].index = j - 1
      BY DEF DeltasAt
    <3> QED
      BY <3>1, <2>1, <1>2
  <2>3. DOMAIN IdsIn(s, j - 1) = {} /\ DOMAIN ArgsIn(s, j - 1) = {}
    BY <2>2 DEF IdsIn, ArgsIn
  <2>4. IsLast(None, IdsIn(s, j - 1)) /\ InOrder(<<>>, ArgsIn(s, j - 1))
    BY <2>3, NothingInOrder DEF IsLast
  <2> QED
    BY <2>1, <2>4, NoCallIs DEF Matches
<1> QED
  BY <1>1, <1>2

LEMMA TakesTool ==
  ASSUME NEW s \in Seq(Pieces), NEW p \in Pieces, p.kind # "text",
         NEW a \in Answers, SaysAll(a, s)
  PROVE  Accumulate(a, p) \in Answers /\ SaysAll(Accumulate(a, p), Append(s, p))
<1> DEFINE t == Append(s, p)
           n == Len(s) + 1
           k == p.index + 1
           g == Grown(a.tools, p.index)
           c == WithDelta(a.tools, p)
           b == Accumulate(a, p)
<1>1. /\ DOMAIN t = DOMAIN s \union {n} /\ t[n] = p /\ n \in Nat
      /\ \A m \in DOMAIN s : m \in Nat /\ m < n /\ t[m] = s[m]
  BY AppendIs
<1>2. p.kind = "tool" /\ p.index \in Nat /\ k \in Nat /\ k - 1 = p.index
  BY PiecesAre
<1>3. a.tools \in Seq(ToolCalls) /\ a.text \in Seq(TextPieces)
  BY DEF Answers
<1>4. /\ g \in Seq(ToolCalls) /\ DOMAIN g = DOMAIN a.tools \union 1..k
      /\ c \in Seq(ToolCalls) /\ DOMAIN c = DOMAIN g /\ k \in DOMAIN g
      /\ c[k].id = IF p.id = None THEN g[k].id ELSE p.id
      /\ c[k].args = IF p.args = None THEN g[k].args ELSE Append(g[k].args, p.args)
      /\ \A j \in DOMAIN g : j # k => c[j] = g[j]
  BY <1>2, <1>3, GrownIs, WithDeltaIs
<1>5. b \in Answers /\ b.text = a.text /\ b.tools = c
  BY <1>4 DEF Accumulate, Answers
<1>6. \A j \in DOMAIN g : Matches(g[j], s, j)
  <2>1. \A m \in DOMAIN s : s[m].kind = "tool" => s[m].index + 1 \in DOMAIN a.tools
    BY DEF SaysAll
  <2>2. \A j \in DOMAIN a.tools : Matches(a.tools[j], s, j)
    BY DEF SaysAll, Matches
  <2> QED
    BY <2>1, <2>2, <1>2, <1>3, GrownMatches
<1> HIDE DEF t, n, g, c, b
<1>7. InOrder(b.text, TextIn(t))
  <2>1. DOMAIN TextIn(t) = DOMAIN TextIn(s) /\ \A m \in DOMAIN TextIn(s) : TextIn(t)[m] = TextIn(s)[m]
    BY <1>1 DEF TextIn
  <2> QED
    BY <2>1, <1>5, SameOrder DEF SaysAll
<1>8. \A j \in DOMAIN c : \E m \in DOMAIN t : t[m].kind = "tool" /\ j <= t[m].index + 1
  <2> SUFFICES ASSUME NEW j \in DOMAIN c
               PROVE  \E m \in DOMAIN t : t[m].kind = "tool" /\ j <= t[m].index + 1
    OBVIOUS
  <2>1. CASE j \in DOMAIN a.tools
    BY <2>1, <1>1 DEF SaysAll
  <2>2. CASE j \in 1..k
    BY <2>2, <1>1, <1>2
  <2> QED
    BY <2>1, <2>2, <1>4
<1>9. \A m \in DOMAIN t : t[m].kind = "tool" => t[m].index + 1 \in DOMAIN c
  BY <1>1, <1>2, <1>4 DEF SaysAll
<1>10. ASSUME NEW j \in DOMAIN c, j # k PROVE Matches(c[j], t, j)
  <2>1. j \in Nat /\ j - 1 # p.index
    BY <1>2, <1>3, <1>4, <1>10, IsASeq
  <2>2. DeltasAt(t, j - 1) = DeltasAt(s, j - 1) /\ \A m \in DeltasAt(s, j - 1) : t[m] = s[m]
    BY <2>1, <1>1 DEF DeltasAt
  <2>3. /\ DOMAIN IdsIn(t, j - 1) = DOMAIN IdsIn(s, j - 1)
        /\ \A m \in DOMAIN IdsIn(s, j - 1) : IdsIn(t, j - 1)[m] = IdsIn(s, j - 1)[m]
        /\ DOMAIN ArgsIn(t, j - 1) = DOMAIN ArgsIn(s, j - 1)
        /\ \A m \in DOMAIN ArgsIn(s, j - 1) : ArgsIn(t, j - 1)[m] = ArgsIn(s, j - 1)[m]
    BY <2>2 DEF IdsIn, ArgsIn
  <2>4. c[j] = g[j] /\ Matches(g[j], s, j)
    BY <1>4, <1>6, <1>10
  <2>5. IsLast(c[j].id, IdsIn(t, j - 1))
    BY <2>3, <2>4 DEF Matches, IsLast
  <2>6. InOrder(c[j].args, ArgsIn(t, j - 1))
    BY <2>3, <2>4, SameOrder DEF Matches
  <2> QED
    BY <2>5, <2>6 DEF Matches
<1>11. Matches(c[k], t, k)
  <2>1. Matches(g[k], s, k)
    BY <1>4, <1>6
  <2>2. /\ DeltasAt(t, k - 1) = DeltasAt(s, k - 1) \union {n} /\ n \notin DeltasAt(s, k - 1)
        /\ \A m \in DeltasAt(s, k - 1) : m \in Nat /\ m < n /\ t[m] = s[m]
    BY <1>1, <1>2 DEF DeltasAt
  <2>3. IsLast(c[k].id, IdsIn(t, k - 1))
    <3>1. CASE p.id = None
      <4>1. /\ DOMAIN IdsIn(t, k - 1) = DOMAIN IdsIn(s, k - 1)
            /\ \A m \in DOMAIN IdsIn(s, k - 1) : IdsIn(t, k - 1)[m] = IdsIn(s, k - 1)[m]
        BY <3>1, <2>2, <1>1 DEF IdsIn
      <4> QED
        BY <4>1, <3>1, <2>1, <1>4 DEF Matches, IsLast
    <3>2. CASE p.id # None
      <4>1. /\ n \in DOMAIN IdsIn(t, k - 1) /\ IdsIn(t, k - 1)[n] = p.id
            /\ \A m \in DOMAIN IdsIn(t, k - 1) : m <= n
        BY <3>2, <2>2, <1>1 DEF IdsIn
      <4> QED
        BY <4>1, <3>2, <1>4 DEF IsLast
    <3> QED
      BY <3>1, <3>2
  <2>4. InOrder(c[k].args, ArgsIn(t, k - 1))
    <3>1. CASE p.args = None
      <4>1. /\ DOMAIN ArgsIn(t, k - 1) = DOMAIN ArgsIn(s, k - 1)
            /\ \A m \in DOMAIN ArgsIn(s, k - 1) : ArgsIn(t, k - 1)[m] = ArgsIn(s, k - 1)[m]
        BY <3>1, <2>2, <1>1 DEF ArgsIn
      <4> QED
        BY <4>1, <3>1, <2>1, <1>4, SameOrder DEF Matches
    <3>2. CASE p.args # None
      <4> DEFINE A == {d.args : d \in Deltas}
      <4>1. /\ DOMAIN ArgsIn(t, k - 1) = DOMAIN ArgsIn(s, k - 1) \union {n}
            /\ ArgsIn(t, k - 1)[n] = p.args
            /\ \A m \in DOMAIN ArgsIn(s, k - 1) :
                 m \in Nat /\ m < n /\ ArgsIn(t, k - 1)[m] = ArgsIn(s, k - 1)[m]
        BY <3>2, <2>2, <1>1 DEF ArgsIn
      <4>2. g[k] \in ToolCalls
        <5>1. g \in Seq(ToolCalls) /\ k \in DOMAIN g
          BY <1>4
        <5> HIDE DEF k
        <5> QED
          BY <5>1
      <4>3. g[k].args \in Seq(A) /\ p.args \in A /\ n \in Nat
        BY <4>2, <1>1, <1>2, PiecesAre DEF ToolCalls
      <4>4. InOrder(g[k].args, ArgsIn(s, k - 1))
        BY <2>1 DEF Matches
      <4> HIDE DEF A, k
      <4>5. InOrder(Append(g[k].args, p.args), ArgsIn(t, k - 1))
        BY <4>1, <4>3, <4>4, OrderGrows
      <4> QED
        BY <4>5, <3>2, <1>4
    <3> QED
      BY <3>1, <3>2
  <2> QED
    BY <2>3, <2>4 DEF Matches
<1>12. \A j \in DOMAIN c : Matches(c[j], t, j)
  BY <1>10, <1>11
<1>13. SaysAll(b, t)
  BY <1>5, <1>7, <1>8, <1>9, <1>12 DEF SaysAll, Matches
<1> QED
  BY <1>5, <1>13 DEF b, t

LEMMA TakesLine ==
  ASSUME NEW s \in Seq(Pieces), NEW p \in Pieces, NEW a \in Answers, SaysAll(a, s)
  PROVE  Accumulate(a, p) \in Answers /\ SaysAll(Accumulate(a, p), Append(s, p))
  BY TakesText, TakesTool

-----------------------------------------------------------------------------
(* What the steps share.                                                       *)

requestVars == <<kind, cmd, taskVars, registry, abort, shown, dones>>

USE DEF cfgVars, taskVars

Untouched(r) ==
  /\ kind'[r] = kind[r] /\ cmd'[r] = cmd[r] /\ task'[r] = task[r]
  /\ sent'[r] = sent[r] /\ acc'[r] = acc[r]
  /\ r \in registry' <=> r \in registry
  /\ abort'[r] = abort[r] /\ shown'[r] = shown[r] /\ dones'[r] = dones[r]

LEMMA UntouchedIsOK ==
  ASSUME NEW r \in Requests, RequestOK(r), Untouched(r)
  PROVE  RequestOK(r)'
<1>1. Flow(r)'
  BY DEF RequestOK, Untouched, Flow
<1>2. Ends(r)'
  BY DEF RequestOK, Untouched, Ends
<1>3. Says(r)'
  BY DEF RequestOK, Untouched, Says
<1>4. Shows(r)'
  BY DEF RequestOK, Untouched, Shows, Open
<1> QED
  BY <1>1, <1>2, <1>3, <1>4 DEF RequestOK

LEMMA OneTouched ==
  ASSUME IInv, TypeOK', NEW r \in Requests, RequestOK(r)',
         \A q \in Requests \ {r} : Untouched(q)
  PROVE  IInv'
<1>1. ASSUME NEW q \in Requests PROVE RequestOK(q)'
  <2>1. CASE q = r
    BY <2>1
  <2>2. CASE q # r
    <3>1. RequestOK(q) /\ Untouched(q)
      BY <2>2 DEF IInv
    <3> QED
      BY <3>1, UntouchedIsOK
  <2> QED
    BY <2>1, <2>2
<1> QED
  BY <1>1 DEF IInv

LEMMA NoneTouched ==
  ASSUME IInv, TypeOK', UNCHANGED requestVars
  PROVE  IInv'
<1>1. ASSUME NEW q \in Requests PROVE RequestOK(q)'
  <2>1. RequestOK(q) /\ Untouched(q)
    BY DEF IInv, requestVars, Untouched
  <2> QED
    BY <2>1, UntouchedIsOK
<1> QED
  BY <1>1 DEF IInv

LEMMA OutcomesAre ==
  /\ \A e \in {"no key", "empty", "failed", "aborted"} :
       Failure(e) \in Outcomes /\ Failure(e).error = e /\ e # None
  /\ \A a \in Answers :
       /\ Answer(a) \in Outcomes /\ Answer(a).error = None
       /\ Answer(a).text = a.text /\ Answer(a).tools = a.tools
  /\ None # "aborted"
<1>1. ASSUME NEW e \in {"no key", "empty", "failed", "aborted"}
      PROVE  Failure(e) \in Outcomes /\ Failure(e).error = e /\ e # None
  <2>1. <<>> \in Seq(TextPieces) /\ <<>> \in Seq(ToolCalls)
    BY EmptySeq
  <2> QED
    BY <2>1, NoneAssumption DEF Failure, Outcomes
<1>2. ASSUME NEW a \in Answers
      PROVE  /\ Answer(a) \in Outcomes /\ Answer(a).error = None
             /\ Answer(a).text = a.text /\ Answer(a).tools = a.tools
  BY DEF Answer, Outcomes, Answers
<1> QED
  BY <1>1, <1>2, NoneAssumption

LEMMA DoneIs ==
  ASSUME dones \in [Requests -> Seq(Outcomes)], NEW r \in Requests, NEW d \in Outcomes,
         Done(r, d)
  PROVE  /\ dones' \in [Requests -> Seq(Outcomes)]
         /\ \A q \in Requests \ {r} : dones'[q] = dones[q]
         /\ dones'[r] = Append(dones[r], d) /\ dones'[r] # <<>>
         /\ DOMAIN dones'[r] = DOMAIN dones[r] \union {Len(dones[r]) + 1}
         /\ dones'[r][Len(dones[r]) + 1] = d
         /\ \A i \in DOMAIN dones[r] : i \in 1..Len(dones[r]) /\ dones'[r][i] = dones[r][i]
         /\ dones[r] = <<>> => dones'[r][1] = d
         /\ dones[r] # <<>> => dones'[r][1] = dones[r][1]
<1>1. dones[r] \in Seq(Outcomes)
  OBVIOUS
<1>2. dones' = [dones EXCEPT ![r] = Append(dones[r], d)]
  BY DEF Done
<1>3. Append(dones[r], d) \in Seq(Outcomes)
  BY <1>1
<1>4. dones' \in [Requests -> Seq(Outcomes)] /\ dones'[r] = Append(dones[r], d)
  BY <1>2, <1>3
<1>5. \A q \in Requests \ {r} : dones'[q] = dones[q]
  BY <1>2
<1>6. /\ DOMAIN dones'[r] = DOMAIN dones[r] \union {Len(dones[r]) + 1}
      /\ dones'[r][Len(dones[r]) + 1] = d
      /\ \A i \in DOMAIN dones[r] : i \in 1..Len(dones[r]) /\ dones'[r][i] = dones[r][i]
  BY <1>1, <1>4
<1>7. /\ dones'[r] # <<>>
      /\ dones[r] = <<>> => dones'[r][1] = d
      /\ dones[r] # <<>> => dones'[r][1] = dones[r][1]
  BY <1>1, <1>4
<1> QED
  BY <1>4, <1>5, <1>6, <1>7

(* An outcome more, of the exchange or of the abort.                           *)
LEMMA OutcomeEnds ==
  ASSUME TypeOK, NEW r \in Requests, Ends(r), NEW d \in Outcomes, Done(r, d),
         abort' = abort, task'[r] \notin {"none", "connect", "body"}, d.error # "aborted",
         task[r] \in {"none", "connect", "body"}
  PROVE  Ends(r)'
<1>1. dones \in [Requests -> Seq(Outcomes)]
  BY DEF TypeOK
<1>2. /\ DOMAIN dones'[r] = DOMAIN dones[r] \union {Len(dones[r]) + 1}
      /\ dones'[r][Len(dones[r]) + 1] = d
      /\ \A i \in DOMAIN dones[r] : dones'[r][i] = dones[r][i]
  BY <1>1, DoneIs
<1> QED
  BY <1>2 DEF Ends

LEMMA AbortEnds ==
  ASSUME TypeOK, NEW r \in Requests, Ends(r), NEW d \in Outcomes, Done(r, d),
         abort[r] = "marked", abort'[r] = "reported", d.error = "aborted", task' = task
  PROVE  Ends(r)'
<1>1. dones \in [Requests -> Seq(Outcomes)]
  BY DEF TypeOK
<1>2. /\ DOMAIN dones'[r] = DOMAIN dones[r] \union {Len(dones[r]) + 1}
      /\ dones'[r][Len(dones[r]) + 1] = d
      /\ \A i \in DOMAIN dones[r] : dones'[r][i] = dones[r][i]
  BY <1>1, DoneIs
<1>3. \A i \in DOMAIN dones[r] : dones[r][i].error # "aborted"
  BY DEF Ends
<1> QED
  BY <1>2, <1>3 DEF Ends

LEMMA OutcomeSays ==
  ASSUME TypeOK, NEW r \in Requests, RequestOK(r), NEW d \in Outcomes, Done(r, d),
         UNCHANGED <<kind, sent, acc, shown>>,
         d.error = None => SaysAll(d, sent[r]) /\ d.text = acc[r].text
  PROVE  Says(r)' /\ Shows(r)'
<1>1. dones \in [Requests -> Seq(Outcomes)]
  BY DEF TypeOK
<1>2. /\ DOMAIN dones'[r] = DOMAIN dones[r] \union {Len(dones[r]) + 1}
      /\ dones'[r][Len(dones[r]) + 1] = d /\ dones'[r] # <<>>
      /\ \A i \in DOMAIN dones[r] : dones'[r][i] = dones[r][i]
      /\ dones[r] = <<>> => dones'[r][1] = d
      /\ dones[r] # <<>> => dones'[r][1] = dones[r][1]
  BY <1>1, DoneIs
<1>3. Says(r)'
  BY <1>2 DEF Says, RequestOK
<1>4. Shows(r)'
  BY <1>2 DEF Shows, Open, RequestOK
<1> QED
  BY <1>3, <1>4

-----------------------------------------------------------------------------
(* The configuration, and the start of the program.                            *)

LEMMA ConfigsAre ==
  ASSUME NEW c \in Config, NEW k \in Keys \union {NoKey, None}, NEW u \in Urls \union {NoUrl, None}
  PROVE  /\ (IF k = None THEN c.key ELSE k) \in Keys \union {NoKey}
         /\ (IF u = None THEN c.url ELSE Given(u)) \in Urls
         /\ c.noProxy \in BOOLEAN
  BY CompletionAssumption DEF Config, Given

LEMMA NewIs ==
  ASSUME cfg \in Config, NEW k \in Keys \union {NoKey, None}, NEW u \in Urls \union {NoUrl, None}
  PROVE  New(k, u) \in Config /\ New(k, u).noProxy = cfg.noProxy
  BY ConfigsAre DEF New, Config

LEMMA LoadedIs ==
  ASSUME NEW c \in Config, NEW e \in Envs
  PROVE  /\ Loaded(c, e) \in Config
         /\ Loaded(c, e).noProxy = c.noProxy
         /\ Loaded(c, e).key = c.key \/ (e.key # None /\ Loaded(c, e).key = e.key)
         /\ Loaded(c, e).url = c.url \/ (e.url # None /\ Loaded(c, e).url = e.url)
  BY NoneAssumption DEF Loaded, Config

LEMMA FreshIs ==
  ASSUME NEW r \in Requests
  PROVE  /\ Fresh => RequestOK(r)
         /\ Restart => RequestOK(r)'
<1>1. SaysAll(Blank, <<>>)
  BY BlankSays
<1>2. ASSUME Fresh PROVE RequestOK(r)
  <2>1. /\ kind[r] = None /\ cmd[r] = "idle" /\ task[r] = "none" /\ sent[r] = <<>>
        /\ acc[r] = Blank /\ r \notin registry /\ abort[r] = "none"
        /\ shown[r] = <<>> /\ dones[r] = <<>>
    BY <1>2 DEF Fresh
  <2>2. Flow(r) /\ Ends(r)
    BY <2>1 DEF Flow, Ends
  <2>3. Says(r)
    BY <2>1, <1>1 DEF Says
  <2>4. Shows(r)
    BY <2>1, NoneAssumption DEF Shows
  <2> QED
    BY <2>2, <2>3, <2>4 DEF RequestOK
<1>3. ASSUME Restart PROVE RequestOK(r)'
  <2>1. /\ kind'[r] = None /\ cmd'[r] = "idle" /\ task'[r] = "none" /\ sent'[r] = <<>>
        /\ acc'[r] = Blank /\ r \notin registry' /\ abort'[r] = "none"
        /\ shown'[r] = <<>> /\ dones'[r] = <<>>
    BY <1>3 DEF Restart
  <2>2. Flow(r)' /\ Ends(r)'
    BY <2>1 DEF Flow, Ends
  <2>3. Says(r)'
    BY <2>1, <1>1 DEF Says
  <2>4. Shows(r)'
    BY <2>1, NoneAssumption DEF Shows
  <2> QED
    BY <2>2, <2>3, <2>4 DEF RequestOK
<1> QED
  BY <1>2, <1>3

LEMMA InitOK == Init => IInv
<1> SUFFICES ASSUME Init PROVE IInv
  OBVIOUS
<1>0. disk \in Config /\ env \in Envs
  BY CompletionAssumption DEF Init, Config
<1>1. /\ store = disk /\ cfg \in Config /\ client \in BOOLEAN /\ configs \in 0..MaxConfigs
      /\ unsaved = {}
  <2>1. cfg \in Config /\ store = disk /\ unsaved = {} /\ configs = 0 /\ client = disk.noProxy
    BY <1>0, LoadedIs DEF Init, Fresh
  <2> QED
    BY <1>0, <2>1, CompletionAssumption DEF Config
<1>2. /\ <<>> \in Seq(Pieces) /\ <<>> \in Seq(TextPieces) /\ <<>> \in Seq(Outcomes)
      /\ Blank \in [text : Seq(TextPieces), tools : Seq(ToolCalls)]
  BY EmptySeq, BlankSays DEF Answers
<1>3. TypeOK
  BY <1>0, <1>1, <1>2 DEF TypeOK, Init, Fresh
<1>4. \A r \in Requests : RequestOK(r)
  BY FreshIs DEF Init
<1> QED
  BY <1>3, <1>4 DEF IInv

LEMMA RestartOK ==
  ASSUME IInv, Restart
  PROVE  IInv'
<1>1. /\ <<>> \in Seq(Pieces) /\ <<>> \in Seq(TextPieces) /\ <<>> \in Seq(Outcomes)
      /\ Blank \in [text : Seq(TextPieces), tools : Seq(ToolCalls)]
  BY EmptySeq, BlankSays DEF Answers
<1>2. disk \in Config /\ disk.noProxy \in BOOLEAN /\ configs' \in 0..MaxConfigs
  BY CompletionAssumption DEF IInv, TypeOK, Config, Restart
<1>5. cfg' \in Config /\ env' \in Envs
  BY <1>2, LoadedIs DEF Restart
<1>3. TypeOK'
  BY <1>1, <1>2, <1>5 DEF TypeOK, Restart
<1>4. \A r \in Requests : RequestOK(r)'
  BY FreshIs
<1> QED
  BY <1>3, <1>4 DEF IInv

LEMMA SetConfigOK ==
  ASSUME IInv, NEW ok \in BOOLEAN, NEW k \in Keys \union {NoKey, None},
         NEW u \in Urls \union {NoUrl, None}, SetConfig(k, u, ok)
  PROVE  IInv'
<1>1. cfg \in Config /\ store \in Config /\ disk \in Config
  BY DEF IInv, TypeOK
<1>2. PICK n : n = New(k, u)
  OBVIOUS
<1>3. /\ Saved([store EXCEPT !.key = n.key, !.url = n.url], {"key", "url"}, ok)
      /\ cfg' = IF ok THEN n ELSE cfg
      /\ UNCHANGED <<client, env, requestVars>>
  BY <1>2 DEF SetConfig, requestVars
<1>6. n \in Config /\ [store EXCEPT !.key = n.key, !.url = n.url] \in Config
  BY <1>1, <1>2, NewIs DEF Config
<1>4. /\ cfg' \in Config /\ store' \in Config /\ disk' \in Config /\ configs' \in 0..MaxConfigs
      /\ env' \in Envs /\ unsaved' \subseteq {"key", "url", "noProxy"}
  BY <1>1, <1>6, <1>3, CompletionAssumption DEF Saved, IInv, TypeOK
<1>5. TypeOK'
  BY <1>3, <1>4 DEF IInv, TypeOK, requestVars
<1> QED
  BY <1>3, <1>5, NoneTouched

LEMMA SetNoProxyOK ==
  ASSUME IInv, NEW ok \in BOOLEAN, SetNoProxy(ok)
  PROVE  IInv'
<1>1. cfg \in Config /\ store \in Config /\ disk \in Config /\ cfg.noProxy \in BOOLEAN
  BY DEF IInv, TypeOK, Config
<1>2. /\ [cfg EXCEPT !.noProxy = ~@] \in Config /\ [store EXCEPT !.noProxy = ~cfg.noProxy] \in Config
      /\ (~cfg.noProxy) \in BOOLEAN
  BY <1>1 DEF Config
<1>3. /\ cfg' \in Config /\ store' \in Config /\ disk' \in Config /\ configs' \in 0..MaxConfigs
  BY <1>1, <1>2, CompletionAssumption DEF SetNoProxy, Saved, IInv, TypeOK
<1>6. client' \in BOOLEAN /\ env' \in Envs /\ unsaved' \subseteq {"key", "url", "noProxy"}
  BY <1>2 DEF SetNoProxy, Saved, IInv, TypeOK
<1>4. UNCHANGED requestVars
  BY DEF SetNoProxy, requestVars
<1>5. TypeOK'
  BY <1>3, <1>4, <1>6 DEF IInv, TypeOK, requestVars
<1> QED
  BY <1>4, <1>5, NoneTouched

-----------------------------------------------------------------------------
(* The steps of a request.                                                     *)

LEMMA SpawnOK ==
  ASSUME IInv, NEW r \in Requests, Spawn(r)
  PROVE  IInv'
<1>1. TypeOK'
  BY DEF Spawn, IInv, TypeOK
<1>2. \A q \in Requests \ {r} : Untouched(q)
  BY DEF Spawn, IInv, TypeOK, Untouched
<1>3. RequestOK(r)'
  <2>1. /\ kind[r] = "stream" /\ cmd[r] = "begun" /\ cmd'[r] = "spawned" /\ task'[r] = "connect"
        /\ UNCHANGED <<kind, sent, acc, registry, abort, shown, dones>>
    BY DEF Spawn, IInv, TypeOK
  <2>2. RequestOK(r) /\ task[r] = "none"
    BY <2>1 DEF IInv, RequestOK, Flow
  <2>3. Flow(r)' /\ Ends(r)'
    BY <2>1, <2>2 DEF RequestOK, Flow, Ends
  <2>4. Says(r)' /\ Shows(r)'
    BY <2>1, <2>2 DEF RequestOK, Says, Shows, Open
  <2> QED
    BY <2>3, <2>4 DEF RequestOK
<1> QED
  BY <1>1, <1>2, <1>3, OneTouched

LEMMA RegisterOK ==
  ASSUME IInv, NEW r \in Requests, Register(r)
  PROVE  IInv'
<1>1. TypeOK'
  BY DEF Register, IInv, TypeOK
<1>2. \A q \in Requests \ {r} : Untouched(q)
  BY DEF Register, IInv, TypeOK, Untouched
<1>3. RequestOK(r)'
  <2>1. /\ cmd[r] = "spawned" /\ cmd'[r] = "returned" /\ r \in registry'
        /\ UNCHANGED <<kind, task, sent, acc, abort, shown, dones>>
    BY DEF Register, IInv, TypeOK
  <2>2. RequestOK(r) /\ abort[r] = "none"
    BY <2>1 DEF IInv, RequestOK, Flow
  <2>3. Flow(r)' /\ Ends(r)'
    BY <2>1, <2>2 DEF RequestOK, Flow, Ends
  <2>4. Says(r)' /\ Shows(r)'
    BY <2>1, <2>2 DEF RequestOK, Says, Shows, Open
  <2> QED
    BY <2>3, <2>4 DEF RequestOK
<1> QED
  BY <1>1, <1>2, <1>3, OneTouched

LEMMA RefusedOK ==
  ASSUME IInv, NEW r \in Requests, Refused(r)
  PROVE  IInv'
<1>1. TypeOK'
  BY DEF Refused, IInv, TypeOK
<1>2. UNCHANGED <<kind, cmd, task, sent, acc, registry, abort, shown, dones>>
  BY DEF Refused
<1>3. \A q \in Requests : Untouched(q)
  BY <1>2 DEF Untouched
<1>4. \A q \in Requests : RequestOK(q)'
  BY <1>3, UntouchedIsOK DEF IInv
<1> QED
  BY <1>1, <1>4 DEF IInv

LEMMA ConnectedOK ==
  ASSUME IInv, NEW r \in Requests, Connected(r)
  PROVE  IInv'
<1>1. TypeOK'
  BY DEF Connected, IInv, TypeOK
<1>2. \A q \in Requests \ {r} : Untouched(q)
  BY DEF Connected, IInv, TypeOK, Untouched
<1>3. RequestOK(r)'
  <2>1. /\ task[r] = "connect" /\ task'[r] = "body"
        /\ UNCHANGED <<kind, cmd, sent, acc, registry, abort, shown, dones>>
    BY DEF Connected, IInv, TypeOK
  <2>2. RequestOK(r)
    BY DEF IInv
  <2>3. Flow(r)' /\ Ends(r)'
    BY <2>1, <2>2 DEF RequestOK, Flow, Ends
  <2>4. Says(r)' /\ Shows(r)'
    BY <2>1, <2>2 DEF RequestOK, Says, Shows, Open
  <2> QED
    BY <2>3, <2>4 DEF RequestOK
<1> QED
  BY <1>1, <1>2, <1>3, OneTouched

LEMMA BeginOK ==
  ASSUME IInv, NEW r \in Requests, NEW k \in Kinds, NEW think \in BOOLEAN, Begin(r, k, think)
  PROVE  IInv'
<1> DEFINE d == Failure("no key")
<1>1. d \in Outcomes /\ d.error # None /\ d.error # "aborted"
  BY OutcomesAre
<1>2. /\ cmd[r] = "idle" /\ kind'[r] = k
      /\ kind' = [kind EXCEPT ![r] = k] /\ thinking' = [thinking EXCEPT ![r] = think]
      /\ UNCHANGED <<cfgVars, sent, acc, registry, abort, shown, configs>>
  BY DEF Begin, IInv, TypeOK
<1>3. /\ RequestOK(r) /\ task[r] = "none" /\ acc[r] = Blank /\ shown[r] = <<>> /\ dones[r] = <<>>
      /\ r \notin registry /\ abort[r] = "none"
  BY <1>2 DEF IInv, RequestOK, Flow, TypeOK
<1>4. CASE RequiresKey(cfg)
  <2>1. /\ cmd' = [cmd EXCEPT ![r] = "returned"] /\ task' = [task EXCEPT ![r] = "gone"]
        /\ Done(r, d)
    BY <1>4 DEF Begin
  <2>2. /\ dones' \in [Requests -> Seq(Outcomes)] /\ DOMAIN dones'[r] = {1} /\ dones'[r][1] = d
        /\ dones'[r] # <<>> /\ \A q \in Requests \ {r} : dones'[q] = dones[q]
    <3>1. dones \in [Requests -> Seq(Outcomes)]
      BY DEF IInv, TypeOK
    <3> HIDE DEF d
    <3>2. /\ dones' \in [Requests -> Seq(Outcomes)] /\ dones'[r] # <<>>
          /\ DOMAIN dones'[r] = DOMAIN dones[r] \union {Len(dones[r]) + 1}
          /\ dones'[r][1] = d /\ \A q \in Requests \ {r} : dones'[q] = dones[q]
      BY <2>1, <1>1, <1>3, <3>1, DoneIs
    <3> QED
      BY <3>2, <1>3
  <2> HIDE DEF d
  <2>3. TypeOK'
    BY <1>2, <2>1, <2>2 DEF IInv, TypeOK
  <2>4. \A q \in Requests \ {r} : Untouched(q)
    BY <1>2, <2>1, <2>2 DEF IInv, TypeOK, Untouched
  <2>5. cmd'[r] = "returned" /\ task'[r] = "gone"
    BY <2>1 DEF IInv, TypeOK
  <2>6. Flow(r)' /\ Ends(r)'
    BY <1>1, <1>2, <1>3, <2>2, <2>5 DEF Flow, Ends
  <2>7. Says(r)' /\ Shows(r)'
    BY <1>1, <1>2, <1>3, <2>2 DEF RequestOK, Says, Shows, Open
  <2> QED
    BY <2>3, <2>4, <2>6, <2>7, OneTouched DEF RequestOK
<1>5. CASE ~RequiresKey(cfg)
  <2>1. /\ cmd' = [cmd EXCEPT ![r] = "begun"] /\ dones' = dones
        /\ task' = IF k = "stream" THEN task ELSE [task EXCEPT ![r] = "connect"]
    BY <1>5 DEF Begin
  <2>2. cmd'[r] = "begun" /\ task'[r] = IF k = "stream" THEN "none" ELSE "connect"
    BY <1>3, <2>1 DEF IInv, TypeOK
  <2>3. TypeOK'
    BY <1>2, <2>1 DEF IInv, TypeOK
  <2>4. \A q \in Requests \ {r} : Untouched(q)
    BY <1>2, <2>1 DEF IInv, TypeOK, Untouched
  <2>5. Flow(r)' /\ Ends(r)'
    BY <1>2, <1>3, <2>1, <2>2 DEF RequestOK, Flow, Ends
  <2>6. acc[r].text = <<>>
    BY <1>3 DEF Blank
  <2>7. Says(r)' /\ Shows(r)'
    BY <1>2, <1>3, <2>1, <2>6 DEF RequestOK, Says, Shows, Open
  <2> QED
    BY <2>3, <2>4, <2>5, <2>7, OneTouched DEF RequestOK
<1> QED
  BY <1>4, <1>5

LEMMA ReceiveOK ==
  ASSUME IInv, NEW r \in Requests, NEW p \in Pieces, Receive(r, p)
  PROVE  IInv'
<1>1. /\ task[r] = "body" /\ sent[r] \in Seq(Pieces) /\ acc[r] \in Answers /\ RequestOK(r)
      /\ shown[r] \in Seq(TextPieces)
  BY DEF Receive, IInv, TypeOK, Answers
<1> DEFINE s == Append(sent[r], p)
           b == Accumulate(acc[r], p)
           w == IF kind[r] = "stream" /\ Open(r) /\ p.kind = "text"
                THEN Append(shown[r], p.text) ELSE shown[r]
<1>2. b \in Answers /\ SaysAll(b, s) /\ s \in Seq(Pieces)
  BY <1>1, TakesLine DEF RequestOK, Says
<1>3. w \in Seq(TextPieces)
  BY <1>1, PiecesAre
<1>4. /\ sent' = [sent EXCEPT ![r] = s] /\ acc' = [acc EXCEPT ![r] = b]
      /\ UNCHANGED <<cfgVars, kind, cmd, task, thinking, registry, abort, dones, configs>>
  BY DEF Receive
<1>5. shown' \in [Requests -> Seq(TextPieces)] /\ shown'[r] = w
      /\ \A q \in Requests \ {r} : shown'[q] = shown[q]
  BY <1>1, <1>3 DEF Receive, IInv, TypeOK
<1>6. kind[r] = "stream" /\ Open(r) => w = b.text
  <2>1. kind[r] = "stream" /\ Open(r) => shown[r] = acc[r].text
    BY <1>1 DEF RequestOK, Shows
  <2> QED
    BY <2>1, <1>1 DEF Accumulate, Answers
<1> HIDE DEF s, b, w
<1>7. sent'[r] = s /\ acc'[r] = b
  BY <1>4 DEF IInv, TypeOK
<1>8. TypeOK'
  <2>1. acc' \in [Requests -> [text : Seq(TextPieces), tools : Seq(ToolCalls)]]
    BY <1>2, <1>4 DEF IInv, TypeOK, Answers
  <2> QED
    BY <2>1, <1>2, <1>4, <1>5 DEF IInv, TypeOK
<1>9. \A q \in Requests \ {r} : Untouched(q)
  BY <1>4, <1>5 DEF IInv, TypeOK, Untouched
<1>10. \A i \in DOMAIN dones[r] : dones[r][i].error = "aborted"
  BY <1>1 DEF RequestOK, Ends
<1>11. Flow(r)' /\ Ends(r)'
  <2>1. cmd[r] # "idle"
    BY <1>1 DEF RequestOK, Flow
  <2> QED
    BY <2>1, <1>1, <1>4 DEF RequestOK, Flow, Ends
<1>12. Says(r)'
  BY <1>2, <1>4, <1>7, <1>10, OutcomesAre DEF Says
<1>13. Shows(r)'
  <2>1. Open(r) \/ dones[r][1].error # None
    <3>1. dones[r] \in Seq(Outcomes)
      BY DEF IInv, TypeOK
    <3>2. dones[r] # <<>> => 1 \in DOMAIN dones[r]
      BY <3>1, EmptySeq, LenProperties
    <3> QED
      BY <3>2, <1>10, OutcomesAre DEF Open
  <2> QED
    BY <2>1, <1>4, <1>5, <1>6, <1>7 DEF Shows, Open
<1> QED
  BY <1>8, <1>9, <1>11, <1>12, <1>13, OneTouched DEF RequestOK

(* The exchange is over: with an answer, or without.                           *)
LEMMA OverOK ==
  ASSUME IInv, NEW r \in Requests, NEW d \in Outcomes, task[r] \in {"connect", "body"},
         Over(r), Returned(r), Done(r, d), d.error # "aborted",
         d.error = None => d.text = acc[r].text /\ d.tools = acc[r].tools,
         UNCHANGED <<cfgVars, kind, thinking, sent, acc, registry, abort, shown, configs>>
  PROVE  IInv'
<1>1. /\ RequestOK(r) /\ dones \in [Requests -> Seq(Outcomes)] /\ TypeOK
  BY DEF IInv, TypeOK
<1>2. /\ dones' \in [Requests -> Seq(Outcomes)] /\ dones'[r] # <<>>
      /\ \A q \in Requests \ {r} : dones'[q] = dones[q]
  BY <1>1, DoneIs
<1>3. /\ task' = [task EXCEPT ![r] = IF kind[r] = "stream" THEN "answered" ELSE "gone"]
      /\ cmd' = IF kind[r] = "stream" THEN cmd ELSE [cmd EXCEPT ![r] = "returned"]
  BY DEF Over, Returned
<1>4. TypeOK'
  BY <1>1, <1>2, <1>3 DEF TypeOK
<1>5. \A q \in Requests \ {r} : Untouched(q)
  BY <1>1, <1>2, <1>3 DEF TypeOK, Untouched
<1>6. /\ task'[r] \in {"answered", "gone"} /\ cmd[r] # "idle"
      /\ cmd'[r] = IF kind[r] = "stream" THEN cmd[r] ELSE "returned"
  BY <1>1, <1>3 DEF TypeOK, RequestOK, Flow
<1>7. Flow(r)'
  BY <1>1, <1>6 DEF RequestOK, Flow
<1>8. Ends(r)'
  BY <1>1, <1>6, OutcomeEnds DEF RequestOK
<1>9. SaysAll(acc[r], sent[r])
  BY <1>1 DEF RequestOK, Says
<1>10. d.error = None => SaysAll(d, sent[r]) /\ d.text = acc[r].text
  BY <1>9 DEF SaysAll
<1>11. Says(r)' /\ Shows(r)'
  BY <1>1, <1>10, OutcomeSays
<1> QED
  BY <1>4, <1>5, <1>7, <1>8, <1>11, OneTouched DEF IInv, RequestOK

LEMMA FinishOK ==
  ASSUME IInv, NEW r \in Requests, Finish(r)
  PROVE  IInv'
<1>1. acc[r] \in Answers /\ Returned(r)
  BY DEF Finish, Returned, IInv, TypeOK, Answers
<1> QED
  BY <1>1, OutcomesAre, OverOK DEF Finish

LEMMA ReturnOK ==
  ASSUME IInv, NEW r \in Requests, Return(r)
  PROVE  IInv'
<1> DEFINE d == IF kind[r] = "plain" THEN PlainOutcome(acc[r]) ELSE BootstrapOutcome(acc[r])
<1>1. acc[r] \in Answers
  BY DEF IInv, TypeOK, Answers
<1>2. /\ d \in Outcomes /\ d.error # "aborted"
      /\ d.error = None => d.text = acc[r].text /\ d.tools = acc[r].tools
  <2>1. d = Answer(acc[r]) \/ d = Failure("empty")
    BY DEF PlainOutcome, BootstrapOutcome
  <2>2. /\ Failure("empty") \in Outcomes /\ Failure("empty").error = "empty"
        /\ Answer(acc[r]) \in Outcomes /\ Answer(acc[r]).error = None
        /\ Answer(acc[r]).text = acc[r].text /\ Answer(acc[r]).tools = acc[r].tools
        /\ None # "aborted" /\ "empty" # None
    BY <1>1, OutcomesAre
  <2> HIDE DEF d
  <2> QED
    BY <2>1, <2>2
<1>3. /\ task[r] = "body" /\ Over(r) /\ Returned(r) /\ Done(r, d)
      /\ UNCHANGED <<cfgVars, kind, thinking, sent, acc, registry, abort, shown, configs>>
  BY DEF Return
<1> HIDE DEF d
<1> QED
  BY <1>2, <1>3, OverOK

LEMMA FailOK ==
  ASSUME IInv, NEW r \in Requests, Fail(r)
  PROVE  IInv'
<1> DEFINE d == Failure("failed")
<1>1. d \in Outcomes /\ d.error # "aborted" /\ d.error # None
  BY OutcomesAre
<1>2. /\ task[r] \in {"connect", "body"} /\ Over(r) /\ Returned(r) /\ Done(r, d)
      /\ UNCHANGED <<cfgVars, kind, thinking, sent, acc, registry, abort, shown, configs>>
  BY DEF Fail
<1> HIDE DEF d
<1> QED
  BY <1>1, <1>2, OverOK

(* The task is gone.                                                           *)
LEMMA GoneOK ==
  ASSUME IInv, NEW r \in Requests, task[r] # "none", task' = [task EXCEPT ![r] = "gone"],
         registry' \subseteq registry, registry \ {r} \subseteq registry',
         UNCHANGED <<cfgVars, kind, cmd, thinking, sent, acc, abort, shown, dones, configs>>
  PROVE  IInv'
<1>1. TypeOK'
  BY DEF IInv, TypeOK
<1>2. \A q \in Requests \ {r} : Untouched(q)
  BY DEF IInv, TypeOK, Untouched
<1>3. task'[r] = "gone" /\ RequestOK(r) /\ cmd[r] # "idle"
  BY DEF IInv, TypeOK, RequestOK, Flow
<1>4. Flow(r)' /\ Ends(r)'
  BY <1>3 DEF RequestOK, Flow, Ends
<1>5. Says(r)' /\ Shows(r)'
  BY <1>3 DEF RequestOK, Says, Shows, Open
<1> QED
  BY <1>1, <1>2, <1>4, <1>5, OneTouched DEF RequestOK

LEMMA DeregisterOK ==
  ASSUME IInv, NEW r \in Requests, Deregister(r)
  PROVE  IInv'
  BY GoneOK DEF Deregister

LEMMA CancelledOK ==
  ASSUME IInv, NEW r \in Requests, Cancelled(r)
  PROVE  IInv'
  BY GoneOK DEF Cancelled

LEMMA AbortOK ==
  ASSUME IInv, NEW r \in Requests, Abort(r)
  PROVE  IInv'
<1>1. TypeOK'
  BY DEF Abort, IInv, TypeOK
<1>2. \A q \in Requests \ {r} : Untouched(q)
  BY DEF Abort, IInv, TypeOK, Untouched
<1>3. /\ r \in registry /\ abort'[r] = "marked" /\ registry' = registry \ {r} /\ RequestOK(r)
      /\ UNCHANGED <<kind, cmd, task, sent, acc, shown, dones>>
  BY DEF Abort, IInv, TypeOK
<1>4. cmd[r] = "returned" /\ abort[r] = "none"
  BY <1>3 DEF RequestOK, Flow
<1>5. Flow(r)' /\ Ends(r)'
  BY <1>3, <1>4 DEF RequestOK, Flow, Ends
<1>6. Says(r)' /\ Shows(r)'
  BY <1>3 DEF RequestOK, Says, Shows, Open
<1> QED
  BY <1>1, <1>2, <1>5, <1>6, OneTouched DEF RequestOK

LEMMA ReportAbortOK ==
  ASSUME IInv, NEW r \in Requests, ReportAbort(r)
  PROVE  IInv'
<1> DEFINE d == Failure("aborted")
<1>1. d \in Outcomes /\ d.error = "aborted" /\ d.error # None
  BY OutcomesAre
<1>2. /\ abort[r] = "marked" /\ abort' = [abort EXCEPT ![r] = "reported"] /\ Done(r, d)
      /\ UNCHANGED <<cfgVars, kind, cmd, taskVars, registry, shown, configs>>
  BY DEF ReportAbort
<1> HIDE DEF d
<1>3. TypeOK /\ RequestOK(r) /\ dones \in [Requests -> Seq(Outcomes)]
  BY DEF IInv, TypeOK
<1>4. /\ dones' \in [Requests -> Seq(Outcomes)] /\ dones'[r] # <<>>
      /\ \A q \in Requests \ {r} : dones'[q] = dones[q]
  BY <1>1, <1>2, <1>3, DoneIs
<1>5. TypeOK'
  BY <1>2, <1>3, <1>4 DEF TypeOK
<1>6. \A q \in Requests \ {r} : Untouched(q)
  BY <1>2, <1>3, <1>4 DEF TypeOK, Untouched
<1>7. abort'[r] = "reported" /\ cmd[r] = "returned"
  BY <1>2, <1>3 DEF TypeOK, RequestOK, Flow
<1>8. Flow(r)'
  BY <1>2, <1>3, <1>7 DEF RequestOK, Flow
<1>9. Ends(r)'
  BY <1>1, <1>2, <1>3, <1>7, AbortEnds DEF RequestOK
<1>10. Says(r)' /\ Shows(r)'
  BY <1>1, <1>2, <1>3, OutcomeSays
<1> QED
  BY <1>5, <1>6, <1>8, <1>9, <1>10, OneTouched DEF RequestOK

-----------------------------------------------------------------------------
(* The theorems.                                                               *)

LEMMA NextOK ==
  ASSUME IInv, [Next]_vars
  PROVE  IInv'
<1>1. CASE UNCHANGED vars
  <2>1. UNCHANGED requestVars /\ TypeOK'
    BY <1>1 DEF vars, requestVars, IInv, TypeOK
  <2> QED
    BY <2>1, NoneTouched
<1>2. ASSUME NEW ok \in BOOLEAN, SetNoProxy(ok) PROVE IInv'
  BY <1>2, SetNoProxyOK
<1>3. ASSUME NEW ok \in BOOLEAN, NEW k \in Keys \union {NoKey, None},
             NEW u \in Urls \union {NoUrl, None}, SetConfig(k, u, ok)
      PROVE  IInv'
  BY <1>3, SetConfigOK
<1>4. CASE Restart
  BY <1>4, RestartOK
<1>5. ASSUME NEW r \in Requests, NEW k \in Kinds, NEW think \in BOOLEAN, Begin(r, k, think)
      PROVE  IInv'
  BY <1>5, BeginOK
<1>6. ASSUME NEW r \in Requests, Command(r) \/ Exchange(r) PROVE IInv'
  BY <1>6, SpawnOK, RegisterOK, ReportAbortOK, RefusedOK, ConnectedOK, FinishOK, ReturnOK,
     FailOK, DeregisterOK DEF Command, Exchange
<1>7. ASSUME NEW r \in Requests, NEW p \in Pieces, Receive(r, p) PROVE IInv'
  BY <1>7, ReceiveOK
<1>8. ASSUME NEW r \in Requests, Abort(r) \/ Cancelled(r) PROVE IInv'
  BY <1>8, AbortOK, CancelledOK
<1> QED
  BY <1>1, <1>2, <1>3, <1>4, <1>5, <1>6, <1>7, <1>8 DEF Next

(* IInv holds in every reachable state (api_commands.rs:407-540).              *)
THEOREM Inductive == Spec => []IInv
<1>1. Init => IInv
  BY InitOK
<1>2. IInv /\ [Next]_vars => IInv'
  BY NextOK
<1> QED
  BY <1>1, <1>2, PTL DEF Spec

(* Every answer the window gets to a request has all the text that was sent, in *)
(* its order, every tool call with the last id and all the arguments sent for   *)
(* it, says what was shown before it, and is the only one, whatever the lines   *)
(* are and however attempts, aborts and failures fall (api_service.rs:294-446). *)
THEOREM AnswersAreExact == Spec => []AnswerIsExact
<1>1. IInv => AnswerIsExact
  <2> SUFFICES ASSUME IInv PROVE AnswerIsExact
    OBVIOUS
  <2>1. TypeOK /\ \A r \in Requests : RequestOK(r) /\ dones[r] \in Seq(Outcomes)
    BY DEF IInv, TypeOK
  <2>2. Assembled
    BY <2>1 DEF Assembled, RequestOK, Says
  <2>3. AnswerIsWhatWasShown
    <3>1. \A r \in Requests : dones[r] # <<>> => Head(dones[r]) = dones[r][1]
      BY <2>1, HeadTailProperties
    <3> QED
      BY <2>1, <3>1 DEF AnswerIsWhatWasShown, RequestOK, Shows, Open
  <2>4. OneOutcome
    <3> SUFFICES ASSUME NEW r \in Requests
                 PROVE  /\ Len(dones[r]) <= 2
                        /\ Len(dones[r]) = 2 =>
                             \E i \in 1..2 : /\ dones[r][i].error = "aborted"
                                             /\ dones[r][3 - i].error # "aborted"
      BY DEF OneOutcome
    <3>1. DOMAIN dones[r] = 1..Len(dones[r]) /\ Len(dones[r]) \in Nat
      BY <2>1
    <3>2. \A i, j \in DOMAIN dones[r] : i # j =>
            ~(dones[r][i].error = "aborted" <=> dones[r][j].error = "aborted")
      BY <2>1 DEF RequestOK, Ends
    <3>3. Len(dones[r]) <= 2
      <4>1. SUFFICES ASSUME Len(dones[r]) > 2 PROVE FALSE
        BY <3>1
      <4>2. 1 \in DOMAIN dones[r] /\ 2 \in DOMAIN dones[r] /\ 3 \in DOMAIN dones[r]
        BY <3>1, <4>1
      <4> QED
        BY <3>2, <4>2
    <3>4. ASSUME Len(dones[r]) = 2
          PROVE  \E i \in 1..2 : /\ dones[r][i].error = "aborted"
                                 /\ dones[r][3 - i].error # "aborted"
      <4>1. 1 \in DOMAIN dones[r] /\ 2 \in DOMAIN dones[r] /\ 3 - 1 = 2 /\ 3 - 2 = 1
        BY <3>1, <3>4
      <4>2. ~(dones[r][1].error = "aborted" <=> dones[r][2].error = "aborted")
        BY <3>2, <4>1
      <4> QED
        BY <4>1, <4>2
    <3> QED
      BY <3>3, <3>4
  <2> QED
    BY <2>1, <2>2, <2>3, <2>4 DEF AnswerIsExact
<1> QED
  BY Inductive, <1>1, PTL

(* No stream that still exchanges data after its command has returned is out of *)
(* the reach of an abort (api_commands.rs:427-512, api.rs:180-216).             *)
THEOREM StreamsStayAbortable == Spec => []RunningIsAbortable
<1>1. IInv => RunningIsAbortable
  BY DEF IInv, RequestOK, Flow, RunningIsAbortable
<1> QED
  BY Inductive, <1>1, PTL

(* The cache of the store is the file, but for settings whose last save failed. *)
CacheIsDisk == \A f \in {"key", "url", "noProxy"} : store[f] = disk[f] \/ f \in unsaved

SettingsInv == TypeOK /\ CacheIsDisk /\ InForceIsKept

EachKept ==
  /\ disk.key = cfg.key \/ (env.key # None /\ cfg.key = env.key) \/ "key" \in unsaved
  /\ disk.url = cfg.url \/ (env.url # None /\ cfg.url = env.url) \/ "url" \in unsaved
  /\ disk.noProxy = cfg.noProxy \/ "noProxy" \in unsaved

LEMMA SettingsAre ==
  /\ TypeOK => DOMAIN cfg = {"key", "url", "noProxy"} /\ (InForceIsKept <=> EachKept)
  /\ TypeOK' => (InForceIsKept' <=> EachKept')
<1>1. ASSUME TypeOK PROVE DOMAIN cfg = {"key", "url", "noProxy"}
  BY <1>1 DEF TypeOK, Config
<1>2. ASSUME TypeOK PROVE InForceIsKept <=> EachKept
  BY <1>1, <1>2 DEF InForceIsKept, EachKept, FromEnv
<1>3. ASSUME TypeOK' PROVE DOMAIN cfg' = {"key", "url", "noProxy"}
  BY <1>3 DEF TypeOK, Config
<1>4. ASSUME TypeOK' PROVE InForceIsKept' <=> EachKept'
  BY <1>3, <1>4 DEF InForceIsKept, EachKept, FromEnv
<1> QED
  BY <1>1, <1>2, <1>4

LEMMA SetConfigKeeps ==
  ASSUME SettingsInv, TypeOK', NEW ok \in BOOLEAN, NEW k \in Keys \union {NoKey, None},
         NEW u \in Urls \union {NoUrl, None}, SetConfig(k, u, ok)
  PROVE  InForceIsSaved /\ SettingsInv'
<1>1. cfg \in Config /\ disk \in Config /\ store \in Config
  BY DEF SettingsInv, TypeOK
<1>2. PICK n : n = New(k, u)
  OBVIOUS
<1>3. n \in Config /\ n.noProxy = cfg.noProxy
  BY <1>1, <1>2, NewIs
<1>4. PICK c : c = [store EXCEPT !.key = n.key, !.url = n.url]
  OBVIOUS
<1>5. /\ c.key = n.key /\ c.url = n.url /\ c.noProxy = store.noProxy
      /\ c["key"] = n.key /\ c["url"] = n.url /\ c["noProxy"] = store.noProxy
  BY <1>1, <1>4 DEF Config
<1>6. /\ store' = c /\ env' = env
      /\ ok => disk' = c /\ cfg' = n /\ unsaved' = unsaved \ {"key", "url"}
      /\ ~ok => disk' = disk /\ cfg' = cfg /\ unsaved' = unsaved \union {"key", "url"}
  BY <1>2, <1>4 DEF SetConfig, Saved
<1>7. CacheIsDisk'
  <2>1. CASE ok
    BY <1>6, <2>1 DEF CacheIsDisk
  <2>2. CASE ~ok
    BY <1>5, <1>6, <2>2 DEF CacheIsDisk, SettingsInv
  <2> QED
    BY <2>1, <2>2
<1>8. InForceIsKept'
  <2>1. CASE ok
    <3>1. disk'.key = cfg'.key /\ disk'.url = cfg'.url /\ disk'.noProxy = store.noProxy
          /\ cfg'.noProxy = cfg.noProxy /\ ("noProxy" \in unsaved => "noProxy" \in unsaved')
      BY <1>3, <1>5, <1>6, <2>1
    <3>2. disk.noProxy = cfg.noProxy \/ "noProxy" \in unsaved
      BY SettingsAre DEF SettingsInv, EachKept
    <3>3. store.noProxy = disk.noProxy \/ "noProxy" \in unsaved
      BY DEF SettingsInv, CacheIsDisk
    <3> QED
      BY <3>1, <3>2, <3>3, SettingsAre DEF EachKept
  <2>2. CASE ~ok
    <3>1. /\ "key" \in unsaved' /\ "url" \in unsaved' /\ disk' = disk /\ cfg' = cfg
          /\ ("noProxy" \in unsaved => "noProxy" \in unsaved')
      BY <1>6, <2>2
    <3>2. disk.noProxy = cfg.noProxy \/ "noProxy" \in unsaved
      BY SettingsAre DEF SettingsInv, EachKept
    <3> QED
      BY <3>1, <3>2, SettingsAre DEF EachKept
  <2> QED
    BY <2>1, <2>2
<1>9. InForceIsSaved
  <2>1. CASE ok
    <3>1. cfg'["noProxy"] = cfg["noProxy"] /\ disk'["key"] = cfg'["key"] /\ disk'["url"] = cfg'["url"]
      BY <1>3, <1>5, <1>6, <2>1
    <3> QED
      BY <3>1, SettingsAre DEF InForceIsSaved, SettingsInv
  <2>2. CASE ~ok
    BY <1>6, <2>2 DEF InForceIsSaved
  <2> QED
    BY <2>1, <2>2
<1> QED
  BY <1>7, <1>8, <1>9 DEF SettingsInv

LEMMA SetNoProxyKeeps ==
  ASSUME SettingsInv, TypeOK', NEW ok \in BOOLEAN, SetNoProxy(ok)
  PROVE  InForceIsSaved /\ SettingsInv'
<1>1. cfg \in Config /\ disk \in Config /\ store \in Config
  BY DEF SettingsInv, TypeOK
<1>2. PICK b : b = (~cfg.noProxy)
  OBVIOUS
<1>3. PICK c : c = [store EXCEPT !.noProxy = b]
  OBVIOUS
<1>4. PICK n : n = [cfg EXCEPT !.noProxy = b]
  OBVIOUS
<1>5. /\ c["key"] = store["key"] /\ c["url"] = store["url"] /\ c["noProxy"] = b
      /\ n["key"] = cfg["key"] /\ n["url"] = cfg["url"] /\ n["noProxy"] = b
  BY <1>1, <1>3, <1>4 DEF Config
<1>6. /\ store' = c /\ env' = env
      /\ ok => disk' = c /\ cfg' = n /\ unsaved' = unsaved \ {"noProxy"}
      /\ ~ok => disk' = disk /\ cfg' = cfg /\ unsaved' = unsaved \union {"noProxy"}
  BY <1>2, <1>3, <1>4 DEF SetNoProxy, Saved
<1>7. CacheIsDisk'
  <2>1. CASE ok
    BY <1>6, <2>1 DEF CacheIsDisk
  <2>2. CASE ~ok
    BY <1>5, <1>6, <2>2 DEF CacheIsDisk, SettingsInv
  <2> QED
    BY <2>1, <2>2
<1>8. InForceIsKept'
  <2>1. /\ disk.key = cfg.key \/ (env.key # None /\ cfg.key = env.key) \/ "key" \in unsaved
        /\ disk.url = cfg.url \/ (env.url # None /\ cfg.url = env.url) \/ "url" \in unsaved
    BY SettingsAre DEF SettingsInv, EachKept
  <2>2. /\ "key" \in unsaved => "key" \in unsaved'
        /\ "url" \in unsaved => "url" \in unsaved'
    BY <1>6
  <2>3. CASE ok
    <3>1. /\ disk'.noProxy = cfg'.noProxy /\ disk'.key = store.key /\ disk'.url = store.url
          /\ cfg'.key = cfg.key /\ cfg'.url = cfg.url
      BY <1>5, <1>6, <2>3
    <3>2. /\ store.key = disk.key \/ "key" \in unsaved
          /\ store.url = disk.url \/ "url" \in unsaved
      BY DEF SettingsInv, CacheIsDisk
    <3> QED
      BY <1>6, <2>1, <2>2, <3>1, <3>2, SettingsAre DEF EachKept
  <2>4. CASE ~ok
    BY <1>6, <2>1, <2>2, <2>4, SettingsAre DEF EachKept
  <2> QED
    BY <2>3, <2>4
<1>9. InForceIsSaved
  <2>1. CASE ok
    <3>1. cfg'["key"] = cfg["key"] /\ cfg'["url"] = cfg["url"] /\ disk'["noProxy"] = cfg'["noProxy"]
      BY <1>5, <1>6, <2>1
    <3> QED
      BY <3>1, SettingsAre DEF InForceIsSaved, SettingsInv
  <2>2. CASE ~ok
    BY <1>6, <2>2 DEF InForceIsSaved
  <2> QED
    BY <2>1, <2>2
<1> QED
  BY <1>7, <1>8, <1>9 DEF SettingsInv

LEMMA StartLoads ==
  /\ Init /\ TypeOK => SettingsInv
  /\ SettingsInv /\ TypeOK' /\ Restart => InForceIsSaved /\ SettingsInv'
<1>1. ASSUME Init, TypeOK PROVE SettingsInv
  <2>1. disk \in Config /\ env \in Envs /\ cfg = Loaded(disk, env) /\ store = disk
    BY <1>1 DEF Init, Fresh, TypeOK
  <2>2. InForceIsKept
    BY <1>1, <2>1, LoadedIs, SettingsAre DEF EachKept
  <2> QED
    BY <1>1, <2>1, <2>2 DEF SettingsInv, CacheIsDisk
<1>2. ASSUME SettingsInv, TypeOK', Restart PROVE InForceIsSaved /\ SettingsInv'
  <2>1. disk \in Config /\ env' \in Envs /\ store' = disk /\ disk' = disk
    BY <1>2 DEF Restart, SettingsInv, TypeOK
  <2>2. PICK c : c = cfg'
    OBVIOUS
  <2>3. PICK e : e = env'
    OBVIOUS
  <2>4. c = Loaded(disk, e) /\ e \in Envs
    BY <1>2, <2>1, <2>2, <2>3 DEF Restart
  <2>5. /\ c.noProxy = disk.noProxy
        /\ c.key = disk.key \/ (e.key # None /\ c.key = e.key)
        /\ c.url = disk.url \/ (e.url # None /\ c.url = e.url)
    BY <2>1, <2>4, LoadedIs
  <2>6. InForceIsKept'
    BY <1>2, <2>1, <2>2, <2>3, <2>5, SettingsAre DEF EachKept
  <2>7. /\ cfg'["noProxy"] = disk'["noProxy"]
        /\ cfg'["key"] = disk'["key"] \/ FromEnv("key")'
        /\ cfg'["url"] = disk'["url"] \/ FromEnv("url")'
    BY <2>1, <2>2, <2>3, <2>5 DEF FromEnv
  <2>8. InForceIsSaved
    BY <1>2, <2>7, SettingsAre DEF InForceIsSaved, SettingsInv
  <2> QED
    BY <1>2, <2>1, <2>6, <2>8 DEF SettingsInv, CacheIsDisk
<1> QED
  BY <1>1, <1>2

LEMMA SettingsStep ==
  ASSUME SettingsInv, TypeOK', [Next]_vars
  PROVE  [InForceIsSaved]_vars /\ SettingsInv'
<1>1. ASSUME UNCHANGED cfgVars PROVE InForceIsSaved /\ SettingsInv'
  BY <1>1 DEF InForceIsSaved, InForceIsKept, FromEnv, SettingsInv, CacheIsDisk
<1>2. ASSUME NEW r \in Requests,
             \/ \E k \in Kinds, think \in BOOLEAN : Begin(r, k, think)
             \/ Command(r) \/ Exchange(r) \/ Abort(r) \/ Cancelled(r)
             \/ \E p \in Pieces : Receive(r, p)
      PROVE  UNCHANGED cfgVars
  BY <1>2 DEF Begin, Command, Spawn, Register, ReportAbort, Exchange, Refused, Connected, Finish,
     Return, Fail, Deregister, Abort, Cancelled, Receive
<1>3. CASE UNCHANGED vars
  BY <1>1, <1>3 DEF vars
<1>4. CASE Next
  BY <1>1, <1>2, <1>4, SetConfigKeeps, SetNoProxyKeeps, StartLoads DEF Next
<1> QED
  BY <1>3, <1>4

(* A setting comes into force only when the file has it or the environment of   *)
(* the start gave it, and the next start uses what is in force now but for what *)
(* this environment gave and for a setting whose own last save failed, whose    *)
(* new value a save of another setting may write (api.rs:49-98, 139-166).       *)
THEOREM SettingsAreTheSaved == Spec => SettingsInForce
<1>1. IInv => TypeOK
  BY DEF IInv
<1>2. Init /\ TypeOK => SettingsInv
  BY StartLoads
<1>3. SettingsInv /\ TypeOK' /\ [Next]_vars => SettingsInv' /\ [InForceIsSaved /\ InForceIsKept']_vars
  BY SettingsStep DEF SettingsInv
<1> QED
  BY Inductive, <1>1, <1>2, <1>3, PTL DEF Spec, SettingsInForce
=============================================================================
