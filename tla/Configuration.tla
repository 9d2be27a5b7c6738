--------------------------- MODULE Configuration ---------------------------
(***************************************************************************)
(* Where the configuration of a project is read, merged and edited, and     *)
(* where its index is (src/src/config/paths.ts, merger.ts, rebase.ts,       *)
(* schema.ts; src/src/tools/config-state.ts, operation-runtime.ts and the   *)
(* knowledge-base tools of operations.ts).                                  *)
(*                                                                         *)
(* A place is a pair: a checkout, or the user's home, and the host whose    *)
(* layout it has.  Other hosts fall back to the layout of OpenCode.  Of a   *)
(* configuration there are the knowledge bases, the scope, and one field of *)
(* all the others.                                                         *)
(***************************************************************************)
EXTENDS Naturals, Sequences, SequencesExt

CONSTANTS
  Main, Linked,    \* the checkouts: the main one, linked worktrees
  HostMode, LegacyMode,    \* the layouts; OpenCode's
  Session,         \* processes that run the tools
  RootOf, ModeOf,  \* the checkout and the host of a session
  Name,            \* names of folders
  HandWritten,        \* what others write into a configuration file
  Missing, Broken, \* no file; one that cannot be read, or is malformed
  Unset,           \* a field that is not there
  Nothing,         \* no cached Indexer, no edit in progress
  Layouts,         \* the files and the indexes that are there at first
  Edits, Writes    \* bounds: calls of the tools, changes by others

Checkouts == {Main} \cup Linked
Home == "home"
Outside == "outside"
Self == "self"

\* A folder is named by its owner.  A stored path is a folder, or relative: Self.
Folders == (Checkouts \cup {Outside}) \X Name
Stored == Folders \cup ({Self} \X Name)
Places == (Checkouts \cup {Home}) \X HostMode
Settings ==
  [bases : Seq(Stored), scope : {"project", "global", Unset}, provider : {"good", "bad", Unset}]

ASSUME ConfigurationAssumption ==
  /\ LegacyMode \in HostMode /\ Main \notin Linked /\ Checkouts \cap {Home, Outside, Self} = {}
  /\ RootOf \in [Session -> Checkouts] /\ ModeOf \in [Session -> HostMode]
  /\ HandWritten \subseteq Settings /\ Missing \notin Settings /\ Broken \notin Settings
  /\ Missing # Broken /\ Unset \notin {"project", "global", "good", "bad"}
  /\ Edits \in Nat /\ Writes \in Nat
ASSUME LayoutsAssumption ==
  \A layout \in Layouts : layout.files \in [Places -> Settings \cup {Missing, Broken}]

VARIABLES
  config,  \* the configuration files
  built,   \* the places where an index has been made
  cache,   \* indexerCache of each session: the place of the Indexer's index
  editing,    \* the edit in progress in each session
  edits, writes

configurationVars == <<config, built, cache, editing, edits, writes>>

-----------------------------------------------------------------------------
(* Reading.                                                                *)

Exists(place) == config[place] # Missing
Own(s) == <<RootOf[s], ModeOf[s]>>

\* getProjectConfigCandidatePaths
CandidateConfigs(r, h) ==
  <<<<r, h>>, <<r, LegacyMode>>>> \o
  (IF r \in Linked THEN <<<<Main, h>>, <<Main, LegacyMode>>>> ELSE <<>>)

\* resolveProjectConfigPath
ProjectConfig(r, h) ==
  LET C == CandidateConfigs(r, h)
      E == {i \in DOMAIN C : Exists(C[i])}
  IN IF E = {} THEN <<r, h>> ELSE C[CHOOSE i \in E : \A j \in E : i <= j]

\* resolveGlobalConfigPath
GlobalConfig(h) ==
  IF ~Exists(<<Home, h>>) /\ Exists(<<Home, LegacyMode>>) THEN <<Home, LegacyMode>> ELSE <<Home, h>>

Empty == [bases |-> <<>>, scope |-> Unset, provider |-> Unset]
OrEmpty(content) == IF content \in {Missing, Broken} THEN Empty ELSE content

\* resolveInheritedKnowledgeBaseEntries: what lies in the checkout that has the file is
\* taken to lie in the one that reads it.
Inherited(source, path) == IF path[1] = source THEN <<Self, path[2]>> ELSE path

Each(list, Op(_)) == [i \in DOMAIN list |-> Op(list[i])]

\* loadProjectConfigLayer
Layer(r, h) ==
  LET place == ProjectConfig(r, h)
      content == OrEmpty(config[place])
      Here(path) == Inherited(place[1], path)
  IN [content EXCEPT !.bases = Each(@, Here)]

Or(field, other) == IF field # Unset THEN field ELSE other

\* loadMergedConfig: a global file that cannot be read counts only without a project's.
Merged(r, h) ==
  LET global == config[GlobalConfig(h)]
      project == config[ProjectConfig(r, h)]
      g == OrEmpty(global)
      l == Layer(r, h)
  IN IF project = Broken \/ (global = Broken /\ project = Missing) THEN Broken
     ELSE [bases |-> g.bases \o l.bases, scope |-> Or(l.scope, g.scope),
           provider |-> Or(l.provider, g.provider)]

\* resolveConfigPathValue
ResolvedPath(r, path) == IF path[1] = Self THEN <<r, path[2]>> ELSE path

\* Seeded fault: paths are shortened against the main checkout.
SerializedInMain(r, path) == IF path[1] = Main THEN <<Self, path[2]>> ELSE path

\* serializeConfigPathValue
Serialized(r, path) == IF path[1] = r THEN <<Self, path[2]>> ELSE path

\* normalizeKnowledgeBasePaths
WithFolders(r, content) ==
  LET Absolute(path) == ResolvedPath(r, path) IN [content EXCEPT !.bases = Each(@, Absolute)]

\* parseConfig(loadRuntimeConfig(...)), of which Broken is that it throws: the folders as a
\* set, that is without what the merging does to repeated ones.
Runtime(r, h) ==
  LET merged == Merged(r, h)
  IN IF merged = Broken THEN Broken
     ELSE IF merged.provider = "bad" THEN Broken
     ELSE [WithFolders(r, merged) EXCEPT !.bases = ToSet(@)]

-----------------------------------------------------------------------------
(* Where an index is.                                                      *)

\* resolveGlobalIndexPath
GlobalIndex(h) ==
  IF <<Home, h>> \in built \/ Exists(<<Home, h>>) \/ <<Home, LegacyMode>> \notin built
  THEN <<Home, h>> ELSE <<Home, LegacyMode>>

\* resolveProjectIndexPath in the main checkout,
MainIndex(h) ==
  IF <<Main, h>> \in built \/ Exists(<<Main, h>>) \/ <<Main, LegacyMode>> \notin built
  THEN <<Main, h>> ELSE <<Main, LegacyMode>>

\* Seeded fault: the legacy configuration of main counts although its index is there.
LinkedToLegacy(r, h) ==
  IF Exists(<<r, h>>) THEN <<r, h>>
  ELSE IF Exists(<<r, LegacyMode>>) THEN <<r, LegacyMode>>
  ELSE IF ~Exists(<<Main, h>>) /\ Exists(<<Main, LegacyMode>>) THEN <<Main, LegacyMode>>
  ELSE <<Main, h>>

\* and in a linked worktree.
LinkedIndex(r, h) ==
  IF Exists(<<r, h>>) THEN <<r, h>>
  ELSE IF Exists(<<r, LegacyMode>>) THEN <<r, LegacyMode>>
  ELSE IF /\ ~Exists(<<Main, h>>) /\ <<Main, h>> \notin built
          /\ Exists(<<Main, LegacyMode>>) \/ <<Main, LegacyMode>> \in built
       THEN <<Main, LegacyMode>>
  ELSE <<Main, h>>

IndexPath(r, h, scope) ==
  IF scope = "global" THEN GlobalIndex(h)
  ELSE IF r \in Linked THEN LinkedIndex(r, h) ELSE MainIndex(h)

\* isProjectIndexPathOwnedByProject
OwnedIndexes(r, h) == {r, Main} \X {h, LegacyMode}

-----------------------------------------------------------------------------
ConfigurationInit ==
  /\ \E layout \in Layouts : config = layout.files /\ built = layout.indexes
  /\ cache = [s \in Session |-> Nothing] /\ editing = [s \in Session |-> Nothing]
  /\ edits = Edits /\ writes = Writes

\* The index of an Indexer of the configuration that is read now.
Indexer(s) == IndexPath(RootOf[s], ModeOf[s], Runtime(RootOf[s], ModeOf[s]).scope)

\* parseConfig throws on a provider that cannot be resolved (substituteEnvString).
Readable(s) == Runtime(RootOf[s], ModeOf[s]) # Broken

\* getOrCreateIndexer
OpenIndexer(s) ==
  /\ cache[s] = Nothing /\ editing[s] = Nothing /\ Readable(s)
  /\ cache' = [cache EXCEPT ![s] = Indexer(s)]
  /\ UNCHANGED <<config, built, editing, edits, writes>>

\* The watcher reports the configuration: refreshIndexerForDirectory.
RefreshIndexer(s) ==
  /\ cache[s] # Nothing /\ editing[s] = Nothing /\ Readable(s)
  /\ cache' = [cache EXCEPT ![s] = Indexer(s)]
  /\ UNCHANGED <<config, built, editing, edits, writes>>

\* A run makes the directory of its index.
MakeIndex(s) ==
  /\ cache[s] # Nothing /\ editing[s] = Nothing
  /\ built' = built \cup {cache[s]}
  /\ UNCHANGED <<config, cache, editing, edits, writes>>

\* loadEditableConfig
Editable(s) == WithFolders(RootOf[s], Layer(RootOf[s], ModeOf[s]))

\* An edit has what it will write; before is what the session read, and twice whether the
\* list names the folder more than once.
BeginEdit(s, op, folder, bases) ==
  LET Short(path) == Serialized(RootOf[s], path)
      old == Editable(s).bases
  IN /\ editing[s] = Nothing /\ edits > 0 /\ edits' = edits - 1
     /\ config[ProjectConfig(RootOf[s], ModeOf[s])] # Broken
     /\ editing' = [editing EXCEPT ![s] =
          [op |-> op, folder |-> folder, step |-> "open", alone |-> TRUE,
           before |-> Runtime(RootOf[s], ModeOf[s]),
           twice |-> \E i, j \in DOMAIN old : i # j /\ old[i] = folder /\ old[j] = folder,
           content |-> [Editable(s) EXCEPT !.bases = Each(bases, Short)]]]
     /\ UNCHANGED <<config, built, cache, writes>>

\* addKnowledgeBase
AddKnowledgeBase(s, folder) ==
  /\ folder \notin ToSet(Editable(s).bases)
  /\ BeginEdit(s, "add", folder, Append(Editable(s).bases, folder))

\* removeKnowledgeBase: one entry, the first of the folder.
RemoveKnowledgeBase(s, folder) ==
  /\ folder \in ToSet(Editable(s).bases)
  /\ BeginEdit(s, "remove", folder, RemoveFirst(Editable(s).bases, folder))

\* The configuration changes under the edits of others.
Overtaken(s) ==
  [t \in Session |-> IF t # s /\ editing[t] # Nothing THEN [editing[t] EXCEPT !.alone = FALSE] ELSE editing[t]]

\* saveConfig: writeFileSync empties the file,
OpenConfig(s) ==
  /\ editing[s] # Nothing /\ editing[s].step = "open"
  /\ config' = [config EXCEPT ![Own(s)] = Broken]
  /\ editing' = [Overtaken(s) EXCEPT ![s].step = "write"]
  /\ UNCHANGED <<built, cache, edits, writes>>

\* and writes it.
WriteConfig(s) ==
  /\ editing[s] # Nothing /\ editing[s].step = "write"
  /\ config' = [config EXCEPT ![Own(s)] = editing[s].content]
  /\ editing' = [Overtaken(s) EXCEPT ![s].step = "refresh"]
  /\ UNCHANGED <<built, cache, edits, writes>>

\* refreshIndexerForDirectory: what throws leaves the Indexer that was.
EndEdit(s) ==
  /\ editing[s] # Nothing /\ editing[s].step = "refresh"
  /\ editing' = [editing EXCEPT ![s] = Nothing]
  /\ cache' = IF Readable(s) THEN [cache EXCEPT ![s] = Indexer(s)] ELSE cache
  /\ UNCHANGED <<config, built, edits, writes>>

Kill(s) ==
  /\ editing[s] # Nothing
  /\ cache' = [cache EXCEPT ![s] = Nothing] /\ editing' = [editing EXCEPT ![s] = Nothing]
  /\ UNCHANGED <<config, built, edits, writes>>

\* Others write or remove a configuration file.
WriteByHand ==
  /\ writes > 0 /\ writes' = writes - 1
  /\ \E place \in Places, content \in HandWritten \cup {Missing, Broken} :
       config' = [config EXCEPT ![place] = content]
  /\ editing' = [t \in Session |->
                IF editing[t] # Nothing THEN [editing[t] EXCEPT !.alone = FALSE] ELSE Nothing]
  /\ UNCHANGED <<built, cache, edits>>

ConfigurationNext ==
  \/ \E s \in Session :
       \/ OpenIndexer(s) \/ RefreshIndexer(s) \/ MakeIndex(s)
       \/ \E folder \in Folders : AddKnowledgeBase(s, folder) \/ RemoveKnowledgeBase(s, folder)
       \/ OpenConfig(s) \/ WriteConfig(s) \/ EndEdit(s) \/ Kill(s)
  \/ WriteByHand
ConfigurationSpec == ConfigurationInit /\ [][ConfigurationNext]_configurationVars
-----------------------------------------------------------------------------
\* What a session reads.
Reads(s) == Runtime(RootOf[s], ModeOf[s])
GlobalBases(s) ==
  {ResolvedPath(RootOf[s], p) : p \in ToSet(OrEmpty(config[GlobalConfig(ModeOf[s])]).bases)}

\* A worktree without a configuration of its own.
Inherits(r, h) == r \in Linked /\ ~Exists(<<r, h>>) /\ ~Exists(<<r, LegacyMode>>)

\* "Linked worktrees without their own ... project config inherit both the config and project
\* index from the main checkout" (docs/configuration.md): the index that a worktree resolves is
\* that of main, unless neither has been made yet; and what a session may clear as its
\* project's index is one of its project (resolveProjectIndexPath, isProjectOwnedIndexPath).
IndexInherited ==
  /\ \A r \in Linked, h \in HostMode :
       Inherits(r, h) =>
         \/ LinkedIndex(r, h) = MainIndex(h)
         \/ LinkedIndex(r, h) \notin built /\ MainIndex(h) \notin built
  /\ \A s \in Session : cache[s] # Nothing =>
       cache[s] \in OwnedIndexes(RootOf[s], ModeOf[s]) \cup ({Home} \X HostMode)

\* An edit of the knowledge bases that nobody else meets changes that base, and nothing else
\* of what the session reads, whichever file its configuration came from; a base stays that
\* the global configuration has too, or that its list names twice (addKnowledgeBase,
\* removeKnowledgeBase, saveConfig).
EditKeepsRest ==
  [][\A s \in Session :
       /\ editing[s] # Nothing /\ editing'[s] # Nothing
       /\ editing[s].step = "write" /\ editing'[s].step = "refresh"
       /\ editing[s].alone /\ editing[s].before # Broken
       => Reads(s)' = [editing[s].before EXCEPT !.bases =
            IF editing[s].op = "add" \/ editing[s].twice \/ editing[s].folder \in GlobalBases(s)
            THEN @ \cup {editing[s].folder} ELSE @ \ {editing[s].folder}]
    ]_configurationVars
=============================================================================
