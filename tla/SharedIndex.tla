---------------------------- MODULE SharedIndex ----------------------------
(***************************************************************************)
(* One global index that several projects share: each has its own branch   *)
(* catalog and its own metadata keys, all share the vectors, the words,    *)
(* the tables and one cache of file hashes.  A file belongs to a project's *)
(* root or to a knowledge base that several projects have in their scope.  *)
(* A run is one step here (its writes, crashes and other writers are in    *)
(* IndexStore and IndexLock); what is followed is whose data it touches,   *)
(* the embedding strategy of each vector, and the call graph.              *)
(***************************************************************************)
EXTENDS CallGraph, Functions

CONSTANTS
  Project, File,
  Root,        \* the files below each project's root
  Scope,       \* those and the files of its knowledge bases
  Version,     \* the contents a file may have: positive numbers; 0 is no file
  Names,       \* the symbols each file defines in each version
  CallsIn,     \* the calls in it: pairs of names, caller and callee
  MaxDepth,    \* of find_shortest_path
  Edits,       \* bound: changes to files
  Failing,     \* bound: runs in which some request fails
  Worlds       \* what may happen, besides runs: subsets of Happenings

\* The files are those of some scope; no project's root is in the scope of another.
ASSUME ScopesAssumption ==
  /\ Root \in [Project -> SUBSET File] /\ Scope \in [Project -> SUBSET File]
  /\ \A p \in Project : Root[p] \subseteq Scope[p]
  /\ \A f \in File : \E p \in Project : f \in Scope[p]
  /\ \A p, q \in Project : p # q => Root[p] \cap Scope[q] = {}
ASSUME VersionAssumption == 1 \in Version /\ 0 \notin Version

Happenings == {"upgrade", "failures", "clear", "health", "forcedFailures"}
ASSUME WorldsOfHappenings == Worlds \subseteq SUBSET Happenings

\* A chunk's id is a hash of its file and its contents: one per version.
Chunk == File \X Version
Symbol == [file : File, version : Version, name : UNION {Names[f][v] : f \in File, v \in Version}]
ASSUME NoSymbolAssumption == NoSymbol \notin Symbol

VARIABLES
  world,
  tree,       \* the version of each file on disk
  vec,        \* the vector store: the strategy of each chunk's vector
  words,      \* the keyword index
  rows,       \* the table chunks
  emb,        \* the table embeddings: the strategy of each text's embedding
  catalog,    \* branch_chunks: the chunks of each project's branch
  symbols, edges,
  listed,     \* branch_symbols
  hashes,     \* file-hashes.json
  failed,     \* failed-batches.json: the chunks that have a record
  published,  \* metadata index.version, and its legacy index.embeddingStrategyVersion
  strategy,   \* metadata index.embeddingStrategyVersion.<project>
  forced,     \* metadata index.forceReembed.<project>
  migrated,   \* metadata index.symbolExtractorVersion of the project's branch
  last,       \* the last operation
  edits, failures

tables == <<rows, emb, catalog, symbols, edges, listed>>
metadata == <<published, strategy, forced, migrated>>
bounds == <<world, edits, failures>>
vars == <<tree, vec, words, tables, hashes, failed, metadata, last, bounds>>

FilesOf(chunks) == {c[1] : c \in chunks}
In(files, chunks) == {c \in chunks : c[1] \in files}
Vectors == DOMAIN vec
Hashed == {f \in File : hashes[f] # 0}

-----------------------------------------------------------------------------
\* Compatibility

\* hasScopedIndexedData
HasScopedData(p) ==
  /\ ~forced[p]
  /\ \/ Hashed \cap Scope[p] # {}
     \/ In(Scope[p], failed) # {}
     \/ catalog[p] # {} \/ listed[p] # {}
     \/ /\ \A q \in Project : catalog[q] = {} /\ listed[q] = {}
        /\ In(Scope[p], Vectors) # {}

\* loadStoredEmbeddingStrategyVersion
\* Seeded fault: the version of the index before projects had their own is not read.
NamedStrategy(p) == IF forced[p] THEN "none" ELSE strategy[p]
StoredStrategy(p) ==
  IF forced[p] THEN "none"
  ELSE IF strategy[p] # "none" THEN strategy[p]
  ELSE IF HasScopedData(p) THEN published.legacy ELSE "none"

\* validateIndexCompatibility: the strategy is what differs here.
Compatible(p) == published.version => StoredStrategy(p) # "old"

-----------------------------------------------------------------------------
\* What several operations do

\* rebuildVectorStoreExcludingChunkIds: every other vector is put back from
\* the tables; one whose row or embedding is gone is dropped.
Rebuild(vectors, chunkRows, gone) ==
  [c \in (DOMAIN vectors \ gone) \cap chunkRows \cap DOMAIN emb |-> emb[c]]

\* A rebuild only happens when there is something to leave out.
Without(vectors, chunkRows, gone) ==
  IF gone = {} THEN vectors ELSE Rebuild(vectors, chunkRows, gone)

\* getReferencedChunkIds, getReferencedSymbolIds
\* Seeded fault: the references of other branches are not looked up.
ReferencedByNone(ids, branches) == {}
ReferencedBy(ids, branches) == ids \cap UNION {branches[p] : p \in Project}

EmbeddingsOf(embeddings, chunkRows) == Restrict(embeddings, DOMAIN embeddings \cap chunkRows)

\* getProjectScopedBranchCatalogCleanupKeys
CleanupKeys(p, chunks, syms) ==
  {p} \cup {q \in Project : catalog[q] \cap chunks # {} \/ listed[q] \cap syms # {}}

\* hasForeignScopedBranchData, hasForeignScopedFileHashData,
\* hasForeignScopedFailedBatches, and vectors of other files
ForeignBranchData(p) ==
  LET files == Root[p] \cap (Hashed \cup FilesOf(Vectors))
      syms == {s \in symbols : s.file \in files}
  IN  \E q \in Project \ {p} :
        /\ catalog[q] # {} \/ listed[q] # {}
        /\ catalog[q] \cap In(files, rows) = {} /\ listed[q] \cap syms = {}
HasForeignData(p) ==
  \/ \E c \in Vectors \cup failed : c[1] \notin Scope[p]
  \/ Hashed \ Scope[p] # {}
  \/ ForeignBranchData(p)

-----------------------------------------------------------------------------
\* replaceBranchCatalog, given what the run has put into the tables so far

ReplaceCatalog(p, vectors, indexWords, chunkRows, embeddings, syms, calls, chunks, own) ==
  /\ catalog' = [catalog EXCEPT ![p] = chunks]
  /\ listed' = [listed EXCEPT ![p] = own]
  /\ LET left == catalog[p] \ chunks
         leftSymbols == listed[p] \ own
         gone == left \ ReferencedBy(left, catalog')
         goneSymbols == leftSymbols \ ReferencedBy(leftSymbols, listed')
     IN  /\ vec' = IF gone = {} THEN vectors
                   ELSE [c \in (DOMAIN vectors \ gone) \cap chunkRows \cap DOMAIN embeddings
                         |-> embeddings[c]]
         /\ words' = indexWords \ gone
         /\ rows' = chunkRows \ gone
         /\ symbols' = GcSymbols(syms, listed')
         /\ edges' = GcEdges(GcSymbolEdges(ClearTargets(calls, goneSymbols), listed'), symbols')
         /\ emb' = EmbeddingsOf(embeddings, rows')

-----------------------------------------------------------------------------
\* indexUnlocked

Present(p) == {f \in Scope[p] : tree[f] # 0}

\* Files whose hash is the cached one, if this branch's symbols are up to date.
Unchanged(p) == {f \in Present(p) : hashes[f] = tree[f] /\ migrated[p]}

\* restrictExistingChunksToBranch
Restricted(p) == \E q \in Project : catalog[q] # {} \/ listed[q] # {}

\* The chunks of the vector store that this run takes as indexed.
Existing(p) ==
  {c \in In(Scope[p], Vectors) :
    /\ Restricted(p) /\ c[1] \in Root[p] => c \in catalog[p]
    /\ ~forced[p]}

Cached(p, need) == IF forced[p] THEN {} ELSE need \cap DOMAIN emb

\* The records of failures whose files are as they were.
Retryable(p) == In(Unchanged(p), failed)

\* The chunks of the files that are read, those to be embedded, and all of the branch.
Parsed(p) == {<<f, tree[f]>> : f \in Present(p) \ Unchanged(p)}
Need(p) == (Parsed(p) \ Existing(p)) \cup Retryable(p)
Current(p) == In(Unchanged(p), Existing(p)) \cup Parsed(p) \cup Retryable(p)

\* What the parser finds in a chunk.
SymbolsIn(c) == SymbolsOf(c[1], c[2], Names[c[1]][c[2]])
EdgesIn(c) == EdgesOf(SymbolsIn(c), CallsIn[c[1]][c[2]])

\* Which of the requested embeddings fail.
Failures(p, requested) ==
  IF failures < Failing /\ "failures" \in world /\ (forced[p] => "forcedFailures" \in world)
  THEN SUBSET requested ELSE {{}}

\* The symbols of the files that were not read: those of this branch.
KeptSymbols(p) ==
  {s \in symbols : s.file \in Unchanged(p) /\ (Restricted(p) => s \in listed[p])}

\* The forced flag is dropped by the last branch of indexUnlocked only.
ForcedAfter(p, need, fails) == forced[p] /\ (need = {} \/ fails # {})

\* saveIndexMetadata
StrategyAfter(p, stillForced) == IF stillForced THEN strategy[p] ELSE "new"

\* A chunk whose request failed leaves the catalog, unless it is only retried.
CatalogAfter(p, fails) ==
  {c \in Current(p) : c \in fails => c \in Retryable(p) \cap Existing(p) /\ ~forced[p]}

\* The embeddings with those that the run has requested.
EmbeddingsAfter(p, done) ==
  [c \in DOMAIN emb \cup done |-> IF c \in done \ Cached(p, Need(p)) THEN "new" ELSE emb[c]]

Index(p) ==
  /\ Compatible(p)
  /\ \E fails \in Failures(p, Need(p) \ Cached(p, Need(p))) :
       LET done == Need(p) \ fails
           embeddings == EmbeddingsAfter(p, done)
           fresh == UNION {SymbolsIn(c) : c \in Parsed(p)}
           calls == UNION {EdgesIn(c) : c \in Parsed(p)}
       IN  /\ ReplaceCatalog(p,
                [c \in Vectors \cup done |-> IF c \in done THEN embeddings[c] ELSE vec[c]],
                words \cup done, rows \cup Parsed(p), embeddings,
                symbols \cup fresh, PutEdges(EdgesAfterSymbols(edges, fresh), calls),
                CatalogAfter(p, fails), KeptSymbols(p) \cup fresh)
           /\ failed' = {c \in failed : c[1] \notin Scope[p]} \cup fails
           /\ forced' = [forced EXCEPT ![p] = ForcedAfter(p, Need(p), fails)]
           /\ strategy' = [strategy EXCEPT ![p] = StrategyAfter(p, ForcedAfter(p, Need(p), fails))]
           /\ failures' = failures + (IF fails = {} THEN 0 ELSE 1)
           /\ last' = [op |-> "index", by |-> p, whole |-> fails = {}, rebuilt |-> forced[p]]
  \* replaceScopedFileHashCache
  /\ hashes' = [f \in File |-> IF f \in Scope[p] THEN tree[f] ELSE hashes[f]]
  /\ published' = [published EXCEPT !.version = TRUE]
  /\ migrated' = [migrated EXCEPT ![p] = TRUE]
  /\ UNCHANGED <<tree, world, edits>>

-----------------------------------------------------------------------------
\* clearIndexUnlocked

\* clearSharedIndexProjectData
ClearProject(p) ==
  LET entries == In(Scope[p], Vectors)
      files == (Hashed \cap Scope[p]) \cup FilesOf(entries)
      removed == entries \cup In(files, rows)
      syms == {s \in symbols : s.file \in files}
      keys == CleanupKeys(p, In(Root[p], removed), {s \in syms : s.file \in Root[p]})
      shared == ReferencedBy(removed, catalog')
      sharedFiles == {s.file : s \in ReferencedBy(syms, listed')}
      chunkRows == {c \in rows : c[1] \in files => In({c[1]}, rows) \cap shared # {}}
      kept == {s \in symbols : s.file \in files => s.file \in sharedFiles}
  IN  /\ catalog' = [q \in Project |-> IF q \in keys THEN catalog[q] \ removed ELSE catalog[q]]
      /\ listed' = [q \in Project |-> IF q \in keys THEN listed[q] \ syms ELSE listed[q]]
      /\ vec' = Without(vec, rows, removed \ shared)
      /\ words' = words \ (removed \ shared)
      /\ symbols' = GcSymbols(kept, listed')
      /\ edges' = GcSymbolEdges(GcEdges(ClearTargets(edges, syms \ ReferencedBy(syms, listed')), kept),
                                listed')
      /\ emb' = EmbeddingsOf(emb, chunkRows)
      /\ rows' = chunkRows \cap UNION {catalog'[q] : q \in Project}

\* Nobody else has anything here: start from nothing.
ClearAll(p) ==
  /\ vec' = <<>> /\ emb' = <<>>
  /\ words' = {} /\ rows' = {} /\ symbols' = {} /\ edges' = {} /\ failed' = {}
  /\ catalog' = [q \in Project |-> {}] /\ listed' = [q \in Project |-> {}]
  /\ hashes' = [f \in File |-> 0]
  /\ published' = [version |-> FALSE, legacy |-> "none"]
  /\ strategy' = [strategy EXCEPT ![p] = "none"]
  /\ forced' = [forced EXCEPT ![p] = FALSE]

\* Seeded fault: the caches stay as they are.
ForgetNothing(p) == UNCHANGED <<hashes, failed>>
\* clearScopedFileHashCache, clearScopedFailedBatches
ForgetScope(p) ==
  /\ hashes' = [f \in File |-> IF f \in Scope[p] THEN 0 ELSE hashes[f]]
  /\ failed' = {c \in failed : c[1] \notin Scope[p]}

Clear(p) ==
  /\ "clear" \in world
  /\ \/ HasForeignData(p) /\ ClearProject(p) /\ ForgetScope(p) /\ UNCHANGED published
        /\ IF Compatible(p) THEN UNCHANGED <<strategy, forced>>
           ELSE /\ forced' = [forced EXCEPT ![p] = TRUE]
                /\ strategy' = [strategy EXCEPT ![p] = "none"]
     \/ ~HasForeignData(p) /\ ClearAll(p)
  /\ last' = [op |-> "clear", by |-> p, whole |-> TRUE, rebuilt |-> FALSE]
  /\ UNCHANGED <<tree, migrated, bounds>>

-----------------------------------------------------------------------------
\* healthCheckUnlocked: it looks for the files of every project, and drops
\* what is missing from this project's branch.
Health(p) ==
  /\ "health" \in world
  /\ LET missing == {c \in Vectors : tree[c[1]] = 0}
         syms == {s \in symbols : s.file \in FilesOf(missing)}
         gone == missing \ ReferencedBy(missing, catalog')
     IN  /\ catalog' = [catalog EXCEPT ![p] = @ \ missing]
         /\ listed' = [listed EXCEPT ![p] = @ \ syms]
         /\ vec' = Without(vec, rows, gone)
         /\ words' = words \ gone
         /\ emb' = EmbeddingsOf(emb, rows \ gone)
         /\ rows' = (rows \ gone) \cap UNION {catalog'[q] : q \in Project}
         /\ symbols' = GcSymbols(symbols, listed')
         /\ edges' = GcEdges(GcSymbolEdges(
              ClearTargets(edges, syms \ ReferencedBy(syms, listed')), listed'), symbols')
  /\ last' = [op |-> "health", by |-> p, whole |-> TRUE, rebuilt |-> FALSE]
  /\ UNCHANGED <<tree, hashes, failed, metadata, bounds>>

-----------------------------------------------------------------------------
\* retryFailedBatchesUnlocked: whatever the files are now, nothing cached.
Retry(p) ==
  /\ In(Scope[p], failed) # {}
  /\ \E fails \in (IF failures < Failing THEN SUBSET In(Scope[p], failed) ELSE {{}}) :
       LET done == In(Scope[p], failed) \ fails
       IN  /\ vec' = [c \in Vectors \cup done |-> IF c \in done THEN "new" ELSE vec[c]]
           /\ emb' = [c \in DOMAIN emb \cup done |-> IF c \in done THEN "new" ELSE emb[c]]
           /\ words' = words \cup done
           /\ catalog' = [catalog EXCEPT ![p] = @ \cup done]
           /\ failed' = {c \in failed : c[1] \notin Scope[p]} \cup fails
           /\ failures' = failures + (IF fails = {} THEN 0 ELSE 1)
           /\ forced' = [forced EXCEPT ![p] = @ /\ fails # {}]
           /\ strategy' = [strategy EXCEPT ![p] = IF forced[p] /\ fails = {} THEN "new" ELSE @]
           /\ published' = [published EXCEPT !.version = @ \/ (forced[p] /\ fails = {})]
  /\ last' = [op |-> "retry", by |-> p, whole |-> TRUE, rebuilt |-> FALSE]
  /\ UNCHANGED <<tree, rows, symbols, edges, listed, hashes, migrated, world, edits>>

\* A file changes, or is removed for good.
Edit(f) ==
  /\ edits < Edits /\ tree[f] # 0
  /\ \E v \in (IF "health" \in world THEN Version \cup {0} ELSE Version) \ {tree[f]} :
       tree' = [tree EXCEPT ![f] = v]
  /\ edits' = edits + 1
  /\ last' = [op |-> "edit", by |-> CHOOSE p \in Project : TRUE, whole |-> TRUE, rebuilt |-> FALSE]
  /\ UNCHANGED <<vec, words, tables, hashes, failed, metadata, world, failures>>

-----------------------------------------------------------------------------
\* No index; or, in a world of upgrades, one that an older release has built
\* for every project, with the embedding strategy of its time.
Init ==
  /\ world \in Worlds
  /\ LET old == "upgrade" \in world
         chunks == IF old THEN {<<f, 1>> : f \in File} ELSE {}
     IN  /\ tree = [f \in File |-> 1]
         /\ vec = [c \in chunks |-> "old"] /\ emb = vec
         /\ words = chunks /\ rows = chunks
         /\ catalog = [p \in Project |-> In(Scope[p], chunks)]
         /\ symbols = UNION {SymbolsIn(c) : c \in chunks}
         /\ edges = UNION {EdgesIn(c) : c \in chunks}
         /\ listed = [p \in Project |-> {s \in symbols : s.file \in Scope[p]}]
         /\ hashes = [f \in File |-> IF old THEN 1 ELSE 0]
         /\ published = [version |-> old, legacy |-> IF old THEN "old" ELSE "none"]
  /\ failed = {}
  /\ strategy = [p \in Project |-> "none"]
  /\ forced = [p \in Project |-> FALSE]
  /\ migrated = [p \in Project |-> FALSE]
  /\ last = [op |-> "edit", by |-> CHOOSE p \in Project : TRUE, whole |-> TRUE, rebuilt |-> FALSE]
  /\ edits = 0 /\ failures = 0

Next ==
  \/ \E p \in Project : Index(p) \/ Clear(p) \/ Health(p) \/ Retry(p)
  \/ \E f \in File : Edit(f)

Spec == Init /\ [][Next]_vars

-----------------------------------------------------------------------------
\* Properties

\* What a search needs of a chunk it finds.
Searchable(c) == c \in Vectors \cap words \cap rows

\* A run, a clear, a health check or a retry of one project takes nothing from
\* another: its catalogs stay, and what was searchable in them stays so, the
\* chunks of a shared knowledge base included.  (Projects whose roots are not
\* nested: clearSharedIndexProjectData clears every catalog that lists a chunk
\* below the root.)
ForeignKept ==
  [][\A p \in Project : last'.by # p /\ last'.op # "edit" =>
       /\ catalog'[p] = catalog[p] /\ listed'[p] = listed[p]
       /\ \A c \in catalog[p] : Searchable(c) => Searchable(c)'
       /\ \A s \in listed[p] \cap symbols :
            /\ s \in symbols'
            /\ {e \in edges' : e.from = s} = {e \in edges : e.from = s}]_vars

\* The call graph of a branch is closed: its symbols have rows, its edges stay
\* resolved to symbols of the branch, and a name's callers are the call sites
\* of the name in the versions the branch lists, whatever other branches hold.
GraphClosed ==
  \A p \in Project :
    /\ listed[p] \subseteq symbols
    /\ \A e \in edges : e.from \in listed[p] => e.to \in listed[p] \cup {NoSymbol}
    /\ \A n \in UNION {Names[f][v] : f \in File, v \in Version} :
         {<<e.from, e.callee>> : e \in Callers(symbols, edges, listed[p], n)} =
         UNION {{<<s, c[2]>> : c \in {d \in CallsIn[s.file][s.version] :
                                        d[1] = s.name /\ NamesMatch(s, d[2], n)}} : s \in listed[p]}

\* After a run without a failed request the project's catalog is its tree: the
\* chunks of each file below its root, of their current version only, and at
\* least the current ones of its knowledge bases, all of them searchable; the
\* same for the symbols of its own files.  (A knowledge base that another project
\* has indexed since keeps its old chunks too: the cache of hashes is shared.)
IndexedWhole ==
  last.op = "index" /\ last.whole =>
    LET p == last.by
        now == {<<f, tree[f]>> : f \in Present(p)}
    IN  /\ now \subseteq catalog[p]
        /\ In(Root[p], catalog[p]) \subseteq now
        /\ \A c \in now : Searchable(c)
        /\ {s \in listed[p] : s.file \in Root[p]} =
             UNION {SymbolsIn(c) : c \in In(Root[p], now)}

\* A project whose metadata names the current embedding strategy, with no forced
\* run outstanding, has no vector of the old one for its own files, whoever wrote
\* them and whatever was cleared in between.  (A knowledge base's chunks may be
\* taken over from a project that still has the old strategy.)
StrategyHonest ==
  \A p \in Project : strategy[p] = "new" /\ ~forced[p] =>
    \A c \in In(Root[p], catalog[p]) \cap Vectors : vec[c] = "new"

\* find_shortest_path returns a path of the fewest calls from the only symbol
\* of a name to a call of another, each of them resolved or unambiguous on the
\* branch, and nothing only if there is none within the depth.
ShortestPaths ==
  \A p \in Project : \A from, to \in DOMAIN Fold :
    LET visible == symbols \cap listed[p]
        starts == {s \in visible : NamesMatch(s, s.name, from)}
        Steps(ss) == UNION {Resolution(e, visible) : e \in {d \in edges : d.from \in ss}}
        Ends(ss) == UNION {Target(e, visible, to) : e \in
                             {d \in edges : d.from \in ss /\ NamesMatch(d.from, d.callee, to)}}
        Within[k \in Nat] == IF k = 0 THEN starts ELSE LET w == Within[k - 1] IN w \cup Steps(w)
        found == {k \in 0 .. MaxDepth - 1 : Ends(Within[k]) \ Within[k] # {}}
        path == FindShortestPath(symbols, edges, listed[p], from, to, MaxDepth)
    IN  IF Cardinality(starts) # 1 \/ found = {} THEN path = <<>>
        ELSE /\ Len(path) = 2 + (CHOOSE k \in found : \A m \in found : k <= m)
             /\ path[1] \in starts
             /\ path[Len(path)] \in Ends({path[Len(path) - 1]})
             /\ \A i \in 1 .. Len(path) - 2 : path[i + 1] \in Steps({path[i]})

\* ensureInitialized's message: "Run index_codebase with force=true to rebuild
\* cached embeddings."  A forced run of which some requests failed is finished by
\* the next run: then the catalog is the tree.
ForcedRunWhole ==
  last.op = "index" /\ last.whole /\ last.rebuilt =>
    {<<f, tree[f]>> : f \in Present(last.by)} \subseteq catalog[last.by]
=============================================================================
