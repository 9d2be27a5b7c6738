# A formal model of open-codebase-index

TLA+ modules, model-checking configurations and machine-checked proofs for
open-codebase-index: the interprocess lease on an index, the coordinator of automatic
indexing and its watchers, which files are indexed and how they become vectors, where an index
is, how it is published, shared by projects and read by others while it is written, how a
branch is prepared, and how searches and the tools make an answer of it. Paths are those of the repository.

`PROJECT.json` lists the components, the runs, the theorems, the hazards, and
for every definition that models code the lines it models.

- [The system](#the-system)
- [Modules](#modules)
- [Runs](#runs)
- [Fairness](#fairness)
- [Proofs](#proofs)
- [Disagreements with the documentation](#disagreements-with-the-documentation)
- [What is not modelled](#what-is-not-modelled)
- [Plan](#plan)
- [Running the tools](#running-the-tools)

## The system

The program indexes a repository for semantic search. Several processes (MCP
servers, editor plugins, a CLI) open the same index directory; each has an
`Indexer` per project and host, an `AutoIndexCoordinator`, and watchers. A native
module keeps the vectors, the keyword index and a SQLite database.

```
 watchers ── requestReindex ──► coordinator ── index() ──► Indexer ──► artifacts
 tools    ── startup, retrieval, manual, force ──┘            │         vectors, vectors.meta.json
                                                              │         inverted-index.json
 other processes ◄──── indexing.lock, recovery markers ───────┘         file-hashes, failed-batches
                                                                        codebase.db
```

### Components, their state and what makes them correct

| component | state | operations | correct when |
|---|---|---|---|
| Index lock (`indexer/index-lock.ts`) | `indexing.lock/`, its `reclaiming/`, the recovery markers | acquire, reclaim a dead owner's lock, complete recoveries, release | one writer; no live lock is moved; the work of a killed writer is known to every later one until it is repaired; dead locks go away; acquiring ends |
| Mutation lease (`withIndexMutationLease`) | the active lease, the recovered owners | run a mutation, report failure of it or of the release | the recoveries are completed only by a mutation that succeeded |
| Automatic indexing (`utils/auto-index.ts`, `power-source.ts`) | in-flight job, pending and deferred requests, battery check, status, one coordinator per project and its replacements | start, request, update, replace, stop, retry with delays | jobs never overlap; every caller is answered; a force is honoured; stop is terminal; every watched change is indexed; background work waits for a power reading that lets it |
| Index publication (`indexer/index.ts`) | six artifacts, the memory of each process, the transaction | index, force, health check, retry of failed batches, recovery | an index reported as current holds the tree; catalogued chunks can be found; nothing unreferenced stays; no run leaves an index that others refuse |
| Vector store (`native/src/store.rs`) | native index, id maps, two files | add, add_batch, remove, save, load | the two files are used only as a pair of one publication; an id is never that of another chunk's vector, whatever call failed; what is saved agrees |
| Database (`native/src/db.rs`) | chunks, embeddings, branch catalogs, symbols, edges, metadata | upserts, catalog changes, garbage collection, transactions | collection removes only what no branch refers to |
| Global index (scopes and projects in `indexer/index.ts`) | one set of artifacts, a catalog and metadata keys per project, one hash cache | runs, clears, health checks, upgrades of the embedding strategy | no project loses another's data; a compatible project has vectors of one strategy |
| Keyword index (`native/src/inverted_index.rs`) | postings, document lengths | add, remove, search, load, serialize | statistics equal those of the documents in it |
| Readers (`ensureInitialized`, `refreshReaderArtifacts`) | fingerprint of each artifact, read issues and their retry times | open, refresh, keep the last good component | an unreadable artifact never replaces a readable one, and is retried |
| Embedding batches (`processPendingChunkBatch`, `embedding-batches.ts`) | parts of each chunk, request queue, backoff | split, request, pool, store, record failures | a call stores each chunk or records it as failed, never both, never stored in part |
| Failed batches (`failed-state-persistence.ts`) | JSON lines | write, commit, stream, choose the latest record | no record of another scope is lost; only the latest counts |
| Watchers (`watcher/`) | pending changes, debounce timer, current branch | collect, flush, fall back to polling, stop | every change is reported; nothing is after a stop |
| Branch preparation (`git/branch-materialization.ts`) | a temporary worktree and its registration | add, use, remove, prune | removed or reported, whatever fails; never removed while registered |
| Indexer cache (`tools/operation-runtime.ts`) | one Indexer and one configuration per project and host | create, replace on a new configuration | operations in progress finish on the Indexer they began with |
| Call graph (`native/src/db/call_graph.rs`, `call_extractor.rs`) | symbols, edges, branch symbols | resolve, collect, callers, callees, paths | edges lead to symbols that exist; a branch's answers are of its sources |
| Communities (`native/src/community.rs`) | none | reachability, label propagation, couplings, impact | both directions, paths, parts and counts agree |
| Search (`indexer/index.ts`, `search-ranking.ts`, `intent-aware-ranking.ts`) | a search's candidates and catalogs | collect, fuse, rank, rerank, tier, boost | one branch at one moment; the best of it; nothing lost but duplicates |
| Retrieval tools (`tools/context-search.ts`, `context-pack.ts`, `edit-context.ts`, `operations.ts`) | the attempts of a request | attempt, relax, pack, resolve symbols | what is shown is what was asked for, or the answer says so; budgets |
| File selection (`utils/files.ts`, `paths.ts`) | a walk: what it has found, what it has skipped | walk the project and the knowledge bases; admit a watched change | collected is what the rules admit of the tree, and a change that alters it is watched |
| Configuration (`config/`, `tools/config-state.ts`) | the files of a checkout, of the home directory, for two hosts; the indexes beside them | resolve, merge, add and remove a knowledge base, save | a worktree without a configuration has the index of main; an edit changes what it names only |
| Providers, adapters, evaluation, visualisation, parsing | none, or the host's | I/O and formatting | outside this project |

### How they interact

- A mutation runs under the lease: the lock tells the `Indexer` which writers were
  killed; the `Indexer` repairs or resets their artifacts, does its work, and only
  then removes their recovery markers.
- Readers take no lease. They notice a publication by the files' fingerprints.
- The coordinator calls `index()` with an abort signal and learns of a busy lock
  by its error, which it retries after a delay.
- Watchers only make requests; a request made during a run becomes the follow-up
  of the run.

### What is hard

The hazards are listed in `PROJECT.json` at the line where each bites. The
groups that shaped the models:

1. *Three processes and two deaths at one lock.* Reclaiming needs a claim, and
   claims need reclaiming.
2. *Promises that wait for promises.* A request may become a follow-up, a deferred
   request, a battery check or a replacement's barrier.
3. *Six artifacts without a transaction.* A kill, an error or another process's
   recovery between any two writes.
4. *Checked, then used.* A file is hashed, then read; a marker judged dead, then
   renamed; a database opened, then unlinked by another; a catalog read, a branch
   switched, and then the rows.
5. *Pieces in flight.* Parts of a chunk in several requests, bands of hits at a
   reranker, changes in a debounce, two reads of an index that is replaced between them.
6. *Native calls that stop halfway.* Maps beside an index, statements that cascade.

## Modules

| module | what it is |
|---|---|
| `IndexLock` | the file protocol of the lease: one step per file-system call that another process can observe |
| `IndexLease` | what the lease promises: one holder, and unrepaired work handed on. `IndexLock` is shown to implement it |
| `IndexLockProofs` | the theorems about `IndexLock` |
| `AutoIndex`, `AutoIndexProofs` | the coordinator, its callers, its power checks and its replacements, one step per resumption of an `async` function; the theorems about it |
| `Watchers` | the two watchers and the file system they watch |
| `IndexStore`, `IndexStoreProofs` | the artifacts of a project's index and the mutations, one step per artifact written; the theorems that they agree, that a current index is true and that a run indexes what it scanned |
| `Batching` | file batches, request batches and parts of a text, as functions |
| `FailedRecords` | the failure file: which record of a chunk counts, what a run rewrites |
| `EmbeddingBatches`, `EmbeddingBatchesProofs` | a run's chunks on their way to vectors: parts, requests in flight, answers in any order; the theorem that none is stored in part |
| `ChunkOutcomes` | what a run promises of each chunk: stored or recorded. `EmbeddingBatches` is shown to implement it |
| `CallGraph` | the tables and statements of the call graph, as operators on sets |
| `SharedIndex`, `SharedIndexProofs` | one global index of several projects and a shared knowledge base, a run at a time; the theorems about it |
| `VectorStore`, `KeywordIndex` | the two native stores: what each call does, and leaves when it fails |
| `ChunkStores` | the runs that change both stores, and their files |
| `Readers`, `ReadersProofs` | an `Indexer` that reads what others write, with its queries and mutations; the theorems about what it has loaded |
| `BranchPreparation` | a call of `getPrImpact`, one git command or file operation at a time |
| `Search` | a search between its two pauses |
| `Ranking` | the stages between the candidates of a search and its results |
| `Communities` | reachability, communities, couplings, paths and impact, as functions of a graph |
| `ContextPack`, `ContextSearch` | the packing of results into a budget; the attempts of a context request |
| `EditContext` | the context before an edit and the call-graph questions it asks |
| `Selection` | the walk that collects the files of an index, one file-system call at a time, and what the watcher admits |
| `Configuration` | where a configuration and an index are, how the files are merged, and the edits of the knowledge bases |
| `Index` | `IndexStore`, `Search` and `Ranking`: an index and what is found in it |
| `Host` | `IndexLock`, `BranchPreparation`, `Watchers`, `Selection`, `Configuration` and `ChunkStores`: what a process shares with others, and the native stores |
| `Retrieval` | `Readers`, `Communities`, `ContextSearch` and `EditContext`: from the index that is loaded to the answer |
| `HostProofs` | the theorems about `Watchers`, `BranchPreparation`, `Configuration` and `Selection` |
| `RetrievalProofs` | the theorems about `ChunkStores`, `Search`, `ContextSearch` and `EditContext` |
| `MC...` | instances for TLC |

The parts of `Index` share no variable, nor do those of `Host` or `Retrieval`: a behaviour is one of a
single part, while the others stay where they began. These three modules compose what one
run checks; they claim nothing of an interaction.

The models meet at what one assumes and another shows. `IndexStore` does not repeat the
lock: it takes the lease as `IndexLease` describes it (`holder`, and `crashed` for a
non-empty `unrecovered`), which is what `IndexLock` is proved to provide. Its `Embed`, and
a run of `SharedIndex`, take some chunks as failed, which is what `EmbeddingBatches` shows
of a call (`ChunkOutcomes`). `AutoIndex` and `Watchers` share the request: `AutoIndex`
follows it from `Notify`, `Watchers` up to there. `Readers` has a run of another process in
the six steps in which files change; what those files hold is in `IndexStore`.

### IndexLock

`lock`, `reclaim` and `marker` are the directories; everything else is a process:
`pc` is the call it will make next, `own` the token of its owner record, `seen` the
owner it found, `recov` the recoveries it was handed, `tomb` the directory it renamed
away to release. `unrecovered` is a history variable: the killed owners whose work no
successful mutation has repaired. Private directories (candidates, quarantines) have
names no other process uses, so only their content is modelled. A process can be killed
at the steps in `CrashSteps`, and restart, with the same pid if it is in `Reusable`.

### AutoIndex

A promise is a record in a slot: a `call` (what a caller waits for), a `check` (the
battery check that several calls share) or a `job` (a run). `step` is the `await` where
the function stands and `on` the promise it waits for. The job's answers (freshness,
index, status) come in any order and with any outcome. Callbacks of settled promises run
in any order, but all of them before the next timer, answer or request: that is
JavaScript's microtask queue (`Quiet`). A power reading may fail, and what it said may be out of
date when the check goes on: `PowerRead` and `AskEnds` are two steps. A `Coordinator` is a generation: replacing it
begins the next one, which activates once the old one's job has ended.
`changed` follows one watched change: dirty, taken by a run that has begun to scan,
clean once such a run has ended well.

### Watchers

chokidar is external: `unwritten` is what it holds back until a file is finished, and a
change that falls into a watcher's first scan may be reported or not (`Observed`).
`pending` and `debounce` are the batch of `FileWatcher`, `git` the whole of
`GitHeadWatcher`. `tree` counts the changes of the files and `told` those that a request
covers: a run scans everything. `missed` is history: what chokidar did not notice.

### IndexStore

A file has one chunk, named by path and text; the embedding is keyed by text
(`generateChunkId`, `generateChunkHash`). `pub` has the two vector files and their
`.bak` files, each with the number of its publication: `Readable` is `load`'s check.
`hashes` and `failed` are kept by `Key`, the runtime-state namespace. `gone[p]` is the
unlinked database that process `p` still has open. `run` is the mutation in progress: the
artifacts it will write next (`todo`) and the local variables its steps share. Each
writing step is one file written or one statement outside the transaction, so a kill
falls between any two of them. `run.now` is the `Indexer`'s `currentBranch`, by which the hash cache
and the label are written; `run.branch` is the branch whose catalog key the run has taken, and `run.file` the one
whose failure file it has prepared. They are one until a query of the same `Indexer` notices a checkout
(`Notice`), which may move the whole run or only what it has not fixed yet. `strayed` is history: the
branches between which a run was divided, since the index was last emptied. What else may happen is the *world*, a record of fault
classes chosen in the initial state: the same actions serve sound worlds and the ones
that a known defect is found in.

### EmbeddingBatches

`run` is `index` or `retryFailedBatches` with the calls of `processPendingChunkBatch` it
still has to make and the records of its new failure file; `call` is the call in progress
with its requests, queued, in flight or waiting to be repeated. An answer is handled
without an `await` and is one step; what comes in any order is the answers. A vector is the
set of parts it was pooled from, so that "stored in part" can be said. `file` is the
failure file, a sequence of records that may be malformed or another project's.

### SharedIndex and CallGraph

A run is one step, with the requests that fail drawn for it: what is followed is whose data it
touches. `vec` and `emb` are the strategy of each vector and embedding, `catalog` and
`listed` the chunks and symbols of each project's branch, `symbols` and `edges` the tables.
A symbol is its file, the file's version and its name, as its id is a hash of them.

### Readers

A file's contents are the number of the run that wrote it, with a mark if it is half
written. `load` is a load in progress, one step per file-system call; between any two the
other process writes, unlinks or recreates a file, or is killed. `noticed` and `written` are
the two fingerprints. Handles of databases are numbers, so that a handle that is closed
while a query or a mutation holds it can be told (`closed`). `loaded.astray` is history: a
mutation of this Indexer has published while the database it has open was no longer the one on
disk.

### ChunkStores

A vector is the text it was made from: `store.index` is what the native index holds under
an id, and `given` remembers what the store was last given for a chunk. Every native call
that can fail has its outcomes as a set (`AddOutcomes`, `AddBatchOutcomes`).

### BranchPreparation

The repository is three refs, the objects that are here, a temporary ref, a registration
and a directory; a commit is a number. `impact.step` is the next command. Each command may
fail, and some halfway; the branch moves and another run commits, labels or dies in between. That run keeps its branch.

### Search, Ranking

`search.allowed` is what was read from the catalogs when the candidates were collected.
Scores are the orders they give: any order of the store's items is a possible answer of
the store. `Ranking` follows the candidates through the stages; what a heuristic or the
reranker decides is drawn.

### Selection

A path is a node of a fixed tree and `disk` has those that exist; which names and patterns match a
path is given by constants. `phase` is the step of `collectFiles`, `ahead` the folders that are
still to be read, `entries` the files of the folder in hand. Between any two calls of the file
system somebody may make or remove a path; `touched` is history: what came or went since
the walk began. What throws while a root is walked ends that root.

### Configuration

A place is a checkout, or the home directory, with the host whose layout it has. `config` has the
file of each place, `built` the indexes that were made, `cache` the index that each session's
`Indexer` has open. A path in a list is a folder, or relative to whoever reads it (`Self`). `editing` is an
edit between what it has read and what it writes: the file is emptied in one step and written
in another. `before` and `alone` are history: what the session read when it began, and that nobody
has written since.

### Communities, ContextSearch, EditContext

`Communities` draws a graph, a branch and a change and evaluates every question about
them. `ContextSearch` draws a request and what each attempt finds; `EditContext` an index,
which another one replaces between the reads of a request.

## Runs

| run | question | bounds | result |
|---|---|---|---|
| `lock_dead_reclaimer` | a lock whose owner and reclaimer are both dead: does it go away, does acquiring end | 2 survivors that may die too | holds |
| `lock_reclaim_race` | the same with three survivors: is there one writer? | 3 survivors, no further kill | **two writers** |
| `autoindex` | overlap, forced rebuilds, stop, battery, status; is every caller answered, every change indexed | 3 events; up to 3 coordinators without a battery policy, one with the policy and the power changing; 7 promises at a time | holds |
| `autoindex_battery_deadlock` | is every change indexed with the battery policy on | 1 coordinator, 2 events | **a deadlock** |
| `embedding` | is each chunk stored whole or recorded, does a run end | 5 chunks, one of two parts and one of three, 2 runs, 2 requests in flight, 1 repeat | holds |
| `index_store` | the parts of `Index`: is a current index true, catalogued chunks found, vectors referenced, later runs accepted, completed runs complete; is an answer of one branch at one moment, and of its best; what the stages do to the hits | 2 processes, 2 files, 2 texts, 2 branches, 3 events, seven worlds; 3 chunks and a symbol, 2 branches, 3 runs; 4 hits | holds |
| `index_store_health` | the last of these with health checks | one process, one branch, no fault, 2 events | **a file is never indexed again** |
| `index_store_branch` | has a current index chunks of another branch | one process, no fault, 3 events: edits and checkouts, also in a run | **another branch's chunks are listed** |
| `shared_index` | does anybody lose another's data, is a whole run whole, is a strategy true, do branches' call graphs answer by their sources | 2 projects and a knowledge base, 2 versions of 3 files, 2 edits, one failing run, three worlds | holds |
| `shared_index_forced` | is a forced re-embed with a failed request whole after the next run | one world | **the project's other chunks are lost** |
| `host` | the parts of `Host`: the safety of the lease, and `IndexLease`, when processes die anywhere; the tidiness of a branch preparation; lost changes; what a walk collects; where an index is and what an edit changes; the two native stores | lock: 2 processes on a host and one on another, 2 attempts, one reusable pid, 2 UUIDs of a pid at a time; 2 commits, 3 failing commands; 3 changes; 6 folders, 9 files, 2 comings or goings; main and one worktree, 2 hosts, 6 layouts, 1 edit, 1 change by hand; 2 chunks of 2 texts, 3 ids, 1 native failure | holds |
| `retrieval` | the parts of `Retrieval`: what a reader has loaded, whether graph answers agree, what is shown | 2 publications, 1 read fault, 4 handles; graphs of up to 6 symbols; 4 pieces of evidence, 2 questions; 4 symbols, 2 replacements of the index | holds |

Each takes less than four minutes on two cores.

### Bounds, and why they are enough

- *Lock.* The protocol compares the token it has seen with the one that is there, so
  what matters is how many different owners pass a name between two steps of a process:
  two UUIDs of a pid and three processes give the stale reader, the owner and the
  newcomer. Two attempts take a process once round the loop with an outdated view; the
  code has six. The race of `lock_reclaim_race` needs three live processes, which
  `host` does not have on one host, because a process on another host never
  reclaims. `lock_reclaim_race` uses the symmetry of processes that start
  alike, `host` that of the UUIDs of a process; neither has a liveness property. In the two runs from a
  dead lock nobody takes a dead process's pid.
- *Coordinator.* Events are requests, edits, reconfigurations, replacements, power
  changes and stops; answers, retries, timers and follow-ups are not counted. Three
  coordinators put a barrier behind a barrier. Slots are a bound on promises at a time;
  `Room` keeps requests out when too few are free, never a step of the program.
- *Embedding.* Two chunks of the same text, one of two parts and one of three (a part begins with
  a header that names the file, so a longer path leaves less room), in batches of two requests of
  which two are in flight, put the parts of a chunk into two requests beside another chunk's; two
  runs let a record of the first be retried, with its count, by the second. The first call's chunks
  take three requests, and the second call can fail after the first has stored a chunk that the old file
  records, which the second run embeds again.
- *Artifacts.* Edits, checkouts, merges, kills and failed requests are the events. Two
  files let one be removed while another stays, two texts let a file return to what it was,
  two branches let a chunk lose one of its branches. Four events were explored for most
  worlds while the model was developed, with the same results. Publication numbers are
  reused once no file has them. At first all files that exist have the same text, which
  edits change. Files, texts and branches are symmetric; the properties of that run are
  safety properties.
- *Shared index.* Two projects, one TypeScript and one PHP file below their roots and a knowledge
  base in both scopes; the calls in them resolve in their file, in another, in two, in none,
  and without regard to case.
- *Readers.* Two publications of two writers, one of them perhaps killed and repaired: a file is
  torn, replaced and recreated within a load. One read that fails though the file is sound gives
  an issue and its retry. Four handles are more than are held at a time.
- *Branch preparation.* Two commits let a branch move once, three failing commands let a fetch, a
  removal and its check fail in one call.
- *Selection.* The tree has a folder below the depth limit, a hidden one, one that an ignore pattern
  matches, one whose name a watcher restricts, a knowledge base whose name begins with a dot, and a folder with more
  files than may be taken. One change falls before the folder is read and another after.
- *Configuration.* One worktree and main, each with the layout of the host or the legacy one. A list
  names a relative folder and one of the worktree, which for the worktree are the same, so that it is there
  twice; what is written by hand names one outside, sets the scope or breaks the provider. The
  write by hand falls before, into or after the one edit.
- *Search.* Three chunks and a limit of one let the prefilter double its limit twice; three runs let
  a chunk lose and regain its rows. `maxResults * 4` is one here: what matters is that it is
  smaller than the store.
- *Stores.* Two chunks and ids up to three let an id be vacated and taken again. One native failure
  in a behaviour suffices to part the maps from the index; saving and loading it follow.
- *Answers.* The lists are longer than the cuts (head, reranker's head, pool, budget). The graphs
  are all of three edges among four symbols, all subgraphs of the complete order on four, and
  two rings with their bridges; labels settle in fewer than the fifty rounds.

### The worlds of `index_store`

| world | what may happen |
|---|---|
| `Interrupted` | one process, `index` and retries, failed requests, kills, edits during a run |
| `Switched` | `index` and `force`, kills, checkouts and merges during a run |
| `Alternating` | two processes that are killed and that read before they write |
| `Collected` | two processes, `index` and `force`, the automatic health check, checkouts |
| `Checked` | two processes, `index` and the health check on request, checkouts |
| `GlobalScope` | a global index on one branch, failed requests, retries, forced rebuilds |
| `Throwing` | the rebuild of the vectors throws, checkouts |

What these leave out is left out because the property is then false, and the hazard list
says so at the line: kills in a global index, a second process that writes without
having read, a file that changes between its hash and its reading, two branches in a
global index, writes other than the rebuild that throw, and failed requests together with
health checks or with checkouts. Each of those worlds can be put into `Worlds` to see it.
`Calm` says it once, and is what the theorems about `IndexStore` assume.

### What the properties say

- `LeaseExclusive`, `LiveLeaseInPlace`: one writer; nobody else renames a live writer's
  lock. `CrashRemembered`, `WriterKnowsCrashes`: a killed writer's work is on record until
  repaired, and every writer is handed all of it. `LeaseRefined`: `IndexLease!Spec`.
- `ReclaimEnds`: liveness of the lock. A lock whose owner and reclaimer are dead goes away, and every
  acquisition ends.
- `SerialJobs`, `ForceHonoured`, `StopTerminal`, `BatteryHeld`, `StatusHonest`: safety of
  the coordinator. `BatteryHeld` says that a background run begins only at the end of a power check
  whose reading was AC or failed; the source may be another one by then; `CallsAnswered`, `ChangesIndexedOnMains`: its liveness.
- `StoredWhole`, `NothingForgotten`, `OutcomesRefined`, `RunEnds`: a chunk is never stored in
  part; what a run does not store it records, with one more attempt, and it leaves other
  projects' records alone; a call stores each chunk or records it, one of the two
  (`ChunkOutcomes!Spec`); every run ends. The two can still be seen together: a run that stores a chunk
  in one call and fails in the next leaves the old failure file, and the next run embeds the
  chunk again with its vector in place.
- `CurrentMeansIndexed`: when `getIndexFreshness` would say "current", the branch's catalog
  lists exactly the chunks of the checked-out tree and each has a vector. It is claimed
  when no recovery is pending and nobody runs health checks, of a branch from or to which no run
  was moved (`strayed`); see below for all three. `NoResultsOfOthers`, which is violated, is what is lost
  there.
- `ArtifactsAgree`: between two runs, catalogued chunks have their vector, words, row and
  embedding (`CatalogBacked`), and no vector is without a branch (`VectorsReferenced`); kills,
  failed requests and rebuilds that throw never leave an index that the next writer cannot open
  or refuses to update (`NeverRefused`).
- `UncheckedRunIndexes`: a run of `index` or `force` without a failed request leaves in the
  branch's catalog exactly the chunks of the tree it scanned. The branch is one from or to which no run was
  moved: neither this one nor an earlier one, whose hashes the run trusts.
- `ForeignKept`, `IndexedWhole`, `StrategyHonest`, `GraphClosed`, `ShortestPaths`: a shared index.
- `LoadedWhole`: what a reader has loaded is one publication. `NoStaleLoad`: what the next
  query would not load again is what is on disk, except for a database that the Indexer
  has missed the replacement of (`loaded.astray`, see below).
- `NothingLeftBehind`, `ImpactHonest`: a call of `getPrImpact` that reports no error of its clean-up
  leaves nothing, but for two cases in which the code reports none: a temporary ref that could not be
  read when it was to be deleted, and a directory in which the one for hooks could not be made. A
  directory never goes before its registration. The impact is that of the commit asked for.
- `NoChangeLost`: watchers that have come to rest have reported what chokidar noticed.
- `SelectionHonest`: a walk during which the watcher has noticed no change has collected what the
  rules admit of the tree as it is. A change that the watcher does not see, though a walk would, is
  of the named blind spot.
- `IndexInherited`: a worktree without a configuration of its own resolves the index of main, unless
  neither is made; a session's project index is one of its project. `EditKeepsRest`: an edit that
  nobody overlaps changes the base it names and nothing else that the session reads.
- `SearchHonest`: the prefilter finds the best of the branch; an answer is of one branch at one
  moment and passes the filters.
- `StoresSound`: an id is never that of another chunk's vector, what is saved agrees.
  `KeywordsExact`: document frequencies and lengths are exact. `RankingKeeps`: what each stage may do to the hits.
- `CommunitiesHonest`, `ContextHonest`, `EditHonest`: the answers of different questions agree;
  nothing outside the filters is shown unless every attempt within them failed, and the
  answer says so; an edit's context is about the symbol it names.

Every property of a passing run has a seeded fault: a change to a definition that models
code, of the kind a wrong edit would make, under which TLC finds the property violated
(`PROJECT.json`, "mutants").

## Fairness

- *Lock*: weak fairness of each live process's next call, and of asking again. The calls are
  synchronous and local, and the coordinator retries. Killing and restarting are not fair.
- *Coordinator*: weak fairness of callbacks (the microtask queue is drained), of the answers
  of a job (an `await` of the Indexer ends: requests time out or fail, the lock is not waited
  for), of the power reading (a child process with a time limit), and of the watcher's
  notification (a timer). Events are not fair: nothing depends on the user.
  `ChangesIndexedOnMains` assumes that the machine does not stay on battery for ever.
- *Embedding*: weak fairness of the requests (each is answered, fails or times out, and p-queue
  starts the next) and of the call itself. Beginning a run is not fair.
- Everything else is checked for safety only.

## Proofs

For all values of the constants:

| theorem | states | assumes |
|---|---|---|
| `IndexLockProofs`: `Typing` | `TypeOK` | `ConstantsAssumption` |
| `Exclusion` | `LeaseExclusive` | also `HolderFaults` |
| `LiveLease` | `LiveLeaseInPlace` | also `HolderFaults` |
| `Remembered` | `CrashRemembered` | also `HolderFaults` |
| `Known` | `WriterKnowsCrashes` | also `HolderFaults` |
| `Refinement` | `LeaseRefined` | also `HolderFaults` |
| `AutoIndexProofs`: `SerialRuns` | `SerialJobs` | `BoundsAssumption`, `SwitchAssumption`, `RequestsAssumption` |
| `RebuildsHonoured` | `ForceHonoured` | the same |
| `StatusBacked` | `StatusHonest` | the same |
| `StopIsTerminal` | `StopTerminal` | the same |
| `BatteryIsHeld` | `BatteryHeld` | the same |
| `IndexStoreProofs`: `Invariant` | `IInv` | `WorldsAssumption`, `EventsAssumption`, `AbsentAssumption`, `NoneAssumption`, and a `Calm` world |
| `Agreement` | `ArtifactsAgree` | the same |
| `Currency` | `CurrentMeansIndexed` | the same |
| `Completion` | `UncheckedRunIndexes` | the same |
| `EmbeddingBatchesProofs`: `NeverInPart` | `StoredWhole` | `ScopeAssumption` |
| `HostProofs`: `ChangesReported` | `NoChangeLost` | nothing |
| `LeavesNothing` | `NothingLeftBehind` | nothing |
| `AnswersForCommit` | `ImpactHonest` | nothing |
| `InheritedAlways` | `IndexInherited` | `ConfigurationAssumption`, `LayoutsAssumption` |
| `EditsKeepRest` | `EditKeepsRest` | the same |
| `SelectionIsHonest` | `SelectionHonest` | `TreeAssumption`, `DisksAssumption`, `LimitsAssumption` |
| `ReadersProofs`: `ReadsWhole` | `LoadedWhole` | `ReadersBounds` |
| `LoadsAreFresh` | `NoStaleLoad` | `ReadersBounds` |
| `SharedIndexProofs`: `GraphStays` | `GraphClosed` | `ScopesAssumption`, `VersionAssumption`, `NoSymbolAssumption` |
| `StrategyKept` | `StrategyHonest` | the same |
| `OthersKept` | `ForeignKept` | also `CollectionApart` |
| `RunsWhole` | `IndexedWhole` | also `CollectionApart` |
| `RetrievalProofs`: `StoresStaySound` | `StoresSound` | `StoresAssumption` |
| `KeywordsStayExact` | `KeywordsExact` | also `TextAssumption` |
| `SearchIsHonest` | `SearchHonest` | `SearchAssumption` |
| `ContextAnswersHonest` | `ContextHonest` | `EvidenceAssumption`, `RequestAssumption` |
| `EditAnswersHonest` | `EditHonest` | `IndexesAssumption` |

*The lock.* `ConstantsAssumption` gives the constants their types. `HolderFaults` excludes kills
inside `reclaimDeadOwner` and the reuse of pids. The first is necessary: `lock_reclaim_race`
starts from a lock with a dead reclaimer's claim and reaches two writers.

*Typing* needs more than the types: a process in the middle of a call has its
own token, which its pid owns, and the values its frame holds (`FrameOK`). *LeaseInv* is the
inductive invariant of the rest:

1. What is being reclaimed or recovered belongs to dead processes, and they stay dead
   (`DeadTokens`; here pid reuse would break it).
2. A claim that names the lock it lies in is the claim of a live process that is still
   reclaiming it (`ClaimLive`; here a kill inside `reclaimDeadOwner` would break it).
   Therefore nobody finds a dead claim to remove (`NoSeizure`), and a claim that has stood
   once stands until its process has renamed the lock away (`ClaimKept`).
3. So only the one reclaimer of a dead lock, or its own live holder, moves a lock
   (`LiveLeaseInPlace`), and two holders would have to hold the same lock.
4. The marker of a lock that is still in place is its reclaimer's (`MarkerOfLock`), it is
   written before the lock goes, and only a writer that has succeeded removes markers
   (`Repaired`): nothing unrepaired is forgotten.

The preservation proof does not go through the thirty actions once per conjunct. `StepEffect`
classifies every step by what it does to the shared state (the `Effect` of one process: a
move of the lock, of a claim, of a marker, or of nothing); each conjunct has a lemma over
those few effects.

*The watchers.* `NoChangeLost` speaks of the state of rest; the invariant says where a change is
until then: held back by chokidar, in the batch, missed, or behind a configuration that cannot
be read (`SourcesFollowed`, `ConfigFollowed`, `HeadFollowed`), and that a batch always has its
timer (`BatchTimed`). At rest only the last two are left. The bound on changes plays no part in it.

*The coordinator.* The invariant ties every promise to the field that leads to it (`FieldsOK`,
`SlotOK`). A coordinator has at most one job, the one in `inFlight`; one that was replaced is
stopped, and its job is what the next one's barrier waits for, so a second job cannot begin
(`SerialRuns`). A job is aborted only by a stop, by automatic indexing being switched off, or
by a forced request that waits for its end. A forced call waits for the end of a job
or for a forced job, and what it is answered with is that job's answer or that of a stop
(`RebuildsHonoured`). A status that claims work has the promise that does it
(`StatusBacked`). A background job begins either with the policy off or as the continuation of
a power check that has read "AC" or failed (`BatteryIsHeld`). The invariant was model-checked before it was
proved, with two coordinators and three events.

*The embedding batches.* A chunk of the call is pooled from all of its parts or not yet
(`PooledWhole`), and so are the embeddings that the database has and those it had when
the run began, to which an aborted run returns (`CachedWhole`). That every part of a chunk counts
once rests on the failed chunks being counted once (`FailedCounted`). The numbers of chunks,
parts and requests are arbitrary.

*The artifacts.* `IInv` has one assertion for each place of a run (`ReadyPhase`, `ScannedPhase`, ...,
`RetryPhase`), and nearly all of them are of one kind: that a database `d`, the keys of the vectors, the
hash caches and the failure records are `Whole`. That is: the vectors are those that the catalogs refer
to, and have rows and embeddings; a failed chunk has its row and is in no catalog of its branch; the
chunks of the hashed files of an indexed branch are in its catalog or have failed; the data has
the path format of its scope, or there is none. The part about hashes is not said of the `strayed` branches.
A run whose parts have different branches has strayed with all of them (`Placed`), so what it writes for
a branch that has not strayed is all of one tree. What changes from place to place is *which* values are
whole:

1. between two runs, and until `Scan`, those on disk;
2. between `Embed` and `Catalog`, still those on disk, while the vectors in memory hold the
   new chunks besides (`EmbeddedPhase`);
3. from `Catalog` on, what the artifacts will be at the end: the transaction, the scanned tree as the hash
   cache, the new records (`Target`). Each publishing step moves one artifact there, so
   the phase is the list of those that are left (`Publishing`);
4. while the vectors are rebuilt, besides, what is left if that throws: the pair that was set aside, with
   the database as it was (`Restorable`);
5. after a kill nothing, in a project's own index: the next writer starts from no index. `Db` is then
   the unlinked file for a process that has not noticed, hence the condition on `reads`.

The lemmas `WholeEmbed`, `WholeCatalog` and their like say once what a step makes of a whole index,
of arbitrary values instead of the variables; the lemmas `Inv...`, one for each action, apply them.
The lists of steps are written with `Cons`, and `StepFacts` is all that the proofs know of sequences.

`Calm` says in which worlds this holds, a little more than those that `index_store` explores
(`SoundWorldsAssumption`): any number of processes, any mixture of operations. Each of its conjuncts
keeps out a counterexample of TLC's: a file that changes between hash and reading; a write other than a
rebuild that throws; in a global index, a kill between the renames of a vector file and its metadata,
and two branches with one hash cache; a failed chunk whose row is dropped, by a collection or because a
second branch has embedded the chunk and left it; a rebuild by a health check that throws after the
catalog lost its chunks; an automatic health check before a run that does not scan the same tree. Without `NoneAssumption`,
that `None` is none of the values it stands beside, the types say nothing.

*The branch preparation.* `TidyInv` says in which steps the temporary ref, the directory
and the worktree may be there; whatever is left after an error is in a call that
reports it (`untidy`) or is one of the two exceptions (`overlooked`). `HonestInv` follows the commit: the catalog holds what its label says
unless a run is between commit and label, and from the step that has found or made the
catalog of the commit it is the right one unless another run has overtaken the call.

*The configuration.* `IndexInherited` is a comparison of what main and a worktree test, case by
case. For `EditKeepsRest` the invariant says of an edit that nobody has overtaken what the session
would read if it were written now: `Explains`, what was read before but for the folder. It is
established when the edit begins (`EditBegun`), where everything happens: the list comes through whichever
file was found, is rebased, resolved, changed and shortened again. `RuntimeFacts` says what a session
reads as the union of what two lists name; `PathFacts`, that resolving undoes shortening, and that a
shortened path is not rebased when it is read back from the session's own file; `RemoveFirstFacts`, that a folder
which the list names twice stays. After that a step either leaves the edit and the global file alone or
overtakes it.

*The selection.* A file that has been there since the walk began is, for every root that was
walked: collected, or crowded out by smaller ones of its folder, or of a root that is reported as
skipped; and for the root in hand it may still be pending, in the folder that was read or below one
that is to be read (`RootsCovered`, `Pending`). The folders above a file that stays stay too (`DiskClosed`), so
the walk cannot lose the way to it: `NextSegment` has the next folder on it, and that the rules which
select the file pass that folder. A file that was touched and that the watcher passed over is in a blind
spot (`UnwatchedBlind`). `TreeAssumption` says that the paths are a tree, `DisksAssumption` that what exists is in
folders that exist, `LimitsAssumption` that there are finitely many files.

*The readers.* Which files carry the number of the publication under way follows from its
step (`FilesInv`), and a kill is the only way they come apart. The hash that an optimistic load reads
back is that of the metadata it began with, or that metadata is of a past publication
(`OptimisticInv`): a pair that passes the check is of one publication. A fingerprint
names versions that the files have or had, and a version never comes back (`KnownInv`): what
was loaded under a fingerprint that is the files' again is what they hold (`FreshInv`, `LoadInv`).
The proof is what found `loaded.astray`: without it `NoStaleLoad` fails at four publications,
twice what the run has.

*The shared index.* Every operation is put into a flat form first: what it does to a chunk, a symbol
and an edge. `Graph`: the table of edges has exactly the edges of the symbols that some branch lists,
and a branch lists all symbols of a version of a file or none. `Strategic`: an old embedding
of a project's own file belongs to a vector in its own catalog, and while one is left the index
names its strategy. These two need nothing. `Stored` (what is catalogued is in every store)
and `Hashing` (a cached hash names the chunks and symbols its project lists) are invariants
only where requests do not fail in an index that clears or health checks collect (`CollectionApart`):
outside of it TLC finds `ForeignKept` and `IndexedWhole` violated, by the defect of
`db.rs:1074` below. `ScopesAssumption` puts every file into a scope and no project's root into
the scope of another, which leaves nested roots out.

*The vector store.* An id that is bound was given out, and its key has it (`IdsBound`). A batch that
fails leaves vectors under ids that are *not* yet given out, so they are nobody's; `add` finds the
id taken and spends it. What is bound is what was last given for the key (`VectorsGiven`). A store
that passes the check of `save` has as many ids as keys, and as no two ids have one key,
every key has its id: that a saved pair is right follows from counting.

*The keyword index.* The invariant is that the index, in memory and on disk, is one of `Words`: the
ones whose postings and total are those of their chunks. `Indexed` keeps that only for a chunk that
is not there, which is why `removeChunk` comes first in every replacement. The total is a sum that the library
takes in an order of its own choosing, so the proof first shows that a fold over a finite set exists
(`FoldExists`), that two of them agree (`FoldAgree`) and that a sum may begin with any element (`SumStep`):
each by a smallest set on which it would be wrong (`SmallestSubset`), since the library's own induction
theorems take an operator, which the provers cannot instantiate.

*The search.* `AnswersScoped` needs that the candidates which are collected before the reranker is awaited
are of the branch they were collected for (`CollectedWell`): what is added after the pause is
filtered by what was kept of that branch, and nothing else reads the catalog again. `PrefilterBest` is
about functions alone, and speaks of every limit. The loop that doubles the limit is a recursive function, and
ends where it may stop (`PrefilteredIs`, by induction on what is left to the store's size); the answers
to all limits are beginnings of one order, and what is kept of a beginning is a beginning of what is kept of the
order (`AmongCut`, by induction on its length). It is long enough because the target is the smaller of the limit
and the branch's size, and no more of the branch can be in an order that has nothing twice (`OnceInSet`).
The inductions are over sets of numbers (`InductionTo`).

*The context search.* While a request waits, what was made so far found nothing, and with what is pending it is
the plan (`Waiting`); every plan asks within the filters first, and without them only what it has
asked within them (`Ordered`). The rest is about `BuildContextPack`, for any results: the two sorts
end, because what they compare by puts any two results in an order (`SortedExists`), and give the results
back in another order (`Rearranges`); what the duplicates' filter drops overlaps something that it kept and that
is ranked before (`AcceptedIs`); the number taken is one at which the text fits. That a text cut by bisection
fits needs no order among its beginnings, only that the shortest does (`BisectionFits`).

*The edit context.* One clause for each thing that a step of a request hands on to the next: what it is
whatever happens to the index, and what it is if the index has stayed (`steady`).

What stays with TLC, and why:

- liveness and everything that needs ENABLED: `CallsAnswered`, `ChangesIndexedOnMains`, `RunEnds`,
  the liveness of the lock;
- recursion over data: `NothingForgotten` and `OutcomesRefined` (which requests a greedy split makes,
  which record is the latest), `ShortestPaths`, `Ranking`, `Communities`;
- the lease under kills inside `reclaimDeadOwner`, where it is false.

## Disagreements with the documentation

Each of these is a run that ends in a counterexample; `PROJECT.json` quotes the text.

1. `removeDeadReclaimMarker` can take a live reclaimer's claim away, and two processes then hold
   the lease (`lock_reclaim_race`).
2. With the battery policy on, on AC power, a change reported during a manual run makes the
   battery check and its own follow-up wait for each other; no later background request is
   served (`autoindex_battery_deadlock`).
3. After a health check while a file is away, the file is never indexed again when it comes back
   as it was (`index_store_health`): its chunks are dropped, its hash is not.
4. A forced re-embed in which a request fails is finished by a run that drops the project's other
   chunks from its catalog (`shared_index_forced`).
5. A query that notices a checkout while a run of its `Indexer` is under way makes the run save its file
   hashes and label for the new branch and its catalog for the old one; one of them is then
   reported current with the other's chunks (`index_store_branch`).

The models reach these too; they have no run of their own, and most are in the hazard list:

- a kill between the unlink and the rmdir of a recovery marker leaves an empty directory, and
  every later acquisition throws until somebody removes it (`index-lock.ts:563`);
- a claim left in a later lock of the same pid blocks its reclaim (`index-lock.ts:334`);
- a process that did not read the index since another one's recovery replaced the database
  writes into the deleted file (`index.ts:3615`); it then takes the new database's identity for
  that of the file it has open (`index.ts:1371`), and no later query opens the new one;
- a file that an exclude pattern matches is indexed all the same, if an include pattern matches it too:
  the `continue` of the loop over the patterns goes on with the next pattern, not with the next
  file (`files.ts:190`; the watcher, by `shouldIncludeFile`, leaves it out);
- a run that a query has moved to another branch loses failure records: its new ones go to the file of the
  branch it began with, or, if it has none, it removes the file of the other (`index.ts:2042`);
- a file that changes between its hash and its reading, and changes back, is indexed with the wrong
  content and reported as current (`index.ts:3831`);
- a commit that throws after the hashes are saved leaves an index that is reported as
  current (`index.ts:4439`), and so does a kill there until the next writer;
- an error between the two vector files makes every later run refuse (`store.rs:299`);
- an error after the rebuild rolls back the rows and not the vectors (`index.ts:4342`);
- a retry drops the failure records before it saves the vectors (`index.ts:5410`);
- a health check between a failed request and its retry leaves a catalogued chunk without
  a row (`db.rs:1074`), and so does a second branch that has embedded the chunk and left it
  (`index.ts:4305`);
- in a global index: kills between the unlinks of the `.bak` files (`index.ts:3273`) or after
  the first run's vectors are saved (`index.ts:3744`), and a fast-forward to an indexed
  branch (`index.ts:1262`);
- a query that waits for its embedding finds its database closed by a mutation that repairs, or
  by `getPrImpact`; so does a mutation of the same `Indexer` that `getPrImpact` overtakes
  (`index.ts:3616`, `index.ts:5932`);
- the keyword index that a writer reloads stays in memory if its file is gone
  (`inverted_index.rs:32`);
- the temporary directory stays when the one for hooks cannot be made
  (`branch-materialization.ts:213`), and the temporary ref when both readings of it fail
  (`branch-resolution.ts:320`);
- a run that ends between its commit and the label of the branch leaves the old label on new
  symbols, and an impact is computed from them (`index.ts:4473`);
- a batch of changes that comes with an unreadable configuration is dropped
  (`watcher/index.ts:58`);
- before an index is made, main and a worktree that inherits from it may resolve different
  places for it (`config/paths.ts:209`);
- a `saveConfig` that is interrupted leaves an empty file, and two that overlap lose one of the
  edits (`config-state.ts:60`);
- a base that a list names twice stays after it was removed.

## What is not modelled

- *Lock*: retries of EBUSY and EPERM, removal of dead candidate directories, file systems whose
  rename is not atomic, `withIndexLock` (nothing calls it).
- *Coordinator*: the time limit of a retrieval that waits for a run, progress snapshots, an
  Indexer that cannot be constructed, two hosts of a project that share a coordinator. `safeToRun` is a constant.
- *Watchers*: how the Git directory is found (which paths are watched is in `Selection`); errors of permission, which are ignored;
  an error of the Git watcher, for which the code has no handler.
- *Artifacts*: blame, migrations of older indexes, inherited worktree indexes, a corrupted
  database, files with several chunks. The two renames of a rebuild are one step. The commit that
  `getIndexFreshness` compares is left out: it can only make an index count as not current.
  Embedding requests are one step whose failures are a set of chunks. The orphan collection that may follow
  the commit (`index.ts:4446`) is no step: it collects only when there are more embeddings than
  chunks, and `replaceBranchCatalog` has dropped the orphans in the same transaction (`index.ts:1553`).
- *Embedding*: the arithmetic of pooling, and of the backoff, which is a number of units.
- *Shared index*: interleavings and kills (a run is one step), branches (one per project), nested roots.
- *Selection*: the matching of globs and of `.gitignore`, which is a constant; the order of folders; a file
  that two roots have; roots that are links.
- *Configuration*: all fields but three, of which one stands for the rest; worktrees inside main; the
  order of merged lists; which environment variables are substituted, but for one that is missing.
- *Stores*: BM25's arithmetic and the nearest-neighbour search, whose orders are drawn.
- *Readers*: `close`, and the reports that read without refreshing. The handles that a retirement keeps
  open until `close` are not counted.
- *Branch preparation*: kills of the process, which leave a registered worktree; git's output;
  the pull request's base.
- *Search and ranking*: the heuristics that give scores and read a query's intent, the query
  embedding cache; the text of a snippet, which is read from the working tree when the answer is
  put together (`index.ts:4924`) and may be newer than the chunk that was found.
- *Tools*: formatting, symbol inference, routing, tools that pass one call on.
- *Everything listed as not modelled in `PROJECT.json`*, with the reason: parsers, network
  clients, adapters, the evaluation harness and the visualisation have no
  concurrent or persistent state of their own.

## Plan

The modules above are complete as far as the section before says. What is left, in order:

1. `IndexStore` with symbols, and `SharedIndex` with kills.
2. The migrations of older indexes, and inherited worktree indexes.

## Running the tools

```
tlc -config MCIndex.cfg MCIndex
tlapm IndexLockProofs.tla
tlapm HostProofs.tla               # and likewise every other module named ...Proofs
```
