----------------------------- MODULE IndexStore -----------------------------
(***************************************************************************)
(* What a mutation does to the artifacts of an index, and in which order   *)
(* (src/indexer/index.ts, with native/src/store.rs and db.rs).             *)
(*                                                                         *)
(* An index is six artifacts that no transaction spans: `vectors` and      *)
(* `vectors.meta.json`, bound to each other by a fingerprint; the keyword  *)
(* index; the file-hash cache; the failed-batches file; and the database   *)
(* with its branch catalogs.  A run computes what changed from the hash    *)
(* cache, embeds it, and publishes one artifact after the other.  It may   *)
(* be killed between any two of them, its embedding requests may fail, and *)
(* the user edits files, checks out branches and merges them.              *)
(*                                                                         *)
(* A file has one chunk; the chunk's id stands for the path and the text   *)
(* (generateChunkId), the embedding's key for the text (generateChunkHash).*)
(* The lease is taken as IndexLease promises it: one writer, which learns  *)
(* whether a writer was killed before it.                                  *)
(***************************************************************************)
EXTENDS Integers, Sequences

CONSTANTS
  Proc,      \* processes with an Indexer on this index
  File, Text, Branch,
  Shared,    \* the runtime-state namespace of a global index
  Absent,    \* the text of a file that is not there
  None,
  Worlds,    \* the fault models to explore: see World
  Events     \* how many edits, checkouts, kills and failures may happen

Ops == {"index", "force", "retry", "health"}

\* What can happen in a behaviour besides edits between two runs.
World == [scope : {"project", "global"},
          procs : SUBSET Proc,
          ops : SUBSET Ops,
          gc : BOOLEAN,        \* the automatic health check falls due
          fails : BOOLEAN,     \* embedding requests fail after their retries
          kills : BOOLEAN,     \* a writer is killed
          reads : BOOLEAN,     \* a process reads the index before it mutates it
          checkouts : BOOLEAN, \* branches are checked out and merged
          races : SUBSET {"running", "reading"},  \* the tree changes in a run, also
                               \*   between the hashing and the reading of a file
          faults : SUBSET {"rebuild", "putVec", "putMeta", "putInverted", "putHashes",
                           "putFailed", "commit"}]  \* writes that may throw

\* The worlds in which the three properties hold.  TLC shows what each conjunct keeps
\* out: a file read after it was hashed in another form; a write that throws halfway; a
\* killed writer of a global index, whose files are not reset, or a second writer that
\* has not noticed that they were; the row of a failed chunk, dropped with the last
\* catalog that has it, on another branch or by a health check; a health check whose
\* rebuild throws, or an automatic one before a run that does not scan the same tree.
Calm(w) ==
  /\ w.races \subseteq {"running"}
  /\ w.faults \subseteq {"rebuild"}
  /\ w.kills => w.scope = "project" /\ (w.reads \/ \A p, q \in w.procs : p = q)
  /\ w.checkouts => w.scope = "project" /\ ~w.fails
  /\ w.gc \/ "health" \in w.ops => ~w.fails /\ w.faults = {}
  /\ w.gc /\ "health" \notin w.ops => w.races = {} /\ "retry" \notin w.ops

ASSUME WorldsAssumption == Worlds \subseteq World
ASSUME EventsAssumption == Events \in Nat
ASSUME AbsentAssumption == Absent \notin Text

Chunk == File \X Text
Tree == [File -> Text \cup {Absent}]
Namespace == Branch \cup {Shared}

\* A vector file: the publication it is of, and its vectors.  NewPublication has five to
\* choose from.
Publication == [n : 0 .. 4, keys : SUBSET Chunk]

Database == [chunks : SUBSET Chunk, embeddings : SUBSET Text,
             catalog : [Branch -> SUBSET Chunk], versions : SUBSET Branch, format : BOOLEAN]

StepName == {"open", "scan", "embed", "catalog", "putHashes", "putFailed", "commit",
             "metadata", "setAside", "putVec", "putMeta", "dropVec", "dropMeta",
             "putInverted", "health", "rows", "gc", "clear", "wipe", "clearDb", "retry"}

Mutation == [by : Proc, op : Ops, branch : Branch, now : Branch, file : Branch,
             todo : Seq(StepName),
             mem : SUBSET Chunk, seen : Tree \cup {None}, changed : SUBSET File,
             previous : SUBSET Chunk, existing : SUBSET Chunk, current : SUBSET Chunk,
             lost : SUBSET Chunk, records : SUBSET Chunk, embeds : BOOLEAN,
             drop : SUBSET Chunk, compatible : BOOLEAN, tx : Database \cup {None}]

ASSUME NoneAssumption ==
  /\ None \notin Proc \cup Publication \cup Database \cup Mutation
  /\ \A chunks \in SUBSET Chunk : None # chunks

VARIABLES
  world,
  refs, branch,  \* the tree of each branch; the branch that is checked out
  strayed,       \* history: the branches between which a run has been moved
  pub,           \* vectors, vectors.meta.json and their .bak files
  inverted, hashes, failed, db,
  mode,          \* initializationMode: the process has, or has not, opened the
                 \*   index as a writer
  inv,           \* its InvertedIndex in memory
  gone,          \* the database behind its handle, once the file was unlinked
  holder,        \* the process with the lease
  crashed,       \* recoveries are pending: a killed writer's work
  run,           \* the mutation in progress
  left           \* events left

repo   == <<refs, branch, strayed>>
files  == <<pub, inverted, hashes, failed, db>>
memory == <<mode, inv, gone>>
lease  == <<holder, crashed>>
vars   == <<world, repo, files, memory, lease, run, left>>

-----------------------------------------------------------------------------
tree == refs[branch]
Present(t) == {f \in File : t[f] # Absent}
ChunksOf(t) == {<<f, t[f]>> : f \in Present(t)}
TextsOf(chunks) == {c[2] : c \in chunks}
Referenced(catalog) == UNION {catalog[b] : b \in Branch}

\* Seeded fault: chunks of other branches are removed too.
RemovesAll(candidates, catalog) == candidates

\* getReferencedChunkIds, and the filter that follows it: the chunks no branch needs.
Removable(candidates, catalog) == candidates \ Referenced(catalog)

\* Seeded fault: the hash cache is not kept by branch.
OneKey(b) == Shared

\* getRuntimeArtifactNamespace: a global index has one hash cache and one
\* failed-batches file for all branches.
Key(b) == IF world.scope = "global" THEN Shared ELSE b

\* load and load_strict: both files or none, and of the same publication.
Readable(p) ==
  \/ p.vec = None /\ p.meta = None
  \/ p.vec # None /\ p.meta # None /\ p.vec.n = p.meta.n

Keys(p) == IF p.vec = None THEN {} ELSE p.vec.keys

NewPublication(keys) ==
  LET used == {pub[x].n : x \in {y \in DOMAIN pub : pub[y] # None}}
  IN  [n |-> CHOOSE i \in 0 .. 4 : i \notin used /\ \A j \in 0 .. i - 1 : j \in used,
       keys |-> keys]

\* recoverLeaseArtifacts, and the catch of rebuildVectorStoreExcludingChunkIds.
Restored(p) ==
  [vec |-> IF p.bakVec = None THEN p.vec ELSE p.bakVec,
   meta |-> IF p.bakMeta = None THEN p.meta ELSE p.bakMeta,
   bakVec |-> None, bakMeta |-> None]

NoHashes == [f \in File |-> Absent]  \* no file, or an empty one

NoPublication == [vec |-> None, meta |-> None, bakVec |-> None, bakMeta |-> None]

\* Seeded fault: a project's own index is repaired like a global one.
RecoveredInPlace(p) == IF crashed THEN Restored(p) ELSE p

\* What the next writer makes of a killed one's files: a project's own index is
\* reset.
Recovered(p) ==
  IF ~crashed THEN p
  ELSE IF world.scope = "project" THEN NoPublication ELSE Restored(p)

EmptyDatabase == [chunks |-> {}, embeddings |-> {}, catalog |-> [b \in Branch |-> {}],
                  versions |-> {}, format |-> FALSE]

\* The database a process talks to: SQLite keeps an unlinked file open.
Db(p) == IF gone[p] = None THEN db ELSE gone[p]

WriteDb(p, d) ==
  IF gone[p] = None THEN db' = d /\ UNCHANGED gone
                    ELSE gone' = [gone EXCEPT ![p] = d] /\ UNCHANGED db

\* A run is the rest of its steps and the local variables they share.  `now` is the
\* Indexer's currentBranch, `branch` that whose catalog the run reads and writes, and
\* `file` that whose failed-batches file it rewrites.
NewRun(p, op) ==
  [by |-> p, op |-> op, branch |-> branch, now |-> branch, file |-> branch,
   todo |-> <<"open">>,
   mem |-> {}, seen |-> None, changed |-> {}, previous |-> {}, existing |-> {},
   current |-> {}, lost |-> {}, records |-> {}, embeds |-> FALSE,
   drop |-> {}, compatible |-> TRUE, tx |-> None]

At(step) == run # None /\ run.todo # <<>> /\ Head(run.todo) = step

\* The next steps take the place of this one.
Then(steps, r) == [r EXCEPT !.todo = steps \o Tail(@)]

Done == run' = Then(<<>>, run)

Spend == left > 0 /\ left' = left - 1

\* The catch and finally blocks: roll back, discard the temporary failed-state
\* file, release the lease.  Recoveries stay pending.
GiveUp ==
  /\ run' = None
  /\ holder' = None
  /\ UNCHANGED crashed

-----------------------------------------------------------------------------
\* An index that does not exist yet, over branches that agree; at first every file
\* that is there has the same text (edits make them differ).
Init ==
  /\ world \in Worlds
  /\ refs \in [Branch -> {t \in Tree : \A f, g \in Present(t) : t[f] = t[g]}]
  /\ \A b, c \in Branch : refs[b] = refs[c]
  /\ branch \in Branch
  /\ strayed = {}
  /\ pub = NoPublication
  /\ inverted = None
  /\ hashes = [k \in Namespace |-> NoHashes]
  /\ failed = [k \in Namespace |-> {}]
  /\ db = None
  /\ mode = [p \in Proc |-> "none"]
  /\ inv = [p \in Proc |-> {}]
  /\ gone = [p \in Proc |-> None]
  /\ holder = None
  /\ crashed = FALSE
  /\ run = None
  /\ left = Events

-----------------------------------------------------------------------------
(* The user's tree.                                                        *)

Quiet == run # None => (IF At("embed") THEN "reading" ELSE "running") \in world.races

Edit ==
  /\ Quiet /\ Spend
  /\ \E f \in File, t \in Text \cup {Absent} :
       tree[f] # t /\ refs' = [refs EXCEPT ![branch][f] = t]
  /\ UNCHANGED <<world, branch, strayed, files, memory, lease, run>>

Checkout ==
  /\ world.checkouts /\ Quiet /\ Spend
  /\ \E b \in Branch \ {branch} : branch' = b
  /\ UNCHANGED <<world, refs, strayed, files, memory, lease, run>>

\* A fast-forward: the branch gets the tree of another one.
Merge ==
  /\ world.checkouts /\ Quiet /\ Spend
  /\ \E b \in Branch : refs[b] # tree /\ refs' = [refs EXCEPT ![branch] = refs[b]]
  /\ UNCHANGED <<world, branch, strayed, files, memory, lease, run>>

-----------------------------------------------------------------------------
(* withIndexMutationLease                                                  *)

Begin(p, op) ==
  /\ holder = None
  /\ p \in world.procs /\ op \in world.ops
  /\ world.reads => gone[p] = None
  /\ holder' = p
  /\ run' = NewRun(p, op)
  /\ UNCHANGED <<world, repo, files, memory, crashed, left>>

Finish ==
  /\ run # None /\ run.todo = <<>>
  /\ run' = None
  /\ holder' = None
  /\ crashed' = FALSE
  /\ UNCHANGED <<world, repo, files, memory, left>>

Indexing == <<"scan", "embed", "catalog">>
Saving == <<"putVec", "putMeta", "putInverted">>
Rebuilding == <<"setAside", "putVec", "putMeta", "dropVec", "dropMeta">>

\* What each operation does once the index is open.
Plan(op) ==
  CASE op = "index"  -> Indexing
    [] op = "force"  -> <<"clear">> \o Saving \o <<"wipe", "clearDb">> \o Indexing
    [] op = "retry"  -> <<"retry">>
    [] op = "health" -> <<"health">>

\* Every index needs the path format of its scope once it holds data.
Compatible(d, keys, cache) ==
  \/ world.scope = "global"
  \/ d.format
  \/ keys = {} /\ d.chunks = {} /\ cache = NoHashes

\* ensureInitializedUnlocked: reopen the artifacts, after a kill from nothing in
\* a project's own index; or reload the vectors and the keyword index in place.
\* A writer's handle on the database is reused as it is.
Open ==
  LET p == run.by
      reopens == crashed \/ mode[p] = "none"
      resets == crashed /\ world.scope = "project"
      repaired == Recovered(pub)
      d == IF resets \/ (reopens /\ db = None) THEN EmptyDatabase
           ELSE IF reopens THEN db ELSE Db(p)
      current == IF reopens THEN branch ELSE run.now
      cached == IF crashed THEN NoHashes ELSE hashes[Key(current)]
      checks == IF crashed /\ world.scope = "global" THEN <<"health">> ELSE <<>>
  IN
  /\ At("open")
  /\ pub' = repaired
  /\ \/ /\ ~Readable(repaired)
        /\ mode' = [mode EXCEPT ![p] = IF reopens THEN "none" ELSE @]
        /\ gone' = [gone EXCEPT ![p] = IF reopens THEN None ELSE @]
        /\ GiveUp
        /\ UNCHANGED <<inverted, hashes, failed, db, inv>>
     \/ /\ Readable(repaired)
        /\ mode' = [mode EXCEPT ![p] = "writer"]
        /\ inverted' = IF resets THEN None ELSE inverted
        /\ inv' = [inv EXCEPT ![p] = IF inverted' # None THEN inverted'
                                     ELSE IF reopens THEN {} ELSE @]
        /\ hashes' = IF crashed THEN [k \in Namespace |-> NoHashes] ELSE hashes
        /\ failed' = IF resets THEN [k \in Namespace |-> {}] ELSE failed
        /\ db' = IF reopens THEN d ELSE db
        /\ gone' = [q \in Proc |->
             IF q = p /\ reopens THEN None
             ELSE IF q # p /\ resets /\ mode[q] = "writer" /\ gone[q] = None
                  THEN db ELSE gone[q]]
        /\ \E due \in BOOLEAN :
             /\ due => world.gc
             /\ run' = [Then(checks \o (IF due THEN <<"health">> ELSE <<>>) \o Plan(run.op), run)
                          EXCEPT !.branch = current, !.now = current, !.file = current,
                                 !.mem = Keys(repaired),
                                 !.compatible = Compatible(d, Keys(repaired), cached)]
        /\ UNCHANGED lease
  /\ strayed' = IF resets THEN {} ELSE strayed
  /\ UNCHANGED <<world, refs, branch, left>>

\* refreshBranchInfo, called by a query of the Indexer that writes, whatever it is doing:
\* currentBranch and the paths of the hash cache and of the failed batches become those of
\* the branch that was checked out meanwhile.  The run is moved whole unless it has `fixed`
\* the branch of its catalog, or of the records it retries, before the `await` it stands at.
Notice ==
  /\ run # None /\ run.now # branch
  /\ \E fixed \in BOOLEAN :
       /\ IF fixed THEN \/ At("scan") \/ At("embed") \/ At("catalog")
                        \/ At("retry") /\ failed[Key(run.file)] # {}
          ELSE /\ \/ At("open") \/ At("clear") \/ At("wipe") \/ At("clearDb") \/ At("health")
                  \/ At("scan") \/ At("retry")
               /\ run.branch = run.now /\ run.file = run.now
       /\ run' = IF fixed THEN [run EXCEPT !.now = branch]
                 ELSE [run EXCEPT !.now = branch, !.branch = branch, !.file = branch]
       /\ strayed' = IF fixed THEN strayed \cup {run.branch, branch} ELSE strayed
  /\ UNCHANGED <<world, refs, branch, files, memory, lease, left>>

-----------------------------------------------------------------------------
(* indexUnlocked                                                           *)

\* Seeded fault: a failed request of an unchanged file is not sent again.
NoRetry(r) == {}

\* The failed chunks of files that have not changed since, if the file they were found in
\* is still the one that is read.
Retryable(r) ==
  {c \in failed[Key(r.now)] : Key(r.file) = Key(r.now) /\ c[1] \in Present(r.seen) \ r.changed}

\* A file is unchanged if the hash cache says so and the branch has been indexed
\* by this version of the extractors.
Changed(d) ==
  LET cache == hashes[Key(run.now)]
  IN  {f \in Present(tree) :
         run.branch \notin d.versions \/ cache[f] # tree[f]}

\* Read the branch's catalog, hash the files, find the failed chunks, begin the transaction.
Scan ==
  LET d == Db(run.by)
      previous == d.catalog[run.branch]
      restricted == Referenced(d.catalog) # {}
  IN
  /\ At("scan")
  /\ \/ /\ run.compatible
        /\ run' = [Then(<<>>, run) EXCEPT
                     !.seen = tree, !.changed = Changed(d), !.previous = previous,
                     !.existing = IF restricted THEN run.mem \cap previous ELSE run.mem,
                     !.file = run.now, !.tx = d]
        /\ UNCHANGED lease
     \/ ~run.compatible /\ GiveUp
  /\ UNCHANGED <<world, repo, files, memory, left>>

\* Read and chunk the changed files, reuse the embeddings that are cached, ask
\* for the others, then retry the failed chunks of unchanged files.  A chunk
\* whose request fails goes to the failed-batches file instead.
Embed ==
  LET new == {<<f, tree[f]>> : f \in run.changed}
      pending == new \ run.existing
      asked == {c \in pending : c[2] \notin run.tx.embeddings}
      retried == Retryable(run)
      kept == {c \in run.existing : c[1] \in Present(run.seen) \ run.changed}
  IN
  /\ At("embed")
  /\ \/ /\ ~(run.changed \subseteq Present(tree))
        /\ GiveUp
        /\ UNCHANGED <<inv, left>>
     \/ /\ run.changed \subseteq Present(tree)
        /\ \E f1 \in SUBSET asked :
           LET known == run.tx.embeddings \cup TextsOf(asked \ f1) IN
           \E f2 \in SUBSET {c \in retried : c[2] \notin known} :
             LET stored == (pending \ f1) \cup (retried \ f2) IN
             /\ IF f1 \cup f2 = {} THEN UNCHANGED left ELSE world.fails /\ Spend
             /\ run' = [Then(<<>>, run) EXCEPT
                          !.mem = @ \cup stored,
                          !.current = kept \cup new \cup retried,
                          !.lost = f1 \cup (f2 \ run.existing),
                          !.records = f1 \cup f2,
                          !.embeds = pending \cup retried # {},
                          !.tx.chunks = @ \cup new,
                          !.tx.embeddings = known \cup TextsOf(retried \ f2)]
             /\ inv' = [inv EXCEPT ![run.by] = @ \cup stored]
        /\ UNCHANGED lease
  /\ UNCHANGED <<world, repo, files, mode, gone>>

\* Seeded fault: the rebuild drops nothing.
RebuiltWhole(d, keys, drop) == keys

\* What the vector store keeps when it is rebuilt without some chunks: those
\* whose row and embedding the database still has.
Rebuilt(d, keys, drop) ==
  {c \in keys \ drop : c \in d.chunks /\ c[2] \in d.embeddings}

\* replaceBranchCatalog, and the choice between the three ways to publish.
Catalog ==
  LET d == run.tx
      chosen == run.current \ run.lost
      catalog == [d.catalog EXCEPT ![run.branch] = chosen]
      drop == Removable(run.previous \ chosen, catalog)
      rows == d.chunks \ drop
      still == ~run.embeds /\ run.existing \subseteq run.current
      saves == ~still \/ drop # {}
  IN
  /\ At("catalog")
  /\ run' = [Then((IF drop # {} THEN Rebuilding ELSE <<>>)
                    \o (IF saves THEN Saving ELSE <<>>)
                    \o <<"putHashes", "putFailed", "commit">>
                    \o (IF run.embeds THEN <<"metadata">> ELSE <<>>), run)
               EXCEPT !.drop = drop,
                      !.mem = IF drop # {} THEN Rebuilt(d, @, drop) ELSE @,
                      !.tx = [chunks |-> rows,
                              embeddings |-> d.embeddings \cap TextsOf(rows),
                              catalog |-> catalog,
                              versions |-> IF run.embeds THEN d.versions
                                           ELSE d.versions \cup {run.branch},
                              format |-> d.format \/ ~run.embeds]]
  /\ inv' = [inv EXCEPT ![run.by] = @ \ drop]
  /\ UNCHANGED <<world, repo, files, mode, gone, lease, left>>

\* saveFileHashCache: to the file of the branch the Indexer is on now.
PutHashes ==
  /\ At("putHashes")
  /\ hashes' = [hashes EXCEPT ![Key(run.now)] = run.seen]
  /\ Done
  /\ UNCHANGED <<world, repo, pub, inverted, failed, db, memory, lease, left>>

\* finalizeFailedBatchWriteState: records of files that changed are not copied.  Records
\* go to the file that was prepared; if there are none, that of the branch now is removed.
PutFailed ==
  /\ At("putFailed")
  /\ failed' = [failed EXCEPT ![Key(IF run.records = {} THEN run.now ELSE run.file)] = run.records]
  /\ Done
  /\ UNCHANGED <<world, repo, pub, inverted, hashes, db, memory, lease, left>>

\* maybeRunOrphanGc, which follows, collects nothing: it counts more embeddings than chunks
\* only if some have no chunk, and replaceBranchCatalog has just dropped those (Catalog).
Commit ==
  /\ At("commit")
  /\ WriteDb(run.by, run.tx)
  /\ run' = [Then(<<>>, run) EXCEPT !.tx = None]
  /\ UNCHANGED <<world, repo, pub, inverted, hashes, failed, mode, inv, lease, left>>

\* The extractor versions and the index metadata follow the commit.
Metadata ==
  /\ At("metadata")
  /\ WriteDb(run.by, [Db(run.by) EXCEPT !.versions = @ \cup {run.branch}, !.format = TRUE])
  /\ Done
  /\ UNCHANGED <<world, repo, pub, inverted, hashes, failed, mode, inv, lease, left>>

-----------------------------------------------------------------------------
(* The vector files, the keyword index, and the other operations.          *)

\* rebuildVectorStoreExcludingChunkIds: rename both files to .bak.
SetAside ==
  /\ At("setAside")
  /\ pub' = [vec |-> None, meta |-> None, bakVec |-> pub.vec, bakMeta |-> pub.meta]
  /\ Done
  /\ UNCHANGED <<world, repo, inverted, hashes, failed, db, memory, lease, left>>

\* VectorStore::save writes the vectors, then the metadata that names them.
PutVec ==
  /\ At("putVec")
  /\ pub' = [pub EXCEPT !.vec = NewPublication(run.mem)]
  /\ Done
  /\ UNCHANGED <<world, repo, inverted, hashes, failed, db, memory, lease, left>>

PutMeta ==
  /\ At("putMeta")
  /\ pub' = [pub EXCEPT !.meta = pub.vec]
  /\ Done
  /\ UNCHANGED <<world, repo, inverted, hashes, failed, db, memory, lease, left>>

DropVec ==
  /\ At("dropVec")
  /\ pub' = [pub EXCEPT !.bakVec = None]
  /\ Done
  /\ UNCHANGED <<world, repo, inverted, hashes, failed, db, memory, lease, left>>

DropMeta ==
  /\ At("dropMeta")
  /\ pub' = [pub EXCEPT !.bakMeta = None]
  /\ Done
  /\ UNCHANGED <<world, repo, inverted, hashes, failed, db, memory, lease, left>>

\* saveInvertedIndex: a temporary file and a rename.
PutInverted ==
  /\ At("putInverted")
  /\ inverted' = inv[run.by]
  /\ Done
  /\ UNCHANGED <<world, repo, pub, hashes, failed, db, memory, lease, left>>

\* healthCheckUnlocked: the chunks of files that are not there leave the branch.
Health ==
  LET p == run.by
      d == Db(p)
      missing == {c \in run.mem : tree[c[1]] = Absent}
      catalog == [d.catalog EXCEPT ![run.now] = @ \ missing]
      drop == Removable(missing, catalog)
  IN
  /\ At("health")
  /\ WriteDb(p, [d EXCEPT !.catalog = catalog])
  /\ run' = [Then((IF drop = {} THEN <<>> ELSE Rebuilding \o <<"rows">> \o Saving)
                    \o <<"gc">>, run)
               EXCEPT !.drop = drop,
                      !.mem = IF drop = {} THEN @ ELSE Rebuilt(d, @, drop)]
  /\ UNCHANGED <<world, repo, pub, inverted, hashes, failed, mode, inv, lease, left>>

Rows ==
  /\ At("rows")
  /\ WriteDb(run.by, [Db(run.by) EXCEPT !.chunks = @ \ run.drop])
  /\ inv' = [inv EXCEPT ![run.by] = @ \ run.drop]
  /\ Done
  /\ UNCHANGED <<world, repo, pub, inverted, hashes, failed, mode, lease, left>>

\* gcOrphanEmbeddings before gcOrphanChunks.
Gc ==
  LET d == Db(run.by) IN
  /\ At("gc")
  /\ WriteDb(run.by, [d EXCEPT !.embeddings = @ \cap TextsOf(d.chunks),
                               !.chunks = @ \cap Referenced(d.catalog)])
  /\ Done
  /\ UNCHANGED <<world, repo, pub, inverted, hashes, failed, mode, inv, lease, left>>

\* clearIndexUnlocked empties the stores in memory, then saves them.
Clear ==
  /\ At("clear")
  /\ run' = [Then(<<>>, run) EXCEPT !.mem = {}]
  /\ inv' = [inv EXCEPT ![run.by] = {}]
  /\ UNCHANGED <<world, repo, files, mode, gone, lease, left>>

\* removeProjectRuntimeStateArtifacts; a global index keeps its failed batches
\* until its database is cleared.
Wipe ==
  /\ At("wipe")
  /\ hashes' = [k \in Namespace |-> NoHashes]
  /\ failed' = IF world.scope = "project" THEN [k \in Namespace |-> {}] ELSE failed
  /\ Done
  /\ UNCHANGED <<world, repo, pub, inverted, db, memory, lease, left>>

\* The extractor versions of the branches are not deleted.
ClearDb ==
  /\ At("clearDb")
  /\ WriteDb(run.by, [EmptyDatabase EXCEPT !.versions = Db(run.by).versions])
  /\ failed' = [k \in Namespace |-> {}]
  /\ run' = [Then(<<>>, run) EXCEPT !.compatible = TRUE]
  /\ strayed' = {}
  /\ UNCHANGED <<world, refs, branch, pub, inverted, hashes, mode, inv, lease, left>>

\* retryFailedBatchesUnlocked: no transaction.  The records are finalized
\* before the vectors are saved.
Retry ==
  LET p == run.by
      d == Db(p)
      batch == failed[Key(run.file)]
  IN
  /\ At("retry")
  /\ \E again \in SUBSET batch :
       LET stored == batch \ again IN
       /\ IF again = {} THEN UNCHANGED left ELSE world.fails /\ Spend
       /\ WriteDb(p, [d EXCEPT !.embeddings = @ \cup TextsOf(stored),
                               !.catalog[run.now] = @ \cup stored])
       /\ inv' = [inv EXCEPT ![p] = @ \cup stored]
       /\ run' = [Then(<<"putFailed">> \o (IF stored = {} THEN <<>> ELSE Saving), run)
                    EXCEPT !.mem = @ \cup stored, !.records = again]
  /\ UNCHANGED <<world, repo, pub, inverted, hashes, failed, mode, lease>>

-----------------------------------------------------------------------------
(* Failures.                                                               *)

\* A write throws.  What is published stays and the transaction is rolled back; a
\* rebuild first puts its .bak files back in the place of what it wrote.  The
\* vectors are written in place, so a failed write may leave part of them.
Throw ==
  LET rebuilding == \E i \in DOMAIN run.todo : run.todo[i] = "dropVec" IN
  /\ run # None /\ Spend
  /\ \/ /\ rebuilding /\ "rebuild" \in world.faults
        /\ At("setAside") \/ At("putVec") \/ At("putMeta")
        /\ pub' = IF At("setAside") THEN pub
                  ELSE [NoPublication EXCEPT !.vec = pub.bakVec, !.meta = pub.bakMeta]
     \/ /\ ~rebuilding /\ \E step \in world.faults : At(step)
        /\ \/ UNCHANGED pub
           \/ At("putVec") /\ pub' = [pub EXCEPT !.vec = NewPublication({})]
  /\ GiveUp
  /\ UNCHANGED <<world, repo, inverted, hashes, failed, db, memory>>

\* The writer is killed: its memory and its transaction are lost.
Kill ==
  /\ world.kills /\ holder # None /\ Spend
  /\ mode' = [mode EXCEPT ![holder] = "none"]
  /\ inv' = [inv EXCEPT ![holder] = {}]
  /\ gone' = [gone EXCEPT ![holder] = None]
  /\ holder' = None
  /\ crashed' = TRUE
  /\ run' = None
  /\ UNCHANGED <<world, repo, files>>

\* refreshInactiveWriterArtifacts: a reader notices that the database file is
\* another one, and the process opens the index anew.
Refresh(p) ==
  /\ holder # p /\ gone[p] # None
  /\ mode' = [mode EXCEPT ![p] = "none"]
  /\ inv' = [inv EXCEPT ![p] = {}]
  /\ gone' = [gone EXCEPT ![p] = None]
  /\ UNCHANGED <<world, repo, files, lease, run, left>>

Step ==
  \/ Open \/ Scan \/ Embed \/ Catalog \/ PutHashes \/ PutFailed \/ Commit \/ Metadata
  \/ SetAside \/ PutVec \/ PutMeta \/ DropVec \/ DropMeta \/ PutInverted
  \/ Health \/ Rows \/ Gc \/ Clear \/ Wipe \/ ClearDb \/ Retry \/ Finish \/ Notice

Next ==
  \/ Edit \/ Checkout \/ Merge
  \/ \E p \in Proc, op \in Ops : Begin(p, op)
  \/ Step
  \/ Throw \/ Kill \/ \E p \in Proc : Refresh(p)

Spec == Init /\ [][Next]_vars

-----------------------------------------------------------------------------
(* Properties.                                                             *)

\* What getIndexFreshness calls "current", but for the comparison of the commit,
\* which can only make it say so less often.
Fresh ==
  /\ Readable(pub) /\ Keys(pub) # {} /\ db # None
  /\ Compatible(db, Keys(pub), hashes[Key(branch)])
  /\ failed[Key(branch)] = {}
  /\ hashes[Key(branch)] = tree
  /\ branch \in db.versions

\* Chunks that can be found: by their vector, by their words, with their row.
Searchable(chunks) ==
  /\ chunks \subseteq Keys(pub)
  /\ chunks \subseteq IF inverted = None THEN {} ELSE inverted
  /\ chunks \subseteq db.chunks /\ TextsOf(chunks) \subseteq db.embeddings

\* An index that is reported current holds the checked-out tree: the branch's
\* catalog lists exactly its chunks, and each has a vector (getIndexFreshness
\* takes the hash cache's word for it).
FreshIsTrue ==
  holder = None /\ Fresh =>
    db.catalog[branch] = ChunksOf(tree) /\ ChunksOf(tree) \subseteq Keys(pub)

\* The same where it can be relied on: no killed writer's work is pending (its
\* hash cache may be ahead of its database), nobody ran a health check on a
\* tree that lacked files, and no query has moved a run from or to this branch since the
\* index was rebuilt (refreshBranchInfo: such a run writes the catalog of one branch and the
\* hash cache of another).
CurrentMeansIndexed ==
  ~crashed /\ "health" \notin world.ops /\ branch \notin strayed => FreshIsTrue

\* Search answers from the catalog of the branch that is checked out: if the index is
\* reported current, it has there no chunk that only another branch's tree has
\* (ARCHITECTURE.md: "No stale results from other branches"; refreshBranchInfo).
NoResultsOfOthers ==
  holder = None /\ ~crashed /\ Fresh /\ Present(tree) # {} =>
    \A b \in Branch : db.catalog[branch] \cap ChunksOf(refs[b]) \subseteq ChunksOf(tree)

\* Every chunk of every branch's catalog can be found: search restricts its candidates to
\* the catalog and reads their rows (replaceBranchCatalog drops a chunk from five places,
\* in five steps).
CatalogBacked == Searchable(Referenced(db.catalog))

\* No vector is left that no branch refers to, however the runs ended (replaceBranchCatalog
\* and healthCheckUnlocked remove exactly the chunks that lose their last branch).
VectorsReferenced == Keys(pub) \subseteq Referenced(db.catalog)

\* No run leaves behind an index that a later run refuses: the vector files are a pair
\* once the next writer has recovered them, and the data is compatible when it is scanned
\* (load throws on a torn pair, validateIndexCompatibility on data whose format was not
\* recorded).
NeverRefused ==
  /\ At("open") => Readable(Recovered(pub))
  /\ At("scan") => run.compatible

\* The six artifacts that no transaction spans agree whenever somebody relies on it: the
\* vectors are those of the catalogs between two runs that were not killed, and a later run
\* accepts them after any number of kills.  A rebuild of the vectors may throw; of other
\* writes that throw nothing is claimed.
ArtifactsAgree ==
  world.faults \subseteq {"rebuild"} =>
    /\ holder = None /\ ~crashed /\ db # None => CatalogBacked /\ VectorsReferenced
    /\ NeverRefused

\* A run of index_codebase that ends with no failed request leaves the branch it
\* indexed with exactly the chunks of the tree it scanned (indexUnlocked).
Completed ==
  Finish /\ run.op \in {"index", "force"} /\ run.records = {} =>
    Db(run.by).catalog[run.branch] = ChunksOf(run.seen)

RunIndexes == [][Completed]_vars

\* The same where nobody ran a health check on a tree that lacked files, of a branch from
\* or to which no run was moved: neither this one nor an earlier one, whose hashes it trusts.
UncheckedRunIndexes ==
  [][ "health" \notin world.ops /\ run # None /\ run.branch \notin strayed => Completed ]_vars
=============================================================================
