------------------------------- MODULE Readers -------------------------------
(***************************************************************************)
(* How an Indexer reads an index that other processes write                *)
(* (src/src/indexer/index.ts: initialize, ensureInitialized,               *)
(* refreshReaderArtifacts, refreshInactiveWriterArtifacts; loadStrict of   *)
(* src/native/src/store.rs; the Indexer cache of operation-runtime.ts).    *)
(*                                                                         *)
(* Readers take no lease.  A reader remembers a fingerprint of each file   *)
(* and loads again what has changed; the two vector files are overwritten  *)
(* in place, so loading them is an optimistic read: metadata, a hash of    *)
(* the vectors, the vectors, the hash and the metadata again.              *)
(*                                                                         *)
(* One Indexer is modelled with the functions that run on it: a query,     *)
(* which awaits its embedding between taking the loaded state and using    *)
(* it, a mutation, and getPrImpact.  Its event loop runs a synchronous     *)
(* function to its end, but the writer of another process acts between any *)
(* two file-system calls of it.  The contents of a file are the number of  *)
(* the run that wrote it; a fingerprint (device, inode, size and times) is *)
(* as good as the contents, which never recur.                             *)
(***************************************************************************)
EXTENDS Naturals, FiniteSets

CONSTANTS
  Publications,  \* bound: runs that publish
  ReadFaults,    \* bound: reads and opens that fail though the file is sound
  Handles,       \* bound: database connections at a time
  Absent

ASSUME ReadersBounds ==
  /\ Absent \notin Nat /\ Absent \notin [n : Nat, whole : BOOLEAN] /\ Absent \notin [id : Nat, n : Nat]
  /\ Publications \in Nat /\ ReadFaults \in Nat /\ Handles \in Nat \ {0}

VARIABLES
  disk,     \* the files: vec, meta, words (the keyword index), db
  other,    \* the writer of another process: its step
  last,     \* the last run that published or began to
  killed,   \* a writer was killed and its work is not repaired
  mode,     \* initializationMode
  loaded,   \* store, invertedIndex, database of the Indexer; astray is history: a mutation
            \* published with it after another writer had replaced the database
  noticed,     \* readerArtifactFingerprint
  written,  \* writerArtifactFingerprint
  issues,   \* readIssues
  load,     \* a load in progress: refreshReaderArtifacts or initializeUnlocked
  query,    \* a query
  mutation, \* a mutation of this Indexer
  closed,   \* database connections that were closed while somebody held them
  faults    \* how many of ReadFaults are left

readersVars == <<disk, other, last, killed, mode, loaded, noticed, written, issues,
                 load, query, mutation, closed, faults>>

Part == {"vectors", "keyword", "database"}
File == {"vec", "meta", "words", "db"}
Handle == 1 .. Handles

Torn(n) == [n |-> n, whole |-> FALSE]
Whole(n) == [n |-> n, whole |-> TRUE]

Both(n) == [vec |-> Whole(n), meta |-> Whole(n)]
Nothing == [vec |-> Absent, meta |-> Absent]   \* an empty VectorStore
Unsaved == Both(0)                         \* vectors a mutation has added in memory

-----------------------------------------------------------------------------
(* The writer of another process.  A run after a kill removes everything    *)
(* first (resetLocalIndexArtifacts, one file at a time in any order).       *)

\* The index's lease: one writer.
Leased == other # "idle" \/ mutation.step # "idle"

\* The steps of VectorStore::save, saveInvertedIndex and the commit.
After == [vec |-> "bind", bind |-> "meta", meta |-> "seal", seal |-> "words",
          words |-> "commit", commit |-> "idle"]

Written(step) ==
  CASE step = "vec"    -> [disk EXCEPT !.vec = Torn(last)]
    [] step = "bind"   -> [disk EXCEPT !.vec = Whole(last)]
    [] step = "meta"   -> [disk EXCEPT !.meta = Torn(last)]
    [] step = "seal"   -> [disk EXCEPT !.meta = Whole(last)]
    [] step = "words"  -> [disk EXCEPT !.words = last]
    [] step = "commit" -> [disk EXCEPT !.db.n = last]

reader == <<mode, loaded, noticed, written, issues, load, query, mutation, closed, faults>>

OtherBegins ==
  /\ ~Leased /\ last < Publications
  /\ last' = last + 1
  /\ other' = IF killed THEN "reset" ELSE "vec"
  /\ disk' = IF killed \/ disk.db # Absent THEN disk
             ELSE [disk EXCEPT !.db = [id |-> last', n |-> 0]]
  /\ UNCHANGED <<killed, reader>>

OtherRemoves(f) ==
  /\ other = "reset" /\ disk[f] # Absent
  /\ disk' = [disk EXCEPT ![f] = Absent]
  /\ UNCHANGED <<other, last, killed, reader>>

OtherCreates ==
  /\ other = "reset" /\ \A f \in File : disk[f] = Absent
  /\ disk' = [disk EXCEPT !.db = [id |-> last, n |-> 0]]
  /\ other' = "vec"
  /\ UNCHANGED <<last, killed, reader>>

OtherWrites ==
  /\ other \in DOMAIN After
  /\ disk' = Written(other)
  /\ other' = After[other]
  /\ killed' = (killed /\ other' # "idle")
  /\ UNCHANGED <<last, reader>>

OtherKilled ==
  /\ other # "idle"
  /\ other' = "idle" /\ killed' = TRUE
  /\ UNCHANGED <<disk, last, reader>>

-----------------------------------------------------------------------------
(* Fingerprints, issues and the loaded state.                              *)

Fingerprint ==
  [vectors |-> <<disk.vec, disk.meta>>, keyword |-> disk.words, database |-> disk.db,
   identity |-> IF disk.db = Absent THEN Absent ELSE disk.db.id]

NoLoad == [step |-> "none", mode |-> Absent, previous |-> Absent, current |-> Absent, due |-> {},
           meta |-> Absent, vec |-> Absent]
NoMutation == [step |-> "idle", db |-> Absent, id |-> Absent, mine |-> FALSE, repairs |-> FALSE]
\* A synchronous function of this process is running.
Busy == load.step \notin {"none", "detect"}
Active == mutation.step # "idle"   \* activeIndexLease

Held == {query.db, mutation.db} \ {Absent}
Unused == Handle \ ({loaded.handle} \cup Held)

\* this.database.close(), or a place in retiredDatabases, which close() empties.
Closing(retire) ==
  closed' = IF retire \/ loaded.handle \notin Held THEN closed \cap Held
            ELSE (closed \cap Held) \cup {loaded.handle}

NotLoaded == [store |-> Nothing, words |-> Absent, handle |-> Absent, id |-> Absent, astray |-> FALSE]

\* resetLoadedIndexState
Reset(retire) ==
  /\ Closing(retire)
  /\ loaded' = NotLoaded
  /\ mode' = "none"
  /\ noticed' = Absent /\ written' = Absent
  /\ issues' = {}

Initial == loaded = NotLoaded /\ mode = "none"

-----------------------------------------------------------------------------
(* ensureInitialized: the query loads what it needs.                       *)

Idle == [step |-> "idle", db |-> Absent]
Waiting == [step |-> "awaits", db |-> loaded'.handle]

writer == <<disk, other, last, killed>>

QueryBegins ==
  /\ ~Busy /\ query.step = "idle"
  /\ query' = [Idle EXCEPT !.step = "ensures"]
  /\ UNCHANGED <<writer, mode, loaded, noticed, written, issues, load, mutation, closed, faults>>

\* initialize: nothing is loaded.
QueryInitializes ==
  /\ ~Busy /\ query.step = "ensures" /\ load.step = "none"
  /\ mode = "none"
  /\ load' = [NoLoad EXCEPT !.step = "detect", !.mode = "reader"]
  /\ query' = [query EXCEPT !.step = "initialized"]
  /\ UNCHANGED <<writer, mode, loaded, noticed, written, issues, mutation, closed, faults>>

\* Seeded fault: the fingerprint is taken when the files have been loaded.
KeepsLate == Fingerprint

\* What refreshReaderArtifacts and initializeUnlocked remember: the fingerprint from before.
Keeps == load.current

Differs(previous, current, c) == previous = Absent \/ previous[c] # current[c]

\* Nothing has changed.
UpToDate(previous, current) ==
  previous # Absent /\ \A c \in Part : ~Differs(previous, current, c)

SameDatabase(previous) == previous # Absent /\ previous.identity = Fingerprint.identity

\* refreshReaderArtifacts begins: the query has a reader's state, or that of a writer
\* without a lease.  The retry time of an issue may have come.
QueryRefreshes ==
  /\ ~Busy /\ query.step = "ensures" /\ load.step = "none"
  /\ mode = "reader" \/ (mode = "writer" /\ ~Active)
  /\ \E previous \in {IF mode = "reader" THEN noticed ELSE written} :
     /\ mode = "writer" => SameDatabase(previous)
     /\ \E due \in SUBSET issues :
          /\ due # {} \/ ~UpToDate(previous, Fingerprint)
          /\ load' = [NoLoad EXCEPT !.step = "vectors", !.mode = "refresh", !.previous = previous,
                                    !.current = Fingerprint, !.due = due]
  /\ UNCHANGED <<writer, mode, loaded, noticed, written, issues, query, mutation, closed, faults>>

\* An inactive writer whose database was replaced opens the index again.
QueryReopens ==
  /\ ~Busy /\ query.step = "ensures" /\ load.step = "none"
  /\ mode = "writer" /\ ~Active
  /\ ~SameDatabase(written)
  /\ Reset(TRUE)
  /\ load' = [NoLoad EXCEPT !.step = "detect", !.mode = "reader"]
  /\ query' = [query EXCEPT !.step = "initialized"]
  /\ UNCHANGED <<writer, mutation, faults>>

\* requireReadableComponents, and then the query waits for its embedding.
Readable(bad) == bad \cap {"vectors", "database"} = {}
Continues == query' = IF Readable(issues') THEN Waiting ELSE Idle

\* Nothing to do, or a writer with a lease, or the state was initialised for the query.
QueryContinues ==
  /\ ~Busy /\ load.step = "none" /\ mode # "none"
  /\ \/ query.step = "initialized"
     \/ /\ query.step = "ensures"
        /\ \/ mode = "writer" /\ Active
           \/ UpToDate(IF mode = "reader" THEN noticed ELSE written, Fingerprint)
  /\ UNCHANGED <<writer, mode, loaded, noticed, written, issues, load, mutation, closed, faults>>
  /\ Continues

\* The state was initialised and reset again.
QueryAgain ==
  /\ ~Busy /\ load.step = "none" /\ mode = "none"
  /\ query.step = "initialized"
  /\ query' = [query EXCEPT !.step = "ensures"]
  /\ UNCHANGED <<writer, mode, loaded, noticed, written, issues, load, mutation, closed, faults>>

\* The embedding is there; the query reads the database it took.
QueryEnds ==
  /\ ~Busy /\ query.step = "awaits"
  /\ query' = Idle
  /\ closed' = closed \ ({query.db} \ {mutation.db})
  /\ UNCHANGED <<writer, mode, loaded, noticed, written, issues, load, mutation, faults>>

-----------------------------------------------------------------------------
(* A load.                                                                 *)

\* tryDetectProvider found a provider: the synchronous part begins, on a new VectorStore.
LoadBegins ==
  /\ load.step = "detect" /\ load.mode = "reader"
  /\ load' = [NoLoad EXCEPT !.step = "vectors", !.mode = "initialize", !.current = Fingerprint]
  /\ loaded' = NotLoaded /\ issues' = {}
  /\ UNCHANGED <<writer, mode, noticed, written, query, mutation, closed, faults>>

\* There is no provider, or a writer cannot open the index: initializeOnce resets,
\* and the query or the mutation fails.
LoadFails ==
  /\ load.step = "detect" /\ faults > 0
  /\ Reset(FALSE)
  /\ load' = NoLoad /\ faults' = faults - 1
  /\ query' = IF load.mode = "reader" THEN Idle ELSE query
  /\ mutation' = IF load.mode = "writer" THEN NoMutation ELSE mutation
  /\ UNCHANGED writer

RetryDue(c) == c \in load.due
Wanted(c) == Differs(load.previous, load.current, c) \/ RetryDue(c)

\* The next part of the load; what was read for the vectors is dropped.
To(step) == load' = [load EXCEPT !.step = step, !.due = @ \ {"vectors"}, !.meta = Absent, !.vec = Absent]
Solved(c) == issues' = issues \ {c}
Failed(c) == issues' = issues \cup {c}

\* A file that is sound may still fail to open; a torn one does.
Fault == faults > 0 /\ faults' = faults - 1

\* The metadata, and whether both files are there.
LoadMetadata ==
  /\ load.step = "vectors"
  /\ IF Wanted("vectors") /\ disk.vec # Absent /\ disk.meta # Absent /\ disk.meta.whole
     THEN /\ load' = [load EXCEPT !.step = "hash", !.meta = disk.meta.n]
          /\ UNCHANGED issues
     ELSE /\ To("keyword")
          /\ IF Wanted("vectors") /\ (disk.vec # Absent \/ disk.meta # Absent \/ "vectors" \in issues)
             THEN Failed("vectors") ELSE UNCHANGED issues
  /\ UNCHANGED <<writer, mode, loaded, noticed, written, query, mutation, closed, faults>>

\* The hash of the vectors is the one in the metadata.
LoadHash ==
  /\ load.step = "hash"
  /\ IF disk.vec = Whole(load.meta) THEN load' = [load EXCEPT !.step = "index"] /\ UNCHANGED issues
     ELSE To("keyword") /\ Failed("vectors")
  /\ UNCHANGED <<writer, mode, loaded, noticed, written, query, mutation, closed, faults>>

\* The vectors; a file that is being written may yield anything.
LoadIndex ==
  /\ load.step = "index"
  /\ load' = [load EXCEPT !.step = "check", !.vec = disk.vec]
  /\ UNCHANGED <<writer, mode, loaded, noticed, written, issues, query, mutation, closed, faults>>

\* Seeded fault: the vectors are not hashed a second time.
SameMetadata == disk.meta = Whole(load.meta)

\* The second hash and the metadata, read again.
Same == disk.vec = Whole(load.meta) /\ disk.meta = Whole(load.meta)

LoadCheck ==
  /\ load.step = "check"
  /\ To("keyword")
  /\ IF Same THEN /\ loaded' = [loaded EXCEPT !.store = [vec |-> load.vec, meta |-> Whole(load.meta)]]
                  /\ Solved("vectors")
             ELSE Failed("vectors") /\ UNCHANGED loaded
  /\ UNCHANGED <<writer, mode, noticed, written, query, mutation, closed, faults>>

Counts == loaded.store # Nothing

LoadKeyword ==
  /\ load.step = "keyword"
  /\ To("database")
  /\ IF disk.words # Absent /\ (load.mode = "initialize" \/ Wanted("keyword"))
     THEN \/ /\ loaded' = [loaded EXCEPT !.words = disk.words]
             /\ Solved("keyword") /\ UNCHANGED faults
          \/ /\ Fault
             /\ Failed("keyword") /\ UNCHANGED loaded
     ELSE /\ IF disk.words = Absent /\ (Counts \/ (Wanted("keyword") /\ "keyword" \in issues))
             THEN Failed("keyword") ELSE UNCHANGED issues
          /\ UNCHANGED <<loaded, faults>>
  /\ UNCHANGED <<writer, mode, noticed, written, query, mutation, closed>>

\* Only another file is opened again; the connection sees the commits to its own.
WantedDatabase ==
  \/ Differs(load.previous, load.current, "identity")
  \/ Differs(load.previous, load.current, "database") /\ "database" \in issues
  \/ RetryDue("database")

Opened(handle) ==
  loaded' = [loaded EXCEPT !.handle = handle, !.id = disk.db.id, !.astray = FALSE]

\* The last part: the state is the Indexer's, and its fingerprint is kept.
LoadDatabase ==
  /\ load.step = "database"
  /\ load' = NoLoad
  /\ \E h \in {CHOOSE x \in Unused : TRUE} :
     IF WantedDatabase /\ disk.db # Absent
     THEN \/ /\ Opened(h)
             /\ Solved("database") /\ UNCHANGED faults
          \/ /\ Fault /\ load.mode = "refresh"   \* validateIndexCompatibility throws
             /\ Opened(h)
             /\ Failed("database")
          \/ /\ Fault
             /\ Failed("database")
             /\ loaded' = IF load.mode = "initialize" THEN [loaded EXCEPT !.handle = h] ELSE loaded
     ELSE /\ loaded' = IF load.mode = "initialize" THEN [loaded EXCEPT !.handle = h] ELSE loaded
          /\ \/ /\ IF WantedDatabase /\ (Counts \/ "database" \in issues)
                   THEN Failed("database") ELSE UNCHANGED issues
                /\ UNCHANGED faults
             \/ /\ load.mode = "refresh" /\ "database" \notin issues   \* its metadata cannot be read
                /\ Fault /\ Failed("database")
  /\ mode' = IF load.mode = "initialize" THEN "reader" ELSE mode
  /\ noticed' = IF mode' = "reader" THEN Keeps ELSE noticed
  /\ written' = IF mode' = "writer" THEN Keeps ELSE written
  /\ closed' = closed \cap Held
  /\ IF load.mode = "refresh" THEN Continues ELSE UNCHANGED query
  /\ UNCHANGED <<writer, mutation>>

-----------------------------------------------------------------------------
(* A mutation of this Indexer, and getPrImpact.                            *)

MutationBegins ==
  /\ ~Busy /\ ~Leased /\ last < Publications
  /\ last' = last + 1
  /\ mutation' = [NoMutation EXCEPT !.step = "enters", !.mine = TRUE, !.repairs = killed]
  /\ UNCHANGED <<disk, other, killed, mode, loaded, noticed, written, issues, load, query, closed, faults>>

\* ensureInitializedUnlocked: the index is opened for writing, by a writer that has
\* nothing to repair only loaded again.
MutationResets ==
  /\ ~Busy /\ mutation.step = "enters" /\ load.step = "none"
  /\ mutation.repairs \/ mode # "writer"
  /\ Reset(mode = "reader")
  /\ load' = [NoLoad EXCEPT !.step = "detect", !.mode = "writer"]
  /\ mutation' = [mutation EXCEPT !.step = "opens"]
  /\ UNCHANGED <<writer, query, faults>>

Empty == [vec |-> Absent, meta |-> Absent, words |-> Absent, db |-> [id |-> last, n |-> 0]]
Stored == IF disk.vec = Absent THEN Nothing ELSE [vec |-> disk.vec, meta |-> disk.meta]

MutationOpens ==
  /\ mutation.step = "opens" /\ load.step = "detect"
  /\ load' = NoLoad /\ mode' = "writer"
  /\ disk' = IF mutation.repairs THEN Empty
             ELSE IF disk.db = Absent THEN [disk EXCEPT !.db = [id |-> last, n |-> 0]] ELSE disk
  /\ \E h \in {CHOOSE x \in Unused : TRUE} :
       /\ loaded' = [store |-> IF mutation.repairs THEN Nothing ELSE Stored,
                     words |-> disk'.words, handle |-> h, id |-> disk'.db.id, astray |-> FALSE]
       /\ mutation' = [mutation EXCEPT !.step = "works", !.db = h, !.id = disk'.db.id, !.mine = TRUE]
  /\ noticed' = Absent
  /\ issues' = {}
  /\ UNCHANGED <<other, last, killed, written, query, closed, faults>>

\* refreshLoadedIndexState: the database is not opened again, even if it was replaced;
\* a keyword index whose file is gone stays (InvertedIndexInner::load).
MutationReloads ==
  /\ ~Busy /\ mutation.step = "enters" /\ load.step = "none"
  /\ ~mutation.repairs /\ mode = "writer"
  /\ loaded' = [loaded EXCEPT !.store = Stored,
                              !.words = IF disk.words = Absent THEN @ ELSE disk.words]
  /\ issues' = {}
  /\ mutation' = [mutation EXCEPT !.step = "works", !.db = loaded.handle, !.id = loaded.id,
                                    !.mine = TRUE]
  /\ UNCHANGED <<writer, mode, noticed, written, load, query, closed, faults>>

\* Vectors are added in memory, where queries see them.
MutationWorks ==
  /\ ~Busy /\ mutation.step = "works"
  /\ mutation' = [mutation EXCEPT !.step = "publishes"]
  /\ loaded' = IF mutation.mine THEN [loaded EXCEPT !.store = Unsaved] ELSE loaded
  /\ UNCHANGED <<writer, mode, noticed, written, issues, load, query, closed, faults>>

Ended == mutation' = NoMutation /\ closed' = closed \cap {query.db}

\* The database the mutation writes is the one on disk.
Live == disk.db # Absent /\ disk.db.id = mutation.id

Published(d) == [vec |-> Whole(last), meta |-> Whole(last), words |-> last,
                 db |-> IF Live THEN [d.db EXCEPT !.n = last] ELSE d.db]

\* The artifacts are written without an await.  The writer's fingerprint is taken
\* with the lease still held.
MutationPublishes ==
  /\ ~Busy /\ mutation.step = "publishes" /\ mutation.db \notin closed
  /\ disk' = Published(disk)
  /\ loaded' = IF mutation.mine
               THEN [loaded EXCEPT !.store = Both(last), !.words = last, !.astray = ~Live]
               ELSE loaded
  /\ written' = [Fingerprint EXCEPT !.vectors = <<disk'.vec, disk'.meta>>, !.keyword = last,
                                    !.database = disk'.db]
  /\ killed' = FALSE
  /\ Ended
  /\ UNCHANGED <<other, last, mode, noticed, issues, load, query, faults>>

\* An error before anything is saved, after which the memory keeps what was added, or
\* when the vectors are saved and the keyword index is not.
MutationFails ==
  /\ ~Busy /\ mutation.step = "publishes"
  /\ \/ UNCHANGED <<disk, loaded>>
     \/ /\ mutation.db \notin closed
        /\ disk' = [disk EXCEPT !.vec = Whole(last), !.meta = Whole(last)]
        /\ loaded' = IF mutation.mine THEN [loaded EXCEPT !.store = Both(last)] ELSE loaded
  /\ Ended
  /\ UNCHANGED <<other, last, killed, mode, noticed, written, issues, load, query, faults>>

\* getPrImpact: the branch's catalog is missing or old.  The Indexer lets go of its
\* state, whoever uses it; the branch is then indexed by another Indexer.
PrImpact ==
  /\ ~Busy /\ load.step = "none" /\ mode # "none"
  /\ Reset(FALSE)
  /\ mutation' = IF Active THEN [mutation EXCEPT !.mine = FALSE] ELSE mutation
  /\ UNCHANGED <<writer, load, query, faults>>

\* refreshIndexerForDirectory: the configuration has changed and the project gets a new
\* Indexer.  The old one is not closed; a mutation it still runs is one more writer
\* to the new one, like that of another process.
Replaced ==
  /\ ~Busy /\ load.step = "none" /\ ~Active /\ mode # "none"
  /\ Reset(TRUE)
  /\ query' = IF query.step = "awaits" THEN query ELSE Idle
  /\ UNCHANGED <<writer, load, mutation, faults>>

-----------------------------------------------------------------------------
ReadersInit ==
  /\ disk = [vec |-> Absent, meta |-> Absent, words |-> Absent, db |-> Absent]
  /\ other = "idle" /\ last = 0 /\ killed = FALSE
  /\ Initial /\ noticed = Absent /\ written = Absent
  /\ issues = {}
  /\ load = NoLoad /\ query = Idle /\ mutation = NoMutation
  /\ closed = {} /\ faults = ReadFaults

OtherStep == OtherBegins \/ OtherCreates \/ OtherWrites \/ OtherKilled \/ \E f \in File : OtherRemoves(f)
QueryStep ==
  \/ QueryBegins \/ QueryInitializes \/ QueryRefreshes \/ QueryReopens
  \/ QueryContinues \/ QueryAgain \/ QueryEnds
LoadStep ==
  \/ LoadBegins \/ LoadFails \/ LoadMetadata \/ LoadHash \/ LoadIndex \/ LoadCheck
  \/ LoadKeyword \/ LoadDatabase
MutationStep ==
  \/ MutationBegins \/ MutationResets \/ MutationOpens \/ MutationReloads
  \/ MutationWorks \/ MutationPublishes \/ MutationFails
  \/ PrImpact \/ Replaced

ReadersNext == OtherStep \/ QueryStep \/ LoadStep \/ MutationStep
ReadersSpec == ReadersInit /\ [][ReadersNext]_readersVars
-----------------------------------------------------------------------------
(* Properties.                                                              *)

\* What is loaded is one publication: never the vectors of one run with the metadata
\* of another, or half of either, though both files are overwritten in place while
\* they are read (load_with_fingerprint_requirement, store.rs:333-389).
LoadedWhole ==
  \/ loaded.store = Nothing
  \/ loaded.store.vec = loaded.store.meta /\ loaded.store.vec.whole

\* The fingerprint by which the next query decides whether to load.
Trusted == CASE mode = "reader" -> noticed
             [] mode = "writer" /\ ~Active -> written
             [] OTHER -> Absent

\* A component that a query would not load again is the one on disk, however a writer
\* overtook the load: files that are there, without a read issue, and with the
\* fingerprint that was kept have the loaded contents.  Two exceptions: a mutation that
\* failed leaves its vectors in memory, and one that published with the connection to a
\* database that another writer had replaced keeps the new database's fingerprint and the
\* old connection (refreshLoadedIndexState and withIndexMutationLease, index.ts:1338-1391).
NoStaleLoad ==
  ~Busy /\ Trusted # Absent =>
    /\ /\ Trusted.vectors = Fingerprint.vectors
       /\ disk.vec # Absent /\ disk.meta # Absent /\ "vectors" \notin issues
       => loaded.store \in {Unsaved, [vec |-> disk.vec, meta |-> disk.meta]}
    /\ Trusted.keyword = disk.words /\ disk.words # Absent /\ "keyword" \notin issues
       => loaded.words = disk.words
    /\ Trusted.identity = Fingerprint.identity /\ disk.db # Absent /\ "database" \notin issues
       => loaded.id = disk.db.id \/ loaded.astray
=============================================================================
