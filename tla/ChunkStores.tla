---------------------------- MODULE ChunkStores ----------------------------
(***************************************************************************)
(* The two stores of the chunks under the runs that change them: vectors   *)
(* and keywords in memory, their files, and what native errors leave       *)
(* (src/src/indexer/index.ts: processPendingChunkBatch,                    *)
(* rebuildVectorStoreExcludingChunkIds, refreshLoadedIndexState).          *)
(*                                                                         *)
(* Readers says how a pair of files is torn and IndexStore what of a run   *)
(* is on disk at a crash; here a save is one step, and the steps of        *)
(* interest are the operations of a run, which fail in the native index.   *)
(* The text of a chunk changes when the run reads other content under the  *)
(* same id; its vector is the text.                                        *)
(***************************************************************************)
EXTENDS VectorStore, KeywordIndex

CONSTANTS
  Chunk, Text,
  MaxId,      \* bound: ids the native index gives out
  Failures,   \* bound: native calls that fail
  Absent

ASSUME StoresAssumption == IsFiniteSet(Chunk) /\ MaxId \in Nat /\ Failures \in Nat

\* A text has some terms, each a number of times.
ASSUME TextAssumption ==
  \A text \in Text : IsFiniteSet(DOMAIN text) /\ \A t \in DOMAIN text : text[t] \in Nat

VARIABLES
  store,      \* this.store
  words,      \* this.invertedIndex
  vectorFile, \* vectors and vectors.meta.json: a store with what it was given, or Absent
  wordFile,   \* inverted-index.json
  embeddings, \* the database's embeddings, by chunk, in the run's transaction
  committed,  \* the embeddings outside of it
  given,      \* what the store was last given for a chunk
  run,        \* "closed": nothing loaded; "idle", "works", "saved"
  failures    \* how many of Failures are left

storesVars == <<store, words, vectorFile, wordFile, embeddings, committed, given, run, failures>>

MayFail == failures > 0
\* A failure that a native call was allowed is used up.
Spends(failed) == failures' = IF failed /\ MayFail THEN failures - 1 ELSE failures

-----------------------------------------------------------------------------
(* A run begins: initializeUnlocked, or refreshLoadedIndexState, which      *)
(* leaves a keyword index in memory whose file is gone.                     *)

LoadedPair == IF vectorFile = Absent THEN EmptyStore ELSE vectorFile.store
LoadedGiven == IF vectorFile = Absent THEN <<>> ELSE vectorFile.given

RunBegins ==
  /\ run \in {"closed", "idle"}
  /\ store' = LoadedPair /\ given' = LoadedGiven
  /\ words' = IF wordFile # Absent THEN wordFile ELSE IF run = "closed" THEN NoChunks ELSE words
  /\ run' = "works"
  /\ UNCHANGED <<vectorFile, wordFile, embeddings, committed, failures>>

\* The run ends with an error: the transaction is rolled back, the memory stays.
RunFails == run' = "idle" /\ embeddings' = committed

\* Seeded fault: texts are added without removing what was there.
Overwritten(w, texts) == FoldSet(LAMBDA c, acc : Indexed(acc, c, texts[c]), w, DOMAIN texts)

\* The keyword index when the chunks' texts are put in, removeChunk first.
Reworded(w, texts) ==
  FoldSet(LAMBDA c, acc : Indexed(Unindexed(acc, c), c, texts[c]), w, DOMAIN texts)

Unworded(w, chunks) == FoldSet(LAMBDA c, acc : Unindexed(acc, c), w, chunks)

-----------------------------------------------------------------------------
(* What a run does with the stores.                                         *)

\* The chunk's embedding is in the database: add, then the keywords.
AddCached(c) ==
  /\ run = "works" /\ store.nextId < MaxId
  /\ c \in DOMAIN embeddings
  /\ \E out \in AddOutcomes(store, c, embeddings[c], MayFail) :
       /\ store' = out.store
       /\ IF out.ok THEN /\ given' = With(given, c, embeddings[c])
                         /\ words' = Reworded(words, Restrict(embeddings, {c}))
                         /\ UNCHANGED <<run, embeddings>>
                    ELSE RunFails /\ UNCHANGED <<given, words>>
       /\ Spends(~out.ok)
  /\ UNCHANGED <<vectorFile, wordFile, committed>>

\* Sequences of distinct chunks with what was embedded of them.
DistinctBatch ==
  {batch \in UNION {[1 .. n -> [key : Chunk, vector : Text]] : n \in 1 .. Cardinality(Chunk)} :
     \A i, j \in DOMAIN batch : batch[i].key = batch[j].key => i = j}

TextsOf(batch) ==
  [c \in KeysOf(batch) |-> batch[CHOOSE i \in DOMAIN batch : batch[i].key = c].vector]

\* The catch of processPendingChunkBatch: remove what the stores have of the chunks
\* (a removal that fails in its turn would end the run and is left out).
Compensated(s, batch) == Removed(s, KeysOf(batch))

\* Chunks were embedded, and their embeddings upserted, before addBatch is tried.  If it
\* fails, the chunks are recorded as failed and the run goes on.
AddEmbedded(batch) ==
  /\ run = "works" /\ store.nextId + Len(batch) <= MaxId
  /\ embeddings' = Under(embeddings, TextsOf(batch))
  /\ \E out \in AddBatchOutcomes(store, batch, MayFail) :
       /\ IF out.ok THEN /\ store' = out.store
                         /\ given' = Under(given, TextsOf(batch))
                         /\ words' = Reworded(words, TextsOf(batch))
                    ELSE /\ store' = Compensated(out.store, batch)
                         /\ words' = Unworded(words, DOMAIN TextsOf(batch))
                         /\ UNCHANGED given
       /\ Spends(~out.ok)
  /\ UNCHANGED <<vectorFile, wordFile, committed, run>>

\* The chunks of the store's metadata that stay and have an embedding, and the store to
\* which they are added one by one, after clear.
Retained(removed) == (store.metadata \ removed) \cap DOMAIN embeddings
Rebuilt(order) ==
  LET batch == [i \in DOMAIN order |-> [key |-> order[i], vector |-> embeddings[order[i]]]]
  IN BoundBatch(Filled(EmptyStore, batch, DOMAIN batch), batch)

\* rebuildVectorStoreExcludingChunkIds, which saves the store; then the removed
\* chunks' keywords go.  An error brings the files back and loads them, if there were any.
RemoveChunks(removed) ==
  /\ run = "works" /\ removed # {}
  /\ \/ /\ Cardinality(Retained(removed)) <= MaxId
        /\ \E order \in SetToSeqs(Retained(removed)) : store' = Rebuilt(order)
        /\ given' = Restrict(embeddings, Keys(store'))
        /\ IF Sound(store')
           THEN /\ vectorFile' = [store |-> store', given |-> given']
                /\ words' = Unworded(words, removed)
                /\ UNCHANGED <<run, embeddings>>
           ELSE RunFails /\ UNCHANGED <<vectorFile, words>>
        /\ UNCHANGED failures
     \/ /\ MayFail /\ failures' = failures - 1
        /\ store' = LoadedPair /\ given' = LoadedGiven
        /\ RunFails
        /\ UNCHANGED <<vectorFile, words>>
  /\ UNCHANGED <<wordFile, committed>>

\* Seeded fault: a store is written as it is.
AsItIs == TRUE
\* save begins with validate_structure.
Saves == Sound(store)

RunSaves ==
  /\ run = "works"
  /\ IF Saves THEN /\ vectorFile' = [store |-> store, given |-> given]
                   /\ run' = "saved" /\ UNCHANGED embeddings
              ELSE RunFails /\ UNCHANGED vectorFile
  /\ UNCHANGED <<store, words, wordFile, committed, given, failures>>

\* saveInvertedIndex and the commit; or the file cannot be written.
RunEnds ==
  /\ run = "saved"
  /\ \/ /\ wordFile' = words /\ committed' = embeddings
        /\ run' = "idle" /\ UNCHANGED <<embeddings, failures>>
     \/ /\ MayFail /\ failures' = failures - 1
        /\ RunFails /\ UNCHANGED <<wordFile, committed>>
  /\ UNCHANGED <<store, words, vectorFile, given>>

\* clearIndex.
ClearIndex ==
  /\ run = "works"
  /\ store' = EmptyStore /\ given' = <<>> /\ words' = NoChunks
  /\ vectorFile' = [store |-> EmptyStore, given |-> <<>>] /\ wordFile' = NoChunks
  /\ embeddings' = <<>> /\ committed' = <<>>
  /\ run' = "idle"
  /\ UNCHANGED failures

\* The Indexer is closed; another process ends here too.
Closes ==
  /\ run = "idle"
  /\ run' = "closed"
  /\ store' = EmptyStore /\ given' = <<>> /\ words' = NoChunks
  /\ UNCHANGED <<vectorFile, wordFile, embeddings, committed, failures>>

-----------------------------------------------------------------------------
StoresInit ==
  /\ store = EmptyStore /\ words = NoChunks
  /\ vectorFile = Absent /\ wordFile = Absent
  /\ embeddings = <<>> /\ committed = <<>> /\ given = <<>>
  /\ run = "closed" /\ failures = Failures

StoresNext ==
  \/ RunBegins \/ RunSaves \/ RunEnds \/ ClearIndex \/ Closes
  \/ \E c \in Chunk : AddCached(c)
  \/ \E batch \in DistinctBatch : AddEmbedded(batch)
  \/ \E removed \in SUBSET Chunk : RemoveChunks(removed)

StoresSpec == StoresInit /\ [][StoresNext]_storesVars
-----------------------------------------------------------------------------
(* Properties.                                                              *)

\* What the native index holds under a bound id is what the store was last given for
\* the chunk, whichever calls have failed: a search never shows a chunk for the vector
\* of another, or for one it has outlived (add and add_batch, store.rs:137-240).
NeverAliased ==
  \A id \in DOMAIN store.idToKey \cap DOMAIN store.index :
    LET key == store.idToKey[id] IN key \in DOMAIN given /\ store.index[id] = given[key]

\* The files hold a store whose index and maps agree and bind every chunk to the vector
\* last given for it, although a run goes on after a failure that has left the index
\* and the maps apart (index.ts:2444-2467, store.rs:208-222).
SavedSound ==
  vectorFile # Absent =>
    /\ Sound(vectorFile.store)
    /\ \A key \in Keys(vectorFile.store) :
         vectorFile.store.index[vectorFile.store.keyToId[key]] = vectorFile.given[key]

\* Document frequencies and the average length stay those of the chunks that are there,
\* through replaced and compensated chunks (inverted_index.rs:99-141).
KeywordsExact == Exact(words)

\* The vector store, in memory and on disk.
StoresSound == NeverAliased /\ SavedSound
=============================================================================
