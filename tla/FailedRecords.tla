---------------------------- MODULE FailedRecords ----------------------------
(***************************************************************************)
(* The failure records of an index (failed-batches.json):                  *)
(* src/src/indexer/failed-state-persistence.ts and the methods of the      *)
(* Indexer that read and rewrite them.  A file is the sequence of its      *)
(* records.  The program writes one chunk to a record and goes through the *)
(* chunks of older, longer records one by one, so a record has one chunk   *)
(* here, and its attempt count.  A chunk may have several records; only    *)
(* the one with the highest attempt count says what to retry.              *)
(***************************************************************************)
EXTENDS Batching, FiniteSetsExt

CONSTANTS
  Chunk,       \* chunk ids
  OwnChunk,    \* those of files in this project's scope (a global index has others)
  Malformed    \* a line that is no record

ASSUME ScopeAssumption == IsFiniteSet(Chunk) /\ OwnChunk \subseteq Chunk

Record(chunk, attempt) == [chunk |-> chunk, attempt |-> attempt]

\* readFailedBatchRecords: a malformed line is skipped, the rest is read.
Read(file) == SelectSeq(file, LAMBDA line : line # Malformed)
RecordsOf(file) == ToSet(Read(file))
Recorded(file) == {r.chunk : r \in RecordsOf(file)}

\* The records that every rewriting of the file copies: other projects'.
Kept(file) == SelectSeq(Read(file), LAMBDA r : r.chunk \notin OwnChunk)

\* prepareFailedBatchProcessing: the attempt that counts.
Latest(file, chunk) == Max({r.attempt : r \in {s \in RecordsOf(file) : s.chunk = chunk}})

\* Seeded fault: the first record of a chunk is taken for the latest.
FirstOfEach(file, wanted) ==
  LET rs == Read(file)
  IN PickAt(rs, LAMBDA i : /\ rs[i].chunk \in OwnChunk \cap wanted
                           /\ \A j \in 1..(i - 1) : rs[j].chunk # rs[i].chunk)

\* iterateLatestFailedChunks: the records of this project a run will retry (the
\* chunks of unchanged files, or all), the latest of each chunk, in file order.
ToRetry(file, wanted) ==
  LET rs == Read(file)
  IN PickAt(rs, LAMBDA i : /\ rs[i].chunk \in OwnChunk \cap wanted
                           /\ rs[i].attempt = Latest(file, rs[i].chunk)
                           /\ \A j \in 1..(i - 1) : rs[j] # rs[i])
=============================================================================
