--------------------------- MODULE EmbeddingBatches ---------------------------
(***************************************************************************)
(* processPendingChunkBatch (src/src/indexer/index.ts) and the two runs    *)
(* that call it, index and retryFailedBatches: how chunks become vectors.  *)
(*                                                                         *)
(* A long chunk is embedded in parts.  The parts of all chunks of a call   *)
(* are packed into requests, which p-queue sends several at a time; they   *)
(* share one backoff.  A chunk whose parts have all come back is pooled    *)
(* into one vector; a chunk of a request that fails for good is recorded   *)
(* in the run's new failure file, which replaces the old one when the run  *)
(* ends well.  An answer is handled without an await, so it is one step,   *)
(* but the answers to the parts of a chunk come in any order.              *)
(*                                                                         *)
(* What IndexStore calls Embed is a call of this module.                   *)
(***************************************************************************)
EXTENDS FailedRecords

CONSTANTS
  PartCount,    \* parts of each chunk: [Chunk -> Nat \ {0}]
  TextOf,       \* the text (content hash) of each chunk; embeddings are cached by text
  Fresh,        \* the chunk lists that a scan finds changed, one batch of files each
  FirstFiles,   \* the failure files an earlier run may have left
  CallSize,     \* INDEX_FILE_BATCH_LIMITS: chunks per call
  MaxItems,     \* requests per batch (getDynamicBatchOptions)
  Concurrency,  \* getProviderRateLimits: requests in flight
  Retries,      \* indexing.retries
  MaxBackoff,   \* the longest backoff; one unit is minRetryMs
  Runs          \* bound: runs

ASSUME PartsAssumption == PartCount \in [Chunk -> Nat \ {0}]
ASSUME FreshAssumption == Fresh \subseteq Seq(OwnChunk)
ASSUME LimitsAssumption ==
  /\ CallSize \in Nat \ {0} /\ MaxItems \in Nat \ {0} /\ Concurrency \in Nat \ {0}
  /\ Retries \in Nat /\ MaxBackoff \in Nat \ {0} /\ Runs \in Nat

VARIABLES
  file,     \* the failure file
  cached,   \* the parts each text's embedding in the database was pooled from
  vector,   \* the parts each chunk's vector was pooled from; {} if it has none
  words,    \* chunks in the keyword index
  run,      \* the run in progress: its mode, the calls it still has to make and
            \* the records of its new failure file; also the chunks it was
            \* asked to embed and the embeddings when it began
  call,     \* the call of processPendingChunkBatch in progress
  req,      \* its requests: [step, tries]
  backoff,  \* rateLimitState.backoffMs
  left      \* how many of Runs are left

vars == <<file, cached, vector, words, run, call, req, backoff, left>>

Text == {TextOf[c] : c \in Chunk}
NoRun == [mode |-> "none", calls |-> <<>>, written |-> <<>>, asked |-> {}, fresh |-> <<>>, before |-> [t \in Text |-> {}]]
NoCall == [chunks |-> <<>>, batches |-> <<>>, got |-> [c \in Chunk |-> {}],
           pooled |-> [c \in Chunk |-> {}], failed |-> {}, failures |-> 0,
           attempts |-> [c \in Chunk |-> 0], fatal |-> FALSE]

AllParts(c) == 1..PartCount[c]

BatchesOf(chunks) ==
  LET requests == RequestsOf(chunks, PartCount)
  IN DynamicBatches(requests, [r \in ToSet(requests) |-> 1], MaxItems, MaxItems)

Idle == run.mode = "none"
Calling == call.chunks # <<>>
Completed == {c \in Chunk : call.pooled[c] # {}}

-----------------------------------------------------------------------------
(* The run: prepare, one call after another, replace the failure file.     *)

\* A call is the list of the records it works on; a new chunk has none yet.
\* Files, and the chunks to retry, come in batches; here each has the same size.
Calls(records) == FileBatches(records, [r \in ToSet(records) |-> 1], CallSize, CallSize)
NewChunks(chunks) == [i \in DOMAIN chunks |-> Record(chunks[i], 0)]

Started(mode, fresh, calls) ==
  run' = [mode |-> mode, fresh |-> fresh, calls |-> calls, written |-> Kept(file), before |-> cached,
          asked |-> UNION {Recorded(calls[i]) : i \in DOMAIN calls}]

\* index: the chunks of changed files, then those recorded for unchanged files.
StartIndex ==
  /\ Idle /\ left > 0
  /\ \E fresh \in Fresh :
       /\ \A i \in DOMAIN fresh : vector[fresh[i]] = {}
       /\ Started("index", fresh, Calls(NewChunks(fresh)) \o Calls(ToRetry(file, Chunk \ ToSet(fresh))))
  /\ left' = left - 1
  /\ backoff' = 0
  /\ UNCHANGED <<file, cached, vector, words, call, req>>

\* retryFailedBatches: all of them.
StartRetry ==
  /\ Idle /\ left > 0
  /\ Started("retry", <<>>, Calls(ToRetry(file, Chunk)))
  /\ left' = left - 1
  /\ backoff' = 0
  /\ UNCHANGED <<file, cached, vector, words, call, req>>

\* finalizeFailedBatchWriteState: a run that recorded nothing removes the file.
Finalized == run.written

Finish ==
  /\ ~Idle /\ ~Calling /\ run.calls = <<>>
  /\ file' = Finalized
  /\ run' = NoRun
  /\ UNCHANGED <<cached, vector, words, call, req, backoff, left>>

-----------------------------------------------------------------------------
(* A call: chunks whose text has an embedding are stored at once (index     *)
(* only), the others are packed into requests.                              *)

\* Seeded fault: the last part of a chunk is not waited for.
AnyPart(c, got) == got # {}

\* hasAllEmbeddingParts
HasAllParts(c, got) == got = AllParts(c)

Reused(records) ==
  IF run.mode = "retry" THEN {} ELSE {c \in Recorded(records) : cached[TextOf[c]] # {}}

Begin ==
  /\ ~Idle /\ ~Calling /\ run.calls # <<>>
  /\ \E todo \in {Head(run.calls)} : \E reused \in {Reused(todo)} :
     \E needed \in {SelectSeq([i \in DOMAIN todo |-> todo[i].chunk], LAMBDA c : c \notin reused)} :
     \E batches \in {BatchesOf(needed)} :
        /\ vector' = [c \in Chunk |-> IF c \in reused THEN cached[TextOf[c]] ELSE vector[c]]
        /\ words' = words \cup reused
        /\ IF needed = <<>> THEN UNCHANGED <<call, req>>
           ELSE /\ call' = [NoCall EXCEPT !.chunks = needed, !.batches = batches, 
                                        !.attempts = [c \in Chunk |-> IF c \in Recorded(todo) THEN Latest(todo, c) ELSE 0]]
                /\ req' = [i \in DOMAIN batches |-> [step |-> "new", tries |-> 0]]
  /\ run' = [run EXCEPT !.calls = Tail(@)]
  /\ UNCHANGED <<file, cached, backoff, left>>

In(steps) == {i \in DOMAIN req : req[i].step \in steps}
\* Seeded fault: a finished request keeps its place in the queue.
NeverLanding == {"backoff", "sent", "delay", "done"}

Flying == {"backoff", "sent", "delay"}
To(i, step) == req' = [req EXCEPT ![i].step = step]

\* queue.onSizeLessThan, then queue.add: no more than Concurrency wait at a time.
\* retryFailedBatches has a queue of its own with one request in flight.
Enqueue(i) ==
  /\ i \in In({"new"}) /\ \A j \in In({"new"}) : i <= j
  /\ Cardinality(In({"queued"})) < Concurrency
  /\ To(i, "queued")
  /\ UNCHANGED <<file, cached, vector, words, run, call, backoff, left>>

\* The queue runs its tasks in order.  The backoff is read when a task begins.
Start(i) ==
  /\ i \in In({"queued"}) /\ \A j \in In({"queued"}) : i <= j
  /\ Cardinality(In(Flying)) < IF run.mode = "retry" THEN 1 ELSE Concurrency
  /\ To(i, IF backoff > 0 THEN "backoff" ELSE "sent")
  /\ UNCHANGED <<file, cached, vector, words, run, call, backoff, left>>

\* The backoff, or p-retry's delay, is over.
Send(i) ==
  /\ i \in In({"backoff", "delay"})
  /\ To(i, "sent")
  /\ UNCHANGED <<file, cached, vector, words, run, call, backoff, left>>

Relaxed == IF backoff > 2 THEN backoff - 2 ELSE 0
Raised == LET twice == 2 * (IF backoff = 0 THEN 1 ELSE backoff) IN IF twice < MaxBackoff THEN twice ELSE MaxBackoff

\* An answer with a vector for each text.  Parts of chunks that have failed are
\* dropped; the chunks that are now complete get their embedding.
Answered(i) ==
  /\ i \in In({"sent"})
  /\ To(i, "done")
  /\ backoff' = Relaxed
  /\ \E mine \in {{r \in ToSet(call.batches[i]) : r.chunk \notin call.failed \cup Completed}} :
     \E got \in {[c \in Chunk |-> call.got[c] \cup {r.part : r \in {s \in mine : s.chunk = c}}]} :
     \E whole \in {{c \in Chunk : (\E r \in mine : r.chunk = c) /\ HasAllParts(c, got[c])}} :
     /\ cached' = [t \in Text |-> IF \E c \in whole : TextOf[c] = t
                                  THEN got[CHOOSE c \in whole : TextOf[c] = t] ELSE cached[t]]
     /\ call' = [call EXCEPT !.pooled = [c \in Chunk |-> IF c \in whole THEN got[c] ELSE @[c]],
                             !.got = [c \in Chunk |-> IF c \in whole THEN {} ELSE got[c]]]
  /\ UNCHANGED <<file, vector, words, run, left>>

\* A request that fails is repeated; a rate limit raises the backoff of all.
Repeat(i) ==
  /\ i \in In({"sent"}) /\ req[i].tries < Retries
  /\ req' = [req EXCEPT ![i] = [step |-> "delay", tries |-> @.tries + 1]]
  /\ backoff' \in {backoff, Raised}
  /\ UNCHANGED <<file, cached, vector, words, run, call, left>>

\* Seeded fault: a chunk with a part that did come back is not blamed.
BlamedUntouched(i) ==
  SelectSeq(ChunksOfRequests(call.batches[i]), LAMBDA c : c \notin Completed /\ call.got[c] = {})

\* The chunks a failed request takes with it: those not yet complete, and in a
\* retry not those already recorded.
Blamed(i) ==
  SelectSeq(ChunksOfRequests(call.batches[i]),
            LAMBDA c : c \notin Completed /\ (run.mode = "index" \/ c \notin call.failed))

\* How many chunks are counted as failed: each once, whatever its requests.
Newly(hit) == Cardinality(hit \ call.failed)

\* The request has failed for good, or its answer is short of vectors, or the
\* database cannot take the embeddings: its chunks are recorded, each with one
\* more attempt.  If the file cannot be written the task throws, and the call
\* will, after the other requests.
Fail(i) ==
  \E blamed \in {Blamed(i)} :
  LET Recorded1(n) == [k \in 1..n |-> Record(blamed[k], call.attempts[blamed[k]] + 1)]
      Lost(n) == {c \in Chunk : \E k \in 1..n : blamed[k] = c}
  IN /\ i \in In({"sent"})
     /\ To(i, "done")
     /\ \E n \in 0..Len(blamed) :
          LET fatal == n < Len(blamed)
              hit == Lost(IF fatal THEN n + 1 ELSE n)
          IN /\ call' = [call EXCEPT !.failed = @ \cup hit,
                                     !.failures = @ + Newly(hit),
                                     !.got = [c \in Chunk |-> IF c \in hit THEN {} ELSE call.got[c]],
                                     !.attempts = [c \in Chunk |-> IF c \in hit THEN @[c] + 1 ELSE @[c]],
                                     !.fatal = @ \/ fatal]
             /\ run' = [run EXCEPT !.written = @ \o Recorded1(n)]
     /\ backoff' \in {backoff, Raised, Relaxed}
     /\ UNCHANGED <<file, cached, vector, words, left>>

Answer(i) == Answered(i) \/ Repeat(i) \/ Fail(i)

-----------------------------------------------------------------------------
(* When all requests are done the complete chunks are stored together.     *)

Drained == Calling /\ In({"done"}) = DOMAIN req
Pooled == SelectSeq(call.chunks, LAMBDA c : c \in Completed)

Publish ==
  /\ Drained /\ ~call.fatal
  /\ vector' = [c \in Chunk |-> IF c \in Completed THEN call.pooled[c] ELSE vector[c]]
  /\ words' = words \cup Completed
  /\ call' = NoCall /\ req' = <<>>
  /\ UNCHANGED <<file, cached, run, backoff, left>>

\* addBatch throws: what it stored is taken out again, and recorded.
Unpublish ==
  /\ Drained /\ ~call.fatal /\ Completed # {}
  /\ vector' = [c \in Chunk |-> IF c \in Completed THEN {} ELSE vector[c]]
  /\ words' = words \ Completed
  /\ run' = [run EXCEPT !.written =
                @ \o [k \in DOMAIN Pooled |-> Record(Pooled[k], call.attempts[Pooled[k]] + 1)]]
  /\ call' = NoCall /\ req' = <<>>
  /\ UNCHANGED <<file, cached, backoff, left>>

\* The failure file could not be written: the run fails and leaves the old one.
\* index rolls its transaction back, embeddings included.
Abort ==
  /\ Drained /\ call.fatal
  /\ cached' = IF run.mode = "index" THEN run.before ELSE cached
  /\ run' = NoRun /\ call' = NoCall /\ req' = <<>>
  /\ UNCHANGED <<file, vector, words, backoff, left>>

Init ==
  /\ file \in FirstFiles
  /\ cached = [t \in Text |-> {}] /\ vector = [c \in Chunk |-> {}] /\ words = {}
  /\ run = NoRun /\ call = NoCall /\ req = <<>>
  /\ backoff = 0 /\ left = Runs

RunStep == StartIndex \/ StartRetry
CallStep == Begin \/ Publish \/ Unpublish \/ Abort \/ Finish
RequestStep == \E i \in DOMAIN req : Enqueue(i) \/ Start(i) \/ Send(i) \/ Answer(i)

Outcomes == INSTANCE ChunkOutcomes WITH
  pending <- IF Calling THEN ToSet(call.chunks) \ call.failed ELSE {},
  stored <- {c \in Chunk : vector[c] # {}},
  recorded <- call.failed \cup (run.asked \cap Recorded(run.written))

Next == RunStep \/ CallStep \/ RequestStep
Spec == Init /\ [][Next]_vars

\* Requests time out, delays end and the queue runs its tasks; nobody has to
\* start a run.
Fairness == WF_vars(RequestStep) /\ WF_vars(CallStep)
FairSpec == Spec /\ Fairness
-----------------------------------------------------------------------------
(* Properties.                                                              *)

\* No embedding, or one pooled from all the parts of a chunk with the text.
WholeOf(text) == {{}} \cup {AllParts(c) : c \in {d \in Chunk : TextOf[d] = text}}

\* A chunk is never stored in part: its vector, and the embedding cached for its
\* text, are pooled from all the parts of a chunk with that text, in whatever order
\* and requests they came back, and it has a vector exactly if the keyword index
\* has its words (hasAllEmbeddingParts, embedding-batches.ts:228).  A chunk that
\* fails is counted once, in however many requests its parts were.
StoredWhole ==
  /\ call.failures = Cardinality(call.failed)
  /\ \A c \in Chunk :
       /\ vector[c] \in WholeOf(TextOf[c])
       /\ cached[TextOf[c]] \in WholeOf(TextOf[c])
       /\ c \in words <=> vector[c] # {}

\* A call stores each of its chunks or records it, never both, and none is left
\* over; a vector that a chunk has from a run that failed later stays meanwhile
\* (retryableChunksWithExistingData, index.ts:4260).
OutcomesRefined == Outcomes!Spec

\* A run that ends well leaves a record of every chunk it was asked for, or found
\* recorded, and has not stored; the record counts one more attempt than before,
\* and the records of other projects are as they were.
NothingForgotten ==
  [][~Idle /\ run'.mode = "none" /\ ~Calling =>
       /\ \A c \in run.asked \cup (Recorded(file) \cap OwnChunk) :
            vector[c] = {} =>
              /\ c \in Recorded(file')
              /\ c \in Recorded(file) /\ c \notin ToSet(run.fresh)
                   => Latest(file', c) > Latest(file, c)
       /\ Kept(file') = Kept(file)]_vars

\* Every run ends: no request waits for a place that nobody gives up.
RunEnds == ~Idle ~> Idle
=============================================================================
