----------------------- MODULE EmbeddingBatchesProofs -----------------------
(***************************************************************************)
(* Proof that no chunk is stored in part (StoredWhole), for any chunks and *)
(* texts, any numbers of parts, any limits on calls and requests and any   *)
(* number of runs.                                                         *)
(*                                                                         *)
(* The invariant follows the parts on their way: a chunk of the call is    *)
(* pooled from all of its parts or not at all, so is every embedding that  *)
(* the database has, and so was every embedding it had when the run began, *)
(* to which an aborted run goes back.                                      *)
(***************************************************************************)
EXTENDS EmbeddingBatches, FiniteSetTheorems, TLAPS

\* The fields that the steps write one by one.
Shapes == DOMAIN call = DOMAIN NoCall /\ DOMAIN run = DOMAIN NoRun

\* The failed chunks are counted once each.
FailedCounted == call.failed \subseteq Chunk /\ call.failures = Cardinality(call.failed)

\* A chunk of the call is pooled from all of its parts, or not yet.
PooledWhole == \A c \in Chunk : call.pooled[c] \in {{}, AllParts(c)}

\* So are the embeddings of the database, and those an aborted run restores.
CachedWhole == \A t \in Text : cached[t] \in WholeOf(t) /\ run.before[t] \in WholeOf(t)

\* So are the vectors, and the keyword index knows the same chunks.
VectorsWhole ==
  \A c \in Chunk : vector[c] \in WholeOf(TextOf[c]) /\ (c \in words <=> vector[c] # {})

BatchesInv == Shapes /\ FailedCounted /\ PooledWhole /\ CachedWhole /\ VectorsWhole

\* What all parts of a chunk are pooled into is whole.
LEMMA AllPartsWhole ==
  ASSUME NEW c \in Chunk
  PROVE  {} \in WholeOf(TextOf[c]) /\ AllParts(c) \in WholeOf(TextOf[c]) /\ TextOf[c] \in Text
BY DEF WholeOf, Text

\* Embeddings that are whole are stored as vectors that are whole.
LEMMA StoreKeeps ==
  ASSUME VectorsWhole, NEW S, NEW e,
         \A c \in Chunk : c \in S => e[c] \in WholeOf(TextOf[c]) /\ e[c] # {},
         vector' = [c \in Chunk |-> IF c \in S THEN e[c] ELSE vector[c]],
         words' = words \cup S
  PROVE  VectorsWhole'
BY DEF VectorsWhole, WholeOf, AllParts

\* A call and a run without results keep the invariant.
LEMMA NoCallKeeps ==
  ASSUME call' = NoCall
  PROVE  FailedCounted' /\ PooledWhole' /\ DOMAIN call' = DOMAIN NoCall
<1>1. call'.failed = {} /\ call'.failures = 0 /\ \A c \in Chunk : call'.pooled[c] = {}
  BY DEF NoCall
<1>2. Cardinality({}) = 0
  BY FS_EmptySet
<1> QED BY <1>1, <1>2 DEF FailedCounted, PooledWhole, AllParts

\* Nothing is embedded at first.
LEMMA BatchesStart == Init => BatchesInv
<1> SUFFICES ASSUME Init PROVE BatchesInv
  OBVIOUS
<1>1. Shapes
  BY DEF Init, Shapes
<1>2. FailedCounted /\ PooledWhole
  <2>1. call.failed = {} /\ call.failures = 0 /\ \A c \in Chunk : call.pooled[c] = {}
    BY DEF Init, NoCall
  <2>2. QED BY <2>1, FS_EmptySet DEF FailedCounted, PooledWhole
<1>3. CachedWhole
  <2>1. \A t \in Text : cached[t] = {} /\ run.before[t] = {}
    BY DEF Init, NoRun
  <2>2. QED BY <2>1 DEF CachedWhole, WholeOf
<1>4. VectorsWhole
  BY DEF Init, VectorsWhole, WholeOf
<1>5. QED BY <1>1, <1>2, <1>3, <1>4 DEF BatchesInv

\* A run that starts remembers the embeddings of the database.
LEMMA StartedKeeps ==
  ASSUME BatchesInv, NEW mode, NEW fresh, NEW calls, Started(mode, fresh, calls),
         UNCHANGED <<cached, vector, words, call>>
  PROVE  BatchesInv'
<1> USE DEF BatchesInv
<1>1. run'.before = cached /\ DOMAIN run' = DOMAIN NoRun
  BY DEF Started, NoRun
<1>2. Shapes' /\ CachedWhole'
  BY <1>1 DEF Shapes, CachedWhole, WholeOf
<1>3. FailedCounted' /\ PooledWhole' /\ VectorsWhole'
  BY DEF FailedCounted, PooledWhole, VectorsWhole, WholeOf, AllParts
<1>4. QED BY <1>2, <1>3

\* Either kind of run.
LEMMA RunStepKeeps == BatchesInv /\ RunStep => BatchesInv'
<1> SUFFICES ASSUME BatchesInv, RunStep PROVE BatchesInv'
  OBVIOUS
<1>1. CASE StartIndex
  BY <1>1, StartedKeeps DEF StartIndex
<1>2. CASE StartRetry
  BY <1>2, StartedKeeps DEF StartRetry
<1>3. QED BY <1>1, <1>2 DEF RunStep

\* A run that has ended restores nothing.
LEMMA NoRunKeeps ==
  ASSUME run' = NoRun, \A t \in Text : cached'[t] \in WholeOf(t)
  PROVE  CachedWhole' /\ DOMAIN run' = DOMAIN NoRun
<1>1. \A t \in Text : run'.before[t] = {}
  BY DEF NoRun
<1>2. \A t \in Text : {} \in WholeOf(t)
  BY DEF WholeOf
<1>3. QED BY <1>1, <1>2 DEF CachedWhole, WholeOf, AllParts

\* A run that goes on keeps what it would restore.
LEMMA RunGoesOn ==
  ASSUME CachedWhole, DOMAIN run = DOMAIN NoRun, cached' = cached,
         NEW f \in {"calls", "written"}, NEW v, run' = [run EXCEPT ![f] = v]
  PROVE  CachedWhole' /\ DOMAIN run' = DOMAIN NoRun
<1>1. run'.before = run.before /\ DOMAIN run' = DOMAIN run
  BY DEF NoRun
<1>2. QED BY <1>1 DEF CachedWhole, WholeOf, AllParts

\* Chunks whose text has an embedding are stored as it is, the others requested.
LEMMA BeginKeeps == BatchesInv /\ Begin => BatchesInv'
<1> SUFFICES ASSUME BatchesInv, Begin PROVE BatchesInv'
  OBVIOUS
<1> USE DEF BatchesInv
<1>1. PICK reused, needed, batches :
        /\ reused = Reused(Head(run.calls))
        /\ vector' = [c \in Chunk |-> IF c \in reused THEN cached[TextOf[c]] ELSE vector[c]]
        /\ words' = words \cup reused
        /\ IF needed = <<>> THEN UNCHANGED <<call, req>>
           ELSE call' = [NoCall EXCEPT !.chunks = needed, !.batches = batches,
                           !.attempts = [c \in Chunk |-> IF c \in Recorded(Head(run.calls))
                                                         THEN Latest(Head(run.calls), c) ELSE 0]]
  BY Zenon DEF Begin
<1>2. CachedWhole' /\ DOMAIN run' = DOMAIN NoRun
  BY RunGoesOn DEF Begin, Shapes
<1>3. VectorsWhole'
  <2>1. \A c \in Chunk : c \in reused => cached[TextOf[c]] # {}
    BY <1>1 DEF Reused
  <2>2. \A c \in Chunk : cached[TextOf[c]] \in WholeOf(TextOf[c])
    BY AllPartsWhole DEF CachedWhole
  <2> DEFINE e == [c \in Chunk |-> cached[TextOf[c]]]
  <2>3. vector' = [c \in Chunk |-> IF c \in reused THEN e[c] ELSE vector[c]]
    BY <1>1
  <2>4. \A c \in Chunk : c \in reused => e[c] \in WholeOf(TextOf[c]) /\ e[c] # {}
    BY <2>1, <2>2
  <2> HIDE DEF e
  <2>5. words' = words \cup reused
    BY <1>1
  <2>6. VectorsWhole
    OBVIOUS
  <2> HIDE DEF BatchesInv
  <2>7. QED BY <2>3, <2>4, <2>5, <2>6, StoreKeeps
<1>4. FailedCounted' /\ PooledWhole' /\ DOMAIN call' = DOMAIN NoCall
  <2>1. CASE needed = <<>>
    BY <1>1, <2>1 DEF FailedCounted, PooledWhole, AllParts, Shapes
  <2>2. CASE needed # <<>>
    <3>1. PICK attempts :
            call' = [NoCall EXCEPT !.chunks = needed, !.batches = batches, !.attempts = attempts]
      BY <1>1, <2>2, Zenon
    <3>2. /\ DOMAIN call' = DOMAIN NoCall /\ call'.failed = NoCall.failed
          /\ call'.failures = NoCall.failures /\ call'.pooled = NoCall.pooled
      BY <3>1 DEF NoCall
    <3>3. /\ NoCall.failed = {} /\ NoCall.failures = 0
          /\ \A c \in Chunk : NoCall.pooled[c] = {}
      BY DEF NoCall
    <3>4. QED BY <3>2, <3>3, FS_EmptySet DEF FailedCounted, PooledWhole, AllParts
  <2>3. QED BY <2>1, <2>2
<1>5. QED BY <1>2, <1>3, <1>4 DEF Shapes

\* The complete chunks are stored together.
LEMMA PublishKeeps == BatchesInv /\ Publish => BatchesInv'
<1> SUFFICES ASSUME BatchesInv, Publish PROVE BatchesInv'
  OBVIOUS
<1> USE DEF BatchesInv
<1>1. VectorsWhole'
  <2>1. \A c \in Chunk : c \in Completed => call.pooled[c] \in WholeOf(TextOf[c]) /\ call.pooled[c] # {}
    BY AllPartsWhole DEF Completed, PooledWhole
  <2>2. QED BY <2>1, StoreKeeps DEF Publish
<1>2. FailedCounted' /\ PooledWhole' /\ DOMAIN call' = DOMAIN NoCall
  BY NoCallKeeps DEF Publish
<1>3. CachedWhole' /\ DOMAIN run' = DOMAIN NoRun
  BY DEF Publish, Shapes, CachedWhole, WholeOf, AllParts
<1>4. QED BY <1>1, <1>2, <1>3 DEF Shapes

\* What cannot be stored together is taken out again.
LEMMA UnpublishKeeps == BatchesInv /\ Unpublish => BatchesInv'
<1> SUFFICES ASSUME BatchesInv, Unpublish PROVE BatchesInv'
  OBVIOUS
<1> USE DEF BatchesInv
<1>1. VectorsWhole'
  BY DEF Unpublish, VectorsWhole, WholeOf, AllParts
<1>2. FailedCounted' /\ PooledWhole' /\ DOMAIN call' = DOMAIN NoCall
  BY NoCallKeeps DEF Unpublish
<1>3. CachedWhole' /\ DOMAIN run' = DOMAIN NoRun
  BY RunGoesOn DEF Unpublish, Shapes
<1>4. QED BY <1>1, <1>2, <1>3 DEF Shapes

\* A run that fails goes back to the embeddings it began with, which are whole.
LEMMA AbortKeeps == BatchesInv /\ Abort => BatchesInv'
<1> SUFFICES ASSUME BatchesInv, Abort PROVE BatchesInv'
  OBVIOUS
<1> USE DEF BatchesInv
<1>1. VectorsWhole'
  BY DEF Abort, VectorsWhole, WholeOf, AllParts
<1>2. FailedCounted' /\ PooledWhole' /\ DOMAIN call' = DOMAIN NoCall
  BY NoCallKeeps DEF Abort
<1>3. \A t \in Text : cached'[t] \in WholeOf(t)
  BY DEF Abort, CachedWhole, WholeOf, AllParts
<1>4. CachedWhole' /\ DOMAIN run' = DOMAIN NoRun
  BY <1>3, NoRunKeeps DEF Abort
<1>5. QED BY <1>1, <1>2, <1>4 DEF Shapes

\* A run that ends well replaces the failure file only.
LEMMA FinishKeeps == BatchesInv /\ Finish => BatchesInv'
<1> SUFFICES ASSUME BatchesInv, Finish PROVE BatchesInv'
  OBVIOUS
<1> USE DEF BatchesInv
<1>1. FailedCounted' /\ PooledWhole' /\ VectorsWhole'
  BY DEF Finish, FailedCounted, PooledWhole, VectorsWhole, WholeOf, AllParts
<1>2. \A t \in Text : cached'[t] \in WholeOf(t)
  BY DEF Finish, CachedWhole, WholeOf, AllParts
<1>3. CachedWhole' /\ DOMAIN run' = DOMAIN NoRun
  BY <1>2, NoRunKeeps DEF Finish
<1>4. QED BY <1>1, <1>3 DEF Finish, Shapes

\* Requests on their way change nothing of it.
LEMMA UnansweredKeeps ==
  ASSUME BatchesInv, UNCHANGED <<cached, vector, words, run, call>>
  PROVE  BatchesInv'
<1> USE DEF BatchesInv, WholeOf, AllParts
<1>1. Shapes' /\ FailedCounted' /\ PooledWhole'
  BY DEF Shapes, FailedCounted, PooledWhole
<1>2. CachedWhole' /\ VectorsWhole'
  BY DEF CachedWhole, VectorsWhole
<1>3. QED BY <1>1, <1>2

\* A chunk is pooled when all of its parts are there, whatever is answered last.
LEMMA AnsweredKeeps == ASSUME NEW i, BatchesInv, Answered(i) PROVE BatchesInv'
<1> USE DEF BatchesInv
<1>a. PICK mine :
        \E got \in {[c \in Chunk |-> call.got[c] \cup {r.part : r \in {s \in mine : s.chunk = c}}]} :
        \E whole \in {{c \in Chunk : (\E r \in mine : r.chunk = c) /\ HasAllParts(c, got[c])}} :
        /\ cached' = [t \in Text |-> IF \E c \in whole : TextOf[c] = t
                                     THEN got[CHOOSE c \in whole : TextOf[c] = t] ELSE cached[t]]
        /\ call' = [call EXCEPT !.pooled = [c \in Chunk |-> IF c \in whole THEN got[c] ELSE @[c]],
                                !.got = [c \in Chunk |-> IF c \in whole THEN {} ELSE got[c]]]
  BY Zenon DEF Answered
<1>b. PICK got :
        \E whole \in {{c \in Chunk : (\E r \in mine : r.chunk = c) /\ HasAllParts(c, got[c])}} :
        /\ cached' = [t \in Text |-> IF \E c \in whole : TextOf[c] = t
                                     THEN got[CHOOSE c \in whole : TextOf[c] = t] ELSE cached[t]]
        /\ call' = [call EXCEPT !.pooled = [c \in Chunk |-> IF c \in whole THEN got[c] ELSE @[c]],
                                !.got = [c \in Chunk |-> IF c \in whole THEN {} ELSE got[c]]]
  BY <1>a, Zenon
<1>1. PICK whole :
        /\ whole = {c \in Chunk : (\E r \in mine : r.chunk = c) /\ HasAllParts(c, got[c])}
        /\ cached' = [t \in Text |-> IF \E c \in whole : TextOf[c] = t
                                     THEN got[CHOOSE c \in whole : TextOf[c] = t] ELSE cached[t]]
        /\ call' = [call EXCEPT !.pooled = [c \in Chunk |-> IF c \in whole THEN got[c] ELSE @[c]],
                                !.got = [c \in Chunk |-> IF c \in whole THEN {} ELSE got[c]]]
  BY <1>b, Zenon
<1>2. \A c \in whole : c \in Chunk /\ got[c] = AllParts(c)
  BY <1>1 DEF HasAllParts
<1>3. CachedWhole'
  <2> SUFFICES ASSUME NEW t \in Text
               PROVE  cached'[t] \in WholeOf(t) /\ run'.before[t] \in WholeOf(t)
    BY DEF CachedWhole, WholeOf, AllParts
  <2>1. run'.before[t] \in WholeOf(t)
    BY DEF Answered, CachedWhole
  <2>2. CASE \E c \in whole : TextOf[c] = t
    <3>1. PICK w : w = (CHOOSE c \in whole : TextOf[c] = t)
      OBVIOUS
    <3>2. w \in whole /\ TextOf[w] = t
      BY <2>2, <3>1
    <3>3. cached'[t] = got[w]
      BY <1>1, <2>2, <3>1
    <3>4. QED BY <1>2, <2>1, <3>2, <3>3, AllPartsWhole
  <2>3. CASE ~ \E c \in whole : TextOf[c] = t
    BY <1>1, <2>1, <2>3 DEF CachedWhole
  <2>4. QED BY <2>2, <2>3
<1>4. /\ DOMAIN call' = DOMAIN NoCall
      /\ call'.failed = call.failed /\ call'.failures = call.failures
      /\ call'.pooled = [c \in Chunk |-> IF c \in whole THEN got[c] ELSE call.pooled[c]]
  BY <1>1 DEF Shapes, NoCall
<1>5. FailedCounted' /\ PooledWhole'
  BY <1>2, <1>4 DEF FailedCounted, PooledWhole, AllParts
<1>6. VectorsWhole' /\ DOMAIN run' = DOMAIN NoRun
  BY DEF Answered, VectorsWhole, WholeOf, AllParts, Shapes
<1>7. QED BY <1>3, <1>4, <1>5, <1>6 DEF Shapes

\* A chunk that fails is counted unless an earlier request has failed it.
LEMMA CountedOnce ==
  ASSUME FailedCounted, NEW hit, hit \subseteq Chunk
  PROVE  Cardinality(call.failed \cup hit) = call.failures + Newly(hit)
<1>1. IsFiniteSet(call.failed) /\ IsFiniteSet(hit)
  BY ScopeAssumption, FS_Subset DEF FailedCounted
<1>2. IsFiniteSet(hit \ call.failed)
  BY <1>1, FS_Subset
<1>3. call.failed \cup hit = call.failed \cup (hit \ call.failed)
  OBVIOUS
<1>4. call.failed \cap (hit \ call.failed) = {}
  OBVIOUS
<1>5. Cardinality(call.failed \cup (hit \ call.failed))
        = Cardinality(call.failed) + Cardinality(hit \ call.failed)
  <2>1. Cardinality(call.failed \cap (hit \ call.failed)) = 0
    BY <1>4, FS_EmptySet
  <2>2. Cardinality(call.failed) \in Nat /\ Cardinality(hit \ call.failed) \in Nat
    BY <1>1, <1>2, FS_CardinalityType
  <2>3. Cardinality(call.failed \cup (hit \ call.failed))
          = Cardinality(call.failed) + Cardinality(hit \ call.failed)
              - Cardinality(call.failed \cap (hit \ call.failed))
    BY <1>1, <1>2, FS_Union
  <2>4. QED BY <2>1, <2>2, <2>3
<1>6. QED BY <1>3, <1>5 DEF Newly, FailedCounted

\* A request that fails for good takes parts away and pools nothing.
LEMMA FailKeeps == ASSUME NEW i, BatchesInv, Fail(i) PROVE BatchesInv'
<1> USE DEF BatchesInv
<1>1. PICK blamed, n :
        LET fatal == n < Len(blamed)
            hit == {c \in Chunk : \E k \in 1..(IF fatal THEN n + 1 ELSE n) : blamed[k] = c}
        IN /\ call' = [call EXCEPT !.failed = @ \cup hit, !.failures = @ + Newly(hit),
                         !.got = [c \in Chunk |-> IF c \in hit THEN {} ELSE call.got[c]],
                         !.attempts = [c \in Chunk |-> IF c \in hit THEN @[c] + 1 ELSE @[c]],
                         !.fatal = @ \/ fatal]
           /\ run' = [run EXCEPT !.written =
                         @ \o [k \in 1..n |-> Record(blamed[k], call.attempts[blamed[k]] + 1)]]
           /\ UNCHANGED <<cached, vector, words>>
  BY Zenon DEF Fail
<1> DEFINE hit == {c \in Chunk : \E k \in 1..(IF n < Len(blamed) THEN n + 1 ELSE n) : blamed[k] = c}
           got == [c \in Chunk |-> IF c \in hit THEN {} ELSE call.got[c]]
           attempts == [c \in Chunk |-> IF c \in hit THEN call.attempts[c] + 1 ELSE call.attempts[c]]
           fatal == call.fatal \/ n < Len(blamed)
           written == run.written \o [k \in 1..n |-> Record(blamed[k], call.attempts[blamed[k]] + 1)]
<1>a. /\ call' = [call EXCEPT !.failed = @ \cup hit, !.failures = @ + Newly(hit),
                              !.got = got, !.attempts = attempts, !.fatal = fatal]
      /\ run' = [run EXCEPT !.written = written]
      /\ UNCHANGED <<cached, vector, words>>
  BY <1>1, Zenon
<1>b. hit \subseteq Chunk
  OBVIOUS
<1> HIDE DEF hit, got, attempts, fatal, written
<1>2. CachedWhole' /\ DOMAIN run' = DOMAIN NoRun
  BY <1>a, RunGoesOn DEF Shapes
<1>3. /\ DOMAIN call' = DOMAIN NoCall /\ call'.pooled = call.pooled
      /\ call'.failed = call.failed \cup hit /\ call'.failures = call.failures + Newly(hit)
  BY <1>a DEF Shapes, NoCall
<1>4. FailedCounted'
  BY <1>b, <1>3, CountedOnce DEF FailedCounted
<1>5. PooledWhole' /\ VectorsWhole'
  BY <1>a, <1>3 DEF PooledWhole, VectorsWhole, WholeOf, AllParts
<1>6. QED BY <1>2, <1>3, <1>4, <1>5 DEF Shapes

\* The requests of a call.
LEMMA RequestStepKeeps == BatchesInv /\ RequestStep => BatchesInv'
<1> SUFFICES ASSUME BatchesInv, NEW i, Enqueue(i) \/ Start(i) \/ Send(i) \/ Answer(i)
             PROVE  BatchesInv'
  BY DEF RequestStep
<1>1. CASE Enqueue(i) \/ Start(i) \/ Send(i) \/ Repeat(i)
  BY <1>1, UnansweredKeeps DEF Enqueue, Start, Send, Repeat
<1>2. CASE Answered(i)
  BY <1>2, AnsweredKeeps
<1>3. CASE Fail(i)
  BY <1>3, FailKeeps
<1>4. QED BY <1>1, <1>2, <1>3 DEF Answer

\* The steps of a run, one call after another.
LEMMA CallStepKeeps == BatchesInv /\ CallStep => BatchesInv'
BY BeginKeeps, PublishKeeps, UnpublishKeeps, AbortKeeps, FinishKeeps DEF CallStep

\* What the invariant says of a state between steps.
LEMMA BatchesImply == BatchesInv => StoredWhole
<1> SUFFICES ASSUME BatchesInv PROVE StoredWhole
  OBVIOUS
<1>1. \A c \in Chunk : TextOf[c] \in Text
  BY AllPartsWhole
<1>2. QED BY <1>1 DEF BatchesInv, FailedCounted, CachedWhole, VectorsWhole, StoredWhole

\* No chunk is ever stored in part, in the database, in a vector or in the keyword
\* index alone, and every failed chunk is counted once (processPendingChunkBatch).
THEOREM NeverInPart == Spec => []StoredWhole
<1>1. Init => BatchesInv
  BY BatchesStart
<1>2. BatchesInv /\ [Next]_vars => BatchesInv'
  <2> SUFFICES ASSUME BatchesInv, [Next]_vars PROVE BatchesInv'
    OBVIOUS
  <2>1. CASE UNCHANGED vars
    BY <2>1, UnansweredKeeps DEF vars
  <2>2. QED BY <2>1, RunStepKeeps, CallStepKeeps, RequestStepKeeps DEF Next
<1>3. BatchesInv => StoredWhole
  BY BatchesImply
<1>4. QED BY <1>1, <1>2, <1>3, PTL DEF Spec
=============================================================================
