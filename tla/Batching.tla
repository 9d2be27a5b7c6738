------------------------------ MODULE Batching ------------------------------
(***************************************************************************)
(* How the Indexer cuts its work into pieces: file batches                 *)
(* (src/src/indexer/file-batches.ts), embedding requests                   *)
(* (createDynamicBatches, src/src/native/embedding.ts) and the parts of an *)
(* oversized text (splitOversizedContent there).  All are one pass over    *)
(* the items in order.                                                     *)
(***************************************************************************)
EXTENDS Integers, Sequences, SequencesExt

\* The elements at the places where At holds.
PickAt(seq, At(_)) ==
  LET places == SelectSeq([i \in DOMAIN seq |-> i], At)
  IN [k \in DOMAIN places |-> seq[places[k]]]

AtLeastOne(n) == IF n < 1 THEN 1 ELSE n

\* The last batch is begun, the others are closed.
Begun(batches) == IF batches = <<>> THEN <<>> ELSE Last(batches)
Weigh(batch, weight) == FoldLeft(LAMBDA sum, x : sum + weight[x], 0, batch)
Put(batches, item) == Append(Front(batches), Append(Last(batches), item))

\* A batch takes the next item unless it is full; an item too heavy for any
\* batch gets one of its own.  weight is a function of the items.
Closed(batch, item, weight, maxWeight, maxItems) ==
  /\ batch # <<>>
  /\ \/ Weigh(batch, weight) + weight[item] > maxWeight
     \/ Len(batch) >= maxItems

Greedy(items, weight, maxWeight, maxItems) ==
  LET Item == ToSet(items)
      fill[rest \in Seq(Item), batches \in Seq(Seq(Item))] ==
        IF rest = <<>> THEN batches
        ELSE fill[Tail(rest),
                  IF batches = <<>> \/ Closed(Begun(batches), Head(rest), weight, maxWeight, maxItems)
                  THEN Append(batches, <<Head(rest)>>)
                  ELSE Put(batches, Head(rest))]
  IN fill[items, <<>>]

\* iterateOrderedFileBatches: bytes and files, both at least one.
FileBatches(items, bytes, maxBytes, maxFiles) ==
  Greedy(items, bytes, AtLeastOne(maxBytes), AtLeastOne(maxFiles))

\* createDynamicBatches: tokens and, for providers that limit them, items.
DynamicBatches(requests, tokens, maxTokens, maxItems) ==
  Greedy(requests, tokens, AtLeastOne(maxTokens), AtLeastOne(maxItems))

\* createPendingEmbeddingRequests: the parts of the chunks, in order.
RequestsOf(chunks, parts) ==
  FlattenSeq([i \in DOMAIN chunks |-> [k \in 1..parts[chunks[i]] |-> [chunk |-> chunks[i], part |-> k]]])

\* getUniquePendingChunksFromRequests: in the order of their first request.
ChunksOfRequests(requests) ==
  PickAt([i \in DOMAIN requests |-> requests[i].chunk],
         LAMBDA i : \A j \in 1..(i - 1) : requests[j].chunk # requests[i].chunk)

\* splitOversizedContent: the segments <<from, to>> of a text of n characters
\* that holds at most "most" of them each; neighbours overlap by 15%, but by no
\* less than "least" (32 tokens of 4 characters) and no more than four times that.
Overlap(most, least) ==
  LET share == (most * 15) \div 100
      capped == IF share < 4 * least THEN share ELSE 4 * least
  IN IF capped > least THEN capped ELSE least

Segments(n, most, least) ==
  LET step == AtLeastOne(most - Overlap(most, least))
      until[start \in Nat] ==
        IF start + most >= n THEN <<<<start, n>>>>
        ELSE <<<<start, start + most>>>> \o until[start + step]
  IN IF n <= most THEN <<<<0, n>>>> ELSE until[0]
=============================================================================
