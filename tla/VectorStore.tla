----------------------------- MODULE VectorStore -----------------------------
(***************************************************************************)
(* The vector store (src/native/src/store.rs).                             *)
(*                                                                         *)
(* A native index keeps vectors under numeric ids and knows nothing of the *)
(* chunks; three maps beside it bind the ids to the chunks' keys.  A call  *)
(* of the native index may fail in the middle of an operation, after which *)
(* the index and the maps may disagree.                                    *)
(*                                                                         *)
(* A vector is represented by what was embedded.  The native index takes   *)
(* an id only once (multi is FALSE) and removing an unknown id does        *)
(* nothing.                                                                *)
(***************************************************************************)
EXTENDS Naturals, FiniteSets, Functions, SequencesExt

EmptyStore == [index |-> <<>>, idToKey |-> <<>>, keyToId |-> <<>>, metadata |-> {}, nextId |-> 0]

\* A function without some of its arguments, with one more, and under another function.
Without(f, S) == Restrict(f, DOMAIN f \ S)
With(f, x, y) == [z \in DOMAIN f \cup {x} |-> IF z = x THEN y ELSE f[z]]
Under(f, g) == [z \in DOMAIN f \cup DOMAIN g |-> IF z \in DOMAIN g THEN g[z] ELSE f[z]]

Keys(store) == DOMAIN store.keyToId
Count(store) == Cardinality(Keys(store))

\* validate_structure_parts: index.size(), the three maps' sizes, and every id.
Sound(store) ==
  /\ Cardinality(DOMAIN store.index) = Cardinality(DOMAIN store.idToKey)
  /\ Cardinality(DOMAIN store.idToKey) = Count(store)
  /\ Count(store) = Cardinality(store.metadata)
  /\ \A id \in DOMAIN store.idToKey :
       LET key == store.idToKey[id]
       IN /\ key \in Keys(store) /\ store.keyToId[key] = id
          /\ id \in DOMAIN store.index
          /\ key \in store.metadata
          /\ id < store.nextId

-----------------------------------------------------------------------------
(* add: the old id is dropped from the index and from id_to_key, but stays  *)
(* the key's until the new one is there.                                    *)

OldIds(store, keys) == {store.keyToId[key] : key \in keys \cap Keys(store)}

\* The id is spent whether or not the vector goes in.
Vacated(store, key) ==
  [store EXCEPT !.index = Without(@, OldIds(store, {key})),
                !.idToKey = Without(@, OldIds(store, {key})),
                !.nextId = @ + 1]

Bound(store, key, id, vector) ==
  [store EXCEPT !.index = With(@, id, vector),
                !.idToKey = With(@, id, key),
                !.keyToId = With(@, key, id),
                !.metadata = @ \cup {key}]

\* What add leaves: the dimensions are wrong or the old id cannot be removed; the index
\* cannot grow or take the id; or all is well.
AddOutcomes(store, key, vector, mayFail) ==
  LET id == store.nextId
      free == id \notin DOMAIN store.index
  IN (IF free THEN {[ok |-> TRUE, store |-> Bound(Vacated(store, key), key, id, vector)]} ELSE {})
     \cup (IF mayFail THEN {[ok |-> FALSE, store |-> store]} ELSE {})
     \cup (IF mayFail \/ ~free THEN {[ok |-> FALSE, store |-> Vacated(store, key)]} ELSE {})

-----------------------------------------------------------------------------
(* add_batch: the old ids of all keys go first, with both of their maps'    *)
(* entries; then every vector is tried; the maps and next_id follow only if *)
(* none failed.                                                             *)

\* A batch is a sequence of keys, each once, with their vectors.
KeysOf(batch) == {batch[i].key : i \in DOMAIN batch}

Cleared(store, gone) ==
  [store EXCEPT !.index = Without(@, gone),
                !.keyToId = Without(@, {store.idToKey[id] : id \in gone \cap DOMAIN store.idToKey}),
                !.idToKey = Without(@, gone)]

\* The vectors that went in, at the places of the batch.
Filled(store, batch, places) ==
  [store EXCEPT !.index =
     Under(@, [id \in {store.nextId + i - 1 : i \in places} |-> batch[id - store.nextId + 1].vector])]

BoundBatch(store, batch) ==
  LET start == store.nextId
      keyAt == [id \in start .. start + Len(batch) - 1 |-> batch[id - start + 1].key]
      idOf == [key \in KeysOf(batch) |-> CHOOSE id \in DOMAIN keyAt : keyAt[id] = key]
  IN [store EXCEPT !.idToKey = Under(@, keyAt),
                   !.keyToId = Under(@, idOf),
                   !.metadata = @ \cup KeysOf(batch),
                   !.nextId = start + Len(batch)]

\* The places whose id the index can take.
FreePlaces(store, batch) ==
  {i \in DOMAIN batch : store.nextId + i - 1 \notin DOMAIN store.index}

\* A removal of an old id fails after some others; the index cannot grow; some of the
\* vectors cannot be added; or all is well.
AddBatchOutcomes(store, batch, mayFail) ==
  LET old == OldIds(store, KeysOf(batch))
      cleared == Cleared(store, old)
      free == FreePlaces(cleared, batch)
  IN (IF mayFail
      THEN {[ok |-> FALSE, store |-> Cleared(store, gone)] : gone \in SUBSET old}
           \cup {[ok |-> FALSE, store |-> Filled(cleared, batch, places)] :
                   places \in SUBSET free \ {DOMAIN batch}}
      ELSE {})
     \cup {IF free = DOMAIN batch
           THEN [ok |-> TRUE, store |-> BoundBatch(Filled(cleared, batch, free), batch)]
           ELSE [ok |-> FALSE, store |-> Filled(cleared, batch, free)]}

\* remove, of some keys: one without an id is not removed, whatever else is left of it.
Removed(store, keys) ==
  [store EXCEPT !.index = Without(@, OldIds(store, keys)),
                !.idToKey = Without(@, OldIds(store, keys)),
                !.keyToId = Without(@, keys),
                !.metadata = @ \ (keys \cap Keys(store))]
=============================================================================
